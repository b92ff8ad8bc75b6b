------------------------------ MODULE TieredKV ------------------------------
(***************************************************************************)
(* The simulated stack as SystemOrchestrator wires it: the tiered KV cache *)
(* manager over its block pool, the physical adapter with its flash, the   *)
(* speculative prefetcher that listens to the adapter, and the API gateway *)
(* that reaches the same adapter and prefetcher past the manager.  It is   *)
(* one thread, so each call is one step; a call that raises keeps what it*)
(* had done.                                                               *)
(*                                                                         *)
(* The token at position i of a layer stands for its key and value rows.   *)
(***************************************************************************)
EXTENDS PhysicalAdapter, SpeculativePrefetcher

CONSTANTS Layers,           \* the layers of the model, 0..n
          TokensPerBlock, SinkTokens, WindowTokens,   \* TieringPolicy
          PromptLengths,    \* bound: the prompts that are tried
          MaxTokens,        \* bound: tokens of one layer
          MaxCalls,         \* bound: calls that are not appends
          Pipeline          \* whether run_simulation shares the prefetcher

ASSUME PolicyAssumption ==
    /\ \A n \in {TokensPerBlock, WindowTokens} : n \in Nat \ {0}
    /\ SinkTokens \in Nat
    /\ IsFiniteSet(Layers) /\ Layers = 0..(Cardinality(Layers) - 1)

ASSUME PromptAssumption == PromptLengths \subseteq Nat

ASSUME BoundAssumption == MaxTokens \in Nat /\ \A n \in PromptLengths : n <= MaxTokens

VARIABLES pool,     \* KVBlockPool: the block with id i is pool[i + 1]
          length,   \* history: tokens given to each layer
          dev,      \* PhysicalTensorAwareStorageAdapter
          reply,    \* what the call got from the adapter's last read
          buf,      \* SpeculativePrefetcher
          erased,   \* history: keys KV_EVICT removed while only the SSD held them
          calls     \* bound counter

vars == <<pool, length, dev, reply, buf, erased, calls>>

-----------------------------------------------------------------------------
Ids == 0..(Len(pool) - 1)

Positions(first, n) == [i \in 1..n |-> first + i - 1]

LayerBlocks(blocks, layer) ==
    OnlyIn(Positions(0, Len(blocks)),
           {id \in 0..(Len(blocks) - 1) : blocks[id + 1].layer = layer})

(* The sum of num_tokens over the blocks of a layer.                       *)
Counted(blocks, ids) == FoldLeft(LAMBDA n, id : n + blocks[id + 1].count, 0, ids)

KVBlock(layer, first, data) ==
    [layer |-> layer, start |-> first, count |-> Len(data), ram |-> TRUE, data |-> data,
     pinned |-> FALSE]

(* Mutants: a block is judged by its first token; the window is counted in *)
(* blocks.                                                                 *)
IsHotByStart(b, total) == b.start < SinkTokens \/ b.start >= Max({0, total - WindowTokens})

IsHotInBlocks(b, total) ==
    b.start < SinkTokens \/ b.start + b.count > Max({0, total - WindowTokens * TokensPerBlock})

(* HotColdClassifier.is_hot                                                *)
IsHot(b, total) ==
    \/ b.start < SinkTokens
    \/ b.start + b.count > Max({0, total - WindowTokens})

(* Mutant: a store that raised is taken for done.                          *)
OffloadBlockAnyway(st, id) ==
    LET b == st.pool[id + 1]
    IN  [pool |-> [st.pool EXCEPT ![id + 1].ram = FALSE, ![id + 1].data = <<>>],
         dev  |-> IF Exhausted(st.dev.sim) THEN st.dev
                  ELSE StoreKV(st.dev, <<b.layer, id>>, b.data)]

(* One turn of the eviction loop: the block goes to the SSD and leaves     *)
(* RAM.  When the simulator raises, the loop is left and the block stays.*)
OffloadBlock(st, id) ==
    LET b == st.pool[id + 1]
    IN  IF Exhausted(st.dev.sim) THEN st
        ELSE [pool |-> [st.pool EXCEPT ![id + 1].ram = FALSE, ![id + 1].data = <<>>],
              dev  |-> StoreKV(st.dev, <<b.layer, id>>, b.data)]

Offload(blocks, ids) == FoldLeft(OffloadBlock, [pool |-> blocks, dev |-> dev], ids)

(* Callers treat the layers in their order, first the prompt of each, then *)
(* one token of each.                                                      *)
Turn(layer) == \A m \in Layers : IF m < layer THEN length[m] > length[layer]
                                               ELSE length[m] = length[layer]

Called == calls < MaxCalls /\ calls' = calls + 1

(* A call that reads nothing from the adapter.                             *)
NoReply == <<>>

-----------------------------------------------------------------------------
Init ==
    /\ pool = <<>>
    /\ length = [l \in Layers |-> 0]
    /\ dev \in {NewAdapter(mode) : mode \in Modes}
    /\ reply = NoReply
    /\ buf = EmptyBuffer
    /\ erased = {}
    /\ calls = 0

(* prefill_sequence of a prompt of n tokens, once per layer: every block   *)
(* that is not hot goes to the SSD.                                        *)
PrefillBlocks(layer, n) ==
    [i \in 1..((n + TokensPerBlock - 1) \div TokensPerBlock) |->
        LET first == (i - 1) * TokensPerBlock
            data  == Positions(first, Min({TokensPerBlock, n - first}))
        IN  [KVBlock(layer, first, data) EXCEPT !.pinned = first < SinkTokens]]

PrefillSequence(layer, n) ==
    /\ length[layer] = 0 /\ Turn(layer)
    /\ \A m \in Layers : m < layer => length[m] = n
    /\ LET blocks == pool \o PrefillBlocks(layer, n)
           ids    == LayerBlocks(blocks, layer)
           cold   == OnlyIn(ids, {id \in ToSet(ids) : ~IsHot(blocks[id + 1], n)})
           after  == Offload(blocks, cold)
       IN  pool' = after.pool /\ dev' = after.dev
    /\ reply' = NoReply
    /\ length' = [length EXCEPT ![layer] = n]
    /\ UNCHANGED <<buf, erased, calls>>

(* append_token after the prompt: the token joins the last block of the    *)
(* layer while it has room, or opens a new one; then every block that left *)
(* the window goes to the SSD.  A last block without data in RAM takes the *)
(* token as its data.                                                      *)
WithToken(layer) ==
    LET ids   == LayerBlocks(pool, layer)
        token == <<length[layer]>>
        total == Counted(pool, ids)
    IN  IF ids # <<>> /\ pool[Last(ids) + 1].count < TokensPerBlock
        THEN [pool EXCEPT ![Last(ids) + 1].count = @ + 1,
                          ![Last(ids) + 1].data = @ \o token]
        ELSE Append(pool, KVBlock(layer, total, token))

AppendToken(layer) ==
    /\ length[layer] \in 1..(MaxTokens - 1) /\ Turn(layer)
    /\ LET blocks == WithToken(layer)
           ids    == LayerBlocks(blocks, layer)
           total  == Counted(blocks, ids)
           IsCold(b) == b.ram /\ ~b.pinned /\ ~IsHot(b, total)
           cold   == OnlyIn(ids, {id \in ToSet(ids) : IsCold(blocks[id + 1])})
           after  == Offload(blocks, cold)
       IN  pool' = after.pool /\ dev' = after.dev
    /\ reply' = NoReply
    /\ length' = [length EXCEPT ![layer] = @ + 1]
    /\ UNCHANGED <<buf, erased, calls>>

(* fetch_cold_block: back into RAM, and still on the SSD.  It raises, and*)
(* changes nothing, when the SSD does not have the block.                  *)
FetchColdBlock(id) ==
    LET key == <<pool[id + 1].layer, id>>
    IN  /\ Called
        /\ ~pool[id + 1].ram
        /\ key \in DOMAIN dev.store
        /\ reply' = LoadKV(dev, key)
        /\ pool' = [pool EXCEPT ![id + 1].ram = TRUE, ![id + 1].data = reply']
        /\ buf' = OnAccess(buf, "LOAD_KV", key[1], <<id>>)
        /\ UNCHANGED <<length, dev, erased>>

(* compute_decode_attention asks the SSD only when a block of the layer is *)
(* cold; the event of the Top-K reaches the prefetcher.                    *)
DecodeAttention(layer, k) ==
    /\ Called
    /\ \E id \in Ids : pool[id + 1].layer = layer /\ ~pool[id + 1].ram
    /\ \E top \in TopKAnswers(dev, layer, k) :
          /\ reply' = top
          /\ buf' = OnAccess(buf, "IN_STORAGE_TOPK", layer, top)
    /\ UNCHANGED <<pool, length, dev, erased>>

(* KV_PREFETCH: the gateway stages the blocks and tells the SSD to cache   *)
(* them; the event of that is a prefetch.                                  *)
KVPrefetch(layer, ids) ==
    /\ Called
    /\ buf' = OnAccess(StageBlocks(buf, layer, ids), "PREFETCH_KV", layer, ids)
    /\ dev' = PrefetchKV(dev, layer, ids)
    /\ reply' = NoReply
    /\ UNCHANGED <<pool, length, erased>>

(* KV_EVICT erases past the manager, which keeps the block as cold.        *)
KVEvict(id) ==
    LET key == <<pool[id + 1].layer, id>>
    IN  /\ Called
        /\ key \in DOMAIN dev.store
        /\ dev' = EvictKV(dev, key)
        /\ reply' = NoReply
        /\ erased' = IF pool[id + 1].ram THEN erased ELSE erased \cup {key}
        /\ UNCHANGED <<pool, length, buf>>

(* set_mode may raise half way: then the new simulator lacks blocks.       *)
SwitchMode(mode) ==
    /\ Called
    /\ dev' = SetMode(dev, mode)
    /\ reply' = NoReply
    /\ UNCHANGED <<pool, length, buf, erased>>

(* KV_TOPK, the request of run_decode_layer: the gateway only asks the     *)
(* prefetcher whether the blocks are staged.                               *)
KVTopK(layer, ids) ==
    /\ Called
    /\ buf' = IsStaged(buf, layer, ids)
    /\ reply' = NoReply
    /\ UNCHANGED <<pool, length, dev, erased>>

(* run_simulation clears the shared prefetcher, then asks it in every      *)
(* layer for the first n block ids and stages them behind the layer,       *)
(* through the SSD's prefetch.                                             *)
SimulateLayer(st, layer, ids) ==
    LET next  == PredictedLayer(layer)
        asked == IsStaged(st.buf, layer, ids)
    IN  [buf |-> OnAccess(PrefetchNextLayer(asked, layer, ids), "PREFETCH_KV", next, ids),
         dev |-> PrefetchKV(st.dev, next, Predicted(ids))]

SimulateLayers(st, layers, ids) ==
    FoldLeft(LAMBDA s, layer : SimulateLayer(s, layer, ids), st, layers)

RunSimulation(n) ==
    /\ Pipeline
    /\ Called
    /\ LET ids   == Positions(0, n)
           after == SimulateLayers([buf |-> EmptyBuffer, dev |-> dev],
                                   Positions(0, Cardinality(Layers)), ids)
       IN  buf' = after.buf /\ dev' = after.dev
    /\ reply' = NoReply
    /\ UNCHANGED <<pool, length, erased>>

(* What callers pass: a prompt length, a number of blocks for Top-K, one   *)
(* or two blocks of a layer, in their order; all of them for KV_TOPK.      *)
LayerRequests(layer) ==
    LET ids == {id \in Ids : pool[id + 1].layer = layer}
    IN  {<<i>> : i \in ids} \cup {s \in ids \X ids : s[1] < s[2]}

Next ==
    \/ \E l \in Layers, n \in PromptLengths : PrefillSequence(l, n)
    \/ \E l \in Layers : AppendToken(l)
    \/ \E id \in Ids : FetchColdBlock(id)
    \/ \E l \in Layers, k \in 1..2 : DecodeAttention(l, k)
    \/ \E l \in Layers : \E ids \in LayerRequests(l) : KVPrefetch(l, ids)
    \/ \E l \in Layers : KVTopK(l, LayerBlocks(pool, l))
    \/ \E id \in Ids : KVEvict(id)
    \/ \E mode \in Modes : SwitchMode(mode)
    \/ \E n \in 1..2 : RunSimulation(n)

Spec == Init /\ [][Next]_vars

-----------------------------------------------------------------------------
Block == [layer : Layers, start : Nat, count : 1..TokensPerBlock, ram : BOOLEAN,
          pinned : BOOLEAN, data : Seq(Nat)]

(* Every variable holds a value of the code's types: blocks of the pool    *)
(* have one to tokens_per_block tokens, payloads and cached keys belong to *)
(* blocks, mapped locations lie on the device.                             *)
TypeOK ==
    /\ pool \in Seq(Block)
    /\ length \in [Layers -> 0..MaxTokens]
    /\ DOMAIN dev.store = ToSet(dev.order)
    /\ DOMAIN dev.store \cup erased \subseteq {<<pool[id + 1].layer, id>> : id \in Ids}
    /\ \A g \in DOMAIN dev.sim.map : dev.sim.map[g] \in Location
    /\ Len(buf.staged) <= BufferCapacity /\ IsInjective(buf.staged)
    /\ Cardinality(buf.legacy) <= BufferCapacity
    /\ buf.found <= buf.requested /\ buf.hits + buf.misses <= buf.requested

(* Where the tokens of a block are: in RAM, or on the SSD.  What KV_EVICT*)
(* erased is not counted against the manager.                              *)
Held(id) ==
    LET b   == pool[id + 1]
        key == <<b.layer, id>>
    IN  CASE b.ram                                   -> b.data
          [] ~b.ram /\ key \in DOMAIN dev.store      -> dev.store[key]
          [] ~b.ram /\ key \in erased \ DOMAIN dev.store -> Positions(b.start, b.count)
          [] OTHER                                   -> <<>>

(* The blocks of a layer hold, in their order, exactly the tokens given to *)
(* prefill_sequence and append_token: none is lost, doubled or out of      *)
(* place, also after a full device made an offload raise half way.         *)
EveryTokenHeld ==
    \A l \in Layers :
        FlattenSeq([i \in DOMAIN LayerBlocks(pool, l) |-> Held(LayerBlocks(pool, l)[i])])
            = Positions(0, length[l])

(* compute_decode_attention always finds the attention sinks and the       *)
(* recent window in RAM: eviction never runs ahead of the window.          *)
WindowResident ==
    \A l \in Layers : \A t \in 0..(length[l] - 1) :
        t < SinkTokens \/ t >= length[l] - WindowTokens =>
            \E id \in Ids : pool[id + 1].layer = l /\ t \in ToSet(pool[id + 1].data)

(* All blocks of a layer on the SSD have the same number of tokens: with   *)
(* others np.stack in in_storage_topk_attention raises and no attention    *)
(* over cold blocks is possible any more.                                  *)
StoredBlocksAlike ==
    \A x, y \in DOMAIN dev.store : x[1] = y[1] => Len(dev.store[x]) = Len(dev.store[y])

(* So a decode step can always attend: to the window in RAM                *)
(* (instorage_pruner.py:32-106) and to the cold blocks on the SSD.         *)
AttentionPossible == WindowResident /\ StoredBlocksAlike

(* Every payload of the adapter has a page in the simulator, except when   *)
(* the device ran out of pages, so that no read is free; and on the        *)
(* striped layer a scan takes no longer than the stripes it touches        *)
(* (tensor_aware.py:20-26), whatever was stored again, switched or erased*)
(* in between.                                                             *)
ReadsCharged ==
    /\ \A key \in DOMAIN dev.store :
         Gid(key) \in DOMAIN dev.sim.map \/ Exhausted(dev.sim)
    /\ dev.sim.mode = "tensor_aware" =>
         \A layer \in Layers :
           LET scan    == ScannedFromFlash(dev, layer)
               stripes == {key[2] \div Channels : key \in scan}
           IN  BatchReadTime(dev.sim, {Gid(key) : key \in scan}) <= Cardinality(stripes)

(* Through stores, stores of the same block again and switches of the      *)
(* mode, forward and reverse table stay inverse and a mapped page holds    *)
(* its block, as long as no striping counter has wrapped.                  *)
PagesOwned == Unwrapped(dev.sim) => Consistent(dev.sim)

(* Whatever the flash layer does, with its modes and with running full,    *)
(* the host sees the device that the mock SSD controller is: a block stays *)
(* as it was stored until KV_EVICT, a load returns it, Top-K returns       *)
(* stored blocks of its layer once each, and the controller caches stored*)
(* blocks within its DRAM, charging each (mock_ssd.py:62-341 against       *)
(* physical_adapter.py:105-394).                                           *)
Mock == INSTANCE MockSSD WITH store <- dev.store, cached <- dev.cached, used <- dev.used

ImplementsMockSSD == Mock!Spec

Resident(layer) ==
    MapThenSumSet(LAMBDA id : Len(pool[id + 1].data), {id \in Ids : pool[id + 1].layer = layer})

RamLimit == ((SinkTokens + TokensPerBlock - 1) \div TokensPerBlock) * TokensPerBlock
                + WindowTokens + TokensPerBlock - 1

(* A call that adds tokens leaves no more of the layer in RAM than sinks,*)
(* window and one block cut by the window, whatever fetch_cold_block had   *)
(* brought back, except when the device is full.                           *)
RamIsBounded ==
    [][\A l \in Layers : length'[l] # length[l] /\ ~Exhausted(dev'.sim)
            => Resident(l)' <= RamLimit]_vars

(* One request or access stages blocks of a single layer: the prefetch it*)
(* causes is not taken for an access that causes the next.                 *)
NoPrefetchCascade ==
    [][\/ \E n \in 1..2 : RunSimulation(n)
       \/ \A x, y \in ToSet(buf'.staged) \ ToSet(buf.staged) : x[1] = y[1]]_vars
=============================================================================
