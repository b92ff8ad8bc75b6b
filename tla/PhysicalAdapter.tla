--------------------------- MODULE PhysicalAdapter --------------------------
(***************************************************************************)
(* The SSD as the tiered cache sees it (person3_system/adapters,           *)
(* PhysicalTensorAwareStorageAdapter): payloads by layer and block, a DRAM *)
(* cache of the controller and the flash simulator that places the blocks. *)
(* A payload is the sequence of tokens whose keys and values it holds, and *)
(* its size in bytes is its number of tokens.                              *)
(***************************************************************************)
EXTENDS FlashSimulator, FiniteSets, FiniteSetsExt, Sequences, SequencesExt

CONSTANTS DramCapacity,   \* controller DRAM, in tokens
          IdBits          \* bits of a block id kept in the global id (16 in the code)

ASSUME DramAssumption == DramCapacity \in Nat /\ IdBits \in Nat

(* _encode_global_block_id of a <<layer, block>> key.                      *)
Gid(key) == (key[1] * 2^IdBits) + (key[2] % 2^IdBits)

(* The elements of a sequence that are in a set, in their order.           *)
OnlyIn(seq, set) ==
    LET kept[n \in 0..Len(seq)] ==
          IF n = 0 THEN <<>>
          ELSE IF seq[n] \in set THEN Append(kept[n - 1], seq[n]) ELSE kept[n - 1]
    IN  kept[Len(seq)]

(* _flash_store is a dictionary: order is its insertion order, which       *)
(* set_mode follows.                                                       *)
NewAdapter(mode) ==
    [sim |-> NewSimulator(mode), store |-> <<>>, order |-> <<>>, cached |-> {}, used |-> 0]

(* The descriptor given to the simulator.  The manager passes no metadata, *)
(* so the first token is computed from the block id.                       *)
Descriptor(key, data) ==
    [gid |-> Gid(key), layer |-> key[1], head |-> 0,
     start |-> key[2] * Len(data), count |-> Len(data)]

(* store_kv, when the simulator does not raise.                            *)
StoreKV(dev, key, data) ==
    [dev EXCEPT !.sim   = StoreBlock(@, Descriptor(key, data)),
                !.store = Put(@, key, data),
                !.order = IF key \in DOMAIN dev.store THEN @ ELSE Append(@, key)]

(* load_kv of a stored block: the payload, from the controller's DRAM or   *)
(* from the flash, and only the counters tell from which.                  *)
LoadKV(dev, key) == dev.store[key]

(* Mutant: the controller's copy outlives the block.                       *)
EvictKVKeepsCached(dev, key) ==
    IF key \notin DOMAIN dev.store THEN dev
    ELSE [dev EXCEPT !.store = Drop(@, key), !.order = OnlyIn(@, DOMAIN dev.store \ {key})]

(* evict_kv: the bytes of a cached block are not given back.               *)
EvictKV(dev, key) ==
    IF key \notin DOMAIN dev.store THEN dev
    ELSE [dev EXCEPT !.store = Drop(@, key), !.order = OnlyIn(@, DOMAIN dev.store \ {key}), !.cached = @ \ {key}]

(* One block of prefetch_kv.                                               *)
CacheBlock(dev, key) ==
    IF key \in DOMAIN dev.store \ dev.cached /\ dev.used + Len(dev.store[key]) <= DramCapacity
    THEN [dev EXCEPT !.cached = @ \cup {key}, !.used = @ + Len(dev.store[key])]
    ELSE dev

PrefetchKV(dev, layer, ids) ==
    FoldLeft(LAMBDA d, id : CacheBlock(d, <<layer, id>>), dev, ids)

(* One block that set_mode gives to the new simulator; the first failure   *)
(* leaves the loop.                                                        *)
Replace(dev, key) ==
    IF Exhausted(dev.sim) THEN dev
    ELSE [dev EXCEPT !.sim = StoreBlock(@, Descriptor(key, dev.store[key]))]

(* Mutant: the new simulator starts empty.                                 *)
SetModeForgets(dev, mode) == [dev EXCEPT !.sim = NewSimulator(mode)]

SetMode(dev, mode) == FoldLeft(Replace, [dev EXCEPT !.sim = NewSimulator(mode)], dev.order)

(* What a Top-K of the layer reads from flash as one batch: the keys that*)
(* the controller has not cached.                                          *)
ScannedFromFlash(dev, layer) == {key \in DOMAIN dev.store \ dev.cached : key[1] = layer}

(* in_storage_topk_attention scores every stored block of the layer.  Which*)
(* k of them score highest, and in which order, is data.                   *)
TopKAnswers(dev, layer, k) ==
    LET scored == {key[2] : key \in {x \in DOMAIN dev.store : x[1] = layer}}
    IN  UNION {SetToSeqs(top) : top \in kSubset(Min({k, Cardinality(scored)}), scored)}
=============================================================================
