---------------------------- MODULE DecodeSession ----------------------------
(***************************************************************************)
(* The decode path of the pipeline: run_aissd_decode with a                *)
(* TransformerKVStateProvider on top of the prefetch adapter.              *)
(*                                                                         *)
(* A session offloads the prompt's history as blocks 0..n-1 of every layer *)
(* (prefill), resets the adapter's counters and staging buffer, and then   *)
(* decodes: token after token, layer after layer, it reads the blocks that *)
(* Top-K selected and prefetches the same ids for the next layer.  The     *)
(* next prompt reuses the adapter and overwrites the same block ids.       *)
(*                                                                         *)
(* The scores Top-K works from are data: any k_val candidates may win.     *)
(***************************************************************************)
EXTENDS PrefetchAdapter

CONSTANTS
  Winners,   \* k_val for a number of candidates: how many blocks Top-K keeps
  Modes      \* the configurations a session may run in

\* A configuration: the order in which select_and_fetch_active_state serves a layer,
\* and whether the adapter itself was built with enable_async_pipeline.  The orders:
\* computational storage with the async pipeline, computational storage only (values
\* and keys are read apart), and Top-K on the host.
Plan == [async |-> <<"winners", "prefetch">>,
         sync  |-> <<"prefetch", "winners", "winners">>,
         host  |-> <<"candidates", "prefetch", "winners">>]
Mode == [order: DOMAIN Plan, pool: BOOLEAN]

ASSUME SessionAssumption ==
  /\ Layers = 0..Cardinality(Layers)-1 /\ Layers # {}
  /\ BlockIds = 0..Cardinality(BlockIds)-1
  /\ Modes \subseteq Mode
  /\ \A n \in 1..Cardinality(BlockIds) : Winners[n] \in 1..n

VARIABLES
  phase,     \* "prefill" or "decode"
  mode,      \* enable_computational_storage, enable_async_pipeline, the adapter's own
  blocks,    \* the history of the prompt, in blocks per layer
  toWrite,   \* the blocks prefill has still to offload
  layer,     \* the layer whose attention ran last, or is running
  won,       \* the ids Top-K selected in that layer
  plan       \* what is still to be done for that layer

session == <<phase, mode, blocks, toWrite, layer, won, plan>>
allVars == <<store, written, lru, entry, future, queue, call, result, stats, closed,
             phase, mode, blocks, toWrite, layer, won, plan>>

Candidates(n) == {b \in BlockIds : b < n}
LastLayer == Cardinality(Layers) - 1
NextLayer == (layer + 1) % Cardinality(Layers)

\* The session's variables stay in their types; the layer after the last is the first.
SessionTypeOK ==
  /\ phase \in {"prefill", "decode"}
  /\ mode \in Modes
  /\ blocks \in 0..Cardinality(BlockIds)
  /\ toWrite \in SUBSET Key
  /\ layer \in Layers
  /\ won \in SUBSET BlockIds
  /\ plan \in Seq({"winners", "candidates", "prefetch"})

\* run_aissd_decode starts on a prompt whose history fills n blocks of every layer.
NewPrompt(n) == phase = "prefill" /\ blocks = n /\ toWrite = Layers \X Candidates(n)

SessionInit ==
  /\ Init
  /\ mode \in Modes
  /\ \E n \in 0..Cardinality(BlockIds) : NewPrompt(n)
  /\ layer = LastLayer
  /\ won = {}
  /\ plan = <<>>

-----------------------------------------------------------------------------
\* init_from_prefill offloads every history block of every layer ...
PrefillWrite ==
  /\ phase = "prefill"
  /\ \E k \in toWrite : WriteBlock(k) /\ toWrite' = toWrite \ {k}
  /\ UNCHANGED <<phase, mode, blocks, layer, won, plan>>

\* ... then run_aissd_decode resets the adapter and starts to decode.
StartDecode ==
  /\ phase = "prefill"
  /\ toWrite = {}
  /\ ResetStats
  /\ phase' = "decode"
  /\ UNCHANGED <<mode, blocks, toWrite, layer, won, plan>>

\* The forward pass reaches the next layer: Top-K picks its winners.
EnterLayer ==
  /\ phase = "decode"
  /\ Free
  /\ plan = <<>>
  /\ blocks > 0
  /\ layer' = NextLayer
  /\ won' \in {W \in SUBSET Candidates(blocks) : Cardinality(W) = Winners[blocks]}
  /\ plan' = Plan[mode.order]
  /\ UNCHANGED <<store, written, lru, entry, future, queue, call, result, stats, closed,
                 phase, mode, blocks, toWrite>>

\* The batch reads of the layer: over its winners or over all its candidates.
ReadLayer ==
  /\ phase = "decode"
  /\ plan # <<>>
  /\ Head(plan) \in {"winners", "candidates"}
  /\ \E s \in SetToSeqs({layer} \X (IF Head(plan) = "winners" THEN won
                                    ELSE Candidates(blocks))) : BeginRead(s)
  /\ plan' = Tail(plan)
  /\ UNCHANGED <<phase, mode, blocks, toWrite, layer, won>>

\* Does a prefetch of this session go through the worker pool?  The async pipeline
\* asks for it, the other orders leave it to the adapter.
Asynchronous == mode.order = "async" \/ mode.pool

\* predict_and_prefetch: the same ids, in the layer after this one.
PredictAndPrefetch ==
  /\ phase = "decode"
  /\ Free
  /\ plan # <<>>
  /\ Head(plan) = "prefetch"
  /\ \E m \in Listings(Missing(NextLayer, won)) :
       \/ m = <<>> /\ UNCHANGED vars
       \/ Asynchronous /\ \E f \in Futures : PrefetchSubmit(m, f)
       \/ ~Asynchronous /\ PrefetchSync(m)
  /\ plan' = Tail(plan)
  /\ UNCHANGED <<phase, mode, blocks, toWrite, layer, won>>

\* The last layer of a token is done and the caller moves on to another prompt,
\* with the same adapter and the same backend, perhaps in another order.
NextPrompt ==
  /\ phase = "decode"
  /\ Free
  /\ plan = <<>> /\ layer = LastLayer
  /\ phase' = "prefill"
  /\ mode' \in {m \in Modes : m.pool = mode.pool}
  /\ blocks' \in 0..Cardinality(BlockIds)
  /\ toWrite' = Layers \X Candidates(blocks')
  /\ UNCHANGED <<store, written, lru, entry, future, queue, call, result, stats, closed,
                 layer, won, plan>>

Background ==
  /\ Continue \/ WorkerTake \/ \E f \in Futures : Worker(f)
  /\ UNCHANGED session

SessionNext ==
  \/ PrefillWrite
  \/ StartDecode
  \/ EnterLayer
  \/ ReadLayer
  \/ PredictAndPrefetch
  \/ NextPrompt
  \/ Background

SessionSpec == SessionInit /\ [][SessionNext]_allVars

-----------------------------------------------------------------------------
(***************************************************************************)
(* Properties.                                                             *)
(***************************************************************************)

\* While a session decodes, a staged block that can be served holds what the
\* backend holds.  write_block never touches the staging buffer: it is the
\* reset between prefill and decode that makes this so.
StagingFresh ==
  phase = "decode" =>
    \A k \in Staged : entry[k].future = NoFuture => entry[k].data = store[k]

\* A staged tensor does not change under its reader: no completion of another
\* fetch replaces the data of a block that is already there.
StagedStable ==
  [][\A k \in Staged \intersect Staged' :
       entry[k].future = NoFuture => entry'[k].data = entry[k].data]_allVars

\* Prefetching is invisible to attention: every block a read call returns is the
\* one the backend holds, in every interleaving with the worker threads.
Promise == INSTANCE BlockStore
             WITH Key <- Key, NoData <- NoData, store <- store, result <- result
ImplementsBlockStore == Promise!Spec

=============================================================================
