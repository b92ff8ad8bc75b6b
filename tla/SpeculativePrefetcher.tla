------------------------ MODULE SpeculativePrefetcher -----------------------
(***************************************************************************)
(* The staging buffer of the simulated stack (person3_system/prefetch):    *)
(* an LRU list of <<layer, block>> keys, oldest first, and an older set of *)
(* bare block ids that is only ever filled; with what was asked of it and*)
(* what it had.  Bytes and stall times are left out.                       *)
(***************************************************************************)
EXTENDS Integers, FiniteSets, Sequences, SequencesExt

CONSTANTS BufferCapacity,   \* buffer_capacity_blocks
          TotalLayers       \* NextLayerPredictor.total_layers

ASSUME BufferAssumption == BufferCapacity \in Nat \ {0} /\ TotalLayers \in Nat \ {0}

EmptyBuffer == [staged |-> <<>>, legacy |-> {}, requested |-> 0, found |-> 0,
                hits |-> 0, misses |-> 0]

(* Mutant: a key that is staged already is staged once more.               *)
RestagedTwice(staged, key) ==
    Append(IF Len(staged) >= BufferCapacity THEN Tail(staged) ELSE staged, key)

(* Where a key goes: to the recent end, in the place of the oldest one     *)
(* when it is new and the buffer is full.  The buffer has a key once.      *)
Restaged(staged, key) ==
    LET at   == CHOOSE i \in DOMAIN staged : staged[i] = key
        room == IF Contains(staged, key) THEN RemoveAt(staged, at)
                ELSE IF Len(staged) >= BufferCapacity THEN Tail(staged)
                ELSE staged
    IN  Append(room, key)

StageBlock(buf, key) ==
    [buf EXCEPT !.staged = Restaged(@, key),
                !.legacy = IF Cardinality(@) < BufferCapacity THEN @ \cup {key[2]} ELSE @]

StageBlocks(buf, layer, ids) ==
    FoldLeft(LAMBDA b, id : StageBlock(b, <<layer, id>>), buf, ids)

(* predict_next_layer_blocks with stride 0, each id once, and              *)
(* prefetch_next_layer.                                                    *)
PredictedLayer(layer) == (layer + 1) % TotalLayers

Predicted(ids) == FoldLeft(LAMBDA s, id : IF Contains(s, id) THEN s ELSE Append(s, id), <<>>, ids)

PrefetchNextLayer(buf, layer, ids) == StageBlocks(buf, PredictedLayer(layer), Predicted(ids))

(* check_staging of blocks of one layer: the places of those that are      *)
(* staged.                                                                 *)
CheckStaging(buf, layer, ids) == {i \in DOMAIN ids : Contains(buf.staged, <<layer, ids[i]>>)}

IsHit(buf, layer, ids) == 100 * Cardinality(CheckStaging(buf, layer, ids)) >= 80 * Len(ids)

(* is_staged: the blocks count one by one, the request is a hit when four*)
(* in five of them are staged.                                             *)
IsStaged(buf, layer, ids) ==
    IF ids = <<>> THEN buf
    ELSE [buf EXCEPT !.requested = @ + Len(ids),
                     !.found = @ + Cardinality(CheckStaging(buf, layer, ids)),
                     !.hits = @ + (IF IsHit(buf, layer, ids) THEN 1 ELSE 0),
                     !.misses = @ + (IF IsHit(buf, layer, ids) THEN 0 ELSE 1)]

(* Mutant: the listener follows prefetches too.                            *)
OnAccessAny(buf, op, layer, ids) ==
    IF ids = <<>> THEN buf ELSE PrefetchNextLayer(buf, layer, ids)

(* The listener that the orchestrator registers with the SSD: it follows   *)
(* every access but a prefetch, and only if the event names blocks.        *)
OnAccess(buf, op, layer, ids) ==
    IF op = "PREFETCH_KV" \/ ids = <<>> THEN buf ELSE PrefetchNextLayer(buf, layer, ids)
=============================================================================
