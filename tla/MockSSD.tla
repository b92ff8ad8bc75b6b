------------------------------- MODULE MockSSD -------------------------------
(***************************************************************************)
(* What a device behind KVStorageInterface promises the host, as the mock*)
(* SSD controller keeps it that the engine is developed and tested with:   *)
(* no flash translation layer, no pages, no mode, and no way to be full.   *)
(* A step is what one call of the engine asks of the device, which may be*)
(* several stores or prefetches in a loop.  Counters, simulated time and   *)
(* the log of accesses are left out.                                       *)
(***************************************************************************)
EXTENDS Naturals, Sequences, SequencesExt, FiniteSets, FiniteSetsExt, Functions

CONSTANT DramCapacity   \* controller_dram_size_mb, in tokens

VARIABLES store,    \* _flash_store: payloads by <<layer, block>>
          cached,   \* _controller_dram_cache: keys
          used,     \* _controller_dram_used_bytes
          reply     \* what the step returned to the host: a payload, ids or nothing

vars == <<store, cached, used, reply>>

Nothing == <<>>

(* payload_bytes_total of a block's metadata, in tokens.                   *)
Size(data) == Len(data)

Init == store = <<>> /\ cached = {} /\ used = 0 /\ reply = Nothing

(* store_kv of some blocks, new ones or again: no block is lost, and what*)
(* the controller has cached of a block stays charged as it was.           *)
StoreKV(keys) ==
    /\ DOMAIN store' = DOMAIN store \cup keys
    /\ \A key \in DOMAIN store \ keys : store'[key] = store[key]
    /\ reply' = Nothing
    /\ UNCHANGED <<cached, used>>

(* load_kv raises when the block is not stored.                            *)
LoadKV(key) ==
    /\ key \in DOMAIN store
    /\ reply' = store[key]
    /\ UNCHANGED <<store, cached, used>>

(* evict_kv: the bytes of a cached block are not given back.               *)
EvictKV(key) ==
    /\ store' = Restrict(store, DOMAIN store \ {key})
    /\ cached' = cached \ {key}
    /\ reply' = Nothing
    /\ UNCHANGED used

Charge(keys) == MapThenSumSet(LAMBDA key : Size(store[key]), keys)

(* prefetch_kv caches and charges stored blocks that are not cached yet,   *)
(* as long as they fit.  A prefetch that finds nothing to cache is NoCall. *)
PrefetchKV(keys) ==
    /\ keys # {} /\ keys \subseteq DOMAIN store \ cached
    /\ cached' = cached \cup keys
    /\ used' = used + Charge(keys)
    /\ used' <= DramCapacity
    /\ reply' = Nothing
    /\ UNCHANGED store

(* in_storage_topk_attention scores every stored block of the layer and    *)
(* returns the k best, each once and best first, or all when there are     *)
(* fewer; which score best is data.  No stored block, no answer.           *)
Scored(layer) == {key[2] : key \in {x \in DOMAIN store : x[1] = layer}}

InStorageTopK(layer, k) ==
    /\ Len(reply') = Min({k, Cardinality(Scored(layer))})
    /\ ToSet(reply') \subseteq Scored(layer) /\ IsInjective(reply')
    /\ UNCHANGED <<store, cached, used>>

(* A call that changes nothing on the device and gets nothing.             *)
NoCall == reply' = Nothing /\ UNCHANGED <<store, cached, used>>

Next ==
    \/ StoreKV({key \in DOMAIN store' : key \notin DOMAIN store \/ store'[key] # store[key]})
    \/ \E key \in DOMAIN store : LoadKV(key)
    \/ \E key \in DOMAIN store : EvictKV(key)
    \/ PrefetchKV(cached' \ cached)
    \/ \E layer \in {key[1] : key \in DOMAIN store}, k \in 1..Len(reply') : InStorageTopK(layer, k)
    \/ NoCall

Spec == Init /\ [][Next]_vars

(* The controller caches only what is stored, within its DRAM.             *)
CacheWithin == cached \subseteq DOMAIN store /\ used <= DramCapacity
=============================================================================
