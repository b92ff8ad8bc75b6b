------------------------------ MODULE BlockStore ------------------------------
(***************************************************************************)
(* What the decode path promises its attention layers, whatever staging    *)
(* happens underneath: a read call answers, one group of blocks after the*)
(* other, with exactly what the store holds.  There is no cache here.      *)
(***************************************************************************)
EXTENDS Naturals

CONSTANTS Key, NoData

VARIABLES store, result

Init ==
  /\ store = [k \in Key |-> 0]
  /\ result = [k \in Key |-> NoData]

Write(k, v) ==
  /\ store' = [store EXCEPT ![k] = v]
  /\ UNCHANGED result

BeginRead ==
  /\ result' = [k \in Key |-> NoData]
  /\ UNCHANGED store

Answer(K) ==
  /\ result' = [k \in Key |-> IF k \in K THEN store[k] ELSE result[k]]
  /\ UNCHANGED store

Next ==
  \/ \E k \in Key, v \in {store[x] + 1 : x \in Key} \union {0} : Write(k, v)
  \/ BeginRead
  \/ \E K \in SUBSET Key : Answer(K)

Spec == Init /\ [][Next]_<<store, result>>
=============================================================================
