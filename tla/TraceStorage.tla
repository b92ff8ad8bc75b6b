----------------------------- MODULE TraceStorage -----------------------------
(***************************************************************************)
(* What P3's experiments read a trace through: the storage backends and    *)
(* the staging buffer of V2Prefetcher.  Both are records that the methods, *)
(* here operators, map to records.  Latencies are left out: the code adds*)
(* them up for its report and decides nothing by them.                     *)
(***************************************************************************)
EXTENDS TraceRecords, FiniteSets

CONSTANT Capacity       \* buffer_capacity_blocks
ASSUME CapacityAssumption == Capacity \in Nat \ {0}

(* kind: "mock", or the mode of an AnalyticalFTLBackend.                   *)
NewBackend(kind) ==
    [kind |-> kind, reads |-> 0, pages |-> 0, channels |-> NoCounters, key |-> 0, value |-> 0,
     combined |-> 0]

(* _account_subpage_bytes                                                  *)
AccountSubpage(be, pages, sub) ==
    CASE sub = "KEY"   -> [be EXCEPT !.key = @ + pages]
      [] sub = "VALUE" -> [be EXCEPT !.value = @ + pages]
      [] sub = "BOTH"  -> [be EXCEPT !.key = @ + pages \div 2, !.value = @ + pages \div 2,
                                    !.combined = @ + pages]

(* _resolve_physical_coord.  The experiments pass a request no head and no *)
(* token, so the block id alone says where the block is.                   *)
Resolve(be, block, layer) == NandPhysical(be.kind, layer, 0, TokenBlockIdx(0, block), NoCounters)

AnalyticalRead(be, block, layer, pages) ==
    AccountSubpage([be EXCEPT !.reads = @ + 1, !.pages = @ + pages,
                              !.channels = CountOn(@, Resolve(be, block, layer).channel, pages)],
                   pages, IF pages = BlockPages THEN "BOTH" ELSE "KEY")

(* The mock keeps no channels; the experiments give it no block to fail.   *)
MockRead(be, pages) == [be EXCEPT !.reads = @ + 1, !.pages = @ + pages]

(* StorageBackend.submit_batch: a request is a read of the backend's own   *)
ReadOne(be, block, layer, pages) ==
    IF be.kind = "mock" THEN MockRead(be, pages) ELSE AnalyticalRead(be, block, layer, pages)

SubmitBatch(be, ids, layer, pages) ==
    FoldLeft(LAMBDA b, id : ReadOne(b, id, layer, pages), be, ids)

-----------------------------------------------------------------------------
(* staged is the OrderedDict, oldest first.                                *)
NewPrefetcher ==
    [staged |-> <<>>, requests |-> 0, useful |-> 0, useless |-> 0, hits |-> 0, misses |-> 0,
     extra |-> 0, peak |-> 0]

Entry(layer, block, pages) == [key |-> <<layer, block>>, pages |-> pages, useful |-> FALSE]
Keys(staged) == {staged[i].key : i \in 1..Len(staged)}
Unread(staged) == {i \in 1..Len(staged) : ~staged[i].useful}

(* Mutant: room is made only when the buffer is past its capacity.         *)
MakeRoomLate(pf) ==
    IF Len(pf.staged) <= Capacity THEN pf
    ELSE [pf EXCEPT !.staged = Tail(@)]

(* The oldest entry goes when the buffer is full.                          *)
MakeRoom(pf) ==
    IF Len(pf.staged) < Capacity THEN pf
    ELSE LET old == Head(pf.staged)
         IN  [pf EXCEPT !.staged = Tail(@),
                        !.useless = @ + (IF old.useful THEN 0 ELSE 1),
                        !.extra = @ + (IF old.useful THEN 0 ELSE old.pages)]

(* Mutant: what is staged is asked for again.                              *)
ChosenAgain(pf, ids, layer) ==
    FoldLeft(LAMBDA acc, id : [pf |-> MakeRoom(acc.pf), ids |-> Append(acc.ids, id)],
             [pf |-> pf, ids |-> <<>>], ids)

(* The ids prefetch_blocks asks the storage for.  Room is made as they are *)
(* chosen, so an id whose entry has just been dropped is asked for again.*)
Choose(acc, layer, id) ==
    IF <<layer, id>> \in Keys(acc.pf.staged) THEN acc
    ELSE [pf |-> MakeRoom(acc.pf), ids |-> Append(acc.ids, id)]

Chosen(pf, ids, layer) ==
    FoldLeft(LAMBDA acc, id : Choose(acc, layer, id), [pf |-> pf, ids |-> <<>>], ids)

(* Assigning to a key of an OrderedDict keeps its place.                   *)
Stage(staged, entry) ==
    IF entry.key \in Keys(staged)
    THEN [i \in 1..Len(staged) |-> IF staged[i].key = entry.key THEN entry ELSE staged[i]]
    ELSE Append(staged, entry)

Inserted(staged, ids, layer, pages) ==
    FoldLeft(LAMBDA s, id : Stage(s, Entry(layer, id, pages)), staged, ids)

(* prefetch_blocks: choose and make room, read as one batch, insert all.   *)
PrefetchBlocks(st, ids, layer, pages) ==
    LET chosen == Chosen(st.pf, ids, layer)
        staged == Inserted(chosen.pf.staged, chosen.ids, layer, pages)
    IN  [be |-> SubmitBatch(st.be, chosen.ids, layer, pages),
         pf |-> IF chosen.ids = <<>> THEN chosen.pf
                ELSE [chosen.pf EXCEPT !.staged = staged,
                                       !.requests = @ + Len(chosen.ids),
                                       !.peak = Max({@, Len(staged)})]]

(* A staged block moves to the young end and counts as useful once.        *)
Hit(pf, key) ==
    LET at    == CHOOSE i \in 1..Len(pf.staged) : pf.staged[i].key = key
        entry == pf.staged[at]
    IN  [pf EXCEPT !.staged = Append(RemoveAt(@, at), [entry EXCEPT !.useful = TRUE]),
                   !.useful = @ + (IF entry.useful THEN 0 ELSE 1),
                   !.hits = @ + 1]

(* access_blocks: hits from the buffer, and the misses read as one batch;*)
(* what a miss reads is not staged.                                        *)
Access(acc, layer, id) ==
    IF <<layer, id>> \in Keys(acc.pf.staged)
    THEN [acc EXCEPT !.pf = Hit(@, <<layer, id>>)]
    ELSE [pf |-> [acc.pf EXCEPT !.misses = @ + 1], missed |-> Append(acc.missed, id)]

Accessed(pf, ids, layer) ==
    FoldLeft(LAMBDA acc, id : Access(acc, layer, id), [pf |-> pf, missed |-> <<>>], ids)

AccessBlocks(st, ids, layer, pages) ==
    LET after == Accessed(st.pf, ids, layer)
    IN  [pf |-> after.pf, be |-> SubmitBatch(st.be, after.missed, layer, pages)]

(* get_telemetry counts what was staged and never read as useless.         *)
UselessPrefetches(pf) == pf.useless + Cardinality(Unread(pf.staged))
=============================================================================
