--------------------------- MODULE PrefetchAdapter ---------------------------
(***************************************************************************)
(* The live prefetch layer of the AI-SSD pipeline: the class               *)
(* RealInferencePrefetchAdapter of person3_system/prefetch.                *)
(*                                                                         *)
(* One caller (the decode thread) uses the adapter.  The adapter keeps an  *)
(* LRU staging buffer in host DRAM in front of a storage backend and fills *)
(* it either synchronously or through a pool of worker threads whose       *)
(* futures the staged entries hold until a demand read resolves them.      *)
(*                                                                         *)
(* The backend here offers batch reads, as P2's does.  A worker then calls *)
(* the backend alone and touches nothing of the adapter but its future: all*)
(* else is the caller's, so that a call of the caller is one step from one *)
(* wait or submission to the next.  (StagingThreads models the backends    *)
(* without batch reads, whose workers re-enter the adapter.)               *)
(*                                                                         *)
(* A block's tensors are abstracted to the version of the write that       *)
(* produced them; version 0 stands for the zero-filled pages that an       *)
(* absent block reads as.  Shapes, bytes and timings are left out.         *)
(***************************************************************************)
EXTENDS SequencesExt

CONSTANTS
  Layers,         \* transformer layers
  BlockIds,       \* block ids within a layer
  Capacity,       \* buffer_capacity_blocks
  MaxBatch,       \* bound: blocks in one prefetch call
  MaxWorkers,     \* max_async_workers of the thread pool
  Futures,        \* bound: futures alive at one time
  NoFuture,       \* entry.future is None
  NoData,         \* entry.data_k / data_v are None
  MayFail,        \* TRUE: backend I/O may raise
  Writable,       \* bound: the blocks the caller writes
  MaxVersion,     \* bound: writes of one of them
  MaxStaged,      \* bound: prefetch_requests between two resets
  MaxDemand       \* bound: demand_reads between two resets

ASSUME AdapterAssumption ==
  /\ IsFiniteSet(Layers) /\ IsFiniteSet(BlockIds)
  /\ Capacity \in Nat \ {0}   \* popitem() of an empty buffer raises otherwise
  /\ MaxBatch \in Nat \ {0}
  /\ MaxWorkers \in Nat \ {0}
  /\ NoFuture \notin Futures
  /\ NoData \notin Nat
  /\ MayFail \in BOOLEAN
  /\ MaxVersion \in Nat /\ MaxStaged \in Nat /\ MaxDemand \in Nat

VARIABLES
  store,     \* the backend: version held for each block, 0 when absent
  written,   \* history: number of writes of each block
  lru,       \* _staging_buffer's key order, least recently used first
  entry,     \* the StagedInferenceBlock of each staged key
  future,    \* the futures of submitted fetches
  queue,     \* the executor's work queue
  call,      \* the adapter method the caller is inside
  result,    \* what the current (or last) read call has returned
  stats,     \* the telemetry counters
  closed     \* close() was called

vars == <<store, written, lru, entry, future, queue, call, result, stats, closed>>

Key == Layers \X BlockIds
Zeros == 0
Data == Nat \union {NoData}

Entry == [data: Data, future: Futures \union {NoFuture}, useful: BOOLEAN]
Unstaged == [data |-> NoData, future |-> NoFuture, useful |-> FALSE]

Fetch == [state: {"free", "queued", "running", "done", "failed"},
          todo: Seq(Key), got: [Key -> Data]]
Settled == {"done", "failed"}

Nothing == [k \in Key |-> NoData]

FreeSlot == [state |-> "free", todo |-> <<>>, got |-> Nothing]

Idle == [op |-> "idle", todo |-> <<>>, missed |-> <<>>, future |-> NoFuture]
Call == [op: {"idle", "read", "insert"}, todo: Seq(Key), missed: Seq(Key),
         future: Futures \union {NoFuture}]

Counters == [requests: Nat, useful: Nat, useless: Nat, hits: Nat, misses: Nat,
             dropped: Nat]
\* Mutant: a counter is missing from the reset.
NoCountsButDropped == [requests |-> 0, useful |-> 0, useless |-> 0, hits |-> 0, misses |-> 0]
NoCounts == [requests |-> 0, useful |-> 0, useless |-> 0, hits |-> 0,
             misses |-> 0, dropped |-> 0]

\* Every variable stays in its type; the reset counters are a whole record.
TypeOK ==
  /\ store \in [Key -> Nat]
  /\ written \in [Key -> Nat]
  /\ lru \in Seq(Key)
  /\ entry \in [Key -> Entry]
  /\ future \in [Futures -> Fetch]
  /\ queue \in Seq(Futures)
  /\ call \in Call
  /\ result \in [Key -> Data]
  /\ stats \in Counters
  /\ closed \in BOOLEAN

Init ==
  /\ store = [k \in Key |-> Zeros]
  /\ written = [k \in Key |-> 0]
  /\ lru = <<>>
  /\ entry = [k \in Key |-> Unstaged]
  /\ future = [f \in Futures |-> FreeSlot]
  /\ queue = <<>>
  /\ call = Idle
  /\ result = Nothing
  /\ stats = NoCounts
  /\ closed = FALSE

-----------------------------------------------------------------------------
(***************************************************************************)
(* The staging buffer.                                                     *)
(***************************************************************************)
Staged == Range(lru)

Unread(K) == {k \in K : ~entry[k].useful}

\* The listings of a set of keys that a prefetch call may name: their order is the
\* caller's.
Listings(K) == {s \in SetToSeqs(K) : Len(s) <= MaxBatch}

\* The keys that survive _ensure_buffer_capacity().  Every call in the loop
\* over the missing ids after the first finds room: nothing was inserted yet.
\* Mutant: > for >= in the capacity test.
KeptLate ==
  IF Len(lru) <= Capacity THEN lru
  ELSE SubSeq(lru, Len(lru) - Capacity + 2, Len(lru))
Kept ==
  IF Len(lru) < Capacity THEN lru
  ELSE SubSeq(lru, Len(lru) - Capacity + 2, Len(lru))

Evicted == Staged \ Range(Kept)

\* del self._staging_buffer[k] and the first half of move_to_end(k)
Position(s, k) == CHOOSE i \in DOMAIN s : s[i] = k
Without(s, k) == RemoveAt(s, Position(s, k))

\* Mutant: the batch is marked resolved, and only the block asked for is filled.
ResolvedOne(k) ==
  LET f == entry[k].future IN
  IF f = NoFuture THEN entry
  ELSE [x \in Key |->
          IF x = k THEN [entry[x] EXCEPT !.data = future[f].got[x], !.future = NoFuture]
          ELSE IF entry[x].future = f THEN [entry[x] EXCEPT !.future = NoFuture]
          ELSE entry[x]]

\* The entries after _resolve_entry(entry of k): a completed future fills every
\* staged block its batch covers, whatever future that block's entry holds.
Resolved(k) ==
  LET f == entry[k].future IN
  IF f = NoFuture THEN entry
  ELSE [x \in Key |->
          IF x \in Staged /\ future[f].got[x] # NoData
          THEN [entry[x] EXCEPT !.data = future[f].got[x], !.future = NoFuture]
          ELSE entry[x]]

Ready(k) ==
  \/ entry[k].future = NoFuture
  \/ /\ entry[k].future # NoFuture
     /\ future[entry[k].future].state = "done"

Poisoned(k) ==
  /\ entry[k].future # NoFuture
  /\ future[entry[k].future].state = "failed"

\* Mutant: the entry is read before it is resolved.
HitDataEarly(k) == IF entry[k].data = NoData THEN Zeros ELSE entry[k].data

\* The tensors a hit on k returns; entry.data_k = None falls back to zeros.
HitData(k) ==
  LET d == Resolved(k)[k].data IN IF d = NoData THEN Zeros ELSE d

\* Mutant: every hit counts as a useful prefetch, not just the first.
HitCountedAgain(k) ==
  /\ lru' = Append(Without(lru, k), k)
  /\ entry' = [Resolved(k) EXCEPT ![k].useful = TRUE]
  /\ stats' = [stats EXCEPT !.hits = @ + 1, !.useful = @ + 1]

\* A demand read that finds k staged and its data available.
Hit(k) ==
  /\ lru' = Append(Without(lru, k), k)
  /\ entry' = [Resolved(k) EXCEPT ![k].useful = TRUE]
  /\ stats' = [stats EXCEPT !.hits = @ + 1,
                            !.useful = IF entry[k].useful THEN @ ELSE @ + 1]

\* A settled future is garbage once no entry (of e) and no pending insertion
\* holds it.
HeldIn(e, f) == call.future = f \/ \E k \in Key : e[k].future = f
Collect(e, fs) ==
  [f \in Futures |-> IF fs[f].state \in Settled /\ ~HeldIn(e, f) THEN FreeSlot ELSE fs[f]]

InCall(op) == call.op = op

\* The caller may start a call; it makes none after close().
Free == InCall("idle") /\ ~closed

-----------------------------------------------------------------------------
(***************************************************************************)
(* Writes and evictions by the caller.                                     *)
(***************************************************************************)

\* write_block: straight to the backend; the staging buffer is not consulted.
WriteBlock(k) ==
  /\ Free
  /\ k \in Writable
  /\ written[k] < MaxVersion
  /\ written' = [written EXCEPT ![k] = @ + 1]
  /\ store' = [store EXCEPT ![k] = written[k] + 1]
  /\ UNCHANGED <<lru, entry, future, queue, call, result, stats, closed>>

\* evict_block: an unread staged block leaves without being counted useless.
EvictBlock(k) ==
  /\ Free
  /\ k \in Staged \/ store[k] # Zeros
  /\ store' = [store EXCEPT ![k] = Zeros]
  /\ IF k \in Staged
     THEN /\ lru' = Without(lru, k)
          /\ entry' = [entry EXCEPT ![k] = Unstaged]
          /\ stats' = [stats EXCEPT !.dropped = IF entry[k].useful THEN @ ELSE @ + 1]
          /\ future' = Collect(entry', future)
     ELSE UNCHANGED <<lru, entry, future, stats>>
  /\ UNCHANGED <<written, queue, call, result, closed>>

-----------------------------------------------------------------------------
(***************************************************************************)
(* Prefetch.  missing is what is left of the requested ids once the staged *)
(* ones are filtered out.                                                  *)
(***************************************************************************)
MakeRoom ==
  /\ lru' = Kept
  /\ entry' = [k \in Key |-> IF k \in Evicted THEN Unstaged ELSE entry[k]]
  /\ stats' = [stats EXCEPT !.useless = @ + Cardinality(Unread(Evicted))]

\* prefetch(async_mode=False): read from the backend and insert, in one go.
PrefetchSync(missing) ==
  /\ Free
  /\ missing # <<>>
  /\ stats.requests + Len(missing) <= MaxStaged
  /\ lru' = Kept \o missing
  /\ entry' = [k \in Key |->
                 IF k \in Range(missing)
                 THEN [data |-> store[k], future |-> NoFuture, useful |-> FALSE]
                 ELSE IF k \in Evicted THEN Unstaged ELSE entry[k]]
  /\ stats' = [stats EXCEPT !.useless = @ + Cardinality(Unread(Evicted)),
                            !.requests = @ + Len(missing)]
  /\ future' = Collect(entry', future)
  /\ UNCHANGED <<store, written, queue, call, result, closed>>

\* The backend raises: room was made, nothing is inserted.
PrefetchSyncFails(missing) ==
  /\ Free
  /\ MayFail
  /\ missing # <<>>
  /\ MakeRoom
  /\ future' = Collect(entry', future)
  /\ UNCHANGED <<store, written, queue, call, result, closed>>

\* prefetch(async_mode=True), up to executor.submit(): from here a worker may run.
PrefetchSubmit(missing, f) ==
  /\ Free
  /\ missing # <<>>
  /\ stats.requests + Len(missing) <= MaxStaged
  /\ future[f].state = "free"
  /\ MakeRoom
  /\ future' = [Collect(entry', future) EXCEPT
                  ![f] = [state |-> "queued", todo |-> missing, got |-> Nothing]]
  /\ queue' = Append(queue, f)
  /\ call' = [Idle EXCEPT !.op = "insert", !.todo = missing, !.future = f]
  /\ UNCHANGED <<store, written, result, closed>>

\* ... and the loop that inserts the placeholders holding the future.
PrefetchInsert ==
  /\ InCall("insert")
  /\ lru' = lru \o call.todo
  /\ entry' = [k \in Key |->
                 IF k \in Range(call.todo)
                 THEN [data |-> NoData, future |-> call.future, useful |-> FALSE]
                 ELSE entry[k]]
  /\ stats' = [stats EXCEPT !.requests = @ + Len(call.todo)]
  /\ call' = Idle
  /\ UNCHANGED <<store, written, future, queue, result, closed>>

-----------------------------------------------------------------------------
(***************************************************************************)
(* Demand reads.  read_key_page, read_value_page and read_block read one   *)
(* block; the *_batch methods walk the ids once for hits, then fetch all   *)
(* misses.                                                                 *)
(***************************************************************************)
BeginRead(keys) ==
  /\ Free
  /\ keys # <<>>
  /\ stats.hits + stats.misses + Len(keys) <= MaxDemand
  /\ call' = [Idle EXCEPT !.op = "read", !.todo = keys]
  /\ result' = Nothing
  /\ UNCHANGED <<store, written, lru, entry, future, queue, stats, closed>>

\* Staged: wait for the block's future if it has one, then serve from DRAM.
ReadHit ==
  /\ InCall("read")
  /\ call.todo # <<>>
  /\ LET k == Head(call.todo) IN
       /\ k \in Staged
       /\ Ready(k)
       /\ Hit(k)
       /\ result' = [result EXCEPT ![k] = HitData(k)]
  /\ call' = [call EXCEPT !.todo = Tail(@)]
  /\ future' = Collect(entry', future)
  /\ UNCHANGED <<store, written, queue, closed>>

\* fut.result() re-raises the worker's exception: the read call ends there.
ReadPoisoned ==
  /\ InCall("read")
  /\ call.todo # <<>>
  /\ Head(call.todo) \in Staged
  /\ Poisoned(Head(call.todo))
  /\ call' = Idle
  /\ UNCHANGED <<store, written, lru, entry, future, queue, result, stats, closed>>

ReadMiss ==
  /\ InCall("read")
  /\ call.todo # <<>>
  /\ Head(call.todo) \notin Staged
  /\ call' = [call EXCEPT !.todo = Tail(@), !.missed = Append(@, Head(call.todo))]
  /\ UNCHANGED <<store, written, lru, entry, future, queue, result, stats, closed>>

\* The misses come from the backend and are recorded; the call returns.
ReadReturn ==
  /\ InCall("read")
  /\ call.todo = <<>>
  /\ result' = [k \in Key |-> IF k \in Range(call.missed) THEN store[k] ELSE result[k]]
  /\ stats' = [stats EXCEPT !.misses = @ + Len(call.missed)]
  /\ call' = Idle
  /\ UNCHANGED <<store, written, lru, entry, future, queue, closed>>

\* The backend raises while the misses are fetched.
ReadFails ==
  /\ InCall("read")
  /\ MayFail
  /\ call.todo = <<>> /\ call.missed # <<>>
  /\ call' = Idle
  /\ UNCHANGED <<store, written, lru, entry, future, queue, result, stats, closed>>

-----------------------------------------------------------------------------
(***************************************************************************)
(* reset_stats (and clear) and close.                                      *)
(***************************************************************************)
\* Mutant: the counters are reset and the staging buffer is not.
ResetCounters ==
  /\ Free
  /\ stats' = NoCounts
  /\ UNCHANGED <<store, written, lru, entry, future, queue, call, result, closed>>

ResetStats ==
  /\ Free
  /\ lru' = <<>>
  /\ entry' = [k \in Key |-> Unstaged]
  /\ stats' = NoCounts
  /\ future' = Collect(entry', future)
  /\ UNCHANGED <<store, written, queue, call, result, closed>>

\* shutdown(wait=False) lets queued fetches run on; the backend closes now.
Close ==
  /\ Free
  /\ closed' = TRUE
  /\ UNCHANGED <<store, written, lru, entry, future, queue, call, result, stats>>

-----------------------------------------------------------------------------
(***************************************************************************)
(* The worker threads: _fetch_block_batch_sync.                            *)
(***************************************************************************)
Running == {f \in Futures : future[f].state = "running"}

WorkerTake ==
  /\ queue # <<>>
  /\ Cardinality(Running) < MaxWorkers
  /\ future' = [future EXCEPT ![Head(queue)].state = "running"]
  /\ queue' = Tail(queue)
  /\ UNCHANGED <<store, written, lru, entry, call, result, stats, closed>>

\* Mutant: a block that was read never reaches the batch's result.
ObtainedNothing(f, d) == [future EXCEPT ![f].todo = Tail(@)]

\* The future table once worker f has read d for the next block of its batch.
Obtained(f, d) ==
  [future EXCEPT ![f].todo = Tail(@),
                 ![f].got = [@ EXCEPT ![Head(future[f].todo)] = d]]

\* One block of backend.read_block_batch(); an absent block needs no I/O.
WorkerFetch(f) ==
  /\ future[f].state = "running"
  /\ future[f].todo # <<>>
  /\ LET k == Head(future[f].todo) IN
       /\ closed => store[k] = Zeros
       /\ future' = Obtained(f, store[k])
  /\ UNCHANGED <<store, written, lru, entry, queue, call, result, stats, closed>>

Settle(f, s) ==
  future' = [future EXCEPT ![f] = IF HeldIn(entry, f) THEN [@ EXCEPT !.state = s]
                                                     ELSE FreeSlot]

WorkerFinish(f) ==
  /\ future[f].state = "running"
  /\ future[f].todo = <<>>
  /\ Settle(f, "done")
  /\ UNCHANGED <<store, written, lru, entry, queue, call, result, stats, closed>>

\* Mutant: the exception ends the worker's task and the future never settles.
WorkerDies(f) ==
  /\ future[f].state = "running"
  /\ future[f].todo # <<>>
  /\ MayFail
  /\ future' = [future EXCEPT ![f].state = "queued"]
  /\ UNCHANGED <<store, written, lru, entry, queue, call, result, stats, closed>>

\* The backend raises in the worker: the future carries the exception.
WorkerFail(f) ==
  /\ future[f].state = "running"
  /\ future[f].todo # <<>>
  /\ MayFail \/ closed
  /\ Settle(f, "failed")
  /\ UNCHANGED <<store, written, lru, entry, queue, call, result, stats, closed>>

-----------------------------------------------------------------------------
\* Mutant: blocks that are staged are fetched again.
MissingAll(l, B) == {l} \X B

Missing(l, B) == ({l} \X B) \ Staged

Prefetch ==
  \E l \in Layers, B \in SUBSET BlockIds : \E m \in Listings(Missing(l, B)) :
    \/ PrefetchSync(m)
    \/ PrefetchSyncFails(m)
    \/ \E f \in Futures : PrefetchSubmit(m, f)

Read ==
  \E l \in Layers, B \in SUBSET BlockIds :
    \E s \in SetToSeqs({l} \X B) : BeginRead(s)

\* The caller's thread, once it is inside a call.
Continue == PrefetchInsert \/ ReadHit \/ ReadPoisoned \/ ReadMiss \/ ReadReturn \/ ReadFails

Worker(f) == WorkerFetch(f) \/ WorkerFinish(f) \/ WorkerFail(f)

Next ==
  \/ \E k \in Key : WriteBlock(k) \/ EvictBlock(k)
  \/ Prefetch
  \/ Read
  \/ Continue
  \/ ResetStats
  \/ Close
  \/ WorkerTake
  \/ \E f \in Futures : Worker(f)

Spec == Init /\ [][Next]_vars

\* Threads that can run do run: the caller's once it is inside a call, the pool's
\* while there is work.  Nothing obliges the caller to start a call.
Fairness ==
  /\ WF_vars(Continue)
  /\ WF_vars(WorkerTake)
  /\ \A f \in Futures : WF_vars(Worker(f))

FairSpec == Spec /\ Fairness

-----------------------------------------------------------------------------
(***************************************************************************)
(* Properties.                                                             *)
(***************************************************************************)

\* How far _ensure_buffer_capacity keeps the buffer within bounds: it makes room
\* for one block before a whole batch is inserted, so the buffer outgrows its
\* capacity by what the batch holds beyond the first, and by no more, however
\* placeholders, evictions and reads interleave.
StagingBound == Len(lru) <= Capacity - 1 + MaxBatch

\* The future an entry waits for is live and its batch covers that entry, so
\* that resolving it fills the entry.
FutureCoversEntry ==
  \A k \in Staged :
    LET f == entry[k].future IN
    f # NoFuture =>
      /\ future[f].state # "free"
      /\ future[f].got[k] # NoData \/ k \in Range(future[f].todo)

\* A staged block that can be served has its tensors once its future is resolved,
\* whichever batch filled it: no hit falls back to the zero-filled pages of the
\* read methods.
HitsFilled == \A k \in Staged : Ready(k) => Resolved(k)[k].data # NoData

\* get_telemetry: what is staged and unread is counted useless, as if it were
\* evicted now; bytes, times and rates follow from these counts.
Telemetry ==
  [demand_reads      |-> stats.hits + stats.misses,
   demand_hits       |-> stats.hits,
   demand_misses     |-> stats.misses,
   prefetch_requests |-> stats.requests,
   useful_prefetches |-> stats.useful,
   useless_prefetches |-> stats.useless + Cardinality(Unread(Staged)),
   current_staged_blocks |-> Len(lru)]

\* The report of get_telemetry accounts for every prefetch: it is useful or
\* useless, but for the blocks that evict_block dropped unread; and it calls no
\* more prefetches useful than there were hits (inference_adapter.py:1182-1259).
Balance ==
  /\ Telemetry.prefetch_requests =
       Telemetry.useful_prefetches + Telemetry.useless_prefetches + stats.dropped
  /\ Telemetry.useful_prefetches <= Telemetry.demand_hits

\* Every demand read returns or raises: the future it awaits settles.
ReadReturns == InCall("read") ~> InCall("idle")

\* Every submitted fetch settles, also when close() did not wait for it.
FetchSettles ==
  \A f \in Futures :
    (future[f].state = "queued") ~> (future[f].state \in Settled \union {"free"})

-----------------------------------------------------------------------------
(***************************************************************************)
(* What the repository's documents and tests say of the adapter and the    *)
(* code does not do; a run of its own refutes it.                          *)
(***************************************************************************)

\* "Numerical determinism": what a read returns for a block, staged or not, is what
\* the storage backend holds for it.
ReadsMatchStorage ==
  [][\A k \in Key : result'[k] # result[k] => result'[k] \in {NoData, store[k]}]_vars

=============================================================================
