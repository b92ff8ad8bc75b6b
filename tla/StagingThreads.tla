---------------------------- MODULE StagingThreads ----------------------------
(***************************************************************************)
(* The prefetch adapter on a backend without batch reads: one of P3's      *)
(* StorageBackends, which the adapter also makes for itself when it is     *)
(* given none.                                                             *)
(*                                                                         *)
(* A pool thread then fetches each block of its batch through the adapter's*)
(* own read_block(), beside the caller and without a lock.  A step here is *)
(* therefore one access to what the threads share: the OrderedDict, an     *)
(* entry object or a future.  An entry object lives on in the thread that  *)
(* looked it up, also when the buffer has dropped it.  (PrefetchAdapter    *)
(* models the backends with batch reads, whose pool threads touch nothing  *)
(* of the adapter but their future.)                                       *)
(*                                                                         *)
(* Every block is in the storage from the start and stays as it is; blocks *)
(* are of one layer, as a batch is; the two tensors of an entry are one    *)
(* value; the telemetry counters are left out.                             *)
(***************************************************************************)
EXTENDS SequencesExt

CONSTANTS
  Blocks,      \* block ids
  NoBlock,     \* a thread outside of read_block
  Capacity,    \* buffer_capacity_blocks
  MaxBatch,    \* bound: blocks in one prefetch call
  MaxWorkers,  \* max_async_workers of the thread pool
  MaxEntries,  \* bound: entries ever staged
  MaxFetches,  \* bound: fetches ever submitted
  MaxReads     \* bound: demand reads

ASSUME ThreadsAssumption ==
  /\ NoBlock \notin Blocks
  /\ Capacity \in Nat \ {0} /\ MaxBatch \in Nat \ {0} /\ MaxWorkers \in Nat \ {0}
  /\ MaxEntries \in Nat /\ MaxFetches \in Nat /\ MaxReads \in Nat

VARIABLES
  entry,    \* the StagedInferenceBlock objects, in the order they were made
  buffer,   \* _staging_buffer: its entries, least recently used first
  future,   \* the futures, in the order of submission
  queue,    \* the executor's work queue
  thread,   \* where each thread is in read_block
  call,     \* the prefetch call the caller is inside
  answer,   \* what the caller's current (or last) read has returned
  reads     \* bound: demand reads made

vars == <<entry, buffer, future, queue, thread, call, answer, reads>>

NoFuture == 0
NoEntry == 0

Caller == 0
Workers == 1 .. MaxFetches   \* a pool thread, named for the future it works on
Threads == {Caller} \union Workers

\* A block's tensors, or the zeros that read_block makes up, or None.
Data == {"block", "zeros", "none"}

Entry == [key: Blocks, data: Data, future: 0 .. MaxFetches]
Future == [state: {"queued", "running", "done", "failed"},
           batch: Seq(Blocks), got: Seq(Data \ {"none"})]

Outside == [at |-> "out", key |-> NoBlock, held |-> NoEntry, fut |-> NoFuture,
            next |-> 1, target |-> NoEntry]
Steps == {"out", "take", "check", "pick", "wait", "fill", "get", "assign", "move", "serve"}
Thread == [at: Steps, key: Blocks \union {NoBlock}, held: 0 .. MaxEntries,
           fut: 0 .. MaxFetches, next: 1 .. MaxBatch + 1, target: 0 .. MaxEntries]

NoCall == [op |-> "none", todo |-> <<>>, future |-> NoFuture]
Call == [op: {"none", "room", "insert"}, todo: Seq(Blocks), future: 0 .. MaxFetches]

Init ==
  /\ entry = <<>>
  /\ buffer = <<>>
  /\ future = <<>>
  /\ queue = <<>>
  /\ thread = [t \in Threads |-> Outside]
  /\ call = NoCall
  /\ answer = "none"
  /\ reads = 0

Staged == {entry[e].key : e \in Range(buffer)}

\* self._staging_buffer[k]
At(k) == CHOOSE e \in Range(buffer) : entry[e].key = k

-----------------------------------------------------------------------------
(***************************************************************************)
(* The caller: prefetch, evict_block and reset_stats.                      *)
(***************************************************************************)
Free == call = NoCall /\ thread[Caller] = Outside

Listings(B) == {s \in SetToSeqs(B) : Len(s) <= MaxBatch}

\* prefetch(): the requested ids that are not staged.
BeginPrefetch ==
  /\ Free
  /\ \E B \in SUBSET (Blocks \ Staged) : \E m \in Listings(B) :
       /\ m # <<>>
       /\ Len(entry) + Len(m) <= MaxEntries
       /\ call' = [op |-> "room", todo |-> m, future |-> NoFuture]
  /\ UNCHANGED <<entry, buffer, future, queue, thread, answer, reads>>

\* One popitem() of _ensure_buffer_capacity().
PopOldest ==
  /\ call.op = "room"
  /\ Len(buffer) >= Capacity
  /\ buffer' = Tail(buffer)
  /\ UNCHANGED <<entry, future, queue, thread, call, answer, reads>>

\* async_mode: from here a worker may run, before the placeholders are in.
Submit ==
  /\ call.op = "room"
  /\ Len(buffer) < Capacity
  /\ Len(future) < MaxFetches
  /\ future' = Append(future, [state |-> "queued", batch |-> call.todo, got |-> <<>>])
  /\ queue' = Append(queue, Len(future'))
  /\ call' = [call EXCEPT !.op = "insert", !.future = Len(future')]
  /\ UNCHANGED <<entry, buffer, thread, answer, reads>>

\* The synchronous path inserts the blocks as it reads them.
Direct ==
  /\ call.op = "room"
  /\ Len(buffer) < Capacity
  /\ call' = [call EXCEPT !.op = "insert"]
  /\ UNCHANGED <<entry, buffer, future, queue, thread, answer, reads>>

StagedEntry(k) ==
  [key |-> k, data |-> IF call.future = NoFuture THEN "block" ELSE "none",
   future |-> call.future]

InsertNext ==
  /\ call.op = "insert"
  /\ entry' = Append(entry, StagedEntry(Head(call.todo)))
  /\ buffer' = Append(buffer, Len(entry'))
  /\ call' = IF Len(call.todo) = 1 THEN NoCall ELSE [call EXCEPT !.todo = Tail(@)]
  /\ UNCHANGED <<future, queue, thread, answer, reads>>

\* These backends have no evict_block: the block leaves the buffer alone.
EvictBlock ==
  /\ Free
  /\ \E k \in Staged : buffer' = SelectSeq(buffer, LAMBDA e : entry[e].key # k)
  /\ UNCHANGED <<entry, future, queue, thread, call, answer, reads>>

ResetStats ==
  /\ Free
  /\ buffer' = <<>>
  /\ UNCHANGED <<entry, future, queue, thread, call, answer, reads>>

-----------------------------------------------------------------------------
(***************************************************************************)
(* read_block and _resolve_entry, by the caller or by a pool thread.       *)
(***************************************************************************)
Step(t, s) == thread' = [thread EXCEPT ![t].at = s]

\* The call returns d: to the caller, or into the result of the worker's batch.
Return(t, d) ==
  /\ thread' = [thread EXCEPT ![t] = Outside]
  /\ IF t = Caller
     THEN answer' = d /\ UNCHANGED future
     ELSE future' = [future EXCEPT ![t].got = Append(@, d)] /\ UNCHANGED answer

\* It raises: a worker's exception is kept in its future.
Raise(t) ==
  /\ thread' = [thread EXCEPT ![t] = Outside]
  /\ IF t = Caller
     THEN answer' = "raised" /\ UNCHANGED future
     ELSE future' = [future EXCEPT ![t].state = "failed"] /\ UNCHANGED answer

\* if key in self._staging_buffer: otherwise the block comes from the storage.
Look(t, k) ==
  /\ IF k \in Staged
     THEN /\ thread' = [thread EXCEPT ![t].at = "take", ![t].key = k]
          /\ UNCHANGED <<future, answer>>
     ELSE Return(t, "block")
  /\ UNCHANGED <<entry, buffer, queue, call>>

ReadBlock ==
  /\ Free
  /\ reads < MaxReads
  /\ reads' = reads + 1
  /\ \E k \in Blocks : Look(Caller, k)

\* entry = self._staging_buffer[key] raises when the key has gone since.
Take(t) ==
  /\ thread[t].at = "take"
  /\ IF thread[t].key \in Staged
     THEN /\ thread' = [thread EXCEPT ![t].at = "check", ![t].held = At(thread[t].key)]
          /\ UNCHANGED <<future, answer>>
     ELSE Raise(t)
  /\ UNCHANGED <<entry, buffer, queue, call, reads>>

Check(t) ==
  /\ thread[t].at = "check"
  /\ Step(t, IF entry[thread[t].held].future = NoFuture THEN "move" ELSE "pick")
  /\ UNCHANGED <<entry, buffer, future, queue, call, answer, reads>>

\* fut = entry.future, read a second time: None.done() raises.
Pick(t) ==
  /\ thread[t].at = "pick"
  /\ LET f == entry[thread[t].held].future IN
       IF f = NoFuture THEN Raise(t)
       ELSE /\ thread' = [thread EXCEPT ![t].at = "wait", ![t].fut = f]
            /\ UNCHANGED <<future, answer>>
  /\ UNCHANGED <<entry, buffer, queue, call, reads>>

\* Mutant: a fetch that is not done is not waited for.
AwaitNot(t) ==
  /\ thread[t].at = "wait"
  /\ Step(t, IF future[thread[t].fut].state = "done" THEN "fill" ELSE "move")
  /\ UNCHANGED <<entry, buffer, future, queue, call, answer, reads>>

\* fut.result()
Await(t) ==
  /\ thread[t].at = "wait"
  /\ \/ /\ future[thread[t].fut].state = "done"
        /\ Step(t, "fill")
        /\ UNCHANGED <<future, answer>>
     \/ /\ future[thread[t].fut].state = "failed"
        /\ Raise(t)
  /\ UNCHANGED <<entry, buffer, queue, call, reads>>

\* The block of the completed batch that is to be filled next.
Filling(t) == future[thread[t].fut].batch[thread[t].next]

\* if k_key in self._staging_buffer, for each block of the batch
Fill(t) ==
  /\ thread[t].at = "fill"
  /\ IF thread[t].next > Len(future[thread[t].fut].batch) THEN Step(t, "move")
     ELSE IF Filling(t) \in Staged THEN Step(t, "get")
     ELSE thread' = [thread EXCEPT ![t].next = @ + 1]
  /\ UNCHANGED <<entry, buffer, future, queue, call, answer, reads>>

\* e = self._staging_buffer[k_key]
Get(t) ==
  /\ thread[t].at = "get"
  /\ IF Filling(t) \in Staged
     THEN /\ thread' = [thread EXCEPT ![t].at = "assign", ![t].target = At(Filling(t))]
          /\ UNCHANGED <<future, answer>>
     ELSE Raise(t)
  /\ UNCHANGED <<entry, buffer, queue, call, reads>>

\* Mutant: the entry no longer waits, and is not filled.
FilledNot(t) == [entry EXCEPT ![thread[t].target].future = NoFuture]
Filled(t) ==
  [entry EXCEPT ![thread[t].target].data = future[thread[t].fut].got[thread[t].next],
                ![thread[t].target].future = NoFuture]

Assign(t) ==
  /\ thread[t].at = "assign"
  /\ entry' = Filled(t)
  /\ thread' = [thread EXCEPT ![t].at = "fill", ![t].next = @ + 1, ![t].target = NoEntry]
  /\ UNCHANGED <<buffer, future, queue, call, answer, reads>>

\* move_to_end(key): of whichever entry has the key now.
Move(t) ==
  /\ thread[t].at = "move"
  /\ IF thread[t].key \in Staged
     THEN /\ LET e == At(thread[t].key) IN
               buffer' = Append(SelectSeq(buffer, LAMBDA x : x # e), e)
          /\ Step(t, "serve")
          /\ UNCHANGED <<future, answer>>
     ELSE Raise(t) /\ UNCHANGED buffer
  /\ UNCHANGED <<entry, queue, call, reads>>

\* The tensors of the entry that was looked up first, zeros if it has none.
Served(t) ==
  LET d == entry[thread[t].held].data IN IF d = "none" THEN "zeros" ELSE d

Serve(t) ==
  /\ thread[t].at = "serve"
  /\ Return(t, Served(t))
  /\ UNCHANGED <<entry, buffer, queue, call, reads>>

ReadStep(t) ==
  Take(t) \/ Check(t) \/ Pick(t) \/ Await(t) \/ Fill(t) \/ Get(t) \/ Assign(t)
    \/ Move(t) \/ Serve(t)

-----------------------------------------------------------------------------
(***************************************************************************)
(* The pool threads: _fetch_block_batch_sync.                              *)
(***************************************************************************)
Running == {f \in DOMAIN future : future[f].state = "running"}

WorkerTake ==
  /\ queue # <<>>
  /\ Cardinality(Running) < MaxWorkers
  /\ future' = [future EXCEPT ![Head(queue)].state = "running"]
  /\ queue' = Tail(queue)
  /\ UNCHANGED <<entry, buffer, thread, call, answer, reads>>

\* self.read_block() for the next block of the batch
WorkerRead(f) ==
  /\ f \in Running
  /\ thread[f] = Outside
  /\ Len(future[f].got) < Len(future[f].batch)
  /\ Look(f, future[f].batch[Len(future[f].got) + 1])
  /\ UNCHANGED reads

WorkerFinish(f) ==
  /\ f \in Running
  /\ Len(future[f].got) = Len(future[f].batch)
  /\ future' = [future EXCEPT ![f].state = "done"]
  /\ UNCHANGED <<entry, buffer, queue, thread, call, answer, reads>>

Worker(f) == WorkerRead(f) \/ WorkerFinish(f) \/ ReadStep(f)

\* The caller's thread, once it is inside a call.
Continue == PopOldest \/ Submit \/ Direct \/ InsertNext \/ ReadStep(Caller)

Next ==
  \/ BeginPrefetch \/ ReadBlock \/ EvictBlock \/ ResetStats
  \/ Continue
  \/ WorkerTake
  \/ \E f \in Workers : Worker(f)

Spec == Init /\ [][Next]_vars

FairSpec ==
  /\ Spec
  /\ WF_vars(Continue) /\ WF_vars(WorkerTake)
  /\ \A f \in Workers : WF_vars(Worker(f))

-----------------------------------------------------------------------------
(***************************************************************************)
(* Properties.                                                             *)
(***************************************************************************)

\* Every variable stays in its type; what read_block gives a batch is never None.
TypeOK ==
  /\ entry \in Seq(Entry) /\ Len(entry) <= MaxEntries
  /\ buffer \in Seq(DOMAIN entry)
  /\ future \in Seq(Future) /\ Len(future) <= MaxFetches
  /\ queue \in Seq(DOMAIN future)
  /\ thread \in [Threads -> Thread]
  /\ call \in Call
  /\ answer \in Data \union {"raised"}
  /\ reads \in 0 .. MaxReads

\* What an entry waits for brings its block, also when the block was evicted and
\* prefetched again meanwhile, and whoever else waits: a thread waits for, and fills
\* from, a fetch whose batch holds the block it reads, and an entry that no longer
\* waits has its tensors, whichever thread resolved it and for whatever batch
\* (inference_adapter.py:246-269).
FetchesDeliver ==
  /\ \A t \in Threads :
       thread[t].at \in {"wait", "fill", "get", "assign"} =>
         thread[t].key \in Range(future[thread[t].fut].batch)
  /\ \A e \in DOMAIN entry : entry[e].future = NoFuture => entry[e].data # "none"

\* The caller's own hits are sound: the entry it looked up stays the staged one until
\* it is served, and has its tensors then.  Only a pool thread can be left with an
\* entry the buffer has dropped, and make up zeros for it.
CallerHitsFilled ==
  /\ thread[Caller].held # NoEntry => thread[Caller].held \in Range(buffer)
  /\ thread[Caller].at = "serve" => entry[thread[Caller].held].data # "none"

-----------------------------------------------------------------------------
(***************************************************************************)
(* What the repository's documents and tests say of the adapter and the    *)
(* code does not do on such a backend: all three are false.                *)
(***************************************************************************)

\* "Non-blocking Speculative Prefetch": a demand read that awaits a fetch returns.
ReadReturns == (thread[Caller].at = "wait") ~> (thread[Caller].at # "wait")

\* "prefetch(block) -> backend read -> staging -> later demand read -> exact same
\* K/V data": a read does not answer with made-up zeros ...
ReadsGetTheBlock == answer # "zeros"

\* ... and does not raise, the storage being in order.
ReadsDoNotRaise == answer # "raised"

=============================================================================
