-------------------------- MODULE InferenceBackend --------------------------
(***************************************************************************)
(* The live storage backend of the pipeline: RealInferenceStorageBackend   *)
(* of person2_ssd.                                                         *)
(*                                                                         *)
(* The backend appends each block, its key page and then its value page,   *)
(* to a file or to an NVMe device, and only then enters the extent into a  *)
(* table; nothing is ever written in place.  It takes no lock: the caller  *)
(* writes, evicts, closes and reads while the workers of the prefetch      *)
(* adapter read.                                                           *)
(*                                                                         *)
(* A request to the device that raises may leave its reply on the          *)
(* connection (NvmeProtocol shows how): the connection is out of step from *)
(* then on, and never replaced.  Each request then takes the reply of an   *)
(* earlier one: a read returns another's bytes, and a write is reported    *)
(* done before it is, or although it is refused.                           *)
(*                                                                         *)
(* A page is one cell of the log: a model's blocks all have one size.  Its *)
(* content is the number of the write that produced it, and which of the   *)
(* two pages it is.  Write 0 stands for the zeros an absent block reads as.*)
(***************************************************************************)
EXTENDS Integers, Sequences, Functions

CONSTANTS
  Key,        \* blocks: (layer, block id)
  Caller,     \* the decode thread
  Workers,    \* the adapter's pool threads
  Size,       \* cells of the file system or device
  MaxWrites,  \* bound: calls of write_block
  Lists       \* the lists of keys that batch calls name

Threads == Workers \union {Caller}

ASSUME BackendAssumption ==
  /\ Caller \notin Workers
  /\ Size \in Nat \ {0} /\ MaxWrites \in Nat
  /\ Lists \subseteq {s \in Seq(Key) : s # <<>> /\ IsInjective(s)}

VARIABLES
  nvme,      \* storage_mode is "nvme_qemu", not "file"
  batching,  \* enable_batching
  open,      \* the descriptor, or the client, is not None
  spoiled,   \* the client's connection to the device is out of step
  late,      \* writes the device was sent and has not carried out yet
  log,       \* the cells of the backing store
  end,       \* _file_offset
  table,     \* _storage: the extent of each block
  writes,    \* number of write_block calls
  call,      \* what each thread is doing
  held       \* history: the writes each block came from during a thread's call

vars == <<nvme, batching, open, spoiled, late, log, end, table, writes, call, held>>
store == <<open, spoiled, late, log, end, table, writes>>

-----------------------------------------------------------------------------
KPage(n) == [page |-> "k", of |-> n]
VPage(n) == [page |-> "v", of |-> n]
Cell == [page: {"k", "v"}, of: Nat]

\* The pages of write n that a call wants.
Pages(n, want) ==
  CASE want = "k" -> <<KPage(n)>> [] want = "v" -> <<VPage(n)>>
    [] OTHER -> <<KPage(n), VPage(n)>>

\* A block's metadata: its two offsets, and as history the write they are of and
\* whether the reply to that write was its own.
Absent == [k |-> 0, v |-> 0, of |-> 0, sure |-> TRUE]
Extent == [k: Nat, v: Nat, of: 1..MaxWrites, sure: BOOLEAN] \union {Absent}
Present(e) == e.of # 0

\* astray, a history: the call went by a reply that was not its own.
Idle == [op |-> "idle", step |-> "idle", want |-> "kv", asked |-> <<>>, todo |-> <<>>,
         astray |-> FALSE,
         found |-> [k \in Key |-> Absent], got |-> [k \in Key |-> <<>>]]

Call == [op: {"idle", "read", "batch", "topk", "write"},
         step: {"idle", "pwrite_k", "pwrite_v", "transfer", "publish",
                "lookup", "pread", "fetch", "unpack", "returned"},
         want: {"k", "v", "kv"}, asked: Seq(Key), todo: Seq(Key), astray: BOOLEAN,
         found: [Key -> Extent], got: [Key -> Seq(Cell)]]

InFlight(t) == call[t].step \notin {"idle", "returned"}

\* Every published extent lies below the end of the log; the rest is typed.
TypeOK ==
  /\ {nvme, batching, open, spoiled} \subseteq BOOLEAN
  /\ late \in Seq([at: Nat, of: 1..MaxWrites])
  /\ log \in [0..Size-1 -> Cell]
  /\ end \in Nat /\ writes \in 0..MaxWrites
  /\ table \in [Key -> Extent]
  /\ \A k \in Key : Present(table[k]) => table[k].v < end
  /\ call \in [Threads -> Call]
  /\ held \in [Threads -> [Key -> SUBSET (0..MaxWrites)]]

Init ==
  /\ nvme \in BOOLEAN /\ batching \in BOOLEAN
  /\ open = TRUE
  /\ spoiled = FALSE
  /\ late = <<>>
  /\ log = [o \in 0..Size-1 |-> KPage(0)]
  /\ end = 0
  /\ table = [k \in Key |-> Absent]
  /\ writes = 0
  /\ call = [t \in Threads |-> Idle]
  /\ held = [t \in Threads |-> [k \in Key |-> {}]]

-----------------------------------------------------------------------------
Begin(t, op, step, want, keys) ==
  /\ ~InFlight(t)
  /\ call' = [call EXCEPT ![t] = [Idle EXCEPT !.op = op, !.step = step, !.want = want,
                                              !.asked = keys, !.todo = keys]]
  /\ held' = [held EXCEPT ![t] = [k \in Key |-> {table[k].of}]]

\* A call that raises leaves its thread with nothing.
Raise(t) == call' = [call EXCEPT ![t] = Idle]

\* The table changes for k, and the calls in flight may find it either way.
Enter(k, e) ==
  /\ table' = [table EXCEPT ![k] = e]
  /\ held' = [t \in Threads |->
                IF InFlight(t) THEN [held[t] EXCEPT ![k] = @ \union {e.of}] ELSE held[t]]

(***************************************************************************)
(* write_block: the pages go to the end of the log, and the table follows. *)
(***************************************************************************)

\* Mutant: a block that is stored already is overwritten in place.
InPlace(k) == IF Present(table[k]) THEN table[k].k ELSE end

Where(k) == end

\* Mutants: the offset moves by the key page only, or not at all.
AdvancedByKey == end + 1
AdvancedNot == end

Advanced == end + 2

Target == Where(call[Caller].asked[1])

WriteBlock(k) ==
  /\ writes < MaxWrites
  /\ writes' = writes + 1
  /\ Begin(Caller, "write", IF nvme THEN "transfer" ELSE "pwrite_k", "kv", <<k>>)
  /\ UNCHANGED <<nvme, batching, open, spoiled, late, log, end, table>>

Put(o, cell) == log' = [log EXCEPT ![o] = cell]

PwriteKey ==
  /\ call[Caller].step = "pwrite_k"
  /\ open /\ Target < Size
  /\ Put(Target, KPage(writes))
  /\ call' = [call EXCEPT ![Caller].step = "pwrite_v"]
  /\ UNCHANGED <<nvme, batching, open, spoiled, late, end, table, writes, held>>

PwriteValue ==
  /\ call[Caller].step = "pwrite_v"
  /\ open /\ Target + 1 < Size
  /\ Put(Target + 1, VPage(writes))
  /\ call' = [call EXCEPT ![Caller].step = "publish"]
  /\ UNCHANGED <<nvme, batching, open, spoiled, late, end, table, writes, held>>

Both(o, n) == [log EXCEPT ![o] = KPage(n), ![o + 1] = VPage(n)]

\* What the device does with a write of both pages: all of it, or it fails on the way.
Carried(o, n) ==
  {log} \union (IF o < Size THEN {[log EXCEPT ![o] = KPage(n)]} ELSE {})
    \union (IF o + 1 < Size THEN {Both(o, n)} ELSE {})

\* The device takes both pages in one request, and the reply is the request's own ...
Transfer ==
  /\ call[Caller].step = "transfer"
  /\ open /\ ~spoiled /\ Target + 1 < Size
  /\ log' = Both(Target, writes)
  /\ call' = [call EXCEPT ![Caller].step = "publish"]
  /\ UNCHANGED <<nvme, batching, open, spoiled, late, end, table, writes, held>>

Sent == Append(late, [at |-> Target, of |-> writes])

\* ... or that of an earlier one, and this request is still on its way.
TransferAstray ==
  /\ call[Caller].step = "transfer"
  /\ open /\ spoiled
  /\ late' = Sent
  /\ call' = [call EXCEPT ![Caller].step = "publish", ![Caller].astray = TRUE]
  /\ UNCHANGED <<nvme, batching, open, spoiled, log, end, table, writes, held>>

\* The device carries out the writes in the order in which they were sent.
Arrive ==
  /\ late # <<>>
  /\ log' \in Carried(Head(late).at, Head(late).of)
  /\ late' = Tail(late)
  /\ UNCHANGED <<nvme, batching, open, spoiled, end, table, writes, call, held>>

\* A request to the device that raises may leave its reply, or part of it, unread.
MaySpoil == spoiled' \in {spoiled, spoiled \/ (nvme /\ open)}

\* I/O that raises: the store is full, closed or broken.  The offset stays, and what
\* the request had written by then stays in the log; or the reply had not come in time,
\* and the device may carry the write out later.
WriteFails ==
  /\ call[Caller].step \in {"pwrite_k", "pwrite_v", "transfer"}
  /\ \/ /\ IF call[Caller].step = "transfer" /\ open /\ late = <<>>
            THEN log' \in Carried(Target, writes) ELSE UNCHANGED log
        /\ MaySpoil
        /\ UNCHANGED late
     \/ /\ call[Caller].step = "transfer" /\ open
        /\ late' = Sent /\ spoiled' = TRUE
        /\ UNCHANGED log
  /\ Raise(Caller)
  /\ UNCHANGED <<nvme, batching, open, end, table, writes, held>>

Publish ==
  /\ call[Caller].step = "publish"
  /\ end' = Advanced
  /\ Enter(call[Caller].asked[1], [k |-> Target, v |-> Target + 1, of |-> writes,
                                    sure |-> ~call[Caller].astray])
  /\ call' = [call EXCEPT ![Caller] = Idle]
  /\ UNCHANGED <<nvme, batching, open, spoiled, late, log, writes>>

EvictBlock(k) ==
  /\ ~InFlight(Caller)
  /\ Present(table[k])
  /\ Enter(k, Absent)
  /\ UNCHANGED <<nvme, batching, open, spoiled, late, log, end, writes, call>>

\* close() does not wait for the reads of the workers.
Close ==
  /\ ~InFlight(Caller)
  /\ open
  /\ open' = FALSE
  /\ UNCHANGED <<nvme, batching, spoiled, late, log, end, table, writes, call, held>>

-----------------------------------------------------------------------------
(***************************************************************************)
(* Reads.  A batch is served block by block, except on the device, where   *)
(* it is looked up as a whole, fetched in one request and looked up again  *)
(* to unpack the reply.  Top-K looks all its candidates up first.          *)
(***************************************************************************)
ReadPage(t, want, k) ==
  /\ Begin(t, "read", "lookup", want, <<k>>)
  /\ UNCHANGED <<nvme, batching, store>>

ReadBatch(t, want, keys) ==
  /\ Begin(t, IF batching THEN "batch" ELSE "read", "lookup", want, keys)
  /\ UNCHANGED <<nvme, batching, store>>

ComputeTopK(keys) ==
  /\ Begin(Caller, "topk", "lookup", "k", keys)
  /\ UNCHANGED <<nvme, batching, store>>

Collects(c) == c.op = "topk" \/ (c.op = "batch" /\ nvme)

\* The call after it is done with the first block on its list.
Done(c, step) ==
  IF Len(c.todo) > 1 THEN [c EXCEPT !.todo = Tail(@), !.step = step]
  ELSE [c EXCEPT !.todo = <<>>, !.step = "returned"]

Proceed(t, c) ==
  /\ call' = [call EXCEPT ![t] = c]
  /\ UNCHANGED <<nvme, batching, store, held>>

Lookup(t) ==
  LET c == call[t]
      k == Head(c.todo)
      seen == [c EXCEPT !.found[k] = table[k]] IN
  /\ c.step = "lookup"
  /\ \/ /\ Collects(c)
        /\ Proceed(t, IF Len(c.todo) > 1 THEN [seen EXCEPT !.todo = Tail(@)]
                      ELSE [seen EXCEPT !.todo = c.asked, !.step = "fetch"])
     \/ /\ ~Collects(c) /\ Present(table[k])
        /\ Proceed(t, [seen EXCEPT !.step = "pread"])
     \/ /\ ~Collects(c) /\ ~Present(table[k])
        /\ Proceed(t, Done([c EXCEPT !.got[k] = Pages(0, c.want)], "lookup"))

\* The offsets of the wanted pages.  A batch reads both pages as one range.
Offsets(c, e) ==
  CASE c.want = "k" -> <<e.k>> [] c.want = "v" -> <<e.v>>
    [] OTHER -> IF c.op = "read" /\ ~nvme THEN <<e.k, e.v>> ELSE <<e.k, e.k + 1>>

Cells(offsets) == [i \in DOMAIN offsets |-> log[offsets[i]]]

\* read_block() on a file reads its pages one after the other; all else is one read.
Pread(t) ==
  LET c == call[t]
      k == Head(c.todo)
      offsets == Offsets(c, c.found[k])
      n == Len(c.got[k]) IN
  /\ c.step = "pread"
  /\ open /\ ~spoiled
  /\ IF c.op = "read" /\ ~nvme
     THEN LET read == [c EXCEPT !.got[k] = Append(@, log[offsets[n + 1]])] IN
          Proceed(t, IF n + 1 < Len(offsets) THEN read ELSE Done(read, "lookup"))
     ELSE Proceed(t, Done([c EXCEPT !.got[k] = Cells(offsets)], "lookup"))

\* Mutant: Top-K scores the value pages.
ScoredValue(c, k) == <<log[c.found[k].v]>>

\* What a candidate is scored from.  One that is not stored stands for the page at
\* offset 0, whosever that is.
Scored(c, k) == <<log[c.found[k].k]>>

\* A batch that has found none of its blocks has nothing to ask for.
Asks(c) == c.step = "fetch" /\ c.op = "batch" => \E k \in Range(c.asked) : Present(c.found[k])

\* One request for the whole list on the device, one read for each candidate on a file.
Fetch(t) ==
  LET c == call[t]
      read(k) == IF c.op = "topk" THEN Scored(c, k)
                 ELSE IF Present(c.found[k]) THEN Cells(Offsets(c, c.found[k])) ELSE <<>> IN
  /\ c.step = "fetch"
  /\ Asks(c) => open /\ ~spoiled
  /\ IF nvme
     THEN LET all == [c EXCEPT !.got = [k \in Key |-> IF k \in Range(c.asked)
                                                      THEN read(k) ELSE <<>>]] IN
          Proceed(t, IF c.op = "topk" THEN [all EXCEPT !.todo = <<>>, !.step = "returned"]
                     ELSE [all EXCEPT !.step = "unpack"])
     ELSE Proceed(t, Done([c EXCEPT !.got[Head(c.todo)] = read(Head(c.todo))], "fetch"))

\* Out of step the bytes are those of some other reply, and what the call makes of them
\* is left open: astray stands for any content.
ReadAstray(t) ==
  LET c == [call[t] EXCEPT !.astray = TRUE] IN
  /\ open /\ spoiled /\ Asks(c)
  /\ \/ c.step = "pread" /\ Proceed(t, Done(c, "lookup"))
     \/ /\ c.step = "fetch" /\ c.op = "topk"
        /\ Proceed(t, [c EXCEPT !.todo = <<>>, !.step = "returned"])
     \/ c.step = "fetch" /\ c.op = "batch" /\ Proceed(t, [c EXCEPT !.step = "unpack"])

\* The reply is unpacked against the table as it is now: a block evicted meanwhile
\* reads as zeros, and one that was stored meanwhile has no bytes to unpack.
Unpack(t) ==
  LET c == call[t]
      k == Head(c.todo) IN
  /\ c.step = "unpack"
  /\ \/ /\ ~Present(table[k])
        /\ Proceed(t, Done([c EXCEPT !.got[k] = Pages(0, c.want)], "unpack"))
     \/ /\ Present(table[k]) /\ (Present(c.found[k]) \/ c.astray)
        /\ Proceed(t, Done(c, "unpack"))
     \/ /\ Present(table[k]) /\ (~Present(c.found[k]) \/ c.astray)
        /\ Proceed(t, Idle)

\* Also bytes of another length than the block's make the call raise.
ReadFails(t) ==
  /\ call[t].step \in {"pread", "fetch"} /\ Asks(call[t])
  /\ MaySpoil
  /\ Raise(t)
  /\ UNCHANGED <<nvme, batching, open, late, log, end, table, writes, held>>

Serve(t) ==
  Lookup(t) \/ Pread(t) \/ Fetch(t) \/ ReadAstray(t) \/ Unpack(t) \/ ReadFails(t)

-----------------------------------------------------------------------------
Next ==
  \/ \E k \in Key : WriteBlock(k) \/ EvictBlock(k)
  \/ PwriteKey \/ PwriteValue \/ Transfer \/ TransferAstray \/ Arrive
  \/ WriteFails \/ Publish
  \/ Close
  \/ \E k \in Key, want \in {"k", "v", "kv"} : ReadPage(Caller, want, k)
  \/ \E keys \in Lists :
       \/ \E want \in {"k", "v", "kv"} : ReadBatch(Caller, want, keys)
       \/ \E w \in Workers : ReadBatch(w, "kv", keys)
       \/ ComputeTopK(keys)
  \/ \E t \in Threads : Serve(t)

Spec == Init /\ [][Next]_vars

-----------------------------------------------------------------------------
(***************************************************************************)
(* Properties.                                                             *)
(***************************************************************************)

\* Unless it went by another's reply, a read returns for a block what the block was at
\* some moment of the call: the pages of one write that the table named then, or zeros
\* if it named none.  The key and the value never come from two writes, and a write that
\* raised never shows.  On a file that is every read.
ReadsHeld ==
  \A t \in Threads :
    call[t].step = "returned" /\ call[t].op # "topk" /\ (nvme => ~call[t].astray) =>
      \A k \in Range(call[t].asked) :
        \E n \in held[t][k] : call[t].got[k] = Pages(n, call[t].want)

\* Each stored candidate of Top-K is scored from its own key page, unless the whole
\* answer is another's.
ScoredFromOwn ==
  call[Caller].step = "returned" /\ call[Caller].op = "topk"
      /\ (nvme => ~call[Caller].astray) =>
    \A k \in Range(call[Caller].asked) :
      Present(call[Caller].found[k]) =>
        \E n \in held[Caller][k] : call[Caller].got[k] = <<KPage(n)>>

\* The pages an entry points to are those of its write ...
Sound(e) == log[e.k] = KPage(e.of) /\ log[e.v] = VPage(e.of) /\ e.v = e.k + 1

Told(e) == Present(e) /\ (nvme => e.sure)

\* ... if the device itself said that it had them, for as long as the table names them
\* or a reader that looked them up holds them, whatever raised, was lost on the
\* connection or arrives late.  On a file that is every entry.
PagesIntact ==
  /\ \A k \in Key : Told(table[k]) => Sound(table[k])
  /\ \A t \in Threads, k \in Key : Told(call[t].found[k]) => Sound(call[t].found[k])

\* "Real payload retention" (inference_backend.py:9): once nothing is on its way to the
\* device, what the table lists is stored, whether or not the reply to its write was its
\* own.  False: the device may have refused the write.
ListedIsStored ==
  late = <<>> => \A k \in Key : Present(table[k]) => Sound(table[k])

=============================================================================
