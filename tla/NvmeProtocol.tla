---------------------------- MODULE NvmeProtocol ----------------------------
(***************************************************************************)
(* The storage transport of the pipeline: QemuNvmeClient on the host, the*)
(* TCP connection into the virtual machine, and nvme_guest_daemon in front *)
(* of the NVMe device.                                                     *)
(*                                                                         *)
(* The client holds a lock around each call, so there is one call at a     *)
(* time; a call sends its request and reads the reply from the stream.     *)
(* Nothing in a reply says which request it answers: the client relies on*)
(* the stream being empty when it sends.                                   *)
(*                                                                         *)
(* A stream is a sequence of cells: a header, the header of a batch item,*)
(* a Top-K winner or one page of data.  Reading n bytes takes the next     *)
(* cell, whatever it is, so a stream that is out of step delivers headers*)
(* as data and data as headers.  The content of a page is the number of    *)
(* the call that wrote it.                                                 *)
(***************************************************************************)
EXTENDS SequencesExt

CONSTANTS
  Pages,        \* offsets of the device
  BadPages,     \* offsets whose pread and pwrite fail: a media error
  WornPages,    \* offsets whose error shows only when the page cache is written out
  Batches,      \* the lists of offsets that the batch calls name
  NoVal,        \* nothing was returned for a page
  Garbled,      \* what a header read as data amounts to
  NoPage,       \* the padding of a Top-K reply
  MaxCalls,     \* bound: calls of the client
  MaxConns,     \* bound: connections it opens
  MaxCrashes    \* bound: crashes of the virtual machine

ASSUME ProtocolAssumption ==
  /\ IsFiniteSet(Pages) /\ BadPages \subseteq Pages /\ NoPage \notin Pages
  /\ WornPages \subseteq Pages
  /\ Batches \subseteq Seq(Pages) \ {<<>>}
  /\ NoVal \notin Nat /\ Garbled \notin Nat /\ NoVal # Garbled
  /\ MaxCalls \in Nat /\ MaxConns \in Nat /\ MaxCrashes \in Nat

VARIABLES
  conn,      \* the connections, in the order in which they were made
  sock,      \* the client's connection, 0 when self.sock is None
  spoiled,   \* history: a call was abandoned in the middle of this connection
  call,      \* the call in progress
  result,    \* the call that returned last, and with what
  calls,     \* number of calls made
  up,        \* is the virtual machine, with its daemon, running?
  proc,      \* self._qemu_proc: "none", or the process we launched is "alive" or "dead"
  cache,     \* the pages as the guest sees them, through its page cache
  disk,      \* the pages as they are in the device's image
  crashes

vars == <<conn, sock, spoiled, call, result, calls, up, proc, cache, disk, crashes>>
server == <<up, proc, cache, disk, crashes>>

Val == Nat \union {NoVal, Garbled}
Probes == {"start", "boot"}   \* the pings of start_qemu, before and after it launches

Request(o, ps) == [kind |-> "request", op |-> o, pages |-> ps]
Reply(good, n) == [kind |-> "reply", ok |-> good, len |-> n]
Item(p, good) == [kind |-> "item", page |-> p, ok |-> good]
Winner(p, v) == [kind |-> "winner", page |-> p, val |-> v]
Data(v) == [kind |-> "data", val |-> v]

\* in: towards the daemon; out: towards the client.  open: the daemon's end lives;
\* shut: the client has closed its end.
Fresh(cells) == [in |-> cells, out |-> <<>>, open |-> TRUE, shut |-> FALSE]

Nothing == [p \in Pages |-> NoVal]
Idle == [op |-> "none", pages |-> <<>>, id |-> 0, step |-> "idle", left |-> 0,
         page |-> NoPage, got |-> Nothing]

\* The client sends and receives on a socket it has not closed: connect() closes the
\* old one first and keeps it when it is refused, but only start_qemu dials again, and
\* it makes no other call until it has a new socket or none.  The rest is typed.
TypeOK ==
  /\ sock \in 0..Len(conn) /\ Len(conn) <= MaxConns
  /\ sock # 0 /\ conn[sock].shut => call.step = "dial"
  /\ {spoiled, up} \subseteq BOOLEAN /\ proc \in {"none", "alive", "dead"}
  /\ call.step \in {"idle", "header", "body", "data", "launch", "dial", "wait"}
  /\ call.got \in [Pages -> Val]
  /\ cache \in [Pages -> Nat] /\ disk \in [Pages -> Nat]

Init ==
  /\ conn = <<>> /\ sock = 0 /\ spoiled = FALSE
  /\ call = Idle /\ result = Idle /\ calls = 0
  /\ up \in BOOLEAN /\ proc = "none"
  /\ cache = [p \in Pages |-> 0] /\ disk = cache
  /\ crashes = 0

-----------------------------------------------------------------------------
(***************************************************************************)
(* The client: sending.                                                    *)
(***************************************************************************)
Free == call.step = "idle"

\* connect() needs a virtual machine that runs.
CanConnect == up /\ Len(conn) < MaxConns

\* A connection the client closes may lose what the daemon has not read yet.
ClosedEnds(c) ==
  {[c EXCEPT !.shut = TRUE, !.in = SubSeq(@, 1, n)] : n \in 0..Len(c.in)}

\* Send the cells, on a new connection if there is none.
Send(cells) ==
  IF sock = 0
  THEN /\ CanConnect
       /\ conn' = Append(conn, Fresh(cells))
       /\ sock' = Len(conn) + 1
       /\ spoiled' = FALSE
  ELSE /\ conn' = IF conn[sock].open THEN [conn EXCEPT ![sock].in = @ \o cells] ELSE conn
       /\ UNCHANGED <<sock, spoiled>>

Called ==
  /\ Free
  /\ calls < MaxCalls
  /\ calls' = calls + 1

Begin(op, pages, step) ==
  /\ Called
  /\ call' = [Idle EXCEPT !.op = op, !.pages = pages, !.id = calls + 1, !.step = step]
  /\ UNCHANGED <<result, server>>

Ask(op, pages, payload) ==
  /\ Begin(op, pages, "header")
  /\ Send(<<Request(op, pages)>> \o payload)

Write(p) == Ask("write", <<p>>, <<Data(calls + 1)>>)

\* A write of more than the daemon's 1 MB buffer.
WriteBig(p) == Ask("bigwrite", <<p>>, <<Data(calls + 1)>>)

Read(p) == Ask("read", <<p>>, <<>>)
ReadBatch(ps) == Ask("batch", ps, <<>>)
ComputeTopK(ps) == Ask("topk", ps, <<>>)
IsAlive == Ask("ping", <<>>, <<>>)
Flush == sock # 0 /\ Ask("flush", <<>>, <<>>)

\* Without a connection a call is over at once: connect() is refused and its caller
\* gets the exception, or it is flush(), which returns and has done nothing.
Unconnected(op, step) ==
  /\ sock = 0
  /\ Called
  /\ result' = [Idle EXCEPT !.op = op, !.id = calls + 1, !.step = step]
  /\ UNCHANGED <<conn, sock, spoiled, call, server>>

Refused ==
  \/ \E op \in {"write", "bigwrite", "read", "batch", "topk", "ping"} :
       Unconnected(op, "raised")
  \/ Unconnected("flush", "ok")

-----------------------------------------------------------------------------
(***************************************************************************)
(* The client: receiving.                                                  *)
(***************************************************************************)
Awaiting(step) == call.step = step /\ conn[sock].out # <<>>
Next1 == Head(conn[sock].out)
Consume == conn' = [conn EXCEPT ![sock].out = Tail(@)]

\* The call ends: the step of its result tells a value from an exception.
End(step, got) ==
  /\ call' = Idle
  /\ result' = [call EXCEPT !.step = step, !.got = got]

Return(got) == End("ok", got)

\* An exception ends the call (is_alive() turns it into its answer).  A probe of
\* start_qemu that fails does not: the first makes it launch the machine, a later
\* one dial again.
Fail ==
  IF call.op \in Probes
  THEN /\ call' = [call EXCEPT !.step = IF call.op = "start" THEN "launch" ELSE "dial"]
       /\ UNCHANGED result
  ELSE End("raised", Nothing)

Good(h) == h.kind = "reply" /\ h.ok
HasBody(h) == call.op \in {"read", "batch", "topk"} /\ h.len > 0

\* The header of the reply, or what stands in its place.  flush() does not look.
RecvHeader ==
  /\ Awaiting("header")
  /\ Consume
  /\ \/ /\ Good(Next1) /\ HasBody(Next1)
        /\ call' = [call EXCEPT !.step = "body", !.left = Next1.len]
        /\ UNCHANGED result
     \/ /\ IF call.op = "flush" THEN TRUE ELSE Good(Next1) /\ ~HasBody(Next1)
        /\ Return(Nothing)
     \/ /\ call.op # "flush" /\ ~Good(Next1)
        /\ Fail
  /\ UNCHANGED <<sock, spoiled, calls, server>>

Content(c) == IF c.kind \in {"data", "winner"} THEN c.val ELSE Garbled

\* One more page of the reply is in; the call returns after the last.
Received(p, v) ==
  LET got == IF p \in Pages THEN [call.got EXCEPT ![p] = v] ELSE call.got IN
  IF call.left = 1 THEN Return(got)
  ELSE /\ call' = [call EXCEPT !.got = got, !.left = @ - 1, !.step = "body"]
       /\ UNCHANGED result

\* The page of read().
RecvPage ==
  /\ Awaiting("body") /\ call.op = "read"
  /\ Consume
  /\ Received(call.pages[1], Content(Next1))
  /\ UNCHANGED <<sock, spoiled, calls, server>>

\* A winner of compute_topk(), with the content its score was computed from.
RecvWinner ==
  /\ Awaiting("body") /\ call.op = "topk"
  /\ Consume
  /\ Received(IF Next1.kind = "winner" THEN Next1.page ELSE NoPage, Content(Next1))
  /\ UNCHANGED <<sock, spoiled, calls, server>>

\* The header of a batch item: one that failed raises and leaves the rest unread.
RecvItem ==
  /\ Awaiting("body") /\ call.op = "batch"
  /\ Consume
  /\ IF Next1.kind = "item" /\ Next1.ok
     THEN /\ call' = [call EXCEPT !.step = "data", !.page = Next1.page]
          /\ UNCHANGED <<result, spoiled>>
     ELSE /\ Fail
          /\ spoiled' = (spoiled \/ call.left > 1)
  /\ UNCHANGED <<sock, calls, server>>

RecvItemData ==
  /\ Awaiting("data")
  /\ Consume
  /\ Received(call.page, Content(Next1))
  /\ UNCHANGED <<sock, spoiled, calls, server>>

Receiving == call.step \in {"header", "body", "data"}

\* Mutant: the socket has no timeout.
TimeoutNever == FALSE

\* The socket's timeout expires while the client waits.  The connection stays.
Timeout ==
  /\ Receiving
  /\ Fail
  /\ spoiled' = TRUE
  /\ UNCHANGED <<conn, sock, calls, server>>

\* The connection is gone: the next recv finds its end.
Reset ==
  /\ Receiving
  /\ ~conn[sock].open /\ conn[sock].out = <<>>
  /\ Fail
  /\ UNCHANGED <<conn, sock, spoiled, calls, server>>

Receive ==
  RecvHeader \/ RecvPage \/ RecvWinner \/ RecvItem \/ RecvItemData \/ Timeout \/ Reset

-----------------------------------------------------------------------------
(***************************************************************************)
(* Starting and stopping the virtual machine.                              *)
(***************************************************************************)
StartQemu ==
  \/ Ask("start", <<>>, <<>>)
  \/ /\ sock = 0 /\ ~up
     /\ Begin("start", <<>>, "launch")
     /\ UNCHANGED <<conn, sock, spoiled>>

\* Popen: the machine boots, or does not; while another one runs the new process
\* finds the port and the image taken, and dies.
Launch ==
  /\ call.step = "launch"
  /\ proc' = IF up THEN "dead" ELSE "alive"
  /\ up' \in {up, TRUE}
  /\ call' = [call EXCEPT !.op = "boot", !.step = "dial"]
  /\ UNCHANGED <<conn, sock, spoiled, result, calls, cache, disk, crashes>>

\* There is no socket that could be sent on or closed.
Unusable == IF sock = 0 THEN TRUE ELSE conn[sock].shut

\* connect() closes the old socket ...
Closing ==
  IF Unusable THEN {conn}
  ELSE {[conn EXCEPT ![sock] = c] : c \in ClosedEnds(conn[sock])}

\* ... and opens a new one, to ping on ...
Dial ==
  /\ call.step = "dial"
  /\ CanConnect
  /\ \E old \in Closing : conn' = Append(old, Fresh(<<Request("ping", <<>>)>>))
  /\ sock' = Len(conn) + 1
  /\ spoiled' = FALSE
  /\ call' = [call EXCEPT !.step = "header"]
  /\ UNCHANGED <<result, calls, server>>

\* ... or is refused, or has no answer in time: the closed socket stays in self.sock.
DialRefused ==
  /\ call.step = "dial"
  /\ conn' \in Closing
  /\ UNCHANGED <<sock, spoiled, call, result, calls, server>>

\* Mutant: the closed socket is kept in self.sock.
HangupKept ==
  /\ IF sock = 0 THEN UNCHANGED conn
     ELSE conn' = [conn EXCEPT ![sock].shut = TRUE]
  /\ UNCHANGED <<sock, spoiled>>

\* stop_qemu asks the daemon to shut down and closes the socket, unless it is closed ...
Hangup ==
  /\ IF Unusable THEN UNCHANGED conn
     ELSE \E c \in ClosedEnds([conn[sock] EXCEPT
                                 !.in = Append(@, Request("shutdown", <<>>))]) :
            conn' = [conn EXCEPT ![sock] = c]
  /\ sock' = 0
  /\ spoiled' = FALSE

StopQemu ==
  /\ Begin("stop", <<>>, "wait")
  /\ Hangup

\* start_qemu has waited long enough.
GiveUp ==
  /\ call.step = "dial"
  /\ Hangup
  /\ call' = [call EXCEPT !.step = "wait"]
  /\ UNCHANGED <<result, calls, server>>

\* The machine dies, and with it the daemon and what was in its page cache only.
\* A reply on its way may still arrive.
Dead(c, kept) ==
  [c EXCEPT !.open = FALSE, !.in = <<>>, !.out = IF kept THEN @ ELSE <<>>]

Die ==
  /\ up' = FALSE
  /\ cache' = disk
  /\ \E kept \in BOOLEAN : conn' = [c \in DOMAIN conn |-> Dead(conn[c], kept)]

\* ... and waits for the process it launched, to kill it if it does not end.
Stopped ==
  /\ call.step = "wait"
  /\ \/ proc # "alive" /\ UNCHANGED <<conn, up, cache>>
     \/ proc = "alive" /\ Die
  /\ proc' = "none"
  /\ End(IF call.op = "stop" THEN "ok" ELSE "raised", Nothing)
  /\ UNCHANGED <<sock, spoiled, calls, disk, crashes>>

Crash ==
  /\ up
  /\ crashes < MaxCrashes
  /\ crashes' = crashes + 1
  /\ Die
  /\ proc' = IF proc = "alive" THEN "dead" ELSE proc
  /\ UNCHANGED <<sock, spoiled, call, result, calls, disk>>

-----------------------------------------------------------------------------
(***************************************************************************)
(* The daemon: one connection after the other, one request after the other.*)
(***************************************************************************)

\* Mutant: the daemon serves every connection at once.
AcceptedAny(c) == up /\ conn[c].open

\* accept() takes the oldest connection; the others wait until it has ended.
Accepted(c) == up /\ conn[c].open /\ \A d \in 1..c-1 : ~conn[d].open

Asked(c, op) ==
  /\ Accepted(c)
  /\ conn[c].in # <<>>
  /\ Head(conn[c].in).kind = "request"
  /\ Head(conn[c].in).op = op

Named(c) == Head(conn[c].in).pages

\* n cells of the request are read and the reply is written.
Answer(c, n, cells) ==
  conn' = [conn EXCEPT ![c].in = SubSeq(@, n + 1, Len(@)), ![c].out = @ \o cells]

Unasked == UNCHANGED <<sock, spoiled, call, result, calls, proc, crashes>>

ServeWrite(c) ==
  /\ Asked(c, "write")
  /\ Len(conn[c].in) > 1
  /\ IF Named(c)[1] \in BadPages
     THEN /\ Answer(c, 2, <<Reply(FALSE, 0)>>)
          /\ UNCHANGED cache
     ELSE /\ cache' = [cache EXCEPT ![Named(c)[1]] = conn[c].in[2].val]
          /\ Answer(c, 2, <<Reply(TRUE, 1)>>)
  /\ UNCHANGED <<up, disk>> /\ Unasked

\* Refused without reading the data, which is then taken for the next request.
ServeBigWrite(c) ==
  /\ Asked(c, "bigwrite")
  /\ Answer(c, 1, <<Reply(FALSE, 0)>>)
  /\ UNCHANGED <<up, cache, disk>> /\ Unasked

Page(p) == <<Data(cache[p])>>

\* Mutant: no early end after the reply to a read that failed.
ServeReadAnyway(c) ==
  /\ Asked(c, "read")
  /\ Answer(c, 1, <<Reply(Named(c)[1] \notin BadPages, 1)>> \o Page(Named(c)[1]))
  /\ UNCHANGED <<up, cache, disk>> /\ Unasked

ServeRead(c) ==
  /\ Asked(c, "read")
  /\ LET p == Named(c)[1] IN
       Answer(c, 1, IF p \in BadPages THEN <<Reply(FALSE, 0)>>
                    ELSE <<Reply(TRUE, 1)>> \o Page(p))
  /\ UNCHANGED <<up, cache, disk>> /\ Unasked

\* A batch item: its header, and its page unless it failed.
ItemCells(p, content) ==
  IF p \in BadPages THEN <<Item(p, FALSE)>> ELSE <<Item(p, TRUE), Data(content[p])>>

Items(ps, content) == FlattenSeq([i \in DOMAIN ps |-> ItemCells(ps[i], content)])

ServeBatch(c) ==
  /\ Asked(c, "batch")
  /\ Answer(c, 1, <<Reply(TRUE, Len(Named(c)))>> \o Items(Named(c), cache))
  /\ UNCHANGED <<up, cache, disk>> /\ Unasked

\* The best candidate, top_k = 1; a candidate whose page cannot be read is skipped,
\* and the slots nobody fills stay padding.
ServeTopK(c) ==
  /\ Asked(c, "topk")
  /\ LET able == Range(Named(c)) \ BadPages IN
       \/ \E p \in able : Answer(c, 1, <<Reply(TRUE, 1), Winner(p, cache[p])>>)
       \/ able = {} /\ Answer(c, 1, <<Reply(TRUE, 1), Winner(NoPage, NoVal)>>)
  /\ UNCHANGED <<up, cache, disk>> /\ Unasked

ServePing(c) ==
  /\ Asked(c, "ping") \/ Asked(c, "start")
  /\ Answer(c, 1, <<Reply(TRUE, 0)>>)
  /\ UNCHANGED <<up, cache, disk>> /\ Unasked

\* Mutant: flush is acknowledged without fdatasync.
ServeFlushNot(c) ==
  /\ Asked(c, "flush")
  /\ Answer(c, 1, <<Reply(TRUE, 0)>>)
  /\ UNCHANGED <<up, cache, disk>> /\ Unasked

\* The device after the page cache was written out, but for the pages it refused.
WrittenOut(refused) == [p \in Pages |-> IF p \in refused THEN disk[p] ELSE cache[p]]

\* What fdatasync returns is not looked at: the answer is the same when it failed.
ServeFlush(c) ==
  /\ Asked(c, "flush")
  /\ \E refused \in SUBSET WornPages : disk' = WrittenOut(refused)
  /\ Answer(c, 1, <<Reply(TRUE, 0)>>)
  /\ UNCHANGED <<up, cache>> /\ Unasked

\* The daemon ends and closes the device, which writes back its pages, and the
\* machine ends with it.
ServeShutdown(c) ==
  /\ Asked(c, "shutdown")
  /\ up' = FALSE
  /\ \E refused \in SUBSET WornPages : disk' = WrittenOut(refused)
  /\ cache' = disk'
  /\ conn' = [d \in DOMAIN conn |-> Dead(conn[d], TRUE)]
  /\ proc' = IF proc = "alive" THEN "dead" ELSE proc
  /\ UNCHANGED <<sock, spoiled, call, result, calls, crashes>>

\* Bytes that are no request, or the end of the stream, end the connection.
HangUp(c) ==
  /\ Accepted(c)
  /\ \/ conn[c].in = <<>> /\ conn[c].shut
     \/ Asked(c, "write") /\ Len(conn[c].in) = 1 /\ conn[c].shut
     \/ conn[c].in # <<>> /\ Head(conn[c].in).kind # "request"
  /\ conn' = [conn EXCEPT ![c].open = FALSE, ![c].in = <<>>]
  /\ UNCHANGED <<up, cache, disk>> /\ Unasked

Serve(c) ==
  \/ ServeWrite(c) \/ ServeBigWrite(c) \/ ServeRead(c) \/ ServeBatch(c)
  \/ ServeTopK(c) \/ ServePing(c) \/ ServeFlush(c) \/ ServeShutdown(c) \/ HangUp(c)

\* The guest's kernel writes a page back when it likes.
WriteBack(p) ==
  /\ up /\ disk[p] # cache[p]
  /\ disk' = [disk EXCEPT ![p] = cache[p]]
  /\ UNCHANGED <<conn, up, cache>> /\ Unasked

-----------------------------------------------------------------------------
Call ==
  \/ \E p \in Pages : Write(p) \/ WriteBig(p) \/ Read(p)
  \/ \E ps \in Batches : ReadBatch(ps) \/ ComputeTopK(ps)
  \/ IsAlive \/ Flush \/ Refused \/ StartQemu \/ StopQemu

Continue == Receive \/ Launch \/ Dial \/ DialRefused \/ GiveUp \/ Stopped

Next ==
  \/ Call
  \/ Continue
  \/ Crash
  \/ \E c \in DOMAIN conn : Serve(c)
  \/ \E p \in Pages : WriteBack(p)

Spec == Init /\ [][Next]_vars

\* The client's thread runs.  Nothing is assumed of the machine: it may be down or
\* not answer, and the timeout is what ends a call then.
FairSpec == Spec /\ WF_vars(Continue)

-----------------------------------------------------------------------------
(***************************************************************************)
(* Properties.                                                             *)
(***************************************************************************)

\* As long as no call was abandoned in the middle of it, the connection is in step:
\* between two calls no part of a reply is left for the next call to take as its own.
InStep == sock # 0 /\ ~spoiled /\ Free => conn[sock].out = <<>>

Live == sock # 0 /\ conn[sock].open

\* Nothing is left in the page cache alone but what the device refused to take.
Durable == \A p \in Pages \ WornPages : disk[p] = cache[p]

\* What a call that returns has claimed.
Claim(r) ==
  /\ r.op = "write" => cache[r.pages[1]] = r.id
  /\ r.op \in {"read", "batch"} => \A p \in Range(r.pages) : r.got[p] = cache[p]
  /\ r.op = "topk" => \A p \in Pages : r.got[p] \in {NoVal, cache[p]}
  /\ r.op = "flush" => Durable

\* On such a connection a call tells the truth when it returns: what was written is
\* what the device holds, what was read or scored is its current content, and after
\* flush() nothing is left in the page cache but what the device refused.
Truthful ==
  [][result' # result /\ result'.step = "ok" /\ Live /\ ~spoiled => Claim(result')]_vars

\* A write that its caller has given up, on a connection that was replaced or not,
\* never overtakes a later one: a page goes back to an earlier content only in a crash.
NoLateWrite == [][up' => \A p \in Pages : cache'[p] >= cache[p]]_vars

\* Every call returns or raises, also when the machine is down or stays silent.
CallEnds == ~Free ~> Free

(***************************************************************************)
(* What read() promises and does not keep after a timeout, and flush()     *)
(* after a media error: both are false.                                    *)
(***************************************************************************)

\* "Dispatches a read operation to /dev/nvme0n1 ... Returns raw byte buffer": the
\* bytes that a read returns are those of the page it was asked for.
ReadsWhatWasAsked ==
  [][result' # result /\ result'.step = "ok" /\ Live /\ result'.op = "read"
       => result'.got[result'.pages[1]] \in {NoVal, cache[result'.pages[1]]}]_vars

\* "Flushes volatile write buffers on the NVMe device": when flush() returns on a
\* connection that is in step, the device holds every page.
FlushIsDurable ==
  [][result' # result /\ result'.step = "ok" /\ Live /\ ~spoiled /\ result'.op = "flush"
       => disk = cache]_vars

=============================================================================
