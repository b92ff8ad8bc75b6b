----------------------------- MODULE NvmeProofs -----------------------------
(***************************************************************************)
(* Theorems about NvmeProtocol, for every set of pages, every list of      *)
(* pages a batch may name and any number of calls, connections, crashes.   *)
(***************************************************************************)
EXTENDS NvmeProtocol, SequenceLemmas

Asking == {"write", "bigwrite", "read", "batch", "topk", "ping", "start", "boot", "flush"}
Ops == Asking \union {"none", "stop", "shutdown"}

InCell == [kind : {"request"}, op : Ops, pages : Seq(Pages)] \union [kind : {"data"}, val : Nat]

OutCell ==
  [kind : {"reply"}, ok : BOOLEAN, len : Nat] \union [kind : {"item"}, page : Pages, ok : BOOLEAN]
    \union [kind : {"winner"}, page : Pages \union {NoPage}, val : Nat \union {NoVal}]
    \union [kind : {"data"}, val : Nat]

Connection == [in : Seq(InCell), out : Seq(OutCell), open : BOOLEAN, shut : BOOLEAN]
Versions == [Pages -> Nat]

CallRecord ==
  [op : Ops, pages : Seq(Pages), id : Nat, left : Nat, page : Pages \union {NoPage},
   step : {"idle", "header", "body", "data", "launch", "dial", "wait"}, got : [Pages -> Val]]

\* What a call is, step by step: k is the call, n the number of calls made.
Formed(k, n) ==
  /\ k \in CallRecord /\ k.id <= n
  /\ k.step \in {"header", "body", "data"} => k.op \in Asking
  /\ k.step = "launch" => k.op = "start"
  /\ k.step = "dial" => k.op = "boot"
  /\ k.step \in {"body", "data"} => k.op \in {"read", "batch", "topk"} /\ k.left # 0
  /\ k.step = "data" => k.op = "batch"
  /\ k.step \notin {"body", "data"} => k.got = Nothing
  /\ k.op \in {"write", "bigwrite", "read"} => Len(k.pages) = 1
  /\ k.op \in {"batch", "topk"} => k.pages # <<>>
  /\ k.op \in Probes => k.pages = <<>>

Types ==
  /\ conn \in Seq(Connection) /\ Len(conn) <= MaxConns
  /\ {spoiled, up} \subseteq BOOLEAN /\ proc \in {"none", "alive", "dead"}
  /\ calls \in Nat /\ Formed(call, calls)
  /\ cache \in Versions /\ disk \in Versions

\* The client's socket is the connection it made last, and is there while it receives.
Sockets ==
  /\ sock \in {0, Len(conn)}
  /\ sock # 0 /\ conn[sock].shut => call.step = "dial"
  /\ Receiving => sock # 0
  /\ call.step = "wait" => sock = 0

-----------------------------------------------------------------------------
\* The data of a write on its way.
Written(c, i) == c.open /\ i \in 1..Len(c.in) /\ c.in[i].kind = "data"

Complete(c, i) ==
  c.open /\ i \in 1..Len(c.in) /\ c.in[i].kind = "request" =>
    /\ c.in[i].op \in {"write", "read"} => c.in[i].pages # <<>>
    /\ c.in[i].op = "write" => IF i = Len(c.in) THEN c.shut ELSE c.in[i+1].kind = "data"

Before(c, i, d, j) == c < d \/ (c = d /\ i <= j)

\* The writes on their way through the connections cs are newer than the content m of
\* the device and no newer than the call n, and the daemon will reach them in order.
Ordered(cs, m, n) ==
  /\ \A c \in 1..Len(cs) : \A i \in Nat : Complete(cs[c], i)
  /\ \A c \in 1..Len(cs) : \A i \in Nat :
       Written(cs[c], i) => cs[c].in[i].val <= n /\ \A p \in Pages : m[p] <= cs[c].in[i].val
  /\ \A c, d \in 1..Len(cs) : \A i, j \in Nat :
       Written(cs[c], i) /\ Written(cs[d], j) /\ Before(c, i, d, j)
         => cs[c].in[i].val <= cs[d].in[j].val
  /\ \A p \in Pages : m[p] <= n

WritesInOrder == Ordered(conn, cache, calls) /\ \A p \in Pages : disk[p] <= calls

-----------------------------------------------------------------------------
\* The daemon takes no further request from the connection c.
Mute(c) == ~c.open \/ c.in = <<>> \/ c.in[1].kind = "data"

\* Nothing is on its way to the client, nor will be.
Quiet(k, c) == c.out = <<>> /\ Mute(c) /\ (k.step \in {"body", "data"} => ~c.open)

Wire(op) == IF op = "boot" THEN "ping" ELSE op

Sent(k) ==
  IF k.op \in {"write", "bigwrite"}
  THEN <<Request(k.op, k.pages), Data(k.id)>>
  ELSE <<Request(Wire(k.op), k.pages)>>

\* The request is on its way.
Waits(k, c) == k.step = "header" /\ c.open /\ c.out = <<>> /\ c.in = Sent(k)

First(k) == k.pages[1]

\* The pages of a batch whose items are still to come.
Rest(k, n) == SubSeq(k.pages, Len(k.pages) - n + 1, Len(k.pages))

Best(k, w, m) ==
  \/ \E p \in Range(k.pages) \ BadPages : w = Winner(p, m[p])
  \/ w = Winner(NoPage, NoVal)

\* The reply to the call when the device has content m ...
Whole(k, out, m) ==
  \/ /\ k.op = "write" /\ First(k) \in BadPages
     /\ out = <<Reply(FALSE, 0)>>
  \/ /\ k.op = "write" /\ First(k) \notin BadPages /\ m[First(k)] = k.id
     /\ out = <<Reply(TRUE, 1)>>
  \/ /\ k.op = "bigwrite" 
     /\ out = <<Reply(FALSE, 0)>>
  \/ /\ k.op = "read" /\ First(k) \in BadPages
     /\ out = <<Reply(FALSE, 0)>>
  \/ /\ k.op = "read"
     /\ out = <<Reply(TRUE, 1), Data(m[First(k)])>>
  \/ /\ k.op = "batch"
     /\ out = <<Reply(TRUE, Len(k.pages))>> \o Items(k.pages, m)
  \/ /\ k.op = "topk"
     /\ \E w \in OutCell : Best(k, w, m) /\ out = <<Reply(TRUE, 1), w>>
  \/ /\ k.op \in {"ping", "flush"} \union Probes
     /\ out = <<Reply(TRUE, 0)>>

\* ... and what is left of it after its header, and after the header of an item.
Body(k, out, m) ==
  \/ /\ k.op = "read" /\ k.left = 1 /\ k.got = Nothing
     /\ out = <<Data(m[First(k)])>>
  \/ /\ k.op = "topk" /\ k.left = 1 /\ k.got = Nothing
     /\ \E w \in OutCell : Best(k, w, m) /\ out = <<w>>
  \/ /\ k.op = "batch" /\ k.left <= Len(k.pages)
     /\ out = Items(Rest(k, k.left), m)

Half(k, out, m) ==
  /\ k.op = "batch" /\ k.left <= Len(k.pages)
  /\ k.page = Rest(k, k.left)[1]
  /\ out = <<Data(m[k.page])>> \o Items(Tail(Rest(k, k.left)), m)

\* The items of the batch that are in.
Taken(k, m) ==
  k.op = "batch" =>
    \A i \in 1..(Len(k.pages) - k.left) : k.got[k.pages[i]] = m[k.pages[i]]

Left(k, out, m) ==
  \/ k.step = "header" /\ Whole(k, out, m)
  \/ k.step = "body" /\ Body(k, out, m) /\ Taken(k, m)
  \/ k.step = "data" /\ Half(k, out, m) /\ Taken(k, m)

\* While the connection lives, the reply is about the present content: the daemon
\* waits for this connection to end, and nobody else writes.
Settled == 
  /\ \A d \in 1..(sock-1) : ~conn[d].open
  /\ call.op = "flush" => Durable

\* The reply is on its way, or part of it.
Answered(c) ==
  /\ Mute(c)
  /\ \E m \in Versions : Left(call, c.out, m) /\ (c.open => m = cache /\ Settled)

Current ==
  sock # 0 /\ ~spoiled =>
    Quiet(call, conn[sock]) \/ Waits(call, conn[sock]) \/ Answered(conn[sock])

Base == Types /\ Sockets /\ WritesInOrder
Inv == Base /\ Current

-----------------------------------------------------------------------------
(***************************************************************************)
(* Cells and calls.                                                        *)
(***************************************************************************)

\* What the client sends and the daemon answers are cells of the two streams.
LEMMA Cells ==
  /\ \A op \in Ops, ps \in Seq(Pages) :
       /\ Request(op, ps) \in InCell
       /\ Request(op, ps).kind = "request" /\ Request(op, ps).op = op
       /\ Request(op, ps).pages = ps
  /\ \A v \in Nat :
       Data(v) \in InCell /\ Data(v) \in OutCell /\ Data(v).kind = "data" /\ Data(v).val = v
  /\ \A b \in BOOLEAN, n \in Nat :
       /\ Reply(b, n) \in OutCell
       /\ Reply(b, n).kind = "reply" /\ Reply(b, n).ok = b /\ Reply(b, n).len = n
  /\ \A p \in Pages, b \in BOOLEAN :
       /\ Item(p, b) \in OutCell
       /\ Item(p, b).kind = "item" /\ Item(p, b).page = p /\ Item(p, b).ok = b
  /\ \A p \in Pages \union {NoPage}, v \in Nat \union {NoVal} :
       /\ Winner(p, v) \in OutCell
       /\ Winner(p, v).kind = "winner" /\ Winner(p, v).page = p /\ Winner(p, v).val = v
BY DEF Request, Data, Reply, Item, Winner, InCell, OutCell

\* A request that names no page: a ping, a flush, a shutdown.
LEMMA EmptyRequest ==
  ASSUME NEW op \in Ops
  PROVE  /\ Request(op, <<>>) \in InCell
         /\ Request(op, <<>>).kind = "request" /\ Request(op, <<>>).op = op
         /\ Request(op, <<>>).pages = <<>>
<1>1. PICK ps \in Seq(Pages) : ps = <<>>
  BY EmptySeq
<1>2. /\ Request(op, ps) \in InCell
      /\ Request(op, ps).kind = "request" /\ Request(op, ps).op = op
      /\ Request(op, ps).pages = ps
  BY Cells
<1> QED
  BY <1>1, <1>2

\* The fields of a cell, by its kind.
LEMMA CellFields ==
  /\ \A x \in InCell : /\ x.kind \in {"request", "data"}
                       /\ x.kind = "request" => x.op \in Ops /\ x.pages \in Seq(Pages)
                       /\ x.kind = "data" => x.val \in Nat
  /\ \A x \in OutCell : /\ x.kind = "reply" => x.ok \in BOOLEAN /\ x.len \in Nat
                        /\ x.kind = "item" => x.page \in Pages /\ x.ok \in BOOLEAN
                        /\ x.kind = "winner" => x.page \in Pages \union {NoPage}
                        /\ Content(x) \in Val
BY DEF InCell, OutCell, Content, Val

\* What a call has got before the first page of its reply.
LEMMA NothingType == Nothing \in [Pages -> Val] /\ \A p \in Pages : Nothing[p] = NoVal
BY DEF Nothing, Val

\* Between two calls.
LEMMA IdleFormed ==
  ASSUME NEW n \in Nat
  PROVE  Formed(Idle, n) /\ Idle \in CallRecord /\ Idle.step = "idle" /\ Idle.op = "none"
<1>1. <<>> \in Seq(Pages)
  OBVIOUS
<1>2. /\ Idle \in CallRecord /\ Idle.step = "idle" /\ Idle.op = "none" /\ Idle.id = 0
      /\ Idle.got = Nothing
  BY <1>1, NothingType DEF Idle, CallRecord, Ops
<1> QED
  BY <1>2 DEF Formed, Probes

\* A call that begins, by any method of the client.
LEMMA BeginFormed ==
  ASSUME Types, NEW op \in Ops, NEW ps \in Seq(Pages),
         NEW st \in {"header", "launch", "wait"}, Begin(op, ps, st),
         st = "header" => op \in Asking, st = "launch" => op = "start",
         op \in {"write", "bigwrite", "read"} => Len(ps) = 1,
         op \in {"batch", "topk"} => ps # <<>>,
         op \in Probes => ps = <<>>
  PROVE  /\ Free /\ calls' = calls + 1 /\ calls' \in Nat
         /\ Formed(call', calls')
         /\ call'.op = op /\ call'.pages = ps /\ call'.id = calls + 1 /\ call'.step = st
         /\ call'.got = Nothing
         /\ UNCHANGED <<result, server>>
<1>1. calls \in Nat
  BY DEF Types
<1>2. Idle \in CallRecord /\ Idle.got = Nothing
  BY <1>1, IdleFormed DEF Idle
<1>3. /\ Free /\ calls' = calls + 1 /\ calls' \in Nat
      /\ call' = [Idle EXCEPT !.op = op, !.pages = ps, !.id = calls + 1, !.step = st]
      /\ UNCHANGED <<result, server>>
  BY <1>1 DEF Begin, Called
<1>. DEFINE n == calls + 1
<1>4. n \in Nat
  BY <1>1
<1>. HIDE DEF n
<1>5. call' = [Idle EXCEPT !.op = op, !.pages = ps, !.id = n, !.step = st]
  BY <1>3 DEF n
<1>6. /\ call' \in CallRecord
      /\ call'.op = op /\ call'.pages = ps /\ call'.id = n /\ call'.step = st
      /\ call'.got = Nothing
  BY <1>2, <1>4, <1>5 DEF CallRecord
<1>7. calls' = n
  BY <1>3 DEF n
<1>8. Formed(call', n)
  BY <1>4, <1>6 DEF Formed, Probes
<1> QED
  BY <1>3, <1>6, <1>7, <1>8 DEF n

\* Fail, Return and the steps between: the call that goes on is formed as the last one.
LEMMA FailFormed ==
  ASSUME Types, Receiving, Fail
  PROVE  /\ Formed(call', calls)
         /\ call'.step \notin {"header", "body", "data", "wait"}
         /\ call.op \notin Probes => result'.step = "raised"
         /\ call.op \in Probes => result' = result
<1>1. call \in CallRecord /\ Formed(call, calls) /\ calls \in Nat
  BY DEF Types, Formed
<1>2. CASE call.op \in Probes
  <2>1. /\ result' = result
        /\ call' = [call EXCEPT !.step = IF call.op = "start" THEN "launch" ELSE "dial"]
    BY <1>2 DEF Fail
  <2>2. PICK st \in {"launch", "dial"} :
           /\ call' = [call EXCEPT !.step = st]
           /\ IF call.op = "start" THEN st = "launch" ELSE st = "dial"
    BY <2>1
  <2>3. /\ call' \in CallRecord /\ call'.step = st /\ call'.op = call.op
        /\ call'.pages = call.pages /\ call'.id = call.id /\ call'.got = call.got
    BY <1>1, <2>2 DEF CallRecord
  <2>4. call.got = Nothing
    BY <1>1, <1>2 DEF Formed, Probes
  <2>5. Formed(call', calls)
    BY <1>1, <1>2, <2>2, <2>3, <2>4 DEF Formed, Probes
  <2> QED
    BY <1>2, <2>1, <2>3, <2>5
<1>3. CASE call.op \notin Probes
  <2>1. call' = Idle /\ result' = [call EXCEPT !.step = "raised", !.got = Nothing]
    BY <1>3 DEF Fail, End
  <2>2. result'.step = "raised"
    BY <1>1, <2>1 DEF CallRecord
  <2> QED
    BY <1>1, <1>3, <2>1, <2>2, IdleFormed
<1> QED
  BY <1>2, <1>3

\* The call returns: nothing is left of it but its result.
LEMMA ReturnFormed ==
  ASSUME Types, NEW got \in [Pages -> Val], Return(got)
  PROVE  /\ Formed(call', calls) /\ call' = Idle /\ call'.step = "idle"
         /\ result'.op = call.op /\ result'.pages = call.pages /\ result'.id = call.id
         /\ result'.got = got /\ result'.step = "ok"
<1>1. call \in CallRecord /\ calls \in Nat
  BY DEF Types, Formed
<1>2. call' = Idle /\ result' = [call EXCEPT !.step = "ok", !.got = got]
  BY DEF Return, End
<1> QED
  BY <1>1, <1>2, IdleFormed DEF CallRecord

\* One more page of a reply.
LEMMA ReceivedFormed ==
  ASSUME Types, call.step \in {"body", "data"}, call.step = "body" => call.op # "batch",
         NEW p \in Pages \union {NoPage}, NEW v \in Val, Received(p, v),
         call.left # 1 => call.op # "none"
  PROVE  LET got == IF p \in Pages THEN [call.got EXCEPT ![p] = v] ELSE call.got IN
         /\ got \in [Pages -> Val]
         /\ Formed(call', calls)
         /\ call'.step \in {"idle", "body"}
         /\ call.left = 1 => Return(got)
         /\ call.left # 1 => /\ result' = result /\ call'.step = "body" /\ call'.got = got
                             /\ call'.left = call.left - 1
                             /\ call'.op = call.op /\ call'.pages = call.pages
<1>1. call \in CallRecord /\ Formed(call, calls) /\ calls \in Nat
  BY DEF Types, Formed
<1>. DEFINE got == IF p \in Pages THEN [call.got EXCEPT ![p] = v] ELSE call.got
<1>2. got \in [Pages -> Val]
  BY <1>1 DEF CallRecord
<1>. HIDE DEF got
<1>3. CASE call.left = 1
  <2>1. Return(got)
    BY <1>3 DEF Received, got
  <2> QED
    BY <1>2, <1>3, <2>1, ReturnFormed DEF got
<1>4. CASE call.left # 1
  <2>1. /\ result' = result
        /\ call' = [call EXCEPT !.got = got, !.left = @ - 1, !.step = "body"]
    BY <1>4 DEF Received, got
  <2>2. call.left \in Nat /\ call.left # 0 /\ call.op \in {"read", "batch", "topk"}
    BY <1>1 DEF Formed, CallRecord
  <2>. DEFINE n == call.left - 1
  <2>3. n \in Nat /\ n # 0
    BY <1>4, <2>2
  <2>. HIDE DEF n
  <2>4. call' = [call EXCEPT !.got = got, !.left = n, !.step = "body"]
    BY <2>1 DEF n
  <2>5. /\ call' \in CallRecord /\ call'.step = "body" /\ call'.got = got /\ call'.left = n
        /\ call'.op = call.op /\ call'.pages = call.pages /\ call'.id = call.id
    BY <1>1, <1>2, <2>3, <2>4 DEF CallRecord
  <2>6. Formed(call', calls)
    BY <1>1, <2>2, <2>3, <2>5 DEF Formed, Probes, Asking
  <2> QED
    BY <1>2, <1>4, <2>1, <2>5, <2>6 DEF got, n
<1> QED
  BY <1>3, <1>4

-----------------------------------------------------------------------------
(***************************************************************************)
(* The writes on their way, and what the steps of both ends leave of them. *)
(***************************************************************************)

\* The connection a is b, of which the daemon has read s cells and the closing client
\* has lost the end.
Shrunk(a, b, s) ==
  /\ Len(a.in) + s <= Len(b.in)
  /\ Len(a.in) + s < Len(b.in) => a.shut
  /\ \A i \in 1..Len(a.in) : a.in[i] = b.in[i+s]

Remains(a, b) ==
  /\ b.shut => a.shut
  /\ a.open => b.open /\ \E s \in Nat : Shrunk(a, b, s)

\* A connection, field by field.
LEMMA ConnectionFields ==
  ASSUME NEW c \in Connection
  PROVE  /\ c.in \in Seq(InCell) /\ Len(c.in) \in Nat /\ c.out \in Seq(OutCell)
         /\ c.open \in BOOLEAN /\ c.shut \in BOOLEAN
         /\ \A i \in 1..Len(c.in) : c.in[i] \in InCell
         /\ c.in # <<>> <=> Len(c.in) # 0
<1>1. c.in \in Seq(InCell) /\ c.out \in Seq(OutCell) /\ c.open \in BOOLEAN /\ c.shut \in BOOLEAN
  BY DEF Connection
<1>2. Len(c.in) \in Nat /\ (c.in # <<>> <=> Len(c.in) # 0)
  BY <1>1, EmptySeq
<1>3. \A i \in 1..Len(c.in) : c.in[i] \in InCell
  BY <1>1, ElementOfSeq
<1> QED
  BY <1>1, <1>2, <1>3

\* A cell of what remains is a cell of the old connection, s places further.
LEMMA ShrunkCell ==
  ASSUME NEW a \in Connection, NEW b \in Connection, NEW s \in Nat, Shrunk(a, b, s),
         NEW i \in Nat, b.shut => a.shut, a.open => b.open
  PROVE  /\ i + s \in Nat
         /\ Complete(b, i+s) => Complete(a, i)
         /\ Written(a, i) => Written(b, i+s) /\ a.in[i].val = b.in[i+s].val
                             /\ a.in[i].val \in Nat
<1>1. /\ Len(a.in) \in Nat /\ Len(b.in) \in Nat /\ i + s \in Nat
      /\ \A j \in 1..Len(b.in) : b.in[j] \in InCell
  BY ConnectionFields
<1>2. /\ i \in 1..Len(a.in) => i + s \in 1..Len(b.in) /\ a.in[i] = b.in[i+s]
      /\ i \in 1..Len(a.in) /\ i # Len(a.in) =>
           i + s # Len(b.in) /\ a.in[i+1] = b.in[(i+s)+1]
      /\ i = Len(a.in) /\ i + s # Len(b.in) => a.shut
  <2>1. i \in 1..Len(a.in) => i + s \in 1..Len(b.in) /\ a.in[i] = b.in[i+s]
    BY <1>1 DEF Shrunk
  <2>2. ASSUME i \in 1..Len(a.in), i # Len(a.in)
        PROVE  i + s # Len(b.in) /\ a.in[i+1] = b.in[(i+s)+1]
    <3>1. i + 1 \in 1..Len(a.in) /\ (i+1) + s = (i+s) + 1 /\ i + s # Len(b.in)
      BY <1>1, <2>2 DEF Shrunk
    <3>2. a.in[i+1] = b.in[(i+1)+s]
      BY <3>1 DEF Shrunk
    <3> QED BY <3>1, <3>2
  <2>3. i = Len(a.in) /\ i + s # Len(b.in) => a.shut
    BY <1>1 DEF Shrunk
  <2> QED BY <2>1, <2>2, <2>3
<1>3. Complete(b, i+s) => Complete(a, i)
  BY <1>2 DEF Complete
<1>4. Written(a, i) => Written(b, i+s) /\ a.in[i].val = b.in[i+s].val
  BY <1>2 DEF Written
<1>5. Written(a, i) => a.in[i].val \in Nat
  BY <1>1, <1>2, CellFields DEF Written
<1> QED
  BY <1>1, <1>3, <1>4, <1>5

\* Reading and losing cells keeps the writes in order.
LEMMA OrderedShrunk ==
  ASSUME NEW cs \in Seq(Connection), NEW ds \in Seq(Connection), Len(ds) = Len(cs),
         NEW m, NEW n, Ordered(cs, m, n), \A c \in 1..Len(cs) : Remains(ds[c], cs[c])
  PROVE  Ordered(ds, m, n)
<1>1. \A c \in 1..Len(ds) : ds[c] \in Connection /\ cs[c] \in Connection
  BY ElementOfSeq
<1>2. \A c \in 1..Len(ds) : \A i \in Nat : Complete(ds[c], i)
  <2> SUFFICES ASSUME NEW c \in 1..Len(ds), NEW i \in Nat PROVE Complete(ds[c], i)
    OBVIOUS
  <2>1. CASE ~ds[c].open
    BY <2>1 DEF Complete
  <2>2. CASE ds[c].open
    <3>1. PICK s \in Nat : Shrunk(ds[c], cs[c], s)
      BY <2>2 DEF Remains
    <3>2. i + s \in Nat /\ (Complete(cs[c], i+s) => Complete(ds[c], i))
      BY <1>1, <3>1, ShrunkCell DEF Remains
    <3> QED BY <3>2 DEF Ordered
  <2> QED BY <2>1, <2>2
<1>3. \A c \in 1..Len(ds) : \A i \in Nat :
         Written(ds[c], i) => ds[c].in[i].val <= n /\ \A p \in Pages : m[p] <= ds[c].in[i].val
  <2> SUFFICES ASSUME NEW c \in 1..Len(ds), NEW i \in Nat, Written(ds[c], i)
               PROVE  ds[c].in[i].val <= n /\ \A p \in Pages : m[p] <= ds[c].in[i].val
    OBVIOUS
  <2>1. PICK s \in Nat : Shrunk(ds[c], cs[c], s)
    BY DEF Remains, Written
  <2>2. i + s \in Nat /\ Written(cs[c], i+s) /\ ds[c].in[i].val = cs[c].in[i+s].val
    BY <1>1, <2>1, ShrunkCell DEF Remains
  <2> QED BY <2>2 DEF Ordered
<1>4. \A c, d \in 1..Len(ds) : \A i, j \in Nat :
         Written(ds[c], i) /\ Written(ds[d], j) /\ Before(c, i, d, j)
           => ds[c].in[i].val <= ds[d].in[j].val
  <2> SUFFICES ASSUME NEW c \in 1..Len(ds), NEW d \in 1..Len(ds), NEW i \in Nat, NEW j \in Nat,
                      Written(ds[c], i), Written(ds[d], j), Before(c, i, d, j)
               PROVE  ds[c].in[i].val <= ds[d].in[j].val
    OBVIOUS
  <2>1. PICK s \in Nat : Shrunk(ds[c], cs[c], s)
    BY DEF Remains, Written
  <2>2. PICK t \in Nat : Shrunk(ds[d], cs[d], t) /\ (c = d => t = s)
    <3>1. CASE c = d
      BY <2>1, <3>1
    <3>2. CASE c # d
      BY <3>2 DEF Remains, Written
    <3> QED BY <3>1, <3>2
  <2>3. i + s \in Nat /\ Written(cs[c], i+s) /\ ds[c].in[i].val = cs[c].in[i+s].val
    BY <1>1, <2>1, ShrunkCell DEF Remains
  <2>4. j + t \in Nat /\ Written(cs[d], j+t) /\ ds[d].in[j].val = cs[d].in[j+t].val
    <3>1. Shrunk(ds[d], cs[d], t) /\ cs[d] \in Connection /\ ds[d] \in Connection
      BY <1>1, <2>2 DEF Remains
    <3>2. (cs[d].shut => ds[d].shut) /\ (ds[d].open => cs[d].open)
      BY DEF Remains
    <3> QED BY <3>1, <3>2, ShrunkCell
  <2>5. Before(c, i+s, d, j+t)
    BY <2>2 DEF Before
  <2> QED BY <2>3, <2>4, <2>5 DEF Ordered
<1> QED
  BY <1>2, <1>3, <1>4 DEF Ordered

\* So does a new connection, on which nothing was sent yet.
LEMMA OrderedGrown ==
  ASSUME NEW cs \in Seq(Connection), NEW c \in Connection, c.in = <<>>,
         NEW m, NEW n, Ordered(cs, m, n)
  PROVE  Ordered(Append(cs, c), m, n)
<1>. DEFINE ds == Append(cs, c)
<1>1. /\ Len(cs) \in Nat /\ Len(ds) = Len(cs) + 1 /\ ds[Len(cs)+1] = c
      /\ \A d \in 1..Len(cs) : ds[d] = cs[d]
  BY LenProperties, AppendProperties
<1>2. \A d \in 1..Len(ds) : d \in 1..Len(cs) \/ ds[d] = c
  BY <1>1
<1>3. \A i \in Nat : Complete(c, i) /\ ~Written(c, i)
  BY DEF Complete, Written
<1>. HIDE DEF ds
<1>4. \A d \in 1..Len(ds) : \A i \in Nat : Complete(ds[d], i)
  BY <1>1, <1>2, <1>3 DEF Ordered
<1>5. \A d \in 1..Len(ds) : \A i \in Nat : Written(ds[d], i) => d \in 1..Len(cs) /\ ds[d] = cs[d]
  BY <1>1, <1>2, <1>3
<1>6. \A d \in 1..Len(ds) : \A i \in Nat :
         Written(ds[d], i) => ds[d].in[i].val <= n /\ \A p \in Pages : m[p] <= ds[d].in[i].val
  BY <1>5 DEF Ordered
<1>7. \A d, e \in 1..Len(ds) : \A i, j \in Nat :
         Written(ds[d], i) /\ Written(ds[e], j) /\ Before(d, i, e, j)
           => ds[d].in[i].val <= ds[e].in[j].val
  BY <1>5 DEF Ordered
<1> QED
  BY <1>4, <1>6, <1>7 DEF Ordered, ds

\* What a call sends: a request, and the data of a write, which is the newest.
Message(cells, n) ==
  /\ cells \in Seq(InCell) /\ Len(cells) \in {1, 2}
  /\ cells[1].kind = "request"
  /\ cells[1].op \in {"write", "read"} => cells[1].pages # <<>>
  /\ cells[1].op = "write" => Len(cells) = 2
  /\ Len(cells) = 2 => cells[2].kind = "data" /\ cells[2].val = n

\* The connection d is c, on which the cells were sent.
Extended(d, c, cells) == d.in = c.in \o cells /\ d.open = c.open /\ d.shut = c.shut

\* A message sent on the last connection goes to the end of the order, as its data is
\* the newest: the client numbers its calls, and sends on the connection it made last.
LEMMA OrderedSent ==
  ASSUME NEW cs \in Seq(Connection), NEW ds \in Seq(Connection), Len(ds) = Len(cs),
         NEW k, k = Len(cs), k # 0, ~cs[k].shut, NEW m \in Versions, NEW n \in Nat,
         Ordered(cs, m, n), NEW l \in Nat, n <= l, NEW cells, Message(cells, l),
         \A c \in 1..k : c # k => ds[c] = cs[c],
         Extended(ds[k], cs[k], cells)
  PROVE  Ordered(ds, m, l)
<1>. DEFINE old == cs[k].in
            new == ds[k].in
            L == Len(old)
<1>1. /\ k \in Nat /\ k \in 1..Len(cs)
      /\ cs[k] \in Connection /\ old \in Seq(InCell) /\ cells \in Seq(InCell) /\ L \in Nat
      /\ \A c \in 1..Len(cs) : cs[c] \in Connection /\ ds[c] \in Connection
  <2>1. k \in Nat /\ k \in 1..Len(cs)
    BY LenProperties
  <2>2. \A c \in 1..Len(cs) : cs[c] \in Connection /\ ds[c] \in Connection
    BY ElementOfSeq
  <2> QED BY <2>1, <2>2, ConnectionFields DEF Message
<1>2. /\ new = old \o cells /\ Len(new) = L + Len(cells)
      /\ \A i \in 1..L : new[i] = old[i]
      /\ new[L+1] = cells[1]
      /\ Len(cells) = 2 => new[L+2] = cells[2]
  <2>1. Len(cells) \in {1, 2}
    BY DEF Message
  <2>2. new = old \o cells
    BY DEF Extended
  <2>. HIDE DEF old, new
  <2>3. /\ Len(new) = Len(old) + Len(cells)
        /\ \A i \in 1..(Len(old) + Len(cells)) :
             new[i] = IF i <= Len(old) THEN old[i] ELSE cells[i - Len(old)]
    BY <1>1, <2>2, ConcatProperties
  <2>. HIDE DEF L
  <2>4. \A i \in 1..(L + Len(cells)) : new[i] = IF i <= L THEN old[i] ELSE cells[i - L]
    BY <2>3 DEF L
  <2>5. L + 1 \in 1..(L + Len(cells)) /\ (L + 1) - L = 1 /\ ~(L + 1 <= L)
    <3>1. L \in Nat
      BY <1>1
    <3>2. CASE Len(cells) = 1
      BY <3>1, <3>2
    <3>3. CASE Len(cells) = 2
      BY <3>1, <3>3
    <3> QED BY <2>1, <3>2, <3>3
  <2>6. new[L+1] = cells[1]
    BY <2>4, <2>5
  <2>7. Len(cells) = 2 => L + 2 \in 1..(L + Len(cells)) /\ (L + 2) - L = 2 /\ ~(L + 2 <= L)
    BY <1>1
  <2>8. Len(cells) = 2 => new[L+2] = cells[2]
    BY <2>4, <2>7
  <2>9. \A i \in 1..L : i \in 1..(L + Len(cells)) /\ i <= L
    BY <1>1, <2>1
  <2>10. \A i \in 1..L : new[i] = old[i]
    BY <2>4, <2>9
  <2> QED BY <2>2, <2>3, <2>6, <2>8, <2>10 DEF L
<1>3. /\ cells[1].kind = "request" /\ Len(cells) \in {1, 2}
      /\ cells[1].op \in {"write", "read"} => cells[1].pages # <<>>
      /\ cells[1].op = "write" => Len(cells) = 2
      /\ Len(cells) = 2 => cells[2].kind = "data" /\ cells[2].val = l
  BY DEF Message
<1>4. ds[k].open = cs[k].open /\ ~ds[k].shut
  BY DEF Extended
<1>. HIDE DEF old, new, L
<1>5. \A i \in Nat : Complete(ds[k], i)
  <2> SUFFICES ASSUME NEW i \in Nat, ds[k].open, i \in 1..Len(new), new[i].kind = "request"
               PROVE  /\ new[i].op \in {"write", "read"} => new[i].pages # <<>>
                      /\ new[i].op = "write" =>
                           IF i = Len(new) THEN ds[k].shut ELSE new[i+1].kind = "data"
    BY DEF Complete, new
  <2>1. CASE i \in 1..L
    <3>1. Complete(cs[k], i)
      BY <1>1 DEF Ordered
    <3>2. /\ old[i].op \in {"write", "read"} => old[i].pages # <<>>
          /\ old[i].op = "write" => i # L /\ old[i+1].kind = "data"
      BY <1>2, <1>4, <2>1, <3>1 DEF Complete, old, L
    <3>3. i # L => i + 1 \in 1..L /\ i # Len(new)
      <4>1. PICK a, b, d : a = L /\ b = Len(new) /\ d = Len(cells)
        OBVIOUS
      <4>2. a \in Nat
        BY <1>1, <4>1
      <4>3. b = a + d
        BY <1>2, <4>1
      <4>4. d \in {1, 2}
        BY <1>3, <4>1
      <4>5. i # a => i + 1 \in 1..a /\ i # b
        BY <2>1, <4>1, <4>2, <4>3, <4>4
      <4> QED BY <4>1, <4>5
    <3> QED BY <1>2, <2>1, <3>2, <3>3
  <2>2. CASE i = L + 1
    <3>1. Len(cells) = 2 => i # Len(new) /\ new[i+1] = cells[2]
      <4>1. Len(cells) = 2 => i # Len(new) /\ i + 1 = L + 2
        BY <1>1, <1>2, <2>2
      <4> QED BY <1>2, <4>1
    <3>2. new[i] = cells[1]
      BY <1>2, <2>2
    <3> QED BY <1>3, <3>1, <3>2
  <2>3. CASE i = L + 2
    <3>1. Len(cells) = 2
      BY <1>1, <1>2, <1>3, <2>3
    <3> QED BY <1>2, <1>3, <2>3, <3>1
  <2>4. i \in 1..L \/ i = L + 1 \/ i = L + 2
    BY <1>1, <1>2, <1>3
  <2> QED BY <2>1, <2>2, <2>3, <2>4
<1>6. \A c \in 1..Len(ds) : \A i \in Nat :
         Written(ds[c], i) =>
            \/ Written(cs[c], i) /\ ds[c].in[i].val = cs[c].in[i].val /\ cs[c].in[i].val \in Nat
               /\ (c = k => i \in 1..L)
            \/ c = k /\ i = L + 2 /\ ds[c].in[i].val = l
  <2> SUFFICES ASSUME NEW c \in 1..Len(ds), NEW i \in Nat, Written(ds[c], i)
               PROVE \/ /\ Written(cs[c], i) /\ ds[c].in[i].val = cs[c].in[i].val
                        /\ cs[c].in[i].val \in Nat /\ (c = k => i \in 1..L)
                     \/ c = k /\ i = L + 2 /\ ds[c].in[i].val = l
    OBVIOUS
  <2>1. \A x \in Connection : Written(x, i) => x.in[i].val \in Nat
    BY ConnectionFields, CellFields DEF Written
  <2>2. CASE c # k
    BY <1>1, <2>1, <2>2
  <2>3. CASE c = k
    <3>1. i \in 1..Len(new) /\ new[i].kind = "data" /\ ds[k].open
      BY <2>3 DEF Written, new
    <3>2. i \in 1..L \/ i = L + 1 \/ i = L + 2
      BY <1>1, <1>2, <1>3, <3>1
    <3>3. CASE i \in 1..L
      <4>1. Written(cs[k], i) /\ new[i].val = old[i].val
        BY <1>2, <1>4, <3>1, <3>3 DEF Written, old, L
      <4> QED BY <1>1, <2>1, <2>3, <3>3, <4>1 DEF new, old
    <3>4. CASE i = L + 1
      BY <1>2, <1>3, <3>1, <3>4
    <3>5. CASE i = L + 2
      <4>1. Len(cells) = 2
        BY <1>1, <1>2, <1>3, <3>1, <3>5
      <4> QED BY <1>2, <1>3, <2>3, <3>5, <4>1 DEF new
    <3> QED BY <3>2, <3>3, <3>4, <3>5
  <2> QED BY <2>2, <2>3
<1>7. \A p \in Pages : m[p] \in Nat /\ m[p] <= n
  BY DEF Ordered, Versions
<1>8. \A c \in 1..Len(ds) : \A i \in Nat : Complete(ds[c], i)
  <2> SUFFICES ASSUME NEW c \in 1..Len(ds), NEW i \in Nat PROVE Complete(ds[c], i)
    OBVIOUS
  <2>1. CASE c = k
    BY <1>5, <2>1
  <2>2. CASE c # k
    BY <1>1, <2>2 DEF Ordered
  <2> QED BY <2>1, <2>2
<1>9. \A c \in 1..Len(ds) : \A i \in Nat :
         Written(ds[c], i) => /\ ds[c].in[i].val <= l
                              /\ \A p \in Pages : m[p] <= ds[c].in[i].val
  <2> SUFFICES ASSUME NEW c \in 1..Len(ds), NEW i \in Nat, Written(ds[c], i)
               PROVE  ds[c].in[i].val <= l /\ \A p \in Pages : m[p] <= ds[c].in[i].val
    OBVIOUS
  <2>1. CASE Written(cs[c], i) /\ ds[c].in[i].val = cs[c].in[i].val /\ cs[c].in[i].val \in Nat
    <3>1. cs[c].in[i].val <= n /\ \A p \in Pages : m[p] <= cs[c].in[i].val
      BY <2>1 DEF Ordered
    <3> QED BY <2>1, <3>1
  <2>2. CASE ds[c].in[i].val = l
    BY <1>7, <2>2
  <2> QED BY <1>6, <2>1, <2>2
<1>10. \A c, d \in 1..Len(ds) : \A i, j \in Nat :
          Written(ds[c], i) /\ Written(ds[d], j) /\ Before(c, i, d, j)
            => ds[c].in[i].val <= ds[d].in[j].val
  <2> SUFFICES ASSUME NEW c \in 1..Len(ds), NEW d \in 1..Len(ds), NEW i \in Nat, NEW j \in Nat,
                      Written(ds[c], i), Written(ds[d], j), Before(c, i, d, j)
               PROVE  ds[c].in[i].val <= ds[d].in[j].val
    OBVIOUS
  <2>1. CASE d = k /\ j = L + 2 /\ ds[d].in[j].val = l
    <3>1. ds[c].in[i].val <= l
      BY <1>9
    <3> QED BY <2>1, <3>1
  <2>2. CASE /\ Written(cs[d], j) /\ ds[d].in[j].val = cs[d].in[j].val
             /\ (d = k => j \in 1..L)
    <3>1. ~(c = k /\ i = L + 2)
      BY <1>1, <2>2 DEF Before
    <3>2. Written(cs[c], i) /\ ds[c].in[i].val = cs[c].in[i].val
      BY <1>6, <3>1
    <3> QED BY <2>2, <3>2 DEF Ordered
  <2> QED BY <1>6, <2>1, <2>2
<1>11. \A p \in Pages : m[p] <= l
  BY <1>7
<1> QED
  BY <1>8, <1>9, <1>10, <1>11 DEF Ordered

\* The daemon writes what heads the oldest connection it serves.
LEMMA OrderedServed ==
  ASSUME NEW cs \in Seq(Connection), NEW ds \in Seq(Connection), Len(ds) = Len(cs),
         NEW c \in 1..Len(cs), NEW m \in Versions, NEW n \in Nat, Ordered(cs, m, n),
         cs[c].open, \A d \in 1..(c-1) : ~cs[d].open,
         Len(cs[c].in) > 1, cs[c].in[1].kind = "request", cs[c].in[1].op = "write",
         \A d \in 1..Len(cs) : d # c => ds[d] = cs[d],
         Shrunk(ds[c], cs[c], 2), ds[c].open, ds[c].shut = cs[c].shut,
         NEW p \in Pages
  PROVE  LET v == cs[c].in[2].val IN
         /\ v \in Nat /\ v <= n /\ \A q \in Pages : m[q] <= v
         /\ Ordered(ds, [m EXCEPT ![p] = v], n)
<1>. DEFINE v == cs[c].in[2].val
            m2 == [m EXCEPT ![p] = v]
<1>1. Len(cs) \in Nat /\ \A d \in 1..Len(cs) : cs[d] \in Connection /\ ds[d] \in Connection
  BY LenProperties, ElementOfSeq
<1>2. Written(cs[c], 2) /\ v \in Nat
  <2>1. Len(cs[c].in) \in Nat /\ \A i \in 1..Len(cs[c].in) : cs[c].in[i] \in InCell
    BY <1>1, ConnectionFields
  <2>2. Complete(cs[c], 1)
    BY DEF Ordered
  <2>3. cs[c].in[2].kind = "data"
    BY <2>1, <2>2 DEF Complete
  <2> QED BY <2>1, <2>3, CellFields DEF Written
<1>3. v <= n /\ \A q \in Pages : m[q] <= v
  BY <1>2 DEF Ordered
<1>4. Ordered(ds, m, n)
  <2>1. \A d \in 1..Len(cs) : Remains(ds[d], cs[d])
    <3> SUFFICES ASSUME NEW d \in 1..Len(cs) PROVE Remains(ds[d], cs[d])
      OBVIOUS
    <3>1. CASE d = c
      BY <3>1 DEF Remains
    <3>2. CASE d # c
      <4>1. Len(cs[d].in) \in Nat
        BY <1>1, ConnectionFields
      <4>2. Shrunk(cs[d], cs[d], 0)
        BY <4>1 DEF Shrunk
      <4> QED BY <3>2, <4>2 DEF Remains
    <3> QED BY <3>1, <3>2
  <2> QED BY <2>1, OrderedShrunk
<1>5. \A d \in 1..Len(ds) : \A i \in Nat : Written(ds[d], i) => v <= ds[d].in[i].val
  <2> SUFFICES ASSUME NEW d \in 1..Len(ds), NEW i \in Nat, Written(ds[d], i)
               PROVE  v <= ds[d].in[i].val
    OBVIOUS
  <2>1. CASE d = c
    <3>1. i + 2 \in Nat /\ Written(cs[c], i+2) /\ ds[c].in[i].val = cs[c].in[i+2].val
      BY <1>1, <2>1, ShrunkCell
    <3>2. Before(c, 2, c, i+2)
      BY DEF Before
    <3> QED BY <1>2, <2>1, <3>1, <3>2 DEF Ordered
  <2>2. CASE d # c
    <3>1. Written(cs[d], i) /\ ds[d].in[i].val = cs[d].in[i].val
      BY <2>2
    <3>2. c < d
      BY <1>1, <2>2, <3>1 DEF Written
    <3> QED BY <1>2, <3>1, <3>2 DEF Ordered, Before
  <2> QED BY <2>1, <2>2
<1>6. \A q \in Pages : m2[q] = IF q = p THEN v ELSE m[q]
  BY DEF Versions
<1>. HIDE DEF v, m2
<1>7. \A d \in 1..Len(ds) : \A i \in Nat :
         Written(ds[d], i) => ds[d].in[i].val <= n /\ \A q \in Pages : m2[q] <= ds[d].in[i].val
  BY <1>4, <1>5, <1>6 DEF Ordered
<1>8. \A q \in Pages : m2[q] <= n
  BY <1>3, <1>4, <1>6 DEF Ordered
<1>9. Ordered(ds, m2, n)
  BY <1>4, <1>7, <1>8 DEF Ordered
<1> QED
  BY <1>2, <1>3, <1>9 DEF v, m2

-----------------------------------------------------------------------------
(***************************************************************************)
(* What each kind of step makes of the connections.                        *)
(***************************************************************************)

\* The connection i is replaced by c.
LEMMA Replaced ==
  ASSUME NEW cs \in Seq(Connection), NEW i \in 1..Len(cs), NEW c \in Connection
  PROVE  LET ds == [cs EXCEPT ![i] = c] IN
         /\ ds \in Seq(Connection) /\ Len(ds) = Len(cs) /\ ds[i] = c
         /\ \A j \in 1..Len(cs) : j # i => ds[j] = cs[j]
BY ExceptSeq

\* Reading some cells and losing none, or losing some at the end.
LEMMA SuffixShrunk ==
  ASSUME NEW a \in Connection, NEW b \in Connection, NEW n \in 0..Len(b.in),
         a.in = SubSeq(b.in, n + 1, Len(b.in)), a.shut = b.shut, a.open = b.open
  PROVE  Shrunk(a, b, n) /\ Remains(a, b) /\ Len(a.in) = Len(b.in) - n
<1>. DEFINE L == Len(b.in)
<1>1. L \in Nat /\ b.in \in Seq(InCell) /\ n \in Nat /\ n <= L
  BY ConnectionFields
<1>2. \A i \in (n+1)..L : b.in[i] \in InCell
  <2>1. \A i \in (n+1)..L : i \in 1..L
    BY <1>1
  <2> QED BY <2>1, ConnectionFields
<1>. HIDE DEF L
<1>3. /\ Len(SubSeq(b.in, n+1, L)) = IF n + 1 <= L THEN L - (n+1) + 1 ELSE 0
      /\ \A i \in 1..(L - (n+1) + 1) : SubSeq(b.in, n+1, L)[i] = b.in[(n+1)+i-1]
  BY <1>1, <1>2, SubSeqProperties
<1>4. Len(a.in) = L - n
  <2>1. Len(a.in) = IF n + 1 <= L THEN L - (n+1) + 1 ELSE 0
    BY <1>3 DEF L
  <2> QED BY <1>1, <2>1
<1>5. \A i \in 1..Len(a.in) : a.in[i] = b.in[i+n]
  <2> SUFFICES ASSUME NEW i \in 1..Len(a.in) PROVE a.in[i] = b.in[i+n]
    OBVIOUS
  <2>1. i \in 1..(L - (n+1) + 1) /\ (n+1)+i-1 = i + n
    BY <1>1, <1>4
  <2>2. SubSeq(b.in, n+1, L)[i] = b.in[(n+1)+i-1]
    BY <1>3, <2>1
  <2> QED BY <2>1, <2>2 DEF L
<1>6. Shrunk(a, b, n)
  BY <1>1, <1>4, <1>5 DEF Shrunk, L
<1> QED
  BY <1>1, <1>4, <1>6 DEF Remains, L

\* A connection that the client closes: the cells at its end may be lost.
LEMMA PrefixShrunk ==
  ASSUME NEW a \in Connection, NEW b \in Connection, NEW n \in 0..Len(b.in),
         a.in = SubSeq(b.in, 1, n), a.shut, a.open = b.open
  PROVE  Remains(a, b)
<1>. DEFINE L == Len(b.in)
<1>1. L \in Nat /\ b.in \in Seq(InCell) /\ n \in Nat /\ n <= L
  BY ConnectionFields
<1>2. \A i \in 1..n : b.in[i] \in InCell
  <2>1. \A i \in 1..n : i \in 1..L
    BY <1>1
  <2> QED BY <2>1, ConnectionFields
<1>3. /\ Len(SubSeq(b.in, 1, n)) = IF 1 <= n THEN n - 1 + 1 ELSE 0
      /\ \A i \in 1..(n - 1 + 1) : SubSeq(b.in, 1, n)[i] = b.in[1+i-1]
  BY <1>1, <1>2, SubSeqProperties
<1>4. Len(a.in) = n
  BY <1>1, <1>3
<1>5. \A i \in 1..Len(a.in) : a.in[i] = b.in[i+0]
  <2> SUFFICES ASSUME NEW i \in 1..n PROVE a.in[i] = b.in[i]
    BY <1>1, <1>4
  <2>1. i \in 1..(n - 1 + 1) /\ 1+i-1 = i
    BY <1>1
  <2>2. SubSeq(b.in, 1, n)[i] = b.in[1+i-1]
    BY <1>3, <2>1
  <2> QED BY <2>1, <2>2
<1>6. Shrunk(a, b, 0)
  BY <1>1, <1>4, <1>5 DEF Shrunk, L
<1> QED
  BY <1>6 DEF Remains

\* A connection that keeps its cells, and one that has ended.
LEMMA SameRemains ==
  ASSUME NEW a \in Connection, NEW b \in Connection, b.shut => a.shut
  PROVE  /\ a.in = b.in /\ a.open = b.open => Remains(a, b)
         /\ ~a.open => Remains(a, b)
<1>1. Len(b.in) \in Nat
  BY ConnectionFields
<1>2. a.in = b.in => Shrunk(a, b, 0)
  BY <1>1 DEF Shrunk
<1> QED
  BY <1>2 DEF Remains

\* The connections of the next state, where they are as many and none has gained
\* a cell: types and order are kept.
LEMMA KeptInOrder ==
  ASSUME NEW cs \in Seq(Connection), NEW ds \in Seq(Connection), Len(ds) = Len(cs),
         NEW k \in 1..Len(cs), Remains(ds[k], cs[k]),
         \A c \in 1..Len(cs) : c # k => ds[c] = cs[c],
         NEW m, NEW n, Ordered(cs, m, n)
  PROVE  Ordered(ds, m, n)
<1>1. ASSUME NEW c \in 1..Len(cs) PROVE Remains(ds[c], cs[c])
  <2>1. ds[c] \in Connection /\ cs[c] \in Connection
    BY ElementOfSeq
  <2>2. CASE c = k
    BY <2>2
  <2>3. CASE c # k
    BY <2>1, <2>3, SameRemains
  <2> QED BY <2>2, <2>3
<1> QED
  BY <1>1, OrderedShrunk

\* A connection on which a message is on its way.
LEMMA FreshConnection ==
  ASSUME NEW cells \in Seq(InCell)
  PROVE  /\ Fresh(cells) \in Connection /\ Fresh(cells).in = cells
         /\ Fresh(cells).out = <<>> /\ Fresh(cells).open /\ ~Fresh(cells).shut
BY DEF Fresh, Connection

\* The order does not depend on how many calls were made since.
LEMMA OrderedLater ==
  ASSUME NEW cs \in Seq(Connection), NEW m \in Versions, NEW n \in Nat, Ordered(cs, m, n)
  PROVE  Ordered(cs, m, n + 1)
<1>1. \A c \in 1..Len(cs) : \A i \in Nat : Written(cs[c], i) => cs[c].in[i].val \in Nat
  BY ElementOfSeq, ConnectionFields, CellFields DEF Written
<1>2. \A p \in Pages : m[p] \in Nat
  BY DEF Versions
<1> QED
  BY <1>1, <1>2 DEF Ordered

\* A new connection with what is sent on it.
LEMMA OrderedOpened ==
  ASSUME NEW cs \in Seq(Connection), NEW m \in Versions, NEW n \in Nat, Ordered(cs, m, n),
         NEW cells, Message(cells, n + 1)
  PROVE  LET ds == Append(cs, Fresh(cells)) IN
         /\ ds \in Seq(Connection) /\ Len(ds) = Len(cs) + 1
         /\ ds[Len(cs) + 1] = Fresh(cells)
         /\ \A c \in 1..Len(cs) : ds[c] = cs[c]
         /\ Ordered(ds, m, n + 1)
<1>1. cells \in Seq(InCell) /\ <<>> \in Seq(InCell) /\ Len(cs) \in Nat
  BY LenProperties DEF Message
<1>. DEFINE es == Append(cs, Fresh(<<>>))
            ds == Append(cs, Fresh(cells))
            k == Len(cs) + 1
<1>0. /\ Fresh(<<>>) \in Connection /\ Fresh(<<>>).in = <<>>
      /\ Fresh(<<>>).open /\ ~Fresh(<<>>).shut
  BY <1>1, FreshConnection, Zenon
<1>2. /\ es \in Seq(Connection) /\ Len(es) = k /\ es[k] = Fresh(<<>>)
      /\ \A c \in 1..Len(cs) : es[c] = cs[c]
  <2>. DEFINE f == Fresh(<<>>)
  <2>1. f \in Connection
    BY <1>0
  <2>. HIDE DEF f
  <2>2. /\ Append(cs, f) \in Seq(Connection) /\ Len(Append(cs, f)) = k
        /\ Append(cs, f)[k] = f /\ \A c \in 1..Len(cs) : Append(cs, f)[c] = cs[c]
    BY <2>1, AppendProperties
  <2> QED BY <2>2 DEF f
<1>3. /\ ds \in Seq(Connection) /\ Len(ds) = k /\ ds[k] = Fresh(cells)
      /\ \A c \in 1..Len(cs) : ds[c] = cs[c]
  BY <1>1, FreshConnection, AppendProperties
<1>4. Ordered(es, m, n)
  BY <1>0, OrderedGrown
<1>5. \A c \in 1..k : c # k => c \in 1..Len(cs)
  BY <1>1
<1>6. k # 0
  BY <1>1
<1>7. Extended(Fresh(cells), Fresh(<<>>), cells)
  <2>1. <<>> \o cells = cells
    BY <1>1, ConcatEmptySeq
  <2> QED BY <2>1 DEF Extended, Fresh
<1>. HIDE DEF es, ds, k
<1>8. \A c \in 1..k : c # k => ds[c] = es[c]
  BY <1>2, <1>3, <1>5
<1>9. Ordered(ds, m, n + 1)
  <2>1. ~es[k].shut
    BY <1>0, <1>2
  <2>2. Extended(ds[k], es[k], cells)
    BY <1>2, <1>3, <1>7
  <2>3. n + 1 \in Nat /\ n <= n + 1
    OBVIOUS
  <2> QED BY <1>2, <1>3, <1>4, <1>6, <1>8, <2>1, <2>2, <2>3, OrderedSent
<1> QED
  BY <1>3, <1>9 DEF ds, k

\* A call sends its message, on a new connection or on the old one.
LEMMA SendStep ==
  ASSUME Types, Sockets, WritesInOrder, Free, NEW cells, Message(cells, calls + 1), Send(cells)
  PROVE  /\ conn' \in Seq(Connection) /\ Len(conn') <= MaxConns
         /\ sock' = Len(conn') /\ sock' # 0 /\ ~conn'[sock'].shut
         /\ spoiled' \in BOOLEAN
         /\ Ordered(conn', cache, calls + 1)
         /\ sock = 0 => conn'[sock'] = Fresh(cells)
         /\ sock # 0 => /\ sock' = sock /\ spoiled' = spoiled
                        /\ Extended(conn'[sock], conn[sock], cells) \/ ~conn[sock].open
                        /\ conn'[sock].out = conn[sock].out
                        /\ conn'[sock].open = conn[sock].open
                        /\ ~conn[sock].open => conn'[sock] = conn[sock]
<1>1. /\ conn \in Seq(Connection) /\ Len(conn) <= MaxConns /\ Len(conn) \in Nat
      /\ calls \in Nat /\ cache \in Versions /\ spoiled \in BOOLEAN
      /\ Ordered(conn, cache, calls) /\ MaxConns \in Nat
  BY LenProperties, ProtocolAssumption DEF Types, WritesInOrder
<1>2. cells \in Seq(InCell)
  BY DEF Message
<1>3. CASE sock = 0
  <2>1. /\ conn' = Append(conn, Fresh(cells)) /\ sock' = Len(conn) + 1
        /\ spoiled' = FALSE /\ Len(conn) < MaxConns
    BY <1>3 DEF Send, CanConnect
  <2>2. /\ conn' \in Seq(Connection) /\ Len(conn') = Len(conn) + 1
        /\ conn'[Len(conn) + 1] = Fresh(cells)
        /\ Ordered(conn', cache, calls + 1)
    BY <1>1, <2>1, OrderedOpened
  <2>3. ~Fresh(cells).shut
    BY <1>2, FreshConnection
  <2>4. /\ Len(conn') <= MaxConns /\ sock' = Len(conn') /\ sock' # 0
        /\ conn'[sock'] = Fresh(cells)
    BY <1>1, <2>1, <2>2
  <2> QED BY <1>3, <2>1, <2>2, <2>3, <2>4
<1>4. CASE sock # 0
  <2>1. /\ sock = Len(conn) /\ sock \in 1..Len(conn) /\ ~conn[sock].shut
        /\ sock' = sock /\ spoiled' = spoiled /\ conn[sock] \in Connection
    BY <1>1, <1>4, ElementOfSeq DEF Sockets, Send, Free
  <2>2. CASE conn[sock].open
    <3>. DEFINE c == [conn[sock] EXCEPT !.in = @ \o cells]
    <3>1. conn' = [conn EXCEPT ![sock] = c]
      BY <1>4, <2>2 DEF Send
    <3>2. conn[sock].in \in Seq(InCell) /\ conn[sock].in \o cells \in Seq(InCell)
      BY <1>2, <2>1, ConnectionFields, ConcatProperties
    <3>3. /\ c \in Connection /\ Extended(c, conn[sock], cells)
          /\ c.out = conn[sock].out
      BY <2>1, <3>2 DEF Connection, Extended
    <3>. HIDE DEF c
    <3>4. /\ conn' \in Seq(Connection) /\ Len(conn') = Len(conn) /\ conn'[sock] = c
          /\ \A j \in 1..Len(conn) : j # sock => conn'[j] = conn[j]
      BY <1>1, <2>1, <3>1, <3>3, Replaced
    <3>0. calls + 1 \in Nat /\ calls <= calls + 1
      BY <1>1
    <3>5. Ordered(conn', cache, calls + 1)
      BY <3>0, <1>1, <1>4, <2>1, <3>3, <3>4, OrderedSent
    <3> QED BY <1>1, <1>4, <2>1, <2>2, <3>3, <3>4, <3>5 DEF Extended
  <2>3. CASE ~conn[sock].open
    <3>1. conn' = conn
      BY <1>4, <2>3 DEF Send
    <3>2. Ordered(conn', cache, calls + 1)
      BY <1>1, <3>1, OrderedLater
    <3> QED BY <1>1, <1>4, <2>1, <2>3, <3>1, <3>2
  <2> QED BY <2>2, <2>3
<1> QED
  BY <1>3, <1>4

\* The client reads a cell of the reply.
LEMMA ConsumeStep ==
  ASSUME Types, Sockets, sock # 0, conn[sock].out # <<>>, Consume,
         NEW m, NEW n, Ordered(conn, m, n)
  PROVE  /\ conn' \in Seq(Connection) /\ Len(conn') = Len(conn) /\ sock \in 1..Len(conn)
         /\ conn'[sock].out = Tail(conn[sock].out) /\ conn'[sock].in = conn[sock].in
         /\ conn'[sock].open = conn[sock].open /\ conn'[sock].shut = conn[sock].shut
         /\ \A j \in 1..Len(conn) : j # sock => conn'[j] = conn[j]
         /\ conn[sock].out \in Seq(OutCell) /\ Next1 \in OutCell
         /\ Ordered(conn', m, n)
<1>1. /\ conn \in Seq(Connection) /\ sock \in 1..Len(conn) /\ conn[sock] \in Connection
  BY LenProperties, ElementOfSeq DEF Types, Sockets
<1>2. /\ conn[sock].out \in Seq(OutCell) /\ Next1 \in OutCell
      /\ Tail(conn[sock].out) \in Seq(OutCell)
  BY <1>1, ConnectionFields, HeadTailProperties DEF Next1
<1>. DEFINE c == [conn[sock] EXCEPT !.out = Tail(@)]
<1>3. conn' = [conn EXCEPT ![sock] = c]
  BY DEF Consume
<1>4. /\ c \in Connection /\ c.out = Tail(conn[sock].out) /\ c.in = conn[sock].in
      /\ c.open = conn[sock].open /\ c.shut = conn[sock].shut
  BY <1>1, <1>2 DEF Connection
<1>. HIDE DEF c
<1>5. /\ conn' \in Seq(Connection) /\ Len(conn') = Len(conn) /\ conn'[sock] = c
      /\ \A j \in 1..Len(conn) : j # sock => conn'[j] = conn[j]
  BY <1>1, <1>3, <1>4, Replaced
<1>6. Remains(conn'[sock], conn[sock])
  BY <1>1, <1>4, <1>5, SameRemains
<1>7. Ordered(conn', m, n)
  BY <1>1, <1>5, <1>6, KeptInOrder
<1> QED
  BY <1>1, <1>2, <1>4, <1>5, <1>7

\* The client closes its end.
LEMMA CloseStep ==
  ASSUME NEW b \in Connection, NEW a \in ClosedEnds(b)
  PROVE  a \in Connection /\ a.shut /\ a.open = b.open /\ Remains(a, b)
<1>1. PICK n \in 0..Len(b.in) : a = [b EXCEPT !.shut = TRUE, !.in = SubSeq(@, 1, n)]
  BY DEF ClosedEnds
<1>2. /\ b.in \in Seq(InCell) /\ Len(b.in) \in Nat /\ n \in Int
      /\ \A i \in 1..Len(b.in) : b.in[i] \in InCell
  BY ConnectionFields
<1>3. SubSeq(b.in, 1, n) \in Seq(InCell)
  <2>1. \A i \in 1..n : b.in[i] \in InCell
    BY <1>1, <1>2
  <2> QED BY <1>2, <2>1, SubSeqProperties
<1>4. /\ a \in Connection /\ a.shut /\ a.open = b.open
      /\ a.in = SubSeq(b.in, 1, n)
  BY <1>1, <1>3 DEF Connection
<1> QED
  BY <1>1, <1>4, PrefixShrunk

-----------------------------------------------------------------------------
(***************************************************************************)
(* Types, the socket and the order of the writes: every step keeps them.   *)
(***************************************************************************)

\* At the start nothing is on its way and no page was written.
LEMMA InitBase == Init => Base
<1> SUFFICES ASSUME Init PROVE Base
  OBVIOUS
<1>1. /\ conn = <<>> /\ Len(conn) = 0 /\ conn \in Seq(Connection) /\ sock = 0
      /\ spoiled \in BOOLEAN /\ up \in BOOLEAN /\ proc = "none" /\ calls = 0 /\ call = Idle
      /\ cache = [p \in Pages |-> 0] /\ disk = cache
  <2>1. conn = <<>>
    BY DEF Init
  <2>2. Len(conn) = 0 /\ conn \in Seq(Connection)
    BY <2>1, EmptySeq
  <2> QED BY <2>1, <2>2 DEF Init
<1>2. cache \in Versions /\ disk \in Versions /\ \A p \in Pages : cache[p] = 0 /\ disk[p] = 0
  BY <1>1 DEF Versions
<1>3. Types
  BY <1>1, <1>2, IdleFormed, ProtocolAssumption DEF Types
<1>4. Sockets
  BY <1>1, IdleFormed DEF Sockets, Receiving
<1>5. Ordered(conn, cache, calls)
  <2>1. 1..Len(conn) = {}
    BY <1>1
  <2> QED BY <1>1, <1>2, <2>1 DEF Ordered
<1> QED
  BY <1>1, <1>2, <1>3, <1>4, <1>5 DEF Base, WritesInOrder

\* A step of the machine: the client's side of each connection stays as it is.
LEMMA MachineBase ==
  ASSUME Base, UNCHANGED <<sock, spoiled, call, calls>>,
         up' \in BOOLEAN, proc' \in {"none", "alive", "dead"},
         conn' \in Seq(Connection), Len(conn') = Len(conn),
         \A j \in 1..Len(conn) : conn'[j].shut = conn[j].shut,
         cache' \in Versions, disk' \in Versions,
         Ordered(conn', cache', calls), \A p \in Pages : disk'[p] <= calls
  PROVE  Base'
<1>1. Types'
  BY DEF Base, Types
<1>2. Sockets'
  <2>1. Len(conn) \in Nat
    BY LenProperties DEF Base, Types
  <2>2. sock' = sock /\ call' = call /\ (sock # 0 => sock \in 1..Len(conn))
    BY <2>1 DEF Base, Sockets
  <2> QED BY <2>2 DEF Base, Sockets, Receiving
<1>3. WritesInOrder'
  BY DEF WritesInOrder
<1> QED
  BY <1>1, <1>2, <1>3 DEF Base

\* A step of the client in a call: it reads, or it gives up.
LEMMA ClientBase ==
  ASSUME Base, UNCHANGED <<calls, server, sock>>, Formed(call', calls), spoiled' \in BOOLEAN,
         conn' \in Seq(Connection), Len(conn') = Len(conn),
         sock # 0 => conn'[sock].shut = conn[sock].shut,
         Receiving, call'.step # "wait", Ordered(conn', cache, calls)
  PROVE  Base'
<1>1. Types'
  BY DEF Base, Types, server
<1>2. Sockets'
  BY DEF Base, Sockets, Receiving
<1>3. WritesInOrder'
  BY DEF Base, WritesInOrder, server
<1> QED
  BY <1>1, <1>2, <1>3 DEF Base

\* Messages of one cell and of two.
LEMMA OneCell ==
  ASSUME NEW r \in InCell, NEW n, r.kind = "request", r.op # "write",
         r.op = "read" => r.pages # <<>>
  PROVE  Message(<<r>> \o <<>>, n) /\ <<r>> \o <<>> = <<r>>
<1>1. <<r>> \in Seq(InCell) /\ Len(<<r>>) = 1 /\ <<r>>[1] = r
  BY Tuples
<1>2. <<r>> \o <<>> = <<r>>
  BY <1>1, ConcatEmptySeq
<1> QED
  BY <1>1, <1>2 DEF Message

\* Two cells sent one after the other.
LEMMA Joined ==
  ASSUME NEW S, NEW a \in S, NEW b \in S
  PROVE  <<a>> \o <<b>> = <<a, b>>
<1>1. <<a>> \in Seq(S) /\ Append(<<a>>, b) = <<a, b>>
  BY Tuples
<1> QED
  BY <1>1, AppendIsConcat

\* The message of a write: the request and its data.
LEMMA TwoCells ==
  ASSUME NEW r \in InCell, NEW n \in Nat, r.kind = "request",
         r.op \in {"write", "read"} => r.pages # <<>>
  PROVE  Message(<<r>> \o <<Data(n)>>, n) /\ <<r>> \o <<Data(n)>> = <<r, Data(n)>>
<1>. DEFINE d == Data(n)
<1>1. d \in InCell /\ d.kind = "data" /\ d.val = n
  BY Cells
<1>. HIDE DEF d
<1>2. <<r, d>> \in Seq(InCell) /\ Len(<<r, d>>) = 2 /\ <<r, d>>[1] = r /\ <<r, d>>[2] = d
  BY <1>1, Tuples
<1>3. <<r>> \o <<d>> = <<r, d>>
  BY <1>1, Joined
<1>4. Message(<<r, d>>, n)
  BY <1>1, <1>2 DEF Message
<1> QED
  BY <1>3, <1>4 DEF d

\* A call that asks the daemon for something.
LEMMA AskStep ==
  ASSUME Base, NEW op \in Asking, op # "boot", NEW ps \in Seq(Pages), NEW payload,
         Ask(op, ps, payload),
         op \in {"write", "bigwrite", "read"} => Len(ps) = 1,
         op \in {"batch", "topk"} => ps # <<>>, op \in Probes => ps = <<>>,
         IF op \in {"write", "bigwrite"} THEN payload = <<Data(calls+1)>> ELSE payload = <<>>
  PROVE  /\ Base' /\ Free /\ call'.step = "header" /\ call'.got = Nothing
         /\ Message(Sent(call'), calls + 1) /\ Send(Sent(call')) /\ UNCHANGED <<result, server>>
<1>1. Types /\ Sockets /\ WritesInOrder /\ calls \in Nat /\ op \in Ops
  BY DEF Base, Types, Ops
<1>2. Begin(op, ps, "header") /\ Send(<<Request(op, ps)>> \o payload)
  BY DEF Ask
<1>3. /\ Free /\ calls' = calls + 1 /\ calls' \in Nat
      /\ Formed(call', calls')
      /\ call'.op = op /\ call'.pages = ps /\ call'.id = calls + 1 /\ call'.step = "header"
      /\ call'.got = Nothing
      /\ UNCHANGED <<result, server>>
  <2>1. "header" \in {"header", "launch", "wait"} /\ op \in Asking
    OBVIOUS
  <2> QED BY <1>1, <1>2, <2>1, BeginFormed
<1>. DEFINE r == Request(op, ps)
<1>4. r \in InCell /\ r.kind = "request" /\ r.op = op /\ r.pages = ps
  BY <1>1, Cells
<1>5. op \in {"write", "read"} => ps # <<>>
  BY EmptySeq
<1>. HIDE DEF r
<1>6. Message(<<r>> \o payload, calls + 1)
  <2>1. CASE op \in {"write", "bigwrite"}
    <3>1. calls + 1 \in Nat /\ payload = <<Data(calls+1)>>
      BY <1>1, <2>1
    <3> QED BY <1>4, <1>5, <3>1, TwoCells
  <2>2. CASE op \notin {"write", "bigwrite"}
    BY <1>4, <1>5, <2>2, OneCell
  <2> QED BY <2>1, <2>2
<1>7. <<r>> \o payload = Sent(call')
  <2>1. Wire(op) = op
    BY DEF Wire
  <2>2. Sent(call') = IF op \in {"write", "bigwrite"} THEN <<Request(op, ps), Data(calls+1)>>
                ELSE <<Request(Wire(op), ps)>>
    BY <1>3 DEF Sent, Wire
  <2>3. CASE op \in {"write", "bigwrite"}
    <3>1. <<r>> \o <<Data(calls+1)>> = <<r, Data(calls+1)>>
      BY <1>1, <1>4, <1>5, TwoCells
    <3> QED BY <2>2, <2>3, <3>1 DEF r
  <2>4. CASE op \notin {"write", "bigwrite"}
    <3>1. <<r>> \o <<>> = <<r>>
      BY <1>4, <1>5, <2>4, OneCell
    <3> QED BY <2>1, <2>2, <2>4, <3>1 DEF r
  <2> QED BY <2>3, <2>4
<1>8. Message(Sent(call'), calls + 1) /\ Send(Sent(call'))
  BY <1>2, <1>6, <1>7 DEF r
<1>9. /\ conn' \in Seq(Connection) /\ Len(conn') <= MaxConns
      /\ sock' = Len(conn') /\ sock' # 0 /\ ~conn'[sock'].shut
      /\ spoiled' \in BOOLEAN /\ Ordered(conn', cache, calls + 1)
  BY <1>1, <1>3, <1>8, SendStep
<1>10. Types'
  BY <1>1, <1>3, <1>9 DEF Types, server
<1>11. Sockets'
  BY <1>3, <1>9 DEF Sockets, Receiving
<1>12. WritesInOrder'
  <2>1. \A p \in Pages : disk[p] <= calls + 1
    BY <1>1 DEF WritesInOrder, Types, Versions
  <2> QED BY <1>3, <1>9, <2>1 DEF WritesInOrder, server
<1> QED
  BY <1>3, <1>8, <1>10, <1>11, <1>12 DEF Base

\* Every call but those that start or stop the machine.
LEMMA AskSteps ==
  ASSUME Base, 
         \/ \E p \in Pages : Write(p) \/ WriteBig(p) \/ Read(p)
         \/ \E ps \in Batches : ReadBatch(ps) \/ ComputeTopK(ps)
         \/ IsAlive \/ Flush \/ Ask("start", <<>>, <<>>)
  PROVE  /\ Base' /\ Free /\ call'.step = "header" /\ call'.got = Nothing
         /\ Message(Sent(call'), calls + 1) /\ Send(Sent(call')) /\ UNCHANGED <<result, server>>
<1>1. \A p \in Pages : <<p>> \in Seq(Pages) /\ Len(<<p>>) = 1
  BY Tuples
<1>2. \A ps \in Batches : ps \in Seq(Pages) /\ ps # <<>>
  BY ProtocolAssumption
<1>3. <<>> \in Seq(Pages)
  OBVIOUS
<1>4. \A op \in Asking : op \in Asking
  OBVIOUS
<1>5. ASSUME NEW p \in Pages, Write(p) \/ WriteBig(p) \/ Read(p)
      PROVE  /\ Base' /\ Free /\ call'.step = "header" /\ call'.got = Nothing
             /\ Message(Sent(call'), calls + 1) /\ Send(Sent(call')) /\ UNCHANGED <<result, server>>
  <2>1. PICK op \in {"write", "bigwrite", "read"} :
           Ask(op, <<p>>, IF op = "read" THEN <<>> ELSE <<Data(calls+1)>>)
    BY <1>5 DEF Write, WriteBig, Read
  <2>2. op \in Asking /\ op # "boot" /\ op \notin Probes
    BY DEF Asking, Probes
  <2> QED BY <1>1, <2>1, <2>2, AskStep
<1>6. ASSUME NEW ps \in Batches, ReadBatch(ps) \/ ComputeTopK(ps)
      PROVE  /\ Base' /\ Free /\ call'.step = "header" /\ call'.got = Nothing
             /\ Message(Sent(call'), calls + 1) /\ Send(Sent(call')) /\ UNCHANGED <<result, server>>
  <2>1. PICK op \in {"batch", "topk"} : Ask(op, ps, <<>>)
    BY <1>6 DEF ReadBatch, ComputeTopK
  <2>2. op \in Asking /\ op # "boot" /\ op \notin Probes
    BY DEF Asking, Probes
  <2> QED BY <1>2, <2>1, <2>2, AskStep
<1>7. ASSUME IsAlive \/ Flush \/ Ask("start", <<>>, <<>>)
      PROVE  /\ Base' /\ Free /\ call'.step = "header" /\ call'.got = Nothing
             /\ Message(Sent(call'), calls + 1) /\ Send(Sent(call')) /\ UNCHANGED <<result, server>>
  <2>1. PICK op \in {"ping", "flush", "start"} : Ask(op, <<>>, <<>>)
    BY <1>7 DEF IsAlive, Flush
  <2>2. op \in Asking /\ op # "boot"
    BY DEF Asking
  <2> QED BY <1>3, <2>1, <2>2, AskStep
<1> QED
  BY <1>5, <1>6, <1>7

\* The header of a reply that is good and has a body.
LEMMA BodyFormed ==
  ASSUME Types, call.step = "header", Next1 \in OutCell, Good(Next1), HasBody(Next1),
         call' = [call EXCEPT !.step = "body", !.left = Next1.len]
  PROVE  /\ Formed(call', calls) /\ call'.step = "body" /\ call'.left = Next1.len
         /\ call'.op = call.op /\ call'.pages = call.pages /\ call'.got = Nothing
<1>1. call \in CallRecord /\ Formed(call, calls)
  BY DEF Types, Formed
<1>. DEFINE n == Next1.len
<1>2. n \in Nat /\ n # 0 /\ call.op \in {"read", "batch", "topk"}
  BY CellFields DEF Good, HasBody
<1>. HIDE DEF n
<1>3. call' = [call EXCEPT !.step = "body", !.left = n]
  BY DEF n
<1>4. /\ call' \in CallRecord /\ call'.step = "body" /\ call'.left = n
      /\ call'.op = call.op /\ call'.pages = call.pages /\ call'.got = call.got
      /\ call'.id = call.id
  BY <1>1, <1>2, <1>3 DEF CallRecord
<1>5. call.got = Nothing
  BY <1>1 DEF Formed
<1>6. Formed(call', calls)
  BY <1>1, <1>2, <1>4 DEF Formed, Asking, Probes
<1> QED
  BY <1>4, <1>5, <1>6 DEF n

\* The header of an item that can be read.
LEMMA ItemFormed ==
  ASSUME Types, call.step = "body", call.op = "batch", NEW p \in Pages,
         call' = [call EXCEPT !.step = "data", !.page = p]
  PROVE  /\ Formed(call', calls) /\ call'.step = "data" /\ call'.page = p
         /\ call'.op = "batch" /\ call'.pages = call.pages /\ call'.got = call.got
         /\ call'.left = call.left
<1>1. call \in CallRecord /\ Formed(call, calls)
  BY DEF Types, Formed
<1>2. /\ call' \in CallRecord /\ call'.step = "data" /\ call'.page = p
      /\ call'.op = call.op /\ call'.pages = call.pages /\ call'.got = call.got
      /\ call'.id = call.id /\ call'.left = call.left
  BY <1>1 DEF CallRecord
<1> QED
  BY <1>1, <1>2 DEF Formed, Asking, Probes

\* What a step of the client that reads a cell does to the call.
LEMMA ReadCall ==
  ASSUME Base, RecvHeader \/ RecvPage \/ RecvWinner \/ RecvItem \/ RecvItemData
  PROVE  /\ sock # 0 /\ conn[sock].out # <<>> /\ Consume
         /\ Formed(call', calls) /\ spoiled' \in BOOLEAN
         /\ call'.step \notin {"header", "wait"}
         /\ UNCHANGED <<sock, calls, server>>
<1>1. Types /\ Sockets /\ Formed(call, calls) /\ call \in CallRecord /\ spoiled \in BOOLEAN
  BY DEF Base, Types, Formed
<1>2. /\ sock # 0 /\ conn[sock].out # <<>> /\ Consume /\ Receiving
      /\ UNCHANGED <<sock, calls, server>>
  BY <1>1 DEF RecvHeader, RecvPage, RecvWinner, RecvItem, RecvItemData, Awaiting, Sockets,
              Receiving
<1>3. Next1 \in OutCell
  BY <1>1, <1>2, ConsumeStep DEF Base, WritesInOrder
<1>4. spoiled' \in BOOLEAN
  BY <1>1 DEF RecvHeader, RecvPage, RecvWinner, RecvItem, RecvItemData
<1>5. CASE RecvHeader
  <2>1. call.step = "header"
    BY <1>5 DEF RecvHeader, Awaiting
  <2>2. CASE Good(Next1) /\ HasBody(Next1)
             /\ call' = [call EXCEPT !.step = "body", !.left = Next1.len]
    <3>1. Formed(call', calls) /\ call'.step = "body"
      BY <1>1, <1>3, <2>1, <2>2, BodyFormed
    <3> QED BY <1>2, <1>4, <3>1
  <2>3. CASE Return(Nothing)
    BY <1>1, <1>2, <1>4, <2>3, ReturnFormed, NothingType
  <2>4. CASE Fail
    BY <1>1, <1>2, <1>4, <2>4, FailFormed
  <2> QED BY <1>5, <2>2, <2>3, <2>4 DEF RecvHeader
<1>6. CASE RecvPage
  <2>1. /\ call.step = "body" /\ call.op = "read" /\ Len(call.pages) = 1
        /\ Received(call.pages[1], Content(Next1))
    BY <1>1, <1>6 DEF RecvPage, Awaiting, Formed
  <2>2. call.pages[1] \in Pages \union {NoPage} /\ Content(Next1) \in Val
    BY <1>1, <1>3, <2>1, CellFields, ElementOfSeq DEF CallRecord
  <2>3. Formed(call', calls) /\ call'.step \in {"idle", "body"}
    BY <1>1, <2>1, <2>2, ReceivedFormed
  <2> QED BY <1>2, <1>4, <2>3
<1>7. CASE RecvWinner
  <2>1. /\ call.step = "body" /\ call.op = "topk"
        /\ Received(IF Next1.kind = "winner" THEN Next1.page ELSE NoPage, Content(Next1))
    BY <1>7 DEF RecvWinner, Awaiting
  <2>2. /\ (IF Next1.kind = "winner" THEN Next1.page ELSE NoPage) \in Pages \union {NoPage}
        /\ Content(Next1) \in Val
    BY <1>3, CellFields
  <2>3. Formed(call', calls) /\ call'.step \in {"idle", "body"}
    BY <1>1, <2>1, <2>2, ReceivedFormed
  <2> QED BY <1>2, <1>4, <2>3
<1>8. CASE RecvItem
  <2>1. call.step = "body" /\ call.op = "batch"
    BY <1>8 DEF RecvItem, Awaiting
  <2>2. CASE Fail
    BY <1>1, <1>2, <1>4, <2>2, FailFormed
  <2>3. CASE /\ Next1.kind = "item" /\ Next1.ok
             /\ call' = [call EXCEPT !.step = "data", !.page = Next1.page]
    <3>1. Next1.page \in Pages
      BY <1>3, <2>3, CellFields
    <3>2. Formed(call', calls) /\ call'.step = "data"
      BY <1>1, <2>1, <2>3, <3>1, ItemFormed
    <3> QED BY <1>2, <1>4, <3>2
  <2> QED BY <1>8, <2>2, <2>3 DEF RecvItem
<1>9. CASE RecvItemData
  <2>1. call.step = "data" /\ Received(call.page, Content(Next1))
    BY <1>9 DEF RecvItemData, Awaiting
  <2>2. call.page \in Pages \union {NoPage} /\ Content(Next1) \in Val /\ call.op # "none"
    BY <1>1, <1>3, <2>1, CellFields DEF CallRecord, Formed
  <2>3. Formed(call', calls) /\ call'.step \in {"idle", "body"}
    BY <1>1, <2>1, <2>2, ReceivedFormed
  <2> QED BY <1>2, <1>4, <2>3
<1> QED
  BY <1>5, <1>6, <1>7, <1>8, <1>9

\* The client reads a cell, times out or finds the connection gone.
LEMMA ReceiveBase ==
  ASSUME Base, Receive
  PROVE  Base'
<1>1. Types /\ Sockets /\ Ordered(conn, cache, calls) /\ conn \in Seq(Connection)
  BY DEF Base, Types, WritesInOrder
<1>2. CASE RecvHeader \/ RecvPage \/ RecvWinner \/ RecvItem \/ RecvItemData
  <2>1. /\ sock # 0 /\ conn[sock].out # <<>> /\ Consume
        /\ Formed(call', calls) /\ spoiled' \in BOOLEAN
        /\ call'.step \notin {"header", "wait"}
        /\ UNCHANGED <<sock, calls, server>>
    BY <1>2, ReadCall
  <2>2. /\ conn' \in Seq(Connection) /\ Len(conn') = Len(conn)
        /\ conn'[sock].shut = conn[sock].shut /\ Ordered(conn', cache, calls)
    BY <1>1, <2>1, ConsumeStep
  <2>3. Receiving
    BY <1>2 DEF RecvHeader, RecvPage, RecvWinner, RecvItem, RecvItemData, Awaiting, Receiving
  <2> QED BY <2>1, <2>2, <2>3, ClientBase
<1>3. CASE Timeout \/ Reset
  <2>1. /\ Receiving /\ Fail /\ UNCHANGED <<conn, sock, calls, server>> /\ spoiled' \in BOOLEAN
    BY <1>1, <1>3 DEF Timeout, Reset, Types
  <2>2. Formed(call', calls) /\ call'.step \notin {"header", "body", "data", "wait"}
    BY <1>1, <2>1, FailFormed
  <2> QED BY <1>1, <2>1, <2>2, ClientBase
<1> QED
  BY <1>2, <1>3 DEF Receive

\* stop_qemu and the end of start_qemu close the socket.
LEMMA HangupStep ==
  ASSUME Base, Hangup
  PROVE  /\ sock' = 0 /\ spoiled' \in BOOLEAN /\ conn' \in Seq(Connection)
         /\ Len(conn') = Len(conn) /\ Ordered(conn', cache, calls)
<1>1. /\ conn \in Seq(Connection) /\ Ordered(conn, cache, calls) /\ Len(conn) \in Nat
      /\ cache \in Versions /\ calls \in Nat
      /\ ~Unusable => sock # 0 /\ sock = Len(conn) /\ sock \in 1..Len(conn) /\ ~conn[sock].shut
  BY LenProperties DEF Base, Types, WritesInOrder, Sockets, Unusable
<1>2. sock' = 0 /\ spoiled' \in BOOLEAN
  BY DEF Hangup
<1>3. CASE Unusable
  BY <1>1, <1>2, <1>3 DEF Hangup
<1>4. CASE ~Unusable
  <2>. DEFINE b == [conn[sock] EXCEPT !.in = Append(@, Request("shutdown", <<>>))]
              es == [conn EXCEPT ![sock] = b]
              r == Request("shutdown", <<>>)
  <2>1. r \in InCell /\ r.kind = "request" /\ r.op = "shutdown"
    <3>1. PICK op \in Ops : op = "shutdown"
      BY DEF Ops
    <3> QED BY <3>1, EmptyRequest
  <2>2. conn[sock] \in Connection /\ conn[sock].in \in Seq(InCell)
    BY <1>1, <1>4, ElementOfSeq, ConnectionFields
  <2>3. PICK a \in ClosedEnds(b) : conn' = [conn EXCEPT ![sock] = a]
    BY <1>4 DEF Hangup
  <2>4. b.in = Append(conn[sock].in, r) /\ b.open = conn[sock].open /\ b.shut = conn[sock].shut
    BY <2>2 DEF Connection
  <2>5. b \in Connection
    <3>. HIDE DEF r
    <3>1. Append(conn[sock].in, r) \in Seq(InCell)
      BY <2>1, <2>2, AppendProperties
    <3> QED BY <2>2, <3>1 DEF Connection, r
  <2>. HIDE DEF r, b
  <2>6. Extended(b, conn[sock], <<r>>) /\ Message(<<r>>, calls)
    <3>1. b.in = conn[sock].in \o <<r>>
      BY <2>1, <2>2, <2>4, AppendIsConcat
    <3>2. Message(<<r>>, calls)
      BY <2>1, OneCell
    <3> QED BY <2>4, <3>1, <3>2 DEF Extended
  <2>7. /\ es \in Seq(Connection) /\ Len(es) = Len(conn) /\ es[sock] = b
        /\ \A j \in 1..Len(conn) : j # sock => es[j] = conn[j]
    BY <1>1, <1>4, <2>5, Replaced
  <2>8. a \in Connection /\ Remains(a, b)
    BY <2>5, CloseStep
  <2>9. /\ conn' \in Seq(Connection) /\ Len(conn') = Len(conn) /\ conn'[sock] = a
        /\ \A j \in 1..Len(conn) : j # sock => conn'[j] = conn[j]
    BY <1>1, <1>4, <2>3, <2>8, Replaced
  <2>. HIDE DEF es
  <2>10. Ordered(es, cache, calls)
    BY <1>1, <1>4, <2>6, <2>7, OrderedSent
  <2>11. Ordered(conn', cache, calls)
    <3>1. \A j \in 1..Len(es) : j # sock => conn'[j] = es[j]
      BY <2>7, <2>9
    <3> QED BY <1>1, <1>4, <2>7, <2>8, <2>9, <2>10, <3>1, KeptInOrder
  <2> QED BY <1>2, <2>9, <2>11
<1> QED
  BY <1>3, <1>4

\* Starting and stopping the machine.
LEMMA StartFormed ==
  ASSUME Types, NEW op \in Probes, NEW st \in {"header", "dial", "wait"},
         st = "dial" => op = "boot", call.op \in Probes, call.got = Nothing,
         call' = [call EXCEPT !.op = op, !.step = st]
  PROVE  /\ Formed(call', calls) /\ call'.step = st /\ call'.op = op
         /\ call'.pages = <<>> /\ call'.got = Nothing
<1>1. call \in CallRecord /\ Formed(call, calls) /\ op \in Ops /\ op \in Asking
  BY DEF Types, Formed, Ops, Asking, Probes
<1>2. /\ call' \in CallRecord /\ call'.step = st /\ call'.op = op
      /\ call'.pages = call.pages /\ call'.got = call.got /\ call'.id = call.id
  BY <1>1 DEF CallRecord
<1> QED
  BY <1>1, <1>2 DEF Formed, Probes

\* The call of start_qemu between two of its probes.
LEMMA StartingCall ==
  ASSUME Types, call.step \in {"launch", "dial"}
  PROVE  /\ call \in CallRecord /\ call.op \in Probes /\ call.got = Nothing /\ call.pages = <<>>
         /\ call.step = "dial" => call.op = "boot"
BY DEF Types, Formed, Probes

\* connect() closes the socket, if it was not closed: some of the requests on it may be
\* lost, and nothing else changes.
LEMMA ClosingStep ==
  ASSUME Base, NEW old \in Closing
  PROVE  /\ old \in Seq(Connection) /\ Len(old) = Len(conn) /\ Ordered(old, cache, calls)
         /\ sock # 0 => /\ old[sock].out = conn[sock].out
                        /\ Mute(conn[sock]) => Mute(old[sock])
<1>1. /\ conn \in Seq(Connection) /\ Ordered(conn, cache, calls) /\ Len(conn) \in Nat
      /\ ~Unusable => sock # 0 /\ sock \in 1..Len(conn) /\ ~conn[sock].shut
  BY LenProperties DEF Base, Types, WritesInOrder, Sockets, Unusable
<1>2. CASE Unusable
  BY <1>1, <1>2 DEF Closing
<1>3. CASE ~Unusable
  <2>1. PICK a \in ClosedEnds(conn[sock]) : old = [conn EXCEPT ![sock] = a]
    BY <1>3 DEF Closing
  <2>2. conn[sock] \in Connection
    BY <1>1, <1>3, ElementOfSeq
  <2>3. a \in Connection /\ Remains(a, conn[sock]) /\ a.open = conn[sock].open
    BY <2>2, CloseStep
  <2>4. /\ old \in Seq(Connection) /\ Len(old) = Len(conn) /\ old[sock] = a
        /\ \A j \in 1..Len(conn) : j # sock => old[j] = conn[j]
    BY <1>1, <1>3, <2>1, <2>3, Replaced
  <2>5. Ordered(old, cache, calls)
    BY <1>1, <1>3, <2>3, <2>4, KeptInOrder
  <2>6. a.out = conn[sock].out /\ (Mute(conn[sock]) => Mute(a))
    <3>1. PICK n \in 0..Len(conn[sock].in) :
             a = [conn[sock] EXCEPT !.shut = TRUE, !.in = SubSeq(@, 1, n)]
      BY <2>1 DEF ClosedEnds
    <3>. DEFINE x == conn[sock].in
    <3>2. /\ a.out = conn[sock].out /\ a.in = SubSeq(x, 1, n)
          /\ x \in Seq(InCell) /\ Len(x) \in Nat /\ n \in 0..Len(x)
          /\ \A i \in 1..Len(x) : x[i] \in InCell
      BY <2>2, <3>1, ConnectionFields DEF Connection
    <3>. HIDE DEF x
    <3>3. CASE n = 0
      <4>1. a.in = <<>>
        BY <3>2, <3>3
      <4> QED BY <3>2, <4>1 DEF Mute
    <3>4. CASE n # 0
      <4>1. a.in # <<>> /\ a.in[1] = x[1] /\ x # <<>>
        BY <3>2, <3>4
      <4> QED BY <2>3, <3>2, <4>1 DEF Mute, x
    <3> QED BY <3>3, <3>4
  <2> QED BY <2>4, <2>5, <2>6
<1> QED
  BY <1>2, <1>3

\* A connect() that is refused leaves the closed socket, on which nothing is on its way.
LEMMA DialRefusedStep ==
  ASSUME Base, DialRefused
  PROVE  /\ Base' /\ UNCHANGED <<result, cache, sock, spoiled, call>>
         /\ call.step = "dial" /\ conn' \in Closing
<1>1. /\ call.step = "dial" /\ conn' \in Closing
      /\ UNCHANGED <<sock, spoiled, call, result, calls, up, proc, cache, disk>>
  BY DEF DialRefused, server
<1>2. conn' \in Seq(Connection) /\ Len(conn') = Len(conn) /\ Ordered(conn', cache, calls)
  BY <1>1, ClosingStep
<1>3. Types'
  BY <1>1, <1>2 DEF Base, Types
<1>4. Sockets'
  BY <1>1, <1>2 DEF Base, Sockets, Receiving
<1>5. WritesInOrder'
  BY <1>1, <1>2 DEF Base, WritesInOrder
<1> QED
  BY <1>1, <1>3, <1>4, <1>5 DEF Base

\* A call that finds no connection and gets none.
LEMMA RefusedStep ==
  ASSUME Base, Refused
  PROVE  /\ Base' /\ sock = 0 /\ UNCHANGED <<conn, sock, spoiled, call, cache>>
<1>1. /\ sock = 0 /\ calls' = calls + 1 /\ UNCHANGED <<conn, sock, spoiled, call, server>>
  BY DEF Refused, Unconnected, Called
<1>2. /\ Types /\ Sockets /\ calls \in Nat /\ calls' \in Nat
      /\ conn \in Seq(Connection) /\ cache \in Versions /\ Ordered(conn, cache, calls)
  BY <1>1 DEF Base, Types, WritesInOrder
<1>3. Ordered(conn, cache, calls + 1) /\ \A p \in Pages : disk[p] <= calls + 1
  BY <1>2, OrderedLater DEF Base, WritesInOrder, Types, Versions
<1>4. Formed(call', calls')
  <2>1. call.id <= calls + 1
    BY <1>2 DEF Types, Formed, CallRecord
  <2> QED BY <1>1, <1>2, <2>1 DEF Types, Formed
<1>5. Types'
  BY <1>1, <1>2, <1>4 DEF Types, server
<1>6. Sockets'
  BY <1>1, <1>2 DEF Sockets, Receiving
<1>7. WritesInOrder'
  BY <1>1, <1>3 DEF WritesInOrder, server
<1> QED
  BY <1>1, <1>5, <1>6, <1>7 DEF Base, server

\* Dial: the old connection is closed and the ping goes out on a new one.
LEMMA DialStep ==
  ASSUME Base, Dial
  PROVE  /\ Base'
         /\ call'.step = "header" /\ call'.got = Nothing /\ spoiled' = FALSE
         /\ sock' # 0 /\ conn'[sock'] = Fresh(<<Request("ping", <<>>)>>)
         /\ call'.op = "boot" /\ call'.pages = <<>>
<1>1. /\ conn \in Seq(Connection) /\ Ordered(conn, cache, calls) /\ Len(conn) \in Nat
      /\ cache \in Versions /\ calls \in Nat /\ Types /\ MaxConns \in Nat
  BY LenProperties, ProtocolAssumption DEF Base, Types, WritesInOrder
<1>2. /\ call.step = "dial" /\ call' = [call EXCEPT !.step = "header"]
      /\ sock' = Len(conn) + 1 /\ spoiled' = FALSE
      /\ UNCHANGED <<result, calls, server>> /\ Len(conn) < MaxConns
  BY DEF Dial, CanConnect
<1>3. call \in CallRecord /\ call.op \in Probes /\ call.got = Nothing /\ call.op = "boot"
  BY <1>1, <1>2, StartingCall
<1>4. /\ Formed(call', calls) /\ call'.step = "header" /\ call'.op = call.op
      /\ call'.pages = <<>> /\ call'.got = Nothing
  <2>1. call' = [call EXCEPT !.op = call.op, !.step = "header"]
    BY <1>2, <1>3 DEF CallRecord
  <2> QED BY <1>1, <1>3, <2>1, StartFormed
<1>. DEFINE r == Request("ping", <<>>)
<1>5. r \in InCell /\ Message(<<r>>, calls + 1) /\ <<r>> \in Seq(InCell)
  <2>1. PICK op \in Ops : op = "ping"
    BY DEF Ops, Asking
  <2>2. r \in InCell /\ r.kind = "request" /\ r.op = "ping"
    BY <2>1, EmptyRequest
  <2>. HIDE DEF r
  <2> QED BY <2>2, OneCell, Tuples
<1>6. PICK old \in Closing : conn' = Append(old, Fresh(<<r>>))
  BY DEF Dial
<1>. HIDE DEF r
<1>7. old \in Seq(Connection) /\ Len(old) = Len(conn) /\ Ordered(old, cache, calls)
  BY <1>6, ClosingStep
<1>8. /\ conn' \in Seq(Connection) /\ Len(conn') = Len(conn) + 1
      /\ conn'[Len(conn) + 1] = Fresh(<<r>>)
      /\ Ordered(conn', cache, calls)
  <2>. DEFINE f == Fresh(<<>>)
              es == Append(old, f)
  <2>0. <<>> \in Seq(InCell)
    OBVIOUS
  <2>1. f \in Connection /\ f.in = <<>> /\ ~f.shut
    BY <2>0, FreshConnection, Zenon
  <2>2. Fresh(<<r>>) \in Connection
    BY <1>5, FreshConnection
  <2>3. Extended(Fresh(<<r>>), f, <<r>>)
    <3>1. <<>> \o <<r>> = <<r>>
      BY <1>5, ConcatEmptySeq
    <3> QED BY <3>1 DEF Extended, Fresh
  <2>. HIDE DEF f
  <2>4. /\ es \in Seq(Connection) /\ Len(es) = Len(conn) + 1 /\ es[Len(conn)+1] = f
        /\ \A c \in 1..Len(conn) : es[c] = old[c]
    BY <1>7, <2>1, AppendProperties
  <2>5. /\ conn' \in Seq(Connection) /\ Len(conn') = Len(conn) + 1
        /\ conn'[Len(conn)+1] = Fresh(<<r>>)
        /\ \A c \in 1..Len(conn) : conn'[c] = old[c]
    BY <1>6, <1>7, <2>2, AppendProperties
  <2>6. Ordered(es, cache, calls)
    BY <1>7, <2>1, OrderedGrown
  <2>. HIDE DEF es
  <2>. DEFINE k == Len(conn) + 1
  <2>7. k # 0 /\ \A c \in 1..k : c # k => c \in 1..Len(conn)
    BY <1>1
  <2>8. Message(<<r>>, calls)
    BY <1>5 DEF Message
  <2>9. \A c \in 1..k : c # k => conn'[c] = es[c]
    BY <2>4, <2>5, <2>7
  <2>10. Ordered(conn', cache, calls)
    <3>1. Len(es) = k /\ Len(conn') = k /\ es[k] = f /\ conn'[k] = Fresh(<<r>>)
      BY <2>4, <2>5
    <3>2. calls <= calls
      BY <1>1
    <3>. HIDE DEF k
    <3> QED BY <1>1, <2>1, <2>3, <2>4, <2>5, <2>6, <2>7, <2>8, <2>9, <3>1, <3>2, OrderedSent, SMTT(30)
  <2> QED BY <2>5, <2>10
<1>9. ~Fresh(<<r>>).shut
  BY DEF Fresh
<1>10. Types'
  <2>1. Len(conn') <= MaxConns
    BY <1>1, <1>2, <1>8
  <2>2. UNCHANGED <<calls, up, proc, cache, disk>>
    BY <1>2 DEF server
  <2> QED BY <1>1, <1>2, <1>4, <1>8, <2>1, <2>2 DEF Types
<1>11. Sockets'
  BY <1>1, <1>2, <1>4, <1>8, <1>9 DEF Sockets, Receiving
<1>12. WritesInOrder'
  BY <1>2, <1>8 DEF Base, WritesInOrder, server
<1> QED
  BY <1>1, <1>2, <1>3, <1>4, <1>8, <1>10, <1>11, <1>12 DEF Base, r

\* The machine dies, or ends: every connection with it.
LEMMA DeathStep ==
  ASSUME Base, NEW kept \in BOOLEAN, conn' = [c \in DOMAIN conn |-> Dead(conn[c], kept)]
  PROVE  /\ conn' \in Seq(Connection) /\ Len(conn') = Len(conn)
         /\ \A c \in 1..Len(conn) :
              /\ conn'[c].shut = conn[c].shut /\ ~conn'[c].open /\ conn'[c].in = <<>>
              /\ conn'[c].out = IF kept THEN conn[c].out ELSE <<>>
         /\ \A m, n : (\A p \in Pages : m[p] <= n) => Ordered(conn', m, n)
<1>1. conn \in Seq(Connection) /\ Len(conn) \in Nat /\ DOMAIN conn = 1..Len(conn)
  BY LenProperties DEF Base, Types
<1>2. ASSUME NEW c \in 1..Len(conn)
      PROVE  /\ Dead(conn[c], kept) \in Connection /\ Dead(conn[c], kept).shut = conn[c].shut
             /\ ~Dead(conn[c], kept).open /\ Dead(conn[c], kept).in = <<>>
             /\ Dead(conn[c], kept).out = IF kept THEN conn[c].out ELSE <<>>
  <2>. DEFINE o == IF kept THEN conn[c].out ELSE <<>>
              x == conn[c]
  <2>1. x \in Connection
    BY <1>1, ElementOfSeq
  <2>2. o \in Seq(OutCell) /\ <<>> \in Seq(InCell)
    BY <2>1, ConnectionFields
  <2>3. Dead(x, kept) = [x EXCEPT !.open = FALSE, !.in = <<>>, !.out = o]
    BY <2>1 DEF Dead
  <2>. HIDE DEF x, o
  <2>4. /\ Dead(x, kept) \in Connection /\ Dead(x, kept).shut = x.shut
        /\ ~Dead(x, kept).open /\ Dead(x, kept).in = <<>> /\ Dead(x, kept).out = o
    BY <2>1, <2>2, <2>3 DEF Connection
  <2> QED BY <2>4 DEF x, o
<1>3. /\ conn' \in [1..Len(conn) -> Connection]
      /\ \A c \in 1..Len(conn) : conn'[c] = Dead(conn[c], kept)
  BY <1>1, <1>2
<1>4. conn' \in Seq(Connection) /\ Len(conn') = Len(conn)
  BY <1>1, <1>3
<1>5. \A c \in 1..Len(conn') : ~conn'[c].open
  BY <1>2, <1>3, <1>4
<1>6. ASSUME NEW m, NEW n, \A p \in Pages : m[p] <= n
      PROVE  Ordered(conn', m, n)
  BY <1>5, <1>6 DEF Ordered, Complete, Written
<1> QED
  BY <1>2, <1>3, <1>4, <1>6

\* The machine dies: every connection ends, and the pages go back to the image's.
LEMMA DieBase ==
  ASSUME Base, Die, UNCHANGED <<sock, spoiled, calls, disk>>,
         proc' \in {"none", "alive", "dead"}, Formed(call', calls),
         call'.step \in {"header", "body", "data"} => Receiving,
         call'.step = "wait" => call.step = "wait",
         sock # 0 /\ call.step = "dial" => call'.step = "dial"
  PROVE  Base'
<1>1. PICK kept \in BOOLEAN : conn' = [c \in DOMAIN conn |-> Dead(conn[c], kept)]
  BY DEF Die
<1>2. /\ conn' \in Seq(Connection) /\ Len(conn') = Len(conn)
      /\ \A c \in 1..Len(conn) : conn'[c].shut = conn[c].shut
      /\ Ordered(conn', disk, calls)
  BY <1>1, DeathStep DEF Base, WritesInOrder
<1>3. cache' = disk /\ up' = FALSE
  BY DEF Die
<1>4. Types'
  BY <1>2, <1>3 DEF Base, Types
<1>5. Sockets'
  <2>1. sock # 0 => sock \in 1..Len(conn)
    BY LenProperties DEF Base, Types, Sockets
  <2> QED BY <1>2, <2>1 DEF Base, Sockets, Receiving
<1>6. WritesInOrder'
  BY <1>2, <1>3 DEF Base, WritesInOrder
<1> QED
  BY <1>4, <1>5, <1>6 DEF Base

\* start_qemu and stop_qemu.
LEMMA MachineCallBase ==
  ASSUME Base, \/ sock = 0 /\ ~up /\ Begin("start", <<>>, "launch")
                  /\ UNCHANGED <<conn, sock, spoiled>>
               \/ Launch \/ GiveUp \/ Stopped \/ StopQemu
  PROVE  Base' /\ call'.step \notin {"header", "body", "data"}
<1>1. /\ Types /\ Sockets /\ calls \in Nat /\ conn \in Seq(Connection) /\ Len(conn) \in Nat
      /\ Ordered(conn, cache, calls) /\ cache \in Versions
  BY LenProperties DEF Base, Types, WritesInOrder
<1>2. <<>> \in Seq(Pages)
  OBVIOUS
<1>3. CASE sock = 0 /\ ~up /\ Begin("start", <<>>, "launch") /\ UNCHANGED <<conn, sock, spoiled>>
  <2>1. /\ calls' = calls + 1 /\ calls' \in Nat /\ Formed(call', calls') /\ call'.step = "launch"
        /\ UNCHANGED <<result, server>>
    <3>1. PICK op \in {"start"} : Begin(op, <<>>, "launch")
      BY <1>3
    <3>2. op \in Ops /\ op \in Probes
      BY DEF Ops, Asking, Probes
    <3> QED BY <1>1, <1>2, <3>1, <3>2, BeginFormed
  <2>2. Ordered(conn, cache, calls + 1) /\ \A p \in Pages : disk[p] <= calls + 1
    BY <1>1, OrderedLater DEF Base, WritesInOrder, Types, Versions
  <2>3. Types'
    BY <1>1, <1>3, <2>1 DEF Types, server
  <2>4. Sockets'
    BY <1>1, <1>3, <2>1 DEF Sockets, Receiving
  <2>5. WritesInOrder'
    BY <1>3, <2>1, <2>2 DEF WritesInOrder, server
  <2> QED BY <2>1, <2>3, <2>4, <2>5 DEF Base
<1>4. CASE Launch
  <2>1. /\ call.step = "launch" /\ proc' \in {"dead", "alive"} /\ up' \in BOOLEAN
        /\ call' = [call EXCEPT !.op = "boot", !.step = "dial"]
        /\ UNCHANGED <<conn, sock, spoiled, result, calls, cache, disk, crashes>>
    BY <1>1, <1>4 DEF Launch, Types
  <2>2. Formed(call', calls) /\ call'.step = "dial"
    <3>1. "boot" \in Probes
      BY DEF Probes
    <3> QED BY <1>1, <2>1, <3>1, StartingCall, StartFormed
  <2>3. Types'
    BY <1>1, <2>1, <2>2 DEF Types
  <2>4. Sockets'
    BY <1>1, <2>1, <2>2 DEF Sockets, Receiving
  <2>5. WritesInOrder'
    BY <2>1 DEF Base, WritesInOrder
  <2> QED BY <2>2, <2>3, <2>4, <2>5 DEF Base
<1>5. CASE GiveUp
  <2>1. /\ call.step = "dial" /\ Hangup /\ call' = [call EXCEPT !.step = "wait"]
        /\ UNCHANGED <<result, calls, server>>
    BY <1>5 DEF GiveUp
  <2>2. Formed(call', calls) /\ call'.step = "wait"
    <3>1. call \in CallRecord /\ call.op \in Probes /\ call.got = Nothing
      BY <1>1, <2>1, StartingCall
    <3>2. call' = [call EXCEPT !.op = call.op, !.step = "wait"]
      BY <2>1, <3>1 DEF CallRecord
    <3> QED BY <1>1, <3>1, <3>2, StartFormed
  <2>3. /\ sock' = 0 /\ spoiled' \in BOOLEAN /\ conn' \in Seq(Connection)
        /\ Len(conn') = Len(conn) /\ Ordered(conn', cache, calls)
    BY <2>1, HangupStep
  <2>4. Types'
    BY <1>1, <2>1, <2>2, <2>3 DEF Types, server
  <2>5. Sockets'
    BY <2>2, <2>3 DEF Sockets, Receiving
  <2>6. WritesInOrder'
    BY <2>1, <2>3 DEF Base, WritesInOrder, server
  <2> QED BY <2>2, <2>4, <2>5, <2>6 DEF Base
<1>6. CASE Stopped
  <2>1. /\ call.step = "wait" /\ sock = 0 /\ call' = Idle /\ proc' = "none"
        /\ UNCHANGED <<sock, spoiled, calls, disk, crashes>>
    BY <1>1, <1>6 DEF Stopped, End, Sockets
  <2>2. Formed(call', calls) /\ call'.step = "idle"
    BY <1>1, <2>1, IdleFormed
  <2>3. CASE UNCHANGED <<conn, up, cache>>
    <3>1. Types'
      BY <1>1, <2>1, <2>2, <2>3 DEF Types
    <3>2. Sockets'
      BY <1>1, <2>1, <2>2, <2>3 DEF Sockets, Receiving
    <3>3. WritesInOrder'
      BY <2>1, <2>3 DEF Base, WritesInOrder
    <3> QED BY <2>2, <3>1, <3>2, <3>3 DEF Base
  <2>4. CASE Die
    BY <2>1, <2>2, <2>4, DieBase
  <2> QED BY <1>6, <2>3, <2>4 DEF Stopped
<1>7. CASE StopQemu
  <2>1. Begin("stop", <<>>, "wait") /\ Hangup
    BY <1>7 DEF StopQemu
  <2>2. /\ calls' = calls + 1 /\ calls' \in Nat /\ Formed(call', calls') /\ call'.step = "wait"
        /\ UNCHANGED <<result, server>>
    <3>1. PICK op \in {"stop"} : Begin(op, <<>>, "wait")
      BY <2>1
    <3>2. op \in Ops /\ op \notin Probes
      BY DEF Ops, Asking, Probes
    <3> QED BY <1>1, <1>2, <3>1, <3>2, BeginFormed
  <2>3. /\ sock' = 0 /\ spoiled' \in BOOLEAN /\ conn' \in Seq(Connection)
        /\ Len(conn') = Len(conn) /\ Ordered(conn', cache, calls)
    BY <2>1, HangupStep
  <2>4. Ordered(conn', cache, calls + 1) /\ \A p \in Pages : disk[p] <= calls + 1
    BY <1>1, <2>3, OrderedLater DEF Base, WritesInOrder, Types, Versions
  <2>5. Types'
    BY <1>1, <2>2, <2>3 DEF Types, server
  <2>6. Sockets'
    BY <2>2, <2>3 DEF Sockets, Receiving
  <2>7. WritesInOrder'
    BY <2>2, <2>4 DEF WritesInOrder, server
  <2> QED BY <2>2, <2>5, <2>6, <2>7 DEF Base
<1> QED
  BY <1>3, <1>4, <1>5, <1>6, <1>7

\* The daemon reads n cells of a request and answers.
LEMMA AnswerStep ==
  ASSUME Base, NEW c \in 1..Len(conn), NEW n \in 0..Len(conn[c].in), NEW cells \in Seq(OutCell),
         Answer(c, n, cells)
  PROVE  /\ conn' \in Seq(Connection) /\ Len(conn') = Len(conn)
         /\ conn'[c] \in Connection /\ conn[c] \in Connection
         /\ conn'[c].in = SubSeq(conn[c].in, n + 1, Len(conn[c].in))
         /\ conn'[c].out = conn[c].out \o cells
         /\ conn'[c].open = conn[c].open /\ conn'[c].shut = conn[c].shut
         /\ \A j \in 1..Len(conn) : j # c => conn'[j] = conn[j]
         /\ \A j \in 1..Len(conn) : conn'[j].shut = conn[j].shut /\ conn'[j].open = conn[j].open
         /\ Shrunk(conn'[c], conn[c], n)
         /\ Ordered(conn', cache, calls)
<1>1. /\ conn \in Seq(Connection) /\ conn[c] \in Connection /\ Ordered(conn, cache, calls)
      /\ conn[c].in \in Seq(InCell) /\ conn[c].out \in Seq(OutCell) /\ Len(conn[c].in) \in Nat
      /\ \A i \in 1..Len(conn[c].in) : conn[c].in[i] \in InCell
  BY ElementOfSeq, ConnectionFields DEF Base, Types, WritesInOrder
<1>. DEFINE i == SubSeq(conn[c].in, n + 1, Len(conn[c].in))
            o == conn[c].out \o cells
            x == [conn[c] EXCEPT !.in = i, !.out = o]
<1>2. o \in Seq(OutCell)
  BY <1>1, ConcatProperties
<1>3. i \in Seq(InCell)
  <2>1. \A j \in (n+1)..Len(conn[c].in) : j \in 1..Len(conn[c].in)
    BY <1>1
  <2>2. \A j \in (n+1)..Len(conn[c].in) : conn[c].in[j] \in InCell
    BY <1>1, <2>1
  <2> QED BY <1>1, <2>2, SubSeqProperties
<1>4. conn' = [conn EXCEPT ![c] = x]
  <2>1. conn' = [conn EXCEPT ![c].in = i, ![c].out = o]
    BY DEF Answer
  <2>. HIDE DEF i, o
  <2> QED BY <1>1, <2>1 DEF Connection
<1>. HIDE DEF i, o
<1>5. /\ x \in Connection /\ x.in = i /\ x.out = o /\ x.open = conn[c].open
      /\ x.shut = conn[c].shut
  BY <1>1, <1>2, <1>3 DEF Connection
<1>. HIDE DEF x
<1>6. /\ conn' \in Seq(Connection) /\ Len(conn') = Len(conn) /\ conn'[c] = x
      /\ \A j \in 1..Len(conn) : j # c => conn'[j] = conn[j]
  BY <1>1, <1>4, <1>5, Replaced
<1>7. Shrunk(x, conn[c], n) /\ Remains(x, conn[c])
  BY <1>1, <1>5, SuffixShrunk DEF i
<1>8. Ordered(conn', cache, calls)
  BY <1>1, <1>6, <1>7, KeptInOrder
<1> QED
  BY <1>1, <1>5, <1>6, <1>7, <1>8 DEF i, o

\* The requests that the daemon answers without changing a page.
Query(c) ==
  ServeBigWrite(c) \/ ServeRead(c) \/ ServeBatch(c) \/ ServeTopK(c) \/ ServePing(c) \/ ServeFlush(c)

\* An item of a batch, and the items of the list, are cells.
LEMMA ItemsType ==
  ASSUME NEW ps \in Seq(Pages), NEW m \in Versions
  PROVE  /\ Items(ps, m) \in Seq(OutCell)
         /\ ps = <<>> => Items(ps, m) = <<>>
         /\ ps # <<>> => Items(ps, m) = ItemCells(ps[1], m) \o Items(Tail(ps), m)
<1>. DEFINE seqs == [i \in DOMAIN ps |-> ItemCells(ps[i], m)]
<1>1. Len(ps) \in Nat /\ DOMAIN ps = 1..Len(ps) /\ \A i \in 1..Len(ps) : ps[i] \in Pages
  BY LenProperties, ElementOfSeq
<1>2. \A p \in Pages : ItemCells(p, m) \in Seq(OutCell)
  <2> SUFFICES ASSUME NEW p \in Pages PROVE ItemCells(p, m) \in Seq(OutCell)
    OBVIOUS
  <2>1. Item(p, FALSE) \in OutCell /\ Item(p, TRUE) \in OutCell /\ Data(m[p]) \in OutCell
    <3>1. m[p] \in Nat
      BY DEF Versions
    <3>2. \A b \in BOOLEAN : Item(p, b) \in OutCell
      BY Cells
    <3> QED BY <3>1, <3>2, Cells
  <2>2. <<Item(p, FALSE)>> \in Seq(OutCell)
    BY <2>1, Tuples
  <2>3. <<Item(p, TRUE), Data(m[p])>> \in Seq(OutCell)
    BY <2>1, Tuples
  <2> QED BY <2>2, <2>3 DEF ItemCells
<1>3. seqs \in Seq(Seq(OutCell)) /\ Len(seqs) = Len(ps) /\ Items(ps, m) = FlattenSeq(seqs)
  <2>1. seqs \in [1..Len(ps) -> Seq(OutCell)]
    BY <1>1, <1>2
  <2> QED BY <1>1, <2>1 DEF Items
<1>4. \A i \in 1..Len(ps) : seqs[i] = ItemCells(ps[i], m)
  BY <1>1
<1>. HIDE DEF seqs
<1>5. /\ FlattenSeq(<<>>) = <<>> /\ FlattenSeq(seqs) \in Seq(OutCell)
      /\ seqs # <<>> => FlattenSeq(seqs) = seqs[1] \o FlattenSeq(Tail(seqs))
  BY <1>3, FlattenFirst
<1>6. ps = <<>> => seqs = <<>>
  BY <1>1, <1>3, EmptySeq
<1>7. ASSUME ps # <<>>
      PROVE  Items(ps, m) = ItemCells(ps[1], m) \o Items(Tail(ps), m)
  <2>1. /\ Len(ps) # 0 /\ Tail(ps) \in Seq(Pages) /\ Len(Tail(ps)) = Len(ps) - 1
        /\ \A i \in 1..Len(Tail(ps)) : Tail(ps)[i] = ps[i+1]
    BY <1>7, EmptySeq, HeadTailProperties
  <2>2. seqs # <<>> /\ seqs[1] = ItemCells(ps[1], m)
    BY <1>1, <1>3, <1>4, <2>1, EmptySeq
  <2>3. Tail(seqs) \in Seq(Seq(OutCell)) /\ Len(Tail(seqs)) = Len(ps) - 1
        /\ \A i \in 1..Len(Tail(seqs)) : Tail(seqs)[i] = seqs[i+1]
    BY <1>3, <2>2, HeadTailProperties
  <2>. DEFINE t == [i \in DOMAIN Tail(ps) |-> ItemCells(Tail(ps)[i], m)]
  <2>4. DOMAIN Tail(ps) = 1..(Len(ps)-1) /\ \A i \in 1..(Len(ps)-1) : Tail(ps)[i] \in Pages
    BY <2>1, LenProperties, ElementOfSeq
  <2>5. t \in Seq(Seq(OutCell)) /\ Len(t) = Len(ps) - 1
    <3>1. Len(ps) - 1 \in Nat
      BY <1>1, <2>1
    <3>2. t \in [1..(Len(ps)-1) -> Seq(OutCell)]
      BY <1>2, <2>4
    <3> QED BY <3>1, <3>2
  <2>6. \A i \in 1..(Len(ps)-1) : t[i] = ItemCells(Tail(ps)[i], m)
    BY <2>4
  <2>. HIDE DEF t
  <2>7. \A i \in 1..(Len(ps)-1) : t[i] = Tail(seqs)[i]
    <3> SUFFICES ASSUME NEW i \in 1..(Len(ps)-1) PROVE t[i] = Tail(seqs)[i]
      OBVIOUS
    <3>1. i + 1 \in 1..Len(ps)
      BY <1>1
    <3>2. seqs[i+1] = ItemCells(ps[i+1], m)
      BY <1>4, <3>1
    <3>3. Tail(ps)[i] = ps[i+1] /\ Tail(seqs)[i] = seqs[i+1]
      BY <2>1, <2>3
    <3>4. t[i] = ItemCells(Tail(ps)[i], m)
      BY <2>6
    <3> QED BY <3>2, <3>3, <3>4, Zenon
  <2>8. t = Tail(seqs)
    BY <2>3, <2>5, <2>7, SeqEqual
  <2>9. Items(Tail(ps), m) = FlattenSeq(Tail(seqs))
    BY <2>8 DEF Items, t
  <2> QED BY <1>3, <1>5, <2>2, <2>9
<1> QED
  BY <1>3, <1>5, <1>6, <1>7

\* A request that the daemon takes.
LEMMA AskedRequest ==
  ASSUME Base, NEW c \in 1..Len(conn), NEW op, Asked(c, op)
  PROVE  /\ conn[c].open /\ \A d \in 1..(c-1) : ~conn[d].open
         /\ conn[c] \in Connection /\ conn[c].in \in Seq(InCell)
         /\ Len(conn[c].in) \in Nat /\ 1 \in 0..Len(conn[c].in)
         /\ Head(conn[c].in) = conn[c].in[1]
         /\ conn[c].in[1].kind = "request" /\ conn[c].in[1].op = op
         /\ Named(c) = conn[c].in[1].pages /\ Named(c) \in Seq(Pages)
         /\ op \in {"write", "read"} => Named(c)[1] \in Pages
<1>1. conn[c].open /\ (\A d \in 1..(c-1) : ~conn[d].open) /\ conn[c].in # <<>>
  BY DEF Asked, Accepted
<1>2. conn[c] \in Connection
  BY ElementOfSeq DEF Base, Types
<1>3. conn[c].in \in Seq(InCell) /\ Len(conn[c].in) \in Nat /\ Len(conn[c].in) # 0
  BY <1>1, <1>2, ConnectionFields
<1>4. Head(conn[c].in) = conn[c].in[1] /\ 1 \in 1..Len(conn[c].in)
  BY <1>3
<1>5. conn[c].in[1].kind = "request" /\ conn[c].in[1].op = op
      /\ Named(c) = conn[c].in[1].pages
  BY <1>4 DEF Asked, Named
<1>6. conn[c].in[1] \in InCell
  BY <1>3, <1>4, ElementOfSeq
<1>7. Named(c) \in Seq(Pages)
  BY <1>5, <1>6, CellFields
<1>8. Complete(conn[c], 1)
  BY DEF Base, WritesInOrder, Ordered
<1>9. op \in {"write", "read"} => Named(c) # <<>>
  BY <1>1, <1>4, <1>5, <1>8 DEF Complete
<1>10. op \in {"write", "read"} => Named(c)[1] \in Pages
  <2>1. Named(c) # <<>> => Len(Named(c)) \in Nat \ {0}
    BY <1>7, EmptySeq
  <2> QED BY <1>7, <1>9, <2>1, ElementOfSeq
<1> QED
  BY <1>1, <1>2, <1>3, <1>4, <1>5, <1>7, <1>10

\* The pages that a request names.
LEMMA RangePages ==
  ASSUME NEW ps \in Seq(Pages)
  PROVE  Range(ps) \subseteq Pages
BY RangeOfSeq

\* The page cache was written out: each page is as it was or as the cache has it, and
\* only a page the device refused is not.
LEMMA WrittenOutPages ==
  ASSUME cache \in Versions, disk \in Versions, NEW refused \in SUBSET WornPages,
         NEW d, d = WrittenOut(refused)
  PROVE  /\ d \in Versions /\ \A p \in Pages : d[p] \in {disk[p], cache[p]}
         /\ \A p \in Pages \ WornPages : d[p] = cache[p]
BY DEF WrittenOut, Versions

\* What the daemon answers to such a request.
LEMMA QueryStep ==
  ASSUME Base, NEW c \in 1..Len(conn), Query(c)
  PROVE  /\ UNCHANGED <<sock, spoiled, call, result, calls, proc, crashes, up, cache>>
         /\ disk' \in Versions /\ \A p \in Pages : disk'[p] \in {disk[p], cache[p]}
         /\ \E cells \in Seq(OutCell) : Answer(c, 1, cells)
         /\ \E op \in Ops : Asked(c, op)
<1>1. cache \in Versions /\ disk \in Versions
  BY DEF Base, Types
<1>2. \A b \in BOOLEAN, n \in Nat : Reply(b, n) \in OutCell /\ <<Reply(b, n)>> \in Seq(OutCell)
  BY Cells, Tuples
<1>3. CASE ServeBigWrite(c)
  <2>1. /\ Asked(c, "bigwrite") /\ Answer(c, 1, <<Reply(FALSE, 0)>>)
        /\ UNCHANGED <<sock, spoiled, call, result, calls, proc, crashes, up, cache, disk>>
    BY <1>3 DEF ServeBigWrite, Unasked
  <2> QED BY <1>1, <1>2, <2>1 DEF Ops, Asking
<1>4. CASE ServeRead(c)
  <2>1. /\ Asked(c, "read")
        /\ Answer(c, 1, IF Named(c)[1] \in BadPages THEN <<Reply(FALSE, 0)>>
                        ELSE <<Reply(TRUE, 1)>> \o Page(Named(c)[1]))
        /\ UNCHANGED <<sock, spoiled, call, result, calls, proc, crashes, up, cache, disk>>
    BY <1>4 DEF ServeRead, Unasked
  <2>2. Named(c)[1] \in Pages
    BY <2>1, AskedRequest
  <2>3. Page(Named(c)[1]) \in Seq(OutCell)
    <3>1. cache[Named(c)[1]] \in Nat
      BY <1>1, <2>2 DEF Versions
    <3>2. Data(cache[Named(c)[1]]) \in OutCell
      BY <3>1, Cells
    <3> QED BY <3>2, Tuples DEF Page
  <2>4. <<Reply(TRUE, 1)>> \o Page(Named(c)[1]) \in Seq(OutCell)
    BY <1>2, <2>3, ConcatProperties
  <2> QED BY <1>1, <1>2, <2>1, <2>4 DEF Ops, Asking
<1>5. CASE ServeBatch(c)
  <2>1. /\ Asked(c, "batch")
        /\ Answer(c, 1, <<Reply(TRUE, Len(Named(c)))>> \o Items(Named(c), cache))
        /\ UNCHANGED <<sock, spoiled, call, result, calls, proc, crashes, up, cache, disk>>
    BY <1>5 DEF ServeBatch, Unasked
  <2>2. Named(c) \in Seq(Pages)
    BY <2>1, AskedRequest
  <2>3. Items(Named(c), cache) \in Seq(OutCell) /\ Len(Named(c)) \in Nat
    BY <1>1, <2>2, ItemsType, LenProperties
  <2>4. <<Reply(TRUE, Len(Named(c)))>> \o Items(Named(c), cache) \in Seq(OutCell)
    BY <1>2, <2>3, ConcatProperties
  <2> QED BY <1>1, <2>1, <2>4 DEF Ops, Asking
<1>6. CASE ServeTopK(c)
  <2>1. /\ Asked(c, "topk")
        /\ UNCHANGED <<sock, spoiled, call, result, calls, proc, crashes, up, cache, disk>>
    BY <1>6 DEF ServeTopK, Unasked
  <2>2. Range(Named(c)) \subseteq Pages
    BY <2>1, AskedRequest, RangePages
  <2>3. PICK p \in Pages \union {NoPage}, v \in Nat \union {NoVal} :
           Answer(c, 1, <<Reply(TRUE, 1), Winner(p, v)>>)
    BY <1>1, <1>6, <2>2 DEF ServeTopK, Versions
  <2>4. <<Reply(TRUE, 1), Winner(p, v)>> \in Seq(OutCell)
    BY <1>2, Cells, Tuples
  <2> QED BY <1>1, <2>1, <2>3, <2>4 DEF Ops, Asking
<1>7. CASE ServePing(c)
  <2>1. /\ Asked(c, "ping") \/ Asked(c, "start")
        /\ Answer(c, 1, <<Reply(TRUE, 0)>>)
        /\ UNCHANGED <<sock, spoiled, call, result, calls, proc, crashes, up, cache, disk>>
    BY <1>7 DEF ServePing, Unasked
  <2> QED BY <1>1, <1>2, <2>1 DEF Ops, Asking
<1>8. CASE ServeFlush(c)
  <2>1. /\ Asked(c, "flush") /\ Answer(c, 1, <<Reply(TRUE, 0)>>)
        /\ UNCHANGED <<sock, spoiled, call, result, calls, proc, crashes, up, cache>>
        /\ \E refused \in SUBSET WornPages : disk' = WrittenOut(refused)
    BY <1>8 DEF ServeFlush, Unasked
  <2>2. disk' \in Versions /\ \A p \in Pages : disk'[p] \in {disk[p], cache[p]}
    BY <2>1, WrittenOutPages DEF Base, Types
  <2> QED BY <1>2, <2>1, <2>2 DEF Ops, Asking
<1> QED
  BY <1>3, <1>4, <1>5, <1>6, <1>7, <1>8 DEF Query

\* A request that changes no page.
LEMMA QueryBase ==
  ASSUME Base, NEW c \in 1..Len(conn), Query(c)
  PROVE  Base'
<1>1. /\ UNCHANGED <<sock, spoiled, call, result, calls, proc, crashes, up, cache>>
      /\ disk' \in Versions /\ \A p \in Pages : disk'[p] \in {disk[p], cache[p]}
      /\ \E cells \in Seq(OutCell) : Answer(c, 1, cells)
      /\ \E op \in Ops : Asked(c, op)
  BY QueryStep
<1>2. 1 \in 0..Len(conn[c].in)
  BY <1>1, AskedRequest
<1>3. /\ conn' \in Seq(Connection) /\ Len(conn') = Len(conn)
      /\ \A j \in 1..Len(conn) : conn'[j].shut = conn[j].shut
      /\ Ordered(conn', cache, calls)
  BY <1>1, <1>2, AnswerStep
<1>4. /\ disk' \in Versions /\ cache' \in Versions /\ \A p \in Pages : disk'[p] <= calls
      /\ up' \in BOOLEAN /\ proc' \in {"none", "alive", "dead"}
  BY <1>1 DEF Base, Types, WritesInOrder, Ordered
<1> QED
  BY <1>1, <1>3, <1>4, MachineBase

\* A write is the newest that its page has had.
LEMMA WriteBase ==
  ASSUME Base, NEW c \in 1..Len(conn), ServeWrite(c)
  PROVE  Base' /\ up' = up /\ \A p \in Pages : cache'[p] >= cache[p]
<1>1. /\ Asked(c, "write") /\ Len(conn[c].in) > 1 /\ UNCHANGED <<up, disk>>
      /\ UNCHANGED <<sock, spoiled, call, result, calls, proc, crashes>>
  BY DEF ServeWrite, Unasked
<1>2. /\ conn[c].open /\ \A d \in 1..(c-1) : ~conn[d].open
      /\ conn[c] \in Connection /\ conn[c].in \in Seq(InCell) /\ Len(conn[c].in) \in Nat
      /\ conn[c].in[1].kind = "request" /\ conn[c].in[1].op = "write"
      /\ Named(c)[1] \in Pages
  BY <1>1, AskedRequest
<1>3. /\ conn \in Seq(Connection) /\ cache \in Versions /\ calls \in Nat
      /\ Ordered(conn, cache, calls) /\ disk \in Versions /\ \A p \in Pages : disk[p] <= calls
      /\ up \in BOOLEAN /\ proc \in {"none", "alive", "dead"}
  BY DEF Base, Types, WritesInOrder
<1>4. \A p \in Pages : cache[p] \in Nat
  BY <1>3 DEF Versions
<1>5. PICK cells \in Seq(OutCell) : Answer(c, 2, cells)
  <2>1. PICK b \in BOOLEAN, n \in Nat : Answer(c, 2, <<Reply(b, n)>>)
    <3>1. 0 \in Nat /\ 1 \in Nat /\ TRUE \in BOOLEAN /\ FALSE \in BOOLEAN
      OBVIOUS
    <3> QED BY <3>1, Zenon DEF ServeWrite
  <2> QED BY <2>1, Cells, Tuples
<1>6. 2 \in 0..Len(conn[c].in)
  BY <1>1, <1>2
<1>7. /\ conn' \in Seq(Connection) /\ Len(conn') = Len(conn)
      /\ conn'[c].open = conn[c].open /\ conn'[c].shut = conn[c].shut
      /\ \A j \in 1..Len(conn) : j # c => conn'[j] = conn[j]
      /\ \A j \in 1..Len(conn) : conn'[j].shut = conn[j].shut
      /\ Shrunk(conn'[c], conn[c], 2)
      /\ Ordered(conn', cache, calls)
  BY <1>5, <1>6, AnswerStep
<1>. DEFINE v == conn[c].in[2].val
            p == Named(c)[1]
<1>8. /\ v \in Nat /\ \A q \in Pages : cache[q] <= v
      /\ Ordered(conn', [cache EXCEPT ![p] = v], calls)
  BY <1>1, <1>2, <1>3, <1>7, OrderedServed
<1>9. cache' = cache \/ cache' = [cache EXCEPT ![p] = v]
  BY DEF ServeWrite
<1>. HIDE DEF v, p
<1>10. /\ cache' \in Versions /\ Ordered(conn', cache', calls)
       /\ \A q \in Pages : cache'[q] >= cache[q]
  <2>1. CASE cache' = cache
    BY <1>3, <1>4, <1>7, <2>1
  <2>2. CASE cache' = [cache EXCEPT ![p] = v]
    <3>1. [cache EXCEPT ![p] = v] \in Versions
      BY <1>3, <1>8 DEF Versions
    <3>2. \A q \in Pages : cache'[q] = cache[q] \/ cache'[q] = v
      BY <1>3, <2>2 DEF Versions
    <3> QED BY <1>4, <1>8, <2>2, <3>1, <3>2
  <2> QED BY <1>9, <2>1, <2>2
<1>11. Base'
  BY <1>1, <1>3, <1>7, <1>10, MachineBase
<1> QED
  BY <1>1, <1>10, <1>11

\* The daemon ends on request, having written its pages back.
LEMMA ShutdownBase ==
  ASSUME Base, NEW c \in 1..Len(conn), ServeShutdown(c)
  PROVE  Base' /\ up' = FALSE
<1>1. /\ up' = FALSE /\ cache' = disk' /\ proc' \in {"none", "alive", "dead"}
      /\ UNCHANGED <<sock, spoiled, call, result, calls, crashes>>
      /\ conn' = [d \in DOMAIN conn |-> Dead(conn[d], TRUE)]
      /\ \E refused \in SUBSET WornPages : disk' = WrittenOut(refused)
  BY DEF ServeShutdown, Base, Types
<1>2. /\ conn' \in Seq(Connection) /\ Len(conn') = Len(conn)
      /\ \A d \in 1..Len(conn) : conn'[d].shut = conn[d].shut
      /\ \A m, n : (\A p \in Pages : m[p] <= n) => Ordered(conn', m, n)
  BY <1>1, DeathStep
<1>3. /\ cache \in Versions /\ disk \in Versions
      /\ \A p \in Pages : cache[p] <= calls /\ disk[p] <= calls
  BY DEF Base, Types, WritesInOrder, Ordered
<1>4. disk' \in Versions /\ \A p \in Pages : disk'[p] \in {disk[p], cache[p]}
  BY <1>1, <1>3, WrittenOutPages
<1>5. \A p \in Pages : disk'[p] <= calls
  BY <1>3, <1>4
<1> QED
  BY <1>1, <1>2, <1>4, <1>5, MachineBase

\* The daemon ends a connection.
LEMMA HangUpStep ==
  ASSUME Base, NEW c \in 1..Len(conn), HangUp(c)
  PROVE  /\ conn' \in Seq(Connection) /\ Len(conn') = Len(conn)
         /\ conn'[c].shut = conn[c].shut /\ conn'[c].out = conn[c].out
         /\ ~conn'[c].open /\ conn'[c].in = <<>>
         /\ \A j \in 1..Len(conn) : j # c => conn'[j] = conn[j]
         /\ Base'
         /\ UNCHANGED <<up, cache, disk, sock, spoiled, call, result, calls, proc, crashes>>
<1>1. /\ conn \in Seq(Connection) /\ conn[c] \in Connection /\ Ordered(conn, cache, calls)
  BY ElementOfSeq DEF Base, Types, WritesInOrder
<1>2. /\ conn' = [conn EXCEPT ![c].open = FALSE, ![c].in = <<>>]
      /\ UNCHANGED <<up, cache, disk, sock, spoiled, call, result, calls, proc, crashes>>
  BY DEF HangUp, Unasked
<1>. DEFINE x == [conn[c] EXCEPT !.open = FALSE, !.in = <<>>]
<1>3. conn' = [conn EXCEPT ![c] = x]
  BY <1>1, <1>2 DEF Connection
<1>4. /\ x \in Connection /\ x.shut = conn[c].shut /\ x.out = conn[c].out
      /\ ~x.open /\ x.in = <<>>
  <2>1. <<>> \in Seq(InCell)
    OBVIOUS
  <2> QED BY <1>1, <2>1 DEF Connection
<1>. HIDE DEF x
<1>5. /\ conn' \in Seq(Connection) /\ Len(conn') = Len(conn) /\ conn'[c] = x
      /\ \A j \in 1..Len(conn) : j # c => conn'[j] = conn[j]
  BY <1>1, <1>3, <1>4, Replaced
<1>6. Remains(x, conn[c])
  BY <1>1, <1>4, SameRemains
<1>7. Ordered(conn', cache, calls)
  BY <1>1, <1>5, <1>6, KeptInOrder
<1>8. \A j \in 1..Len(conn) : conn'[j].shut = conn[j].shut
  BY <1>4, <1>5
<1>9. /\ disk \in Versions /\ cache \in Versions /\ \A p \in Pages : disk[p] <= calls
      /\ up \in BOOLEAN /\ proc \in {"none", "alive", "dead"}
  BY DEF Base, Types, WritesInOrder
<1>10. Base'
  BY <1>2, <1>5, <1>7, <1>8, <1>9, MachineBase
<1> QED
  BY <1>2, <1>4, <1>5, <1>10

\* The guest's kernel writes a page back.
LEMMA WriteBackBase ==
  ASSUME Base, NEW p \in Pages, WriteBack(p)
  PROVE  Base'
<1>1. /\ disk' = [disk EXCEPT ![p] = cache[p]]
      /\ UNCHANGED <<conn, up, cache, sock, spoiled, call, result, calls, proc, crashes>>
  BY DEF WriteBack, Unasked
<1>2. /\ cache \in Versions /\ disk \in Versions /\ Ordered(conn, cache, calls)
      /\ conn \in Seq(Connection) /\ up \in BOOLEAN /\ proc \in {"none", "alive", "dead"}
      /\ \A q \in Pages : disk[q] <= calls /\ cache[q] <= calls
  BY DEF Base, Types, WritesInOrder, Ordered
<1>3. disk' \in Versions /\ \A q \in Pages : disk'[q] = disk[q] \/ disk'[q] = cache[q]
  BY <1>1, <1>2 DEF Versions
<1>4. \A q \in Pages : disk'[q] <= calls
  BY <1>2, <1>3
<1> QED
  BY <1>1, <1>2, <1>3, <1>4, MachineBase

\* The machine crashes.
LEMMA CrashBase ==
  ASSUME Base, Crash
  PROVE  Base' /\ up' = FALSE
<1>1. /\ Die /\ up' = FALSE /\ UNCHANGED <<sock, spoiled, call, result, calls, disk>>
      /\ proc' \in {"none", "alive", "dead"}
  BY DEF Crash, Die, Base, Types
<1>2. Formed(call', calls)
  BY <1>1 DEF Base, Types
<1>3. Base'
  BY <1>1, <1>2, DieBase DEF Receiving
<1> QED
  BY <1>1, <1>3

\* The parts of a step, as the proofs take them.
Asks ==
  \/ \E p \in Pages : Write(p) \/ WriteBig(p) \/ Read(p)
  \/ \E ps \in Batches : ReadBatch(ps) \/ ComputeTopK(ps)
  \/ IsAlive \/ Flush \/ Ask("start", <<>>, <<>>)

StartsOrStops ==
  \/ sock = 0 /\ ~up /\ Begin("start", <<>>, "launch") /\ UNCHANGED <<conn, sock, spoiled>>
  \/ Launch \/ GiveUp \/ Stopped \/ StopQemu

\* Every step is one of these parts.
LEMMA NextParts ==
  ASSUME Next, conn \in Seq(Connection)
  PROVE  \/ Asks \/ StartsOrStops \/ Receive \/ Dial \/ DialRefused \/ Refused \/ Crash
         \/ \E c \in 1..Len(conn) : Query(c) \/ ServeWrite(c) \/ ServeShutdown(c) \/ HangUp(c)
         \/ \E p \in Pages : WriteBack(p)
<1>1. DOMAIN conn = 1..Len(conn)
  BY LenProperties
<1>2. CASE Call
  <2>1. StartQemu => Asks \/ StartsOrStops
    BY DEF StartQemu, Asks, StartsOrStops
  <2> QED BY <1>2, <2>1 DEF Call, Asks, StartsOrStops
<1>3. CASE Continue
  BY <1>3 DEF Continue, StartsOrStops
<1>4. ASSUME NEW c \in DOMAIN conn, Serve(c)
      PROVE  Query(c) \/ ServeWrite(c) \/ ServeShutdown(c) \/ HangUp(c)
  BY <1>4 DEF Serve, Query
<1> QED
  BY <1>1, <1>2, <1>3, <1>4 DEF Next

\* Every step keeps the base, and only a crash or a shutdown takes a page back.
LEMMA NextBase ==
  ASSUME Base, [Next]_vars
  PROVE  Base' /\ (up' => \A p \in Pages : cache'[p] >= cache[p])
<1>1. conn \in Seq(Connection) /\ cache \in Versions /\ \A p \in Pages : cache[p] >= cache[p]
  BY DEF Base, Types, Versions
<1>2. CASE UNCHANGED vars
  <2>1. UNCHANGED <<conn, sock, spoiled, call, result, calls, up, proc, cache, disk, crashes>>
    BY <1>2 DEF vars
  <2>2. Types' /\ Sockets' /\ WritesInOrder'
    BY <2>1 DEF Base, Types, Sockets, WritesInOrder, Receiving
  <2> QED BY <1>1, <2>1, <2>2 DEF Base
<1>3. CASE Asks
  <2>1. Base' /\ UNCHANGED server
    BY <1>3, AskSteps DEF Asks
  <2> QED BY <1>1, <2>1 DEF server
<1>4. CASE StartsOrStops
  <2>1. Base'
    BY <1>4, MachineCallBase DEF StartsOrStops
  <2>2. cache' = cache \/ up' = FALSE
    BY <1>4 DEF StartsOrStops, Begin, Launch, GiveUp, Stopped, StopQemu, Die, server
  <2> QED BY <1>1, <2>1, <2>2
<1>5. CASE Receive
  <2>1. cache' = cache
    BY <1>5 DEF Receive, RecvHeader, RecvPage, RecvWinner, RecvItem, RecvItemData, Timeout, Reset,
                server
  <2> QED BY <1>1, <1>5, <2>1, ReceiveBase
<1>6. CASE Dial
  <2>1. cache' = cache
    BY <1>6 DEF Dial, server
  <2> QED BY <1>1, <1>6, <2>1, DialStep
<1>10. CASE DialRefused \/ Refused
  BY <1>1, <1>10, DialRefusedStep, RefusedStep
<1>7. CASE Crash
  BY <1>7, CrashBase
<1>8. ASSUME NEW c \in 1..Len(conn), Query(c) \/ ServeWrite(c) \/ ServeShutdown(c) \/ HangUp(c)
      PROVE  Base' /\ (up' => \A p \in Pages : cache'[p] >= cache[p])
  <2>1. CASE Query(c)
    BY <1>1, <2>1, QueryStep, QueryBase
  <2>2. CASE ServeWrite(c)
    BY <2>2, WriteBase
  <2>3. CASE ServeShutdown(c)
    BY <2>3, ShutdownBase
  <2>4. CASE HangUp(c)
    BY <1>1, <2>4, HangUpStep
  <2> QED BY <1>8, <2>1, <2>2, <2>3, <2>4
<1>9. ASSUME NEW p \in Pages, WriteBack(p)
      PROVE  Base' /\ (up' => \A q \in Pages : cache'[q] >= cache[q])
  <2>1. cache' = cache
    BY <1>9 DEF WriteBack
  <2> QED BY <1>1, <1>9, <2>1, WriteBackBase
<1> QED
  BY <1>1, <1>2, <1>3, <1>4, <1>5, <1>6, <1>7, <1>8, <1>9, <1>10, NextParts

\* Types, the socket and the order of the writes hold in every state.
LEMMA BaseAlways == Spec => []Base
<1>1. Base /\ [Next]_vars => Base'
  BY NextBase
<1> QED
  BY <1>1, InitBase, PTL DEF Spec

\* The variables keep their types, and the client holds a socket it has closed only
\* between two attempts of start_qemu to connect, the first of which was refused: no
\* request is sent and no reply awaited on a closed socket.
THEOREM TypesHold == Spec => []TypeOK
<1>1. Base => TypeOK
  <2> SUFFICES ASSUME Base PROVE TypeOK
    OBVIOUS
  <2>1. Len(conn) \in Nat /\ Types /\ Sockets
    BY LenProperties DEF Base, Types
  <2>2. sock \in 0..Len(conn)
    BY <2>1 DEF Sockets
  <2> QED
    BY <2>1, <2>2 DEF TypeOK, Types, Sockets, Formed, CallRecord, Versions
<1> QED
  BY <1>1, BaseAlways, PTL

\* A write that its caller has given up never overtakes a later one: the daemon serves
\* the connections in the order in which they were made, and each in the order in which
\* the requests were sent, so no page goes back to an earlier content while the machine
\* is up.
THEOREM NoLateWriteHolds == Spec => NoLateWrite
<1>1. Base /\ [Next]_vars => [up' => \A p \in Pages : cache'[p] >= cache[p]]_vars
  BY NextBase
<1> QED
  BY <1>1, BaseAlways, PTL DEF Spec, NoLateWrite

-----------------------------------------------------------------------------
(***************************************************************************)
(* The stream of the client's connection: what is on its way on it.        *)
(***************************************************************************)

\* What the client reads first, and what it leaves.
LEMMA Heads ==
  /\ \A S : \A a, b \in S : /\ <<a>> # <<>> /\ Head(<<a>>) = a /\ Tail(<<a>>) = <<>>
                            /\ <<a, b>> # <<>> /\ Head(<<a, b>>) = a /\ Tail(<<a, b>>) = <<b>>
  /\ \A S : \A a \in S : \A s \in Seq(S) :
        <<a>> \o s \in Seq(S) /\ <<a>> \o s # <<>> /\ Head(<<a>> \o s) = a /\ Tail(<<a>> \o s) = s
<1>1. ASSUME NEW S, NEW a \in S, NEW b \in S
      PROVE  /\ <<a>> # <<>> /\ Head(<<a>>) = a /\ Tail(<<a>>) = <<>>
             /\ <<a, b>> # <<>> /\ Head(<<a, b>>) = a /\ Tail(<<a, b>>) = <<b>>
  <2>1. /\ <<a>> \in Seq(S) /\ Len(<<a>>) = 1 /\ <<a>>[1] = a
        /\ <<b>> \in Seq(S) /\ Len(<<b>>) = 1 /\ <<b>>[1] = b
        /\ <<a, b>> \in Seq(S) /\ Len(<<a, b>>) = 2 /\ <<a, b>>[1] = a /\ <<a, b>>[2] = b
    BY Tuples
  <2>2. <<a>> # <<>> /\ <<a, b>> # <<>> /\ Head(<<a>>) = a /\ Head(<<a, b>>) = a
    BY <2>1
  <2>3. Tail(<<a>>) = <<>>
    <3>1. Tail(<<a>>) \in Seq(S) /\ Len(Tail(<<a>>)) = 0
      BY <2>1, <2>2, HeadTailProperties
    <3> QED BY <3>1, EmptySeq
  <2>4. Tail(<<a, b>>) = <<b>>
    <3>. DEFINE t == Tail(<<a, b>>)
    <3>1. t \in Seq(S) /\ Len(t) = 1 /\ t[1] = b
      BY <2>1, <2>2, HeadTailProperties
    <3>. HIDE DEF t
    <3>2. t = <<b>>
      BY <2>1, <3>1, SeqEqual
    <3> QED BY <3>2 DEF t
  <2> QED BY <2>2, <2>3, <2>4
<1>2. ASSUME NEW S, NEW a \in S, NEW s \in Seq(S)
      PROVE  /\ <<a>> \o s \in Seq(S) /\ <<a>> \o s # <<>>
             /\ Head(<<a>> \o s) = a /\ Tail(<<a>> \o s) = s
  <2>. DEFINE c == <<a>> \o s
  <2>1. <<a>> \in Seq(S) /\ Len(<<a>>) = 1 /\ <<a>>[1] = a /\ Len(s) \in Nat
    BY Tuples, LenProperties
  <2>2. /\ c \in Seq(S) /\ Len(c) = 1 + Len(s)
        /\ \A i \in 1..(1 + Len(s)) : c[i] = IF i <= 1 THEN <<a>>[i] ELSE s[i - 1]
    BY <2>1, ConcatProperties
  <2>. HIDE DEF c
  <2>3. c # <<>> /\ c[1] = a /\ Head(c) = a
    BY <2>1, <2>2, EmptySeq
  <2>4. Tail(c) \in Seq(S) /\ Len(Tail(c)) = Len(s) /\ \A i \in 1..Len(s) : Tail(c)[i] = c[i+1]
    BY <2>1, <2>2, <2>3, HeadTailProperties
  <2>5. \A i \in 1..Len(s) : c[i+1] = s[i]
    <3> SUFFICES ASSUME NEW i \in 1..Len(s) PROVE c[i+1] = s[i]
      OBVIOUS
    <3>1. i + 1 \in 1..(1 + Len(s)) /\ ~(i + 1 <= 1) /\ (i + 1) - 1 = i
      BY <2>1
    <3> QED BY <2>2, <3>1
  <2>6. Tail(c) = s
    BY <2>4, <2>5, SeqEqual
  <2> QED BY <2>2, <2>3, <2>6 DEF c
<1> QED
  BY <1>1, <1>2

\* What is left of a list after its first pages.
LEMMA RestOf ==
  ASSUME NEW k, k.pages \in Seq(Pages)
  PROVE  /\ Rest(k, Len(k.pages)) = k.pages /\ Rest(k, 0) = <<>>
         /\ \A n \in 1..Len(k.pages) :
              /\ Rest(k, n) \in Seq(Pages) /\ Rest(k, n) # <<>>
              /\ Rest(k, n)[1] = k.pages[Len(k.pages) - n + 1]
              /\ Tail(Rest(k, n)) = Rest(k, n - 1)
<1>. DEFINE ps == k.pages
            L == Len(ps)
<1>1. L \in Nat /\ ps \in Seq(Pages) /\ \A i \in 1..L : ps[i] \in Pages
  BY LenProperties, ElementOfSeq
<1>2. Rest(k, L) = ps
  <2>1. L - L + 1 = 1
    BY <1>1
  <2> QED BY <2>1, SubSeqFull DEF Rest
<1>3. Rest(k, 0) = <<>>
  <2>1. L - 0 + 1 = L + 1 /\ L < L + 1 /\ L \in Int /\ L + 1 \in Int
    BY <1>1
  <2>2. SubSeq(ps, L + 1, L) = <<>>
    BY <2>1, SubSeqEmpty
  <2>. HIDE DEF L
  <2> QED BY <2>1, <2>2 DEF Rest, L
<1>4. ASSUME NEW n \in 1..L
      PROVE  /\ Rest(k, n) \in Seq(Pages) /\ Rest(k, n) # <<>> /\ Rest(k, n)[1] = ps[L - n + 1]
             /\ Tail(Rest(k, n)) = Rest(k, n - 1)
  <2>. DEFINE h == L - n + 1
  <2>1. h \in 1..L /\ L \in h..L /\ h \in Int /\ L \in Int /\ h <= L /\ L - (n-1) + 1 = h + 1
    BY <1>1
  <2>2. Rest(k, n) = SubSeq(ps, h, L) /\ Rest(k, n-1) = SubSeq(ps, L - (n-1) + 1, L)
    BY DEF Rest
  <2>. HIDE DEF h, L, ps
  <2>3. Rest(k, n-1) = SubSeq(ps, h + 1, L)
    BY <2>1, <2>2
  <2>4. Head(SubSeq(ps, h, L)) = ps[h] /\ Tail(SubSeq(ps, h, L)) = SubSeq(ps, h+1, L)
    BY <1>1, <2>1, HeadTailOfSubSeq DEF L
  <2>5. /\ SubSeq(ps, h, L) \in Seq(Pages) /\ Len(SubSeq(ps, h, L)) = L - h + 1
        /\ \A i \in 1..(L - h + 1) : SubSeq(ps, h, L)[i] = ps[h + i - 1]
    <3>1. \A i \in h..L : ps[i] \in Pages
      <4>1. \A i \in h..L : i \in 1..L
        BY <2>1
      <4> QED BY <1>1, <4>1
    <3> QED BY <2>1, <3>1, SubSeqProperties
  <2>6. L - h + 1 # 0 /\ 1 \in 1..(L - h + 1) /\ h + 1 - 1 = h
    BY <2>1
  <2>7. SubSeq(ps, h, L) # <<>> /\ SubSeq(ps, h, L)[1] = ps[h]
    BY <2>5, <2>6, EmptySeq
  <2> QED BY <2>2, <2>3, <2>4, <2>5, <2>7 DEF h
<1> QED
  BY <1>2, <1>3, <1>4

\* A reply is awaited in one of the three receiving steps of a call.
LEMMA LeftReceiving ==
  ASSUME NEW k, NEW out, NEW m, Left(k, out, m)
  PROVE  k.step \in {"header", "body", "data"}
BY DEF Left

\* The daemon takes no request from the connection: nor does it hang up as if it had.
LEMMA MuteNotAsked ==
  ASSUME Base, NEW c \in 1..Len(conn), NEW op, Asked(c, op)
  PROVE  ~Mute(conn[c])
<1>1. /\ conn[c].open /\ conn[c].in # <<>> /\ conn[c].in[1].kind = "request"
  <2>1. conn[c].in # <<>>
    BY DEF Asked
  <2> QED BY <2>1, AskedRequest
<1> QED
  BY <1>1 DEF Mute

\* A step that leaves the connection of the client and the call alone.
LEMMA CurrentSame ==
  ASSUME Base, Current, UNCHANGED <<sock, spoiled, call>>,
         sock # 0 => conn'[sock] = conn[sock],
         sock # 0 /\ conn[sock].open /\ Settled => cache' = cache /\ Settled'
  PROVE  Current'
<1> SUFFICES ASSUME sock # 0, ~spoiled
             PROVE  \/ Quiet(call', conn'[sock']) \/ Waits(call', conn'[sock'])
                    \/ Answered(conn[sock])'
  BY DEF Current
<1>1. conn'[sock'] = conn[sock] /\ call' = call /\ sock' = sock
  OBVIOUS
<1>2. Quiet(call, conn[sock]) \/ Waits(call, conn[sock]) \/ Answered(conn[sock])
  BY DEF Current
<1>3. CASE Answered(conn[sock])
  <2>1. PICK m \in Versions :
           Left(call, conn[sock].out, m) /\ (conn[sock].open => m = cache /\ Settled)
    BY <1>3 DEF Answered
  <2>2. /\ Mute(conn'[sock']) /\ Left(call', conn'[sock'].out, m)
        /\ conn'[sock'].open => m = cache' /\ Settled'
    BY <1>1, <1>3, <2>1 DEF Answered
  <2> QED BY <2>2 DEF Answered
<1> QED
  BY <1>1, <1>2, <1>3

-----------------------------------------------------------------------------
(***************************************************************************)
(* The client's own steps keep its connection current.                     *)
(***************************************************************************)

\* Outside a receiving step nothing is on its way, and the client's connection is
\* among those that were made.
LEMMA NothingOnItsWay ==
  ASSUME Base, Current, sock # 0, ~spoiled, ~Receiving
  PROVE  Quiet(call, conn[sock])
BY LeftReceiving DEF Current, Waits, Answered, Receiving

\* The client's socket is the connection that was made last.
LEMMA SocketThere ==
  ASSUME Base, sock # 0
  PROVE  /\ conn \in Seq(Connection) /\ Len(conn) \in Nat
         /\ sock = Len(conn) /\ sock \in 1..Len(conn) /\ conn[sock] \in Connection
<1>1. conn \in Seq(Connection) /\ Len(conn) \in Nat /\ sock = Len(conn)
  BY LenProperties DEF Base, Types, Sockets
<1> QED
  BY <1>1, ElementOfSeq

\* At the start there is no connection.
LEMMA InitCurrent == Init => Current
BY DEF Init, Current

\* A request goes out on a connection on which nothing else is on its way, or on one
\* where the daemon will not get to it.
LEMMA AsksCurrent ==
  ASSUME Base, Current, Asks
  PROVE  Current'
<1> SUFFICES ASSUME ~spoiled'
             PROVE  Quiet(call', conn'[sock']) \/ Waits(call', conn'[sock'])
  BY DEF Current
<1>1. Types /\ Sockets /\ WritesInOrder
  BY DEF Base
<1>2. /\ Free /\ call'.step = "header" /\ Message(Sent(call'), calls + 1) /\ Send(Sent(call'))
  BY AskSteps DEF Asks
<1>. DEFINE cells == Sent(call')
<1>3. cells \in Seq(InCell) /\ Len(cells) \in {1, 2}
  BY <1>2 DEF Message
<1>. HIDE DEF cells
<1>4. /\ sock = 0 => conn'[sock'] = Fresh(cells)
      /\ sock # 0 => /\ sock' = sock /\ spoiled' = spoiled
                     /\ Extended(conn'[sock], conn[sock], cells) \/ ~conn[sock].open
                     /\ conn'[sock].out = conn[sock].out
                     /\ conn'[sock].open = conn[sock].open
                     /\ ~conn[sock].open => conn'[sock] = conn[sock]
  BY <1>1, <1>2, SendStep DEF cells
<1>5. CASE sock = 0
  <2>1. conn'[sock'].in = cells /\ conn'[sock'].out = <<>> /\ conn'[sock'].open
    BY <1>3, <1>4, <1>5, FreshConnection
  <2> QED BY <1>2, <2>1 DEF Waits, cells
<1>6. CASE sock # 0
  <2>1. Quiet(call, conn[sock])
    BY <1>2, <1>4, <1>6, NothingOnItsWay DEF Free, Receiving
  <2>2. conn[sock].in \in Seq(InCell) /\ Len(conn[sock].in) \in Nat
    BY <1>6, SocketThere, ConnectionFields
  <2>3. CASE ~conn[sock].open
    BY <1>2, <1>4, <1>6, <2>1, <2>3 DEF Quiet, Mute
  <2>4. CASE conn[sock].open /\ conn[sock].in = <<>>
    <3>1. conn'[sock].in = cells
      <4>1. conn'[sock].in = <<>> \o cells
        BY <1>4, <1>6, <2>4 DEF Extended
      <4> QED BY <1>3, <4>1, ConcatEmptySeq
    <3> QED BY <1>2, <1>4, <1>6, <2>1, <2>4, <3>1 DEF Quiet, Waits, cells
  <2>5. CASE conn[sock].open /\ conn[sock].in # <<>> /\ conn[sock].in[1].kind = "data"
    <3>. DEFINE old == conn[sock].in
    <3>1. conn'[sock].in = old \o cells
      BY <1>4, <1>6, <2>5 DEF Extended
    <3>2. old \in Seq(InCell) /\ Len(old) \in Nat /\ Len(old) # 0 /\ old[1].kind = "data"
      BY <2>2, <2>5, EmptySeq
    <3>. HIDE DEF old
    <3>3. Len(old) + Len(cells) \in Nat /\ 1 \in 1..(Len(old) + Len(cells)) /\ 1 <= Len(old)
      BY <1>3, <3>2
    <3>4. (old \o cells)[1] = old[1]
      BY <1>3, <3>2, <3>3, ConcatProperties
    <3> QED BY <1>2, <1>4, <1>6, <2>1, <3>1, <3>2, <3>4 DEF Quiet, Mute
  <2> QED BY <2>1, <2>3, <2>4, <2>5 DEF Quiet, Mute
<1> QED
  BY <1>5, <1>6

\* start_qemu pings on a new connection.
LEMMA DialCurrent ==
  ASSUME Base, Dial
  PROVE  Current'
<1>1. /\ call'.step = "header" /\ sock' # 0 /\ call'.op = "boot" /\ call'.pages = <<>>
      /\ conn'[sock'] = Fresh(<<Request("ping", <<>>)>>)
  BY DialStep
<1>2. Sent(call') = <<Request("ping", <<>>)>>
  <2>1. Sent(call') = <<Request(Wire(call'.op), call'.pages)>>
    BY <1>1 DEF Sent
  <2>2. Wire(call'.op) = "ping"
    BY <1>1 DEF Wire
  <2> QED BY <1>1, <2>1, <2>2
<1>3. /\ conn'[sock'].in = Sent(call') /\ conn'[sock'].out = <<>> /\ conn'[sock'].open
  BY <1>1, <1>2 DEF Fresh
<1> QED
  BY <1>1, <1>3 DEF Current, Waits

\* A refused connect() takes nothing from the connection that the client would read.
LEMMA DialRefusedCurrent ==
  ASSUME Base, Current, DialRefused
  PROVE  Current'
<1> SUFFICES ASSUME sock # 0, ~spoiled PROVE Quiet(call, conn'[sock])
  BY DialRefusedStep DEF Current
<1>1. Quiet(call, conn[sock]) /\ call.step = "dial" /\ conn' \in Closing
  BY NothingOnItsWay, DialRefusedStep DEF Receiving
<1> QED
  BY <1>1, ClosingStep DEF Quiet

\* Starting and stopping: the socket is closed, or nothing moves on it.
LEMMA StartsOrStopsCurrent ==
  ASSUME Base, Current, StartsOrStops
  PROVE  Current'
<1>1. CASE Launch
  <2>1. /\ UNCHANGED <<conn, sock, spoiled>> /\ call.step = "launch" /\ ~Receiving
    BY <1>1 DEF Launch, Receiving
  <2>2. call'.step \notin {"header", "body", "data"}
    BY <1>1, MachineCallBase
  <2>3. sock # 0 /\ ~spoiled => Quiet(call, conn[sock])
    BY <2>1, NothingOnItsWay
  <2> QED BY <2>1, <2>2, <2>3 DEF Current, Quiet
<1>2. CASE sock = 0 /\ UNCHANGED sock
  BY <1>2 DEF Current
<1>3. CASE GiveUp \/ StopQemu
  BY <1>3 DEF Current, GiveUp, StopQemu, Hangup
<1>4. CASE Stopped
  BY <1>4 DEF Stopped, Base, Sockets, Current
<1> QED
  BY <1>1, <1>2, <1>3, <1>4 DEF StartsOrStops

\* A connection that ends keeps what the daemon had sent, or loses it.
LEMMA EndedCurrent ==
  ASSUME Base, Current, UNCHANGED <<sock, spoiled, call>>,
         sock # 0 => /\ ~conn'[sock].open
                     /\ conn'[sock].out = <<>> \/ conn'[sock].out = conn[sock].out
  PROVE  Current'
<1> SUFFICES ASSUME sock # 0, ~spoiled
             PROVE  Quiet(call', conn'[sock']) \/ Answered(conn[sock])'
  BY DEF Current
<1>1. /\ call' = call /\ sock' = sock /\ Mute(conn'[sock'])
  BY DEF Mute
<1>2. CASE conn'[sock].out = <<>>
  BY <1>1, <1>2 DEF Quiet
<1>3. CASE conn'[sock].out = conn[sock].out /\ conn[sock].out # <<>>
  <2>1. Answered(conn[sock])
    BY <1>3 DEF Current, Quiet, Waits
  <2>2. PICK m \in Versions : Left(call, conn[sock].out, m)
    BY <2>1 DEF Answered
  <2>3. Left(call', conn'[sock'].out, m) /\ ~conn'[sock'].open
    BY <1>1, <1>3, <2>2
  <2> QED BY <1>1, <2>3 DEF Answered
<1> QED
  BY <1>2, <1>3

-----------------------------------------------------------------------------
(***************************************************************************)
(* The daemon's steps keep it current.                                     *)
(***************************************************************************)

\* The machine dies with every connection.
LEMMA DeathCurrent ==
  ASSUME Base, Current, NEW kept \in BOOLEAN, conn' = [c \in DOMAIN conn |-> Dead(conn[c], kept)],
         UNCHANGED <<sock, spoiled, call>>
  PROVE  Current'
<1>1. sock # 0 => /\ ~conn'[sock].open
                  /\ conn'[sock].out = <<>> \/ conn'[sock].out = conn[sock].out
  BY SocketThere, DeathStep
<1> QED
  BY <1>1, EndedCurrent

\* The daemon ends a connection, the client's or another one.
LEMMA HangUpCurrent ==
  ASSUME Base, Current, NEW c \in 1..Len(conn), HangUp(c)
  PROVE  Current'
<1>1. /\ ~conn'[c].open /\ conn'[c].out = conn[c].out
      /\ \A j \in 1..Len(conn) : j # c => conn'[j] = conn[j]
      /\ UNCHANGED <<up, cache, disk, sock, spoiled, call>>
  BY HangUpStep
<1>2. CASE c = sock
  BY <1>1, <1>2, EndedCurrent
<1>3. CASE c # sock
  <2>1. sock # 0 => conn'[sock] = conn[sock]
    BY <1>1, <1>3, SocketThere
  <2>2. sock # 0 /\ Settled => Settled'
    <3> SUFFICES ASSUME sock # 0, Settled, NEW d \in 1..(sock-1) PROVE ~conn'[d].open
      BY <1>1 DEF Settled, Durable
    <3>1. d \in 1..Len(conn) /\ ~conn[d].open
      BY SocketThere DEF Settled
    <3> QED BY <1>1, <3>1
  <2> QED BY <1>1, <2>1, <2>2, CurrentSame
<1> QED
  BY <1>2, <1>3

\* A page that the kernel writes back was not flushed: no flush() waits for its answer.
LEMMA WriteBackCurrent ==
  ASSUME Base, Current, NEW p \in Pages, WriteBack(p)
  PROVE  Current'
<1>1. /\ UNCHANGED <<conn, up, cache, sock, spoiled, call>> /\ disk[p] # cache[p]
  BY DEF WriteBack, Unasked
<1>2. \A q \in Pages : disk'[q] = disk[q] \/ disk'[q] = cache[q]
  BY DEF WriteBack, Base, Types, Versions
<1>3. Settled => Settled'
  BY <1>1, <1>2 DEF Settled, Durable
<1> QED
  BY <1>1, <1>3, CurrentSame

\* The daemon serves another connection: then this one waits, and has no answer yet.
LEMMA OtherServed ==
  ASSUME Base, Current, NEW c \in 1..Len(conn), c # sock, Accepted(c),
         UNCHANGED <<sock, spoiled, call>>, \A j \in 1..Len(conn) : j # c => conn'[j] = conn[j]
  PROVE  Current'
<1>1. sock # 0 => conn'[sock] = conn[sock]
  BY SocketThere
<1>2. ~(sock # 0 /\ conn[sock].open /\ Settled)
  <2> SUFFICES ASSUME sock # 0, conn[sock].open, Settled PROVE FALSE
    OBVIOUS
  <2>1. c \in 1..(sock-1)
    BY SocketThere
  <2> QED BY <2>1 DEF Accepted, Settled
<1> QED
  BY <1>1, <1>2, CurrentSame

\* The daemon takes a request from the client's connection: it is the one the client
\* waits for, and the connections before this one have ended.
LEMMA AskedSocket ==
  ASSUME Base, Current, sock # 0, ~spoiled, NEW op \in Ops, Asked(sock, op)
  PROVE  /\ Waits(call, conn[sock]) /\ sock \in 1..Len(conn)
         /\ call.op \in Asking /\ call.pages \in Seq(Pages) /\ call.id \in Nat
         /\ op = Wire(call.op) /\ Named(sock) = call.pages
         /\ call.op \in {"write", "bigwrite"} =>
               Len(conn[sock].in) = 2 /\ conn[sock].in[2] = Data(call.id)
         /\ call.op \notin {"write", "bigwrite"} => Len(conn[sock].in) = 1
         /\ \A d \in 1..(sock-1) : ~conn[d].open
<1>1. sock \in 1..Len(conn)
  BY SocketThere
<1>2. Waits(call, conn[sock])
  BY <1>1, MuteNotAsked DEF Current, Quiet, Answered
<1>3. /\ call.op \in Asking /\ call.op \in Ops /\ call.pages \in Seq(Pages) /\ call.id \in Nat
  <2>1. call \in CallRecord /\ Formed(call, calls)
    BY DEF Base, Types, Formed
  <2> QED BY <1>2, <2>1 DEF Formed, CallRecord, Waits
<1>4. conn[sock].in = Sent(call) /\ Head(conn[sock].in).op = op
  BY <1>2 DEF Waits, Asked
<1>. DEFINE r == Request(Wire(call.op), call.pages)
            d == Data(call.id)
<1>5. r \in InCell /\ r.op = Wire(call.op) /\ r.pages = call.pages /\ d \in InCell
  <2>1. Wire(call.op) \in Ops
    BY <1>3 DEF Wire, Ops, Asking
  <2> QED BY <1>3, <2>1, Cells
<1>6. Sent(call) = IF call.op \in {"write", "bigwrite"} THEN <<r, d>> ELSE <<r>>
  BY DEF Sent, Wire
<1>. HIDE DEF r, d
<1>7. /\ <<r>> \in Seq(InCell) /\ Len(<<r>>) = 1 /\ Head(<<r>>) = r
      /\ <<r, d>> \in Seq(InCell) /\ Len(<<r, d>>) = 2 /\ Head(<<r, d>>) = r /\ <<r, d>>[2] = d
  BY <1>5, Tuples, Heads
<1>8. Named(sock) = Head(conn[sock].in).pages
  BY DEF Named
<1>9. Head(Sent(call)) = r
  BY <1>6, <1>7
<1>10. \A e \in 1..(sock-1) : ~conn[e].open
  BY DEF Asked, Accepted
<1> QED
  BY <1>1, <1>2, <1>3, <1>4, <1>5, <1>6, <1>7, <1>8, <1>9, <1>10 DEF d

\* The daemon answers on the client's connection with the reply to its call.
LEMMA AnsweredAfter ==
  ASSUME Base, Current, sock # 0, ~spoiled, NEW op \in Ops, Asked(sock, op),
         UNCHANGED <<sock, spoiled, call>>,
         NEW n \in 1..Len(conn[sock].in),
         n # Len(conn[sock].in) => conn[sock].in[n+1].kind = "data",
         NEW cells \in Seq(OutCell), Answer(sock, n, cells),
         Whole(call, cells, cache'), cache' \in Versions, call.op = "flush" => Durable'
  PROVE  Current'
<1>1. /\ Waits(call, conn[sock]) /\ sock \in 1..Len(conn) /\ conn[sock] \in Connection
      /\ \A d \in 1..(sock-1) : ~conn[d].open
  BY AskedSocket, SocketThere
<1>2. n \in 0..Len(conn[sock].in) /\ Len(conn[sock].in) \in Nat
  BY <1>1, ConnectionFields
<1>3. /\ conn'[sock] \in Connection
      /\ conn'[sock].out = conn[sock].out \o cells
      /\ \A j \in 1..Len(conn) : conn'[j].open = conn[j].open
      /\ Shrunk(conn'[sock], conn[sock], n)
      /\ conn'[sock].in = SubSeq(conn[sock].in, n + 1, Len(conn[sock].in))
      /\ conn'[sock].open = conn[sock].open /\ conn'[sock].shut = conn[sock].shut
  BY <1>1, <1>2, AnswerStep
<1>4. conn'[sock].out = cells
  <2>1. conn[sock].out = <<>>
    BY <1>1 DEF Waits
  <2> QED BY <1>3, <2>1, ConcatEmptySeq
<1>5. Mute(conn'[sock])
  <2>1. /\ Len(conn'[sock].in) = Len(conn[sock].in) - n
        /\ Len(conn'[sock].in) \in Nat
        /\ conn'[sock].in # <<>> <=> Len(conn'[sock].in) # 0
    BY <1>1, <1>2, <1>3, SuffixShrunk, ConnectionFields
  <2>2. CASE n = Len(conn[sock].in)
    BY <1>2, <2>1, <2>2 DEF Mute
  <2>3. CASE n # Len(conn[sock].in)
    <3>1. 1 \in 1..Len(conn'[sock].in) /\ 1 + n = n + 1
      BY <1>2, <2>1, <2>3
    <3>2. conn'[sock].in[1] = conn[sock].in[1+n]
      BY <3>1, <1>3 DEF Shrunk
    <3> QED BY <2>3, <3>1, <3>2 DEF Mute
  <2> QED BY <2>2, <2>3
<1>6. Left(call, cells, cache')
  BY <1>1 DEF Waits, Left
<1>7. Settled'
  <2>1. \A d \in 1..(sock-1) : d \in 1..Len(conn)
    BY <1>1, SocketThere
  <2> QED BY <1>1, <1>3, <2>1 DEF Settled
<1>8. Answered(conn[sock])'
  BY <1>4, <1>5, <1>6, <1>7 DEF Answered
<1> QED
  BY <1>8 DEF Current

\* A request that the daemon answers without changing a page.
LEMMA QueryCurrent ==
  ASSUME Base, Current, NEW c \in 1..Len(conn), Query(c)
  PROVE  Current'
<1>1. /\ UNCHANGED <<sock, spoiled, call, cache>> /\ cache \in Versions
      /\ \E cells \in Seq(OutCell) : Answer(c, 1, cells)
  BY QueryStep DEF Base, Types
<1>2. PICK op \in Ops : Asked(c, op)
  BY QueryStep
<1>3. 1 \in 0..Len(conn[c].in) /\ 1 \in 1..Len(conn[c].in) /\ Accepted(c)
  BY <1>2, AskedRequest DEF Asked
<1>4. CASE c # sock
  <2>1. \A j \in 1..Len(conn) : j # c => conn'[j] = conn[j]
    BY <1>1, <1>3, AnswerStep
  <2> QED BY <1>1, <1>3, <1>4, <2>1, OtherServed
<1>5. CASE c = sock /\ spoiled
  BY <1>1, <1>5 DEF Current
<1>6. CASE c = sock /\ ~spoiled
  <2>. DEFINE Reached(o) ==
         /\ o = Wire(call.op) /\ Named(sock) = call.pages
         /\ call.op \in {"write", "bigwrite"} =>
               Len(conn[sock].in) = 2 /\ conn[sock].in[2] = Data(call.id)
         /\ call.op \notin {"write", "bigwrite"} => Len(conn[sock].in) = 1
  <2>0. sock # 0
    BY <1>6
  <2>1. \A o \in Ops : Asked(sock, o) => Reached(o)
    BY <1>6, <2>0, AskedSocket
  <2>2. /\ call.op \in Asking /\ call.pages \in Seq(Pages) /\ call.id \in Nat
        /\ Formed(call, calls)
    BY <1>2, <1>6, <2>0, AskedSocket DEF Base, Types
  <2>3. 1 # Len(conn[sock].in) => conn[sock].in[1+1].kind = "data"
    BY <1>2, <1>6, <2>1, <2>2, Cells
  <2>. HIDE DEF Reached
  <2>4. ASSUME NEW cells \in Seq(OutCell), Answer(sock, 1, cells), Whole(call, cells, cache),
               call.op = "flush" => Durable'
        PROVE  Current'
    BY <1>1, <1>2, <1>3, <1>6, <2>0, <2>3, <2>4, AnsweredAfter
  <2>5. \A b \in BOOLEAN, n \in Nat : Reply(b, n) \in OutCell /\ <<Reply(b, n)>> \in Seq(OutCell)
    BY Cells, Tuples
  <2>6. {"bigwrite", "read", "batch", "topk", "ping", "start", "flush"} \subseteq Ops
    BY DEF Ops, Asking
  <2>7. CASE ServeBigWrite(c)
    <3>1. Asked(sock, "bigwrite") /\ Answer(sock, 1, <<Reply(FALSE, 0)>>)
      BY <1>6, <2>7 DEF ServeBigWrite
    <3>2. call.op = "bigwrite"
      BY <2>1, <2>6, <3>1 DEF Reached, Wire
    <3>3. Whole(call, <<Reply(FALSE, 0)>>, cache)
      BY <3>2 DEF Whole
    <3> QED BY <2>4, <2>5, <3>1, <3>2, <3>3
  <2>8. CASE ServeRead(c)
    <3>1. /\ Asked(sock, "read")
          /\ Answer(sock, 1, IF Named(sock)[1] \in BadPages THEN <<Reply(FALSE, 0)>>
                             ELSE <<Reply(TRUE, 1)>> \o Page(Named(sock)[1]))
      BY <1>6, <2>8 DEF ServeRead
    <3>2. call.op = "read" /\ Named(sock)[1] = First(call)
      BY <2>1, <2>6, <3>1 DEF Reached, Wire, First
    <3>3. First(call) \in Pages
      BY <1>6, <3>1, <3>2, AskedRequest
    <3>4. CASE First(call) \in BadPages
      <4>1. Answer(sock, 1, <<Reply(FALSE, 0)>>) /\ Whole(call, <<Reply(FALSE, 0)>>, cache)
        BY <3>1, <3>2, <3>4 DEF Whole
      <4> QED BY <2>4, <2>5, <3>2, <4>1
    <3>5. CASE First(call) \notin BadPages
      <4>. DEFINE d == Data(cache[First(call)])
                  h == Reply(TRUE, 1)
      <4>1. d \in OutCell /\ h \in OutCell
        <5>1. cache[First(call)] \in Nat
          BY <1>1, <3>3 DEF Versions
        <5> QED BY <2>5, <5>1, Cells
      <4>2. Answer(sock, 1, <<h>> \o <<d>>)
        BY <3>1, <3>2, <3>5 DEF Page
      <4>3. Whole(call, <<h, d>>, cache)
        BY <3>2 DEF Whole
      <4>. HIDE DEF h, d
      <4>4. <<h>> \o <<d>> = <<h, d>> /\ <<h, d>> \in Seq(OutCell)
        BY <4>1, Joined, Tuples
      <4> QED BY <2>4, <3>2, <4>2, <4>3, <4>4
    <3> QED BY <3>4, <3>5
  <2>9. CASE ServeBatch(c)
    <3>1. /\ Asked(sock, "batch")
          /\ Answer(sock, 1, <<Reply(TRUE, Len(Named(sock)))>> \o Items(Named(sock), cache))
      BY <1>6, <2>9 DEF ServeBatch
    <3>2. call.op = "batch" /\ Named(sock) = call.pages
      BY <2>1, <2>6, <3>1 DEF Reached, Wire
    <3>. DEFINE cells == <<Reply(TRUE, Len(call.pages))>> \o Items(call.pages, cache)
    <3>3. cells \in Seq(OutCell)
      <4>1. Items(call.pages, cache) \in Seq(OutCell) /\ Len(call.pages) \in Nat
        BY <1>1, <2>2, ItemsType, LenProperties
      <4> QED BY <2>5, <4>1, ConcatProperties
    <3>4. Whole(call, cells, cache)
      BY <3>2 DEF Whole
    <3>5. Answer(sock, 1, cells)
      BY <3>1, <3>2
    <3>. HIDE DEF cells
    <3> QED BY <2>4, <3>2, <3>3, <3>4, <3>5
  <2>10. CASE ServeTopK(c)
    <3>1. Asked(sock, "topk")
      BY <1>6, <2>10 DEF ServeTopK
    <3>2. call.op = "topk" /\ Named(sock) = call.pages
      BY <2>1, <2>6, <3>1 DEF Reached, Wire
    <3>3. Range(call.pages) \subseteq Pages
      BY <2>2, RangePages
    <3>4. PICK w \in OutCell : Best(call, w, cache) /\ Answer(sock, 1, <<Reply(TRUE, 1), w>>)
      <4>1. CASE \E p \in Range(call.pages) \ BadPages :
                    Answer(sock, 1, <<Reply(TRUE, 1), Winner(p, cache[p])>>)
        <5>1. PICK p \in Range(call.pages) \ BadPages :
                    Answer(sock, 1, <<Reply(TRUE, 1), Winner(p, cache[p])>>)
          BY <4>1
        <5>2. Winner(p, cache[p]) \in OutCell
          BY <1>1, <3>3, Cells DEF Versions
        <5> QED BY <5>1, <5>2 DEF Best
      <4>2. CASE Answer(sock, 1, <<Reply(TRUE, 1), Winner(NoPage, NoVal)>>)
        <5>1. Winner(NoPage, NoVal) \in OutCell
          BY Cells
        <5> QED BY <4>2, <5>1 DEF Best
      <4> QED BY <1>6, <2>10, <3>2, <4>1, <4>2 DEF ServeTopK
    <3>. DEFINE h == Reply(TRUE, 1)
    <3>5. Whole(call, <<h, w>>, cache)
      BY <3>2, <3>4 DEF Whole
    <3>6. h \in OutCell
      BY <2>5
    <3>7. Answer(sock, 1, <<h, w>>)
      BY <3>4
    <3>. HIDE DEF h
    <3>8. <<h, w>> \in Seq(OutCell)
      BY <3>6, Tuples
    <3> QED BY <2>4, <3>2, <3>5, <3>7, <3>8
  <2>11. CASE ServePing(c)
    <3>1. Asked(sock, "ping") \/ Asked(sock, "start")
      BY <1>6, <2>11 DEF ServePing
    <3>2. Answer(sock, 1, <<Reply(TRUE, 0)>>)
      BY <1>6, <2>11 DEF ServePing
    <3>3. call.op \in {"ping", "boot", "start"}
      BY <2>1, <2>6, <3>1 DEF Reached, Wire
    <3>4. Whole(call, <<Reply(TRUE, 0)>>, cache)
      BY <3>3 DEF Whole, Probes
    <3> QED BY <2>4, <2>5, <3>2, <3>3, <3>4
  <2>12. CASE ServeFlush(c)
    <3>1. /\ Asked(sock, "flush") /\ Answer(sock, 1, <<Reply(TRUE, 0)>>)
          /\ \E refused \in SUBSET WornPages : disk' = WrittenOut(refused)
      BY <1>6, <2>12 DEF ServeFlush
    <3>4. Durable'
      BY <1>1, <3>1, WrittenOutPages DEF Base, Types, Durable
    <3>2. call.op = "flush"
      BY <2>1, <2>6, <3>1 DEF Reached, Wire
    <3>3. Whole(call, <<Reply(TRUE, 0)>>, cache)
      BY <3>2 DEF Whole
    <3> QED BY <2>4, <2>5, <3>1, <3>3, <3>4
  <2> QED BY <2>7, <2>8, <2>9, <2>10, <2>11, <2>12 DEF Query
<1> QED
  BY <1>4, <1>5, <1>6

\* A write: the page now holds the data of the call that is answered.
LEMMA WriteCurrent ==
  ASSUME Base, Current, NEW c \in 1..Len(conn), ServeWrite(c)
  PROVE  Current'
<1>1. /\ Asked(c, "write") /\ Len(conn[c].in) > 1
      /\ UNCHANGED <<sock, spoiled, call>> /\ "write" \in Ops
  BY DEF ServeWrite, Unasked, Ops, Asking
<1>2. Len(conn[c].in) \in Nat /\ 2 \in 0..Len(conn[c].in) /\ 2 \in 1..Len(conn[c].in) /\ Accepted(c)
  BY <1>1, AskedRequest DEF Asked
<1>3. \A b \in BOOLEAN, n \in Nat : Reply(b, n) \in OutCell /\ <<Reply(b, n)>> \in Seq(OutCell)
  BY Cells, Tuples
<1>4. CASE c # sock
  <2>1. PICK cells \in Seq(OutCell) : Answer(c, 2, cells)
    <3>1. Answer(c, 2, <<Reply(FALSE, 0)>>) \/ Answer(c, 2, <<Reply(TRUE, 1)>>)
      BY DEF ServeWrite
    <3> QED BY <1>3, <3>1
  <2>2. \A j \in 1..Len(conn) : j # c => conn'[j] = conn[j]
    BY <1>2, <2>1, AnswerStep
  <2> QED BY <1>1, <1>2, <1>4, <2>2, OtherServed
<1>5. CASE c = sock /\ spoiled
  BY <1>1, <1>5 DEF Current
<1>6. CASE c = sock /\ ~spoiled
  <2>0. sock # 0
    BY <1>6
  <2>1. /\ "write" = Wire(call.op) /\ Named(sock) = call.pages /\ call.id \in Nat
        /\ call.op \in {"write", "bigwrite"} =>
              Len(conn[sock].in) = 2 /\ conn[sock].in[2] = Data(call.id)
    BY <1>1, <1>6, <2>0, AskedSocket
  <2>2. call.op = "write" /\ Len(conn[sock].in) = 2 /\ conn[sock].in[2].val = call.id
    BY <2>1, Cells DEF Wire
  <2>3. First(call) \in Pages /\ First(call) = Named(sock)[1]
    BY <1>1, <1>6, <2>1, AskedRequest DEF First
  <2>4. cache' \in Versions /\ cache \in Versions
    BY WriteBase DEF Base, Types
  <2>5. ASSUME NEW cells \in Seq(OutCell), Answer(sock, 2, cells), Whole(call, cells, cache')
        PROVE  Current'
    BY <1>1, <1>2, <1>6, <2>0, <2>2, <2>4, <2>5, AnsweredAfter
  <2>6. CASE First(call) \in BadPages
    <3>1. Answer(sock, 2, <<Reply(FALSE, 0)>>)
      BY <1>6, <2>3, <2>6 DEF ServeWrite
    <3>2. Whole(call, <<Reply(FALSE, 0)>>, cache')
      BY <2>2, <2>6 DEF Whole
    <3> QED BY <1>3, <2>5, <3>1, <3>2
  <2>7. CASE First(call) \notin BadPages
    <3>1. /\ Answer(sock, 2, <<Reply(TRUE, 1)>>)
          /\ cache' = [cache EXCEPT ![First(call)] = conn[sock].in[2].val]
      BY <1>6, <2>3, <2>7 DEF ServeWrite
    <3>2. cache'[First(call)] = call.id
      BY <2>2, <2>3, <2>4, <3>1 DEF Versions
    <3>3. Whole(call, <<Reply(TRUE, 1)>>, cache')
      BY <2>2, <2>7, <3>2 DEF Whole
    <3> QED BY <1>3, <2>5, <3>1, <3>3
  <2> QED BY <2>6, <2>7
<1> QED
  BY <1>4, <1>5, <1>6

-----------------------------------------------------------------------------
(***************************************************************************)
(* The client reads the reply, cell by cell.                               *)
(***************************************************************************)

\* A return that the connection vouches for claims the truth.
Honest == result' # result /\ result'.step = "ok" /\ conn[sock].open => Claim(result')

\* The client reads a cell: the reply to the call is on its way.
LEMMA ReadStep ==
  ASSUME Base, Current, ~spoiled,
         RecvHeader \/ RecvPage \/ RecvWinner \/ RecvItem \/ RecvItemData
  PROVE  /\ sock # 0 /\ sock \in 1..Len(conn) /\ conn[sock].out # <<>> /\ Mute(conn[sock])
         /\ call'.step \notin {"header", "wait"}
         /\ UNCHANGED <<sock, cache, disk>>
         /\ conn'[sock].out = Tail(conn[sock].out) /\ conn'[sock].in = conn[sock].in
         /\ \A j \in 1..Len(conn) : conn'[j].open = conn[j].open
         /\ Next1 = Head(conn[sock].out) /\ Next1 \in OutCell
         /\ \E m \in Versions :
               /\ Left(call, conn[sock].out, m)
               /\ conn[sock].open => m = cache /\ Settled
<1>1. /\ sock # 0 /\ conn[sock].out # <<>> /\ Consume
      /\ call'.step \notin {"header", "wait"} /\ UNCHANGED <<sock, calls, server>>
  BY ReadCall
<1>2. Types /\ Sockets /\ Ordered(conn, cache, calls)
  BY DEF Base, WritesInOrder
<1>3. /\ conn'[sock].out = Tail(conn[sock].out) /\ conn'[sock].in = conn[sock].in
      /\ conn'[sock].open = conn[sock].open /\ sock \in 1..Len(conn)
      /\ \A j \in 1..Len(conn) : j # sock => conn'[j] = conn[j]
      /\ Next1 \in OutCell
  BY <1>1, <1>2, ConsumeStep
<1>4. Answered(conn[sock])
  BY <1>1 DEF Current, Quiet, Waits
<1> QED
  BY <1>1, <1>3, <1>4 DEF Answered, server, Next1

\* The cell was the last one of the reply.
LEMMA LastRead ==
  ASSUME Base, Current, ~spoiled,
         RecvHeader \/ RecvPage \/ RecvWinner \/ RecvItem \/ RecvItemData,
         Tail(conn[sock].out) = <<>>, call'.step \notin {"body", "data"}
  PROVE  Current'
<1>1. Quiet(call', conn'[sock'])
  BY ReadStep DEF Quiet, Mute
<1> QED
  BY <1>1 DEF Current

\* It was not, and the call goes on.
LEMMA MoreToRead ==
  ASSUME Base, Current, ~spoiled,
         RecvHeader \/ RecvPage \/ RecvWinner \/ RecvItem \/ RecvItemData,
         NEW m \in Versions, conn[sock].open => m = cache /\ Settled,
         call'.op = call.op, Left(call', Tail(conn[sock].out), m)
  PROVE  Current'
<1>1. /\ sock' = sock /\ cache' = cache /\ disk' = disk /\ Mute(conn'[sock])
      /\ conn'[sock].out = Tail(conn[sock].out)
      /\ conn'[sock].open = conn[sock].open
      /\ \A j \in 1..Len(conn) : conn'[j].open = conn[j].open
      /\ \A j \in 1..(sock-1) : j \in 1..Len(conn)
  BY ReadStep, SocketThere DEF Mute
<1>2. Settled => Settled'
  BY <1>1 DEF Settled, Durable
<1>3. Answered(conn[sock])'
  BY <1>1, <1>2 DEF Answered
<1> QED
  BY <1>3 DEF Current

\* What a failed call leaves.
LEMMA FailHonest ==
  ASSUME Types, Receiving, Fail
  PROVE  Honest /\ call'.step \notin {"body", "data"}
BY FailFormed DEF Honest

\* The header.
LEMMA HeaderCurrent ==
  ASSUME Base, Current, RecvHeader, ~spoiled
  PROVE  Current' /\ Honest
<1>1. /\ Types /\ Receiving /\ call.step = "header" /\ Formed(call, calls)
      /\ call \in CallRecord
  BY DEF RecvHeader, Awaiting, Receiving, Base, Types, Formed
<1>. DEFINE out == conn[sock].out
<1>2. PICK m \in Versions : Left(call, out, m) /\ (conn[sock].open => m = cache /\ Settled)
  BY ReadStep
<1>3. Next1 = Head(out) /\ Next1 \in OutCell /\ Whole(call, out, m)
  BY <1>1, <1>2, ReadStep DEF Left
<1>4. \A b \in BOOLEAN, n \in Nat :
         /\ Reply(b, n) \in OutCell
         /\ Reply(b, n).kind = "reply" /\ Reply(b, n).ok = b /\ Reply(b, n).len = n
  BY Cells
<1>5. \A h \in OutCell : <<h>> # <<>> /\ Head(<<h>>) = h /\ Tail(<<h>>) = <<>>
  BY Heads
<1>6. call.pages \in Seq(Pages) /\ Len(call.pages) \in Nat
  BY <1>1, LenProperties DEF CallRecord
<1>. HIDE DEF out
<1>7. ASSUME Fail, Tail(out) = <<>> PROVE Current' /\ Honest
  BY <1>1, <1>7, FailHonest, LastRead DEF out
<1>8. ASSUME Return(Nothing), Tail(out) = <<>>,
             conn[sock].open => call.op \notin {"read", "batch", "topk"}
                /\ (call.op = "write" => m[First(call)] = call.id)
      PROVE  Current' /\ Honest
  <2>1. /\ call'.step = "idle" /\ result'.op = call.op /\ result'.pages = call.pages
        /\ result'.id = call.id
    BY <1>1, <1>8, ReturnFormed, NothingType
  <2>2. Current'
    BY <1>8, <2>1, LastRead DEF out
  <2>3. Honest
    BY <1>2, <1>8, <2>1, ReadStep DEF Honest, Claim, Settled, First, Durable
  <2> QED BY <2>2, <2>3
<1>9. ASSUME Good(Next1), HasBody(Next1), call.op # "flush"
      PROVE  /\ call'.step = "body" /\ call'.left = Next1.len
             /\ call'.op = call.op /\ call'.pages = call.pages /\ call'.got = Nothing
             /\ Honest
  <2>1. call' = [call EXCEPT !.step = "body", !.left = Next1.len] /\ result' = result
    BY <1>9 DEF RecvHeader
  <2> QED BY <1>1, <1>3, <1>9, <2>1, BodyFormed DEF Honest
<1>10. ASSUME out = <<Reply(FALSE, 0)>>, call.op \in {"write", "bigwrite", "read"}
       PROVE  Current' /\ Honest
  <2>. DEFINE h == Reply(FALSE, 0)
  <2>1. h \in OutCell /\ ~h.ok
    BY <1>4
  <2>2. Next1 = h /\ Tail(out) = <<>>
    <3>. HIDE DEF h
    <3> QED BY <1>3, <1>5, <1>10, <2>1 DEF h
  <2>3. Fail
    BY <1>10, <2>1, <2>2 DEF RecvHeader, Good
  <2> QED BY <1>7, <2>2, <2>3
<1>11. ASSUME NEW n \in Nat, out = <<Reply(TRUE, n)>>, call.op \notin {"read", "batch", "topk"},
              call.op = "write" => m[First(call)] = call.id
       PROVE  Current' /\ Honest
  <2>. DEFINE h == Reply(TRUE, n)
  <2>1. h \in OutCell /\ h.ok /\ h.kind = "reply"
    BY <1>4
  <2>2. Next1 = h /\ Tail(out) = <<>>
    <3>. HIDE DEF h
    <3> QED BY <1>3, <1>5, <1>11, <2>1 DEF h
  <2>3. Return(Nothing)
    BY <1>11, <2>1, <2>2 DEF RecvHeader, Good, HasBody
  <2> QED BY <1>8, <1>11, <2>2, <2>3
<1>12. ASSUME NEW w \in OutCell, out = <<Reply(TRUE, 1), w>>, call.op \in {"read", "topk"},
              \/ call.op = "read" /\ w = Data(m[First(call)])
              \/ call.op = "topk" /\ Best(call, w, m)
       PROVE  Current' /\ Honest
  <2>. DEFINE h == Reply(TRUE, 1)
  <2>1. h \in OutCell /\ h.ok /\ h.kind = "reply" /\ h.len = 1
    BY <1>4
  <2>2. Next1 = h /\ Tail(out) = <<w>>
    <3>. HIDE DEF h
    <3>1. out = <<h, w>>
      BY <1>12 DEF h
    <3> QED BY <1>3, <2>1, <3>1, Heads
  <2>. HIDE DEF h
  <2>3. Good(Next1) /\ HasBody(Next1) /\ call.op # "flush"
    <3>1. Next1.kind = "reply" /\ Next1.ok /\ Next1.len > 0
      BY <2>1, <2>2
    <3> QED BY <1>12, <3>1 DEF Good, HasBody
  <2>4. /\ call'.step = "body" /\ call'.left = 1
        /\ call'.op = call.op /\ call'.pages = call.pages /\ call'.got = Nothing
        /\ Honest
    BY <1>9, <2>1, <2>2, <2>3
  <2>5. Body(call', <<w>>, m) /\ Taken(call', m)
    BY <1>12, <2>4 DEF Body, Taken, Best, First
  <2>6. Left(call', Tail(out), m)
    BY <2>2, <2>4, <2>5 DEF Left
  <2> QED BY <1>2, <2>4, <2>6, MoreToRead DEF out
<1>13. ASSUME out = <<Reply(TRUE, Len(call.pages))>> \o Items(call.pages, m), call.op = "batch"
       PROVE  Current' /\ Honest
  <2>. DEFINE L == Len(call.pages)
              h == Reply(TRUE, L)
              rest == Items(call.pages, m)
  <2>1. L \in Nat /\ L # 0 /\ rest \in Seq(OutCell)
    BY <1>1, <1>6, <1>13, EmptySeq, ItemsType DEF Formed
  <2>. HIDE DEF L, rest
  <2>2. h \in OutCell /\ h.ok /\ h.kind = "reply" /\ h.len = L
    BY <1>4, <2>1
  <2>3. Next1 = h /\ Tail(out) = rest
    <3>1. out = <<h>> \o rest
      BY <1>13 DEF L, rest
    <3>. HIDE DEF h
    <3> QED BY <1>3, <2>1, <2>2, <3>1, Heads
  <2>. HIDE DEF h
  <2>4. Good(Next1) /\ HasBody(Next1) /\ call.op # "flush"
    <3>1. Next1.kind = "reply" /\ Next1.ok /\ Next1.len > 0
      BY <2>1, <2>2, <2>3
    <3> QED BY <1>13, <3>1 DEF Good, HasBody
  <2>5. /\ call'.step = "body" /\ call'.left = L
        /\ call'.op = call.op /\ call'.pages = call.pages /\ call'.got = Nothing
        /\ Honest
    BY <1>9, <2>2, <2>3, <2>4
  <2>6. Rest(call', call'.left) = call'.pages
    BY <1>6, <2>5, RestOf DEF L
  <2>7. Body(call', rest, m)
    BY <1>13, <2>1, <2>5, <2>6 DEF Body, L, rest
  <2>8. Taken(call', m)
    <3>1. 1..(Len(call'.pages) - call'.left) = {}
      BY <2>1, <2>5 DEF L
    <3> QED BY <3>1 DEF Taken
  <2>9. Left(call', Tail(out), m)
    BY <2>3, <2>5, <2>7, <2>8 DEF Left
  <2> QED BY <1>2, <2>5, <2>9, MoreToRead DEF out
<1>14. call.op = "read" => Data(m[First(call)]) \in OutCell
  <2>1. call.op = "read" => First(call) \in Pages
    BY <1>1, <1>6, ElementOfSeq DEF Formed, First
  <2>2. call.op = "read" => m[First(call)] \in Nat
    BY <2>1 DEF Versions
  <2> QED BY <2>2, Cells
<1> QED
  BY <1>3, <1>10, <1>11, <1>12, <1>13, <1>14 DEF Whole, Probes

\* The page of read(): its current content.
LEMMA PageCurrent ==
  ASSUME Base, Current, RecvPage, ~spoiled
  PROVE  Current' /\ Honest
<1>1. /\ Types /\ call.step = "body" /\ call.op = "read" /\ Formed(call, calls)
      /\ call \in CallRecord /\ Received(call.pages[1], Content(Next1))
  BY DEF RecvPage, Awaiting, Base, Types, Formed
<1>. DEFINE out == conn[sock].out
            p == call.pages[1]
<1>2. PICK m \in Versions : Left(call, out, m) /\ (conn[sock].open => m = cache /\ Settled)
  BY ReadStep
<1>3. /\ p \in Pages /\ Len(call.pages) = 1 /\ call.pages \in Seq(Pages)
  BY <1>1, ElementOfSeq DEF Formed, CallRecord
<1>4. call.left = 1 /\ call.got = Nothing /\ out = <<Data(m[p])>> /\ Next1 = Head(out)
  BY <1>1, <1>2, ReadStep DEF Left, Body, First
<1>. HIDE DEF p, out
<1>5. m[p] \in Nat
  BY <1>3 DEF Versions
<1>. DEFINE d == Data(m[p])
<1>6. d \in OutCell /\ d.kind = "data" /\ d.val = m[p]
  BY <1>5, Cells
<1>. HIDE DEF d
<1>7. Next1 = d /\ Tail(out) = <<>> /\ Content(Next1) = m[p]
  <2>1. Next1 = d /\ Tail(out) = <<>>
    BY <1>4, <1>6, Heads DEF d
  <2> QED BY <1>6, <2>1 DEF Content
<1>8. m[p] \in Val
  BY <1>5 DEF Val
<1>9. /\ call'.step \in {"idle", "body"} /\ Return([call.got EXCEPT ![p] = m[p]])
      /\ [call.got EXCEPT ![p] = m[p]] \in [Pages -> Val]
  BY <1>1, <1>3, <1>4, <1>7, <1>8, ReceivedFormed DEF p
<1>10. /\ call'.step = "idle" /\ result'.op = "read" /\ result'.pages = call.pages
       /\ result'.got = [call.got EXCEPT ![p] = m[p]]
  BY <1>1, <1>9, ReturnFormed
<1>11. Current'
  BY <1>7, <1>10, LastRead DEF out
<1>12. \A q \in Range(call.pages) : q = p
  BY <1>3 DEF Range, p
<1>13. call.got \in [Pages -> Val]
  BY <1>1 DEF CallRecord
<1>14. Honest
  BY <1>2, <1>3, <1>10, <1>12, <1>13 DEF Honest, Claim
<1> QED
  BY <1>11, <1>14

\* The winner of compute_topk(), scored from its current content.
LEMMA WinnerCurrent ==
  ASSUME Base, Current, RecvWinner, ~spoiled
  PROVE  Current' /\ Honest
<1>. DEFINE page == IF Next1.kind = "winner" THEN Next1.page ELSE NoPage
            out == conn[sock].out
<1>1. /\ Types /\ call.step = "body" /\ call.op = "topk" /\ Formed(call, calls)
      /\ call \in CallRecord /\ Received(page, Content(Next1)) /\ call.pages \in Seq(Pages)
  BY DEF RecvWinner, Awaiting, Base, Types, Formed, CallRecord
<1>2. PICK m \in Versions : Left(call, out, m) /\ (conn[sock].open => m = cache /\ Settled)
  BY ReadStep
<1>3. call.left = 1 /\ call.got = Nothing /\ Next1 = Head(out)
  BY <1>1, <1>2, ReadStep DEF Left, Body
<1>4. PICK w \in OutCell : Best(call, w, m) /\ out = <<w>>
  BY <1>1, <1>2 DEF Left, Body
<1>. HIDE DEF out
<1>5. Next1 = w /\ Tail(out) = <<>>
  BY <1>3, <1>4, Heads
<1>6. /\ w.kind = "winner" /\ w.page \in Pages \union {NoPage} /\ w.val \in Nat \union {NoVal}
      /\ w.page \in Pages => w.val = m[w.page]
  <2>1. CASE w = Winner(NoPage, NoVal)
    <3>1. w.kind = "winner" /\ w.page = NoPage /\ w.val = NoVal
      BY <2>1 DEF Winner
    <3> QED BY <3>1, ProtocolAssumption
  <2>2. CASE \E p \in Range(call.pages) \ BadPages : w = Winner(p, m[p])
    <3>1. PICK p \in Pages : w = Winner(p, m[p])
      BY <1>1, <2>2, RangePages
    <3>2. m[p] \in Nat
      BY DEF Versions
    <3> QED BY <3>1, <3>2, Cells
  <2> QED BY <1>4, <2>1, <2>2 DEF Best
<1>7. page = w.page /\ Content(Next1) = w.val /\ w.val \in Val
  BY <1>5, <1>6 DEF Content, Val
<1>. HIDE DEF page
<1>. DEFINE got == IF page \in Pages THEN [call.got EXCEPT ![page] = w.val] ELSE call.got
<1>8. call'.step \in {"idle", "body"} /\ Return(got) /\ got \in [Pages -> Val]
  BY <1>1, <1>3, <1>6, <1>7, ReceivedFormed
<1>9. \A q \in Pages : got[q] = NoVal \/ got[q] = m[q]
  <2>1. call.got \in [Pages -> Val] /\ \A q \in Pages : call.got[q] = NoVal
    BY <1>3, NothingType
  <2> QED BY <1>6, <1>7, <2>1
<1>. HIDE DEF got
<1>10. call'.step = "idle" /\ result'.op = "topk" /\ result'.got = got
  BY <1>1, <1>8, ReturnFormed
<1>11. Current'
  BY <1>5, <1>10, LastRead DEF out
<1>12. Honest
  BY <1>2, <1>9, <1>10 DEF Honest, Claim
<1> QED
  BY <1>11, <1>12

\* The items of a batch that are left: the first one, and the others.
LEMMA ItemsLeft ==
  ASSUME Formed(call, calls), call.op = "batch", call.step \in {"body", "data"},
         call.left <= Len(call.pages), NEW m \in Versions
  PROVE  LET p == Rest(call, call.left)[1]
             more == Items(Tail(Rest(call, call.left)), m)
         IN /\ call.left \in 1..Len(call.pages) /\ Len(call.pages) \in Nat
            /\ p \in Pages /\ p = call.pages[Len(call.pages) - call.left + 1]
            /\ more \in Seq(OutCell)
            /\ more = Items(Rest(call, call.left - 1), m)
            /\ call.left = 1 => more = <<>>
            /\ Items(Rest(call, call.left), m) = ItemCells(p, m) \o more
<1>1. call \in CallRecord /\ call.pages \in Seq(Pages) /\ Len(call.pages) \in Nat
  BY LenProperties DEF Formed, CallRecord
<1>2. call.left \in Nat /\ call.left # 0 /\ call.left \in 1..Len(call.pages)
  BY <1>1 DEF Formed, CallRecord
<1>. DEFINE rest == Rest(call, call.left)
<1>3. /\ rest \in Seq(Pages) /\ rest # <<>>
      /\ rest[1] = call.pages[Len(call.pages) - call.left + 1]
      /\ Tail(rest) = Rest(call, call.left - 1)
  BY <1>1, <1>2, RestOf
<1>. HIDE DEF rest
<1>4. rest[1] \in Pages /\ Tail(rest) \in Seq(Pages)
  BY <1>3, HeadTailProperties, EmptySeq, ElementOfSeq
<1>5. call.left = 1 => Tail(rest) = <<>>
  BY <1>1, <1>3, RestOf
<1>6. /\ Items(Tail(rest), m) \in Seq(OutCell)
      /\ Items(rest, m) = ItemCells(rest[1], m) \o Items(Tail(rest), m)
      /\ Tail(rest) = <<>> => Items(Tail(rest), m) = <<>>
  BY <1>3, <1>4, ItemsType
<1> QED
  BY <1>1, <1>2, <1>3, <1>4, <1>5, <1>6 DEF rest

\* The header of an item.  A failed one ends the call, and spoils the connection
\* unless it was the last.
LEMMA ItemCurrent ==
  ASSUME Base, Current, RecvItem, ~spoiled
  PROVE  Current' /\ Honest
<1>. DEFINE out == conn[sock].out
            p == Rest(call, call.left)[1]
            more(m) == Items(Tail(Rest(call, call.left)), m)
<1>1. /\ Types /\ call.step = "body" /\ call.op = "batch" /\ Formed(call, calls) /\ Receiving
  BY DEF RecvItem, Awaiting, Base, Types, Receiving
<1>2. PICK m \in Versions : Left(call, out, m) /\ (conn[sock].open => m = cache /\ Settled)
  BY ReadStep
<1>3. /\ call.left <= Len(call.pages) /\ out = Items(Rest(call, call.left), m)
      /\ Taken(call, m) /\ Next1 = Head(out)
  BY <1>1, <1>2, ReadStep DEF Left, Body
<1>4. /\ call.left \in 1..Len(call.pages) /\ Len(call.pages) \in Nat
      /\ p \in Pages /\ more(m) \in Seq(OutCell)
      /\ call.left = 1 => more(m) = <<>>
      /\ out = ItemCells(p, m) \o more(m)
  BY <1>1, <1>3, ItemsLeft
<1>5. m[p] \in Nat
  BY <1>4 DEF Versions
<1>. DEFINE rest == more(m)
            bad == Item(p, FALSE)
            good == Item(p, TRUE)
            d == Data(m[p])
<1>. HIDE DEF out
<1>6. /\ bad \in OutCell /\ ~bad.ok
      /\ good \in OutCell /\ good.kind = "item" /\ good.ok /\ good.page = p
      /\ d \in OutCell
  BY <1>4, <1>5, Cells
<1>7. CASE p \in BadPages
  <2>1. out = <<bad>> \o rest
    BY <1>4, <1>7 DEF ItemCells
  <2>2. rest \in Seq(OutCell)
    BY <1>4
  <2>. HIDE DEF bad, rest
  <2>3. Next1 = bad /\ Tail(out) = rest
    BY <1>3, <1>6, <2>1, <2>2, Heads
  <2>4. Fail /\ spoiled' = (spoiled \/ call.left > 1)
    BY <1>6, <2>3 DEF RecvItem
  <2>5. Honest /\ call'.step \notin {"body", "data"}
    BY <1>1, <2>4, FailHonest
  <2>6. Current'
    <3>1. CASE spoiled'
      BY <3>1 DEF Current
    <3>2. CASE ~spoiled'
      <4>0. ~(call.left > 1)
        BY <2>4, <3>2, Zenon
      <4>1. call.left = 1
        BY <1>4, <4>0
      <4>2. rest = <<>>
        BY <1>4, <4>1 DEF rest
      <4> QED BY <2>3, <2>5, <4>2, LastRead DEF out
    <3> QED BY <3>1, <3>2
  <2> QED BY <2>5, <2>6
<1>8. CASE p \notin BadPages
  <2>1. out = <<good, d>> \o rest /\ rest \in Seq(OutCell)
    BY <1>4, <1>8 DEF ItemCells
  <2>. HIDE DEF good, d, rest
  <2>2. out = <<good>> \o (<<d>> \o rest)
    <3>1. <<good, d>> = <<good>> \o <<d>>
      BY <1>6, Joined
    <3>2. <<good>> \in Seq(OutCell) /\ <<d>> \in Seq(OutCell)
      BY <1>6, Tuples
    <3> QED BY <2>1, <3>1, <3>2, ConcatAssociative
  <2>3. <<d>> \o rest \in Seq(OutCell)
    BY <1>6, <2>1, Heads
  <2>4. Next1 = good /\ Tail(out) = <<d>> \o rest
    BY <1>3, <1>6, <2>2, <2>3, Heads
  <2>5. call' = [call EXCEPT !.step = "data", !.page = p] /\ result' = result
    BY <1>6, <2>4 DEF RecvItem
  <2>6. /\ call'.step = "data" /\ call'.page = p /\ call'.op = "batch"
        /\ call'.pages = call.pages /\ call'.got = call.got /\ call'.left = call.left
    BY <1>1, <1>4, <2>5, ItemFormed
  <2>7. Rest(call', call'.left) = Rest(call, call.left) /\ Taken(call', m)
    BY <1>1, <1>3, <2>6 DEF Rest, Taken
  <2>8. Half(call', Tail(out), m)
    BY <1>3, <2>4, <2>6, <2>7 DEF Half, d, rest
  <2>9. Current'
    BY <1>1, <1>2, <2>6, <2>7, <2>8, MoreToRead DEF Left, out
  <2> QED BY <2>5, <2>9 DEF Honest
<1> QED
  BY <1>7, <1>8

\* The page of an item: its current content, as the items before it.
LEMMA ItemDataCurrent ==
  ASSUME Base, Current, RecvItemData, ~spoiled
  PROVE  Current' /\ Honest
<1>. DEFINE out == conn[sock].out
            p == Rest(call, call.left)[1]
            more(m) == Items(Tail(Rest(call, call.left)), m)
            L == Len(call.pages)
<1>1. /\ Types /\ call.step = "data" /\ call.op = "batch" /\ Formed(call, calls)
      /\ call \in CallRecord /\ Received(call.page, Content(Next1))
      /\ call.got \in [Pages -> Val] /\ call.pages \in Seq(Pages)
  BY DEF RecvItemData, Awaiting, Base, Types, Formed, CallRecord
<1>2. PICK m \in Versions : Left(call, out, m) /\ (conn[sock].open => m = cache /\ Settled)
  BY ReadStep
<1>3. /\ call.left <= L /\ call.page = p /\ out = <<Data(m[p])>> \o more(m)
      /\ Taken(call, m) /\ Next1 = Head(out)
  BY <1>1, <1>2, ReadStep DEF Left, Half
<1>4. /\ call.left \in 1..L /\ L \in Nat /\ p \in Pages /\ more(m) \in Seq(OutCell)
      /\ p = call.pages[L - call.left + 1]
      /\ more(m) = Items(Rest(call, call.left - 1), m)
      /\ call.left = 1 => more(m) = <<>>
  BY <1>1, <1>3, ItemsLeft
<1>. DEFINE rest == more(m)
            d == Data(m[p])
<1>5. m[p] \in Nat /\ m[p] \in Val
  BY <1>4 DEF Versions, Val
<1>6. d \in OutCell /\ d.kind = "data" /\ d.val = m[p]
  BY <1>5, Cells
<1>7. out = <<d>> \o rest /\ rest \in Seq(OutCell)
  BY <1>3, <1>4
<1>. HIDE DEF d, rest, out
<1>8. Next1 = d /\ Tail(out) = rest /\ Content(Next1) = m[p]
  <2>1. Next1 = d /\ Tail(out) = rest
    BY <1>3, <1>6, <1>7, Heads
  <2> QED BY <1>6, <2>1 DEF Content
<1>. HIDE DEF p
<1>. DEFINE got == [call.got EXCEPT ![p] = m[p]]
<1>9. /\ got \in [Pages -> Val] /\ call'.step \in {"idle", "body"}
      /\ call.left = 1 => Return(got)
      /\ call.left # 1 => /\ result' = result /\ call'.step = "body" /\ call'.got = got
                          /\ call'.left = call.left - 1
                          /\ call'.op = call.op /\ call'.pages = call.pages
  BY <1>1, <1>3, <1>4, <1>5, <1>8, ReceivedFormed, SMTT(30)
<1>10. \A i \in 1..(L - call.left + 1) : got[call.pages[i]] = m[call.pages[i]]
  <2> SUFFICES ASSUME NEW i \in 1..(L - call.left + 1) PROVE got[call.pages[i]] = m[call.pages[i]]
    OBVIOUS
  <2>1. i \in 1..L
    BY <1>4
  <2>2. call.pages[i] \in Pages
    BY <1>1, <2>1, ElementOfSeq
  <2>3. CASE i = L - call.left + 1
    BY <1>1, <1>4, <2>3
  <2>4. CASE i # L - call.left + 1
    <3>1. i \in 1..(L - call.left)
      BY <1>4, <2>4
    <3>2. call.got[call.pages[i]] = m[call.pages[i]]
      BY <1>1, <1>3, <3>1 DEF Taken
    <3> QED BY <1>1, <2>2, <3>2
  <2> QED BY <2>3, <2>4
<1>. HIDE DEF got
<1>11. CASE call.left = 1
  <2>1. Return(got) /\ Tail(out) = <<>>
    BY <1>4, <1>8, <1>9, <1>11 DEF rest
  <2>2. /\ call'.step = "idle" /\ result'.op = "batch"
        /\ result'.pages = call.pages /\ result'.got = got
    BY <1>1, <1>9, <2>1, ReturnFormed
  <2>3. Current'
    BY <2>1, <2>2, LastRead DEF out
  <2>4. \A q \in Range(call.pages) : got[q] = m[q]
    <3>1. DOMAIN call.pages = 1..(L - call.left + 1)
      BY <1>1, <1>4, <1>11, LenProperties
    <3> QED BY <1>10, <3>1 DEF Range
  <2>5. Honest
    BY <1>2, <2>2, <2>4 DEF Honest, Claim
  <2> QED BY <2>3, <2>5
<1>12. CASE call.left # 1
  <2>1. /\ result' = result /\ call'.step = "body" /\ call'.got = got
        /\ call'.left = call.left - 1 /\ call'.op = call.op /\ call'.pages = call.pages
    BY <1>9, <1>12
  <2>2. Body(call', Tail(out), m)
    <3>1. Rest(call', call'.left) = Rest(call, call.left - 1)
      BY <2>1 DEF Rest
    <3>2. call'.left <= Len(call'.pages)
      BY <1>4, <2>1
    <3> QED BY <1>1, <1>4, <1>8, <2>1, <3>1, <3>2 DEF Body, rest
  <2>3. Taken(call', m)
    <3>1. Len(call'.pages) - call'.left = L - call.left + 1
      BY <1>4, <2>1
    <3> QED BY <1>10, <2>1, <3>1 DEF Taken
  <2>4. Current'
    BY <1>2, <2>1, <2>2, <2>3, MoreToRead DEF Left, out
  <2> QED BY <2>1, <2>4 DEF Honest
<1> QED
  BY <1>11, <1>12

\* Receiving, with a timeout or the end of the connection.
LEMMA ReceiveCurrent ==
  ASSUME Base, Current, Receive
  PROVE  Current' /\ (~spoiled => Honest)
<1>1. Types
  BY DEF Base
<1>2. CASE spoiled
  <2>1. sock' = sock /\ spoiled'
    BY <1>2 DEF Receive, RecvHeader, RecvPage, RecvWinner, RecvItem, RecvItemData, Timeout, Reset
  <2> QED BY <1>2, <2>1 DEF Current
<1>3. CASE Timeout
  <2>1. Receiving /\ Fail /\ spoiled' = TRUE
    BY <1>3 DEF Timeout
  <2> QED BY <1>1, <2>1, FailHonest DEF Current
<1>4. CASE Reset
  <2>1. /\ Receiving /\ Fail /\ UNCHANGED <<conn, sock>>
        /\ ~conn[sock].open /\ conn[sock].out = <<>>
    BY <1>4 DEF Reset
  <2>2. Honest /\ call'.step \notin {"body", "data"}
    BY <1>1, <2>1, FailHonest
  <2>3. Quiet(call', conn'[sock'])
    BY <2>1, <2>2 DEF Quiet, Mute
  <2> QED BY <2>2, <2>3 DEF Current
<1> QED
  BY <1>2, <1>3, <1>4, HeaderCurrent, PageCurrent, WinnerCurrent, ItemCurrent, ItemDataCurrent
     DEF Receive

-----------------------------------------------------------------------------
(***************************************************************************)
(* The stream stays in step, and what a call claims is true.               *)
(***************************************************************************)

\* Every step keeps the connection current, and a call that returns on it is honest.
LEMMA NextCurrent ==
  ASSUME Base, Current, [Next]_vars
  PROVE  Current' /\ (Live /\ ~spoiled => Honest)
<1>1. conn \in Seq(Connection)
  BY DEF Base, Types
<1>2. CASE UNCHANGED vars
  <2>1. UNCHANGED <<conn, sock, spoiled, call, result, cache, disk>>
    BY <1>2 DEF vars
  <2>2. Settled => Settled'
    BY <2>1 DEF Settled, Durable
  <2> QED BY <2>1, <2>2, CurrentSame DEF Honest
<1>3. CASE Asks
  <2>1. result' = result
    BY <1>3, AskSteps DEF Asks
  <2> QED BY <1>3, <2>1, AsksCurrent DEF Honest
<1>4. CASE StartsOrStops
  <2>1. result' = result \/ sock = 0
    BY <1>4 DEF StartsOrStops, Begin, Launch, GiveUp, Stopped, StopQemu, Base, Sockets
  <2> QED BY <1>4, <2>1, StartsOrStopsCurrent DEF Honest, Live
<1>5. CASE Receive
  BY <1>5, ReceiveCurrent
<1>6. CASE Dial
  <2>1. result' = result
    BY <1>6 DEF Dial
  <2> QED BY <1>6, <2>1, DialCurrent DEF Honest
<1>10. CASE DialRefused
  BY <1>10, DialRefusedStep, DialRefusedCurrent DEF Honest
<1>11. CASE Refused
  BY <1>11, RefusedStep DEF Current, Live
<1>7. CASE Crash
  <2>1. UNCHANGED <<sock, spoiled, call, result>>
    BY <1>7 DEF Crash
  <2>2. PICK kept \in BOOLEAN : conn' = [c \in DOMAIN conn |-> Dead(conn[c], kept)]
    BY <1>7 DEF Crash, Die
  <2> QED BY <2>1, <2>2, DeathCurrent DEF Honest
<1>8. ASSUME NEW c \in 1..Len(conn), Query(c) \/ ServeWrite(c) \/ ServeShutdown(c) \/ HangUp(c)
      PROVE  Current' /\ (Live /\ ~spoiled => Honest)
  <2>1. CASE Query(c)
    BY <2>1, QueryStep, QueryCurrent DEF Honest
  <2>2. CASE ServeWrite(c)
    BY <2>2, WriteCurrent DEF Honest, ServeWrite, Unasked
  <2>3. CASE ServeShutdown(c)
    BY <2>3, DeathCurrent DEF Honest, ServeShutdown
  <2>4. CASE HangUp(c)
    BY <2>4, HangUpStep, HangUpCurrent DEF Honest
  <2> QED BY <1>8, <2>1, <2>2, <2>3, <2>4
<1>9. ASSUME NEW p \in Pages, WriteBack(p)
      PROVE  Current' /\ (Live /\ ~spoiled => Honest)
  BY <1>9, WriteBackCurrent DEF Honest, WriteBack, Unasked
<1> QED
  BY <1>1, <1>2, <1>3, <1>4, <1>5, <1>6, <1>7, <1>8, <1>9, <1>10, <1>11, NextParts

\* The inductive invariant holds in every state.
LEMMA InvAlways == Spec => []Inv
<1>1. Init => Inv
  BY InitBase, InitCurrent DEF Inv
<1>2. Inv /\ [Next]_vars => Inv'
  BY NextBase, NextCurrent DEF Inv
<1> QED
  BY <1>1, <1>2, PTL DEF Spec

\* As long as no call was abandoned in the middle of it, the connection is in step:
\* a call starts on a stream that holds nothing of an earlier reply, whatever failed,
\* crashed or was refused before, a write too large for the daemon included.
THEOREM InStepHolds == Spec => []InStep
<1>1. Inv => InStep
  BY NothingOnItsWay DEF Inv, InStep, Free, Receiving, Quiet
<1> QED
  BY <1>1, InvAlways, PTL

\* On such a connection a call that returns tells the truth: what write() wrote is what
\* the device holds, what read(), read_batch() and compute_topk() return is its present
\* content, and when flush() returns nothing is left in the page cache alone but what the
\* device refused to take.
THEOREM TruthfulHolds == Spec => Truthful
<1>1. Inv /\ [Next]_vars
        => [result' # result /\ result'.step = "ok" /\ Live /\ ~spoiled => Claim(result')]_vars
  BY NextCurrent DEF Inv, Honest, Live
<1> QED
  BY <1>1, InvAlways, PTL DEF Spec, Truthful

=============================================================================
