---------------------------- MODULE BackendProofs ----------------------------
(***************************************************************************)
(* Theorems about InferenceBackend, for every set of keys, number of       *)
(* workers, size of the store and lists of a batch.                        *)
(***************************************************************************)
EXTENDS InferenceBackend, SequenceLemmas

Writing == {"pwrite_k", "pwrite_v", "transfer", "publish"}
Reading == {"lookup", "pread", "fetch", "unpack"}

\* A cell that nothing writes any more: it lies below the end of the log, and below
\* every write that is still on its way to the device.
Safe(o) == /\ o < end /\ o < Size
           /\ \A i \in DOMAIN late : o < late[i].at

Placed(e) == Safe(e.v) /\ Sound(e)

\* What is known of an extent in the table or in a reader's hands.
Fit(e) == /\ Told(e) => Placed(e)
          /\ e.sure \/ spoiled

\* The call went by no other's reply, as far as it matters.
Own(c) == nvme => ~c.astray

\* What a call is, step by step.
Shape(t, c) ==
  /\ c.step \in Writing => t = Caller /\ c.asked # <<>> /\ writes # 0
  /\ c.step \in {"pwrite_k", "pwrite_v"} => ~nvme
  /\ c.step = "transfer" => nvme
  /\ c.step \in Reading \union {"returned"} => c.op \in {"read", "batch", "topk"}
  /\ c.step \in Reading => /\ c.asked # <<>> /\ IsInjective(c.asked)
                           /\ c.todo # <<>> /\ IsInjective(c.todo)
  /\ c.step = "pread" => Present(c.found[Head(c.todo)]) /\ ~Collects(c)
  /\ c.step = "fetch" => Collects(c) /\ (nvme => c.todo = c.asked)
  /\ c.step = "unpack" => c.op = "batch" /\ nvme

\* The pages that a write has put at the end of the log so far.  A transfer that had its
\* own reply found no other write on its way.
Put2(c) ==
  /\ c.step = "pwrite_v" => log[end] = KPage(writes)
  /\ c.step = "publish" /\ Own(c) =>
       /\ late = <<>> /\ end + 1 < Size
       /\ log[end] = KPage(writes) /\ log[end+1] = VPage(writes)

\* read_block() on a file, between its two reads or before the first.
Partial(c) ==
  c.op = "read" /\ ~nvme =>
    /\ c.step = "lookup" => \A k \in Range(c.todo) : c.got[k] = <<>>
    /\ c.step = "pread" =>
         /\ \A k \in Range(Tail(c.todo)) : c.got[k] = <<>>
         /\ LET k == Head(c.todo) IN
              c.got[k] = <<>> \/ (c.want = "kv" /\ c.got[k] = <<KPage(c.found[k].of)>>)

Good(t, c) ==
  /\ c \in Call
  /\ Shape(t, c) /\ Put2(c) /\ Partial(c)
  /\ c.astray => spoiled
  /\ \A k \in Key : Fit(c.found[k])

StoreOK ==
  /\ {nvme, batching, open, spoiled} \subseteq BOOLEAN
  /\ late \in Seq([at: Nat, of: 1..MaxWrites])
  /\ late # <<>> => spoiled
  /\ spoiled => nvme
  /\ log \in [0..Size-1 -> Cell]
  /\ end \in Nat /\ writes \in 0..MaxWrites
  /\ table \in [Key -> Extent]
  /\ \A k \in Key : Present(table[k]) => table[k].v < end
  /\ \A k \in Key : Fit(table[k])
  /\ held \in [Threads -> [Key -> SUBSET (0..MaxWrites)]]

\* The inductive invariant.
Inv ==
  /\ StoreOK
  /\ call \in [Threads -> Call]
  /\ \A t \in Threads : Good(t, call[t])

LEMMA InvType == Inv => TypeOK /\ PagesIntact
<1> SUFFICES ASSUME Inv PROVE TypeOK /\ PagesIntact
  OBVIOUS
<1>1. TypeOK
  BY DEF Inv, StoreOK, TypeOK
<1>2. PagesIntact
  BY DEF Inv, StoreOK, PagesIntact, Good, Fit, Placed, Threads
<1> QED
  BY <1>1, <1>2

LEMMA ExtentType ==
  ASSUME NEW e \in Extent
  PROVE  /\ e.k \in Nat /\ e.v \in Nat /\ e.of \in 0..MaxWrites /\ e.of \in Nat
         /\ ~Present(e) => e.k = 0 /\ e.sure
BY BackendAssumption DEF Extent, Absent, Present

LEMMA AbsentFit == Absent \in Extent /\ ~Present(Absent) /\ Absent.sure /\ Fit(Absent)
BY DEF Absent, Extent, Present, Told, Fit

LEMMA IdleGood == ASSUME NEW t \in Threads PROVE Good(t, Idle)
<1>1. Absent \in Extent /\ <<>> \in Seq(Key) /\ <<>> \in Seq(Cell) /\ Fit(Absent)
  BY AbsentFit
<1>2. Idle \in Call
  BY <1>1 DEF Idle, Call
<1> QED
  BY <1>1, <1>2 DEF Good, Shape, Put2, Partial, Idle, Writing, Reading

LEMMA InitInv == Init => Inv
<1> SUFFICES ASSUME Init PROVE Inv
  OBVIOUS
<1>1. KPage(0) \in Cell
  BY DEF KPage, Cell
<1>2. \A k \in Key : table[k] = Absent
  BY DEF Init
<1>3. /\ table \in [Key -> Extent]
      /\ \A k \in Key : Present(table[k]) => table[k].v < end
      /\ \A k \in Key : Fit(table[k])
  BY <1>2, AbsentFit DEF Init
<1>4. StoreOK
  <2>1. /\ late = <<>> /\ late \in Seq([at: Nat, of: 1..MaxWrites])
        /\ log \in [0..Size-1 -> Cell] /\ end \in Nat /\ writes \in 0..MaxWrites
    BY <1>1, BackendAssumption DEF Init
  <2>2. held \in [Threads -> [Key -> SUBSET (0..MaxWrites)]]
    BY DEF Init
  <2> QED
    BY <1>3, <2>1, <2>2 DEF Init, StoreOK
<1>5. call \in [Threads -> Call] /\ \A t \in Threads : Good(t, call[t])
  BY IdleGood DEF Init, Good
<1> QED
  BY <1>4, <1>5 DEF Inv

-----------------------------------------------------------------------------
(***************************************************************************)
(* What a step leaves alone.                                               *)
(***************************************************************************)

\* A step writes no safe cell, and leaves it safe; the connection stays out of step.
Kept ==
  /\ UNCHANGED nvme
  /\ spoiled => spoiled'
  /\ \A o \in Nat : Safe(o) => Safe(o)' /\ log'[o] = log[o]

\* What is below a safe cell is safe.
LEMMA SafeBelow ==
  ASSUME Inv, NEW o \in Nat, NEW p \in Nat, p <= o, Safe(o)
  PROVE  Safe(p)
<1>1. end \in Nat /\ Size \in Nat /\ late \in Seq([at: Nat, of: 1..MaxWrites])
  BY BackendAssumption DEF Inv, StoreOK
<1>2. ASSUME NEW i \in DOMAIN late PROVE late[i].at \in Nat
  <2>1. PICK W : W = [at: Nat, of: 1..MaxWrites]
    OBVIOUS
  <2>2. late \in Seq(W) /\ i \in 1..Len(late)
    BY <1>1, <2>1
  <2>3. late[i] \in W
    BY <2>2, ElementOfSeq
  <2> QED
    BY <2>1, <2>3
<1> QED
  BY <1>1, <1>2 DEF Safe

\* An extent stays as fit as it was.
LEMMA FitKept ==
  ASSUME Inv, Kept, NEW e \in Extent, Fit(e)
  PROVE  Fit(e)'
<1>1. ASSUME Told(e) PROVE Placed(e)'
  <2>1. Placed(e) /\ e.k \in Nat /\ e.v \in Nat /\ e.v = e.k + 1
    BY <1>1, ExtentType DEF Fit, Placed, Sound
  <2>2. Safe(e.v) /\ Safe(e.k)
    BY <2>1, SafeBelow DEF Placed
  <2>3. Safe(e.v)' /\ log'[e.k] = log[e.k] /\ log'[e.v] = log[e.v]
    BY <2>1, <2>2 DEF Kept
  <2> QED
    BY <2>1, <2>3 DEF Placed, Sound, Safe
<1> QED
  BY <1>1 DEF Fit, Kept, Told

\* A thread that takes no part in a step of the writer keeps its call good.
LEMMA GoodKept ==
  ASSUME Inv, Kept, NEW t \in Threads, NEW c, Good(t, c), c.step \notin Writing
  PROVE  Good(t, c)'
<1>1. c \in Call /\ \A k \in Key : c.found[k] \in Extent
  BY DEF Good, Call
<1>2. \A k \in Key : Fit(c.found[k])'
  <2> SUFFICES ASSUME NEW k \in Key PROVE Fit(c.found[k])'
    OBVIOUS
  <2>1. PICK e \in Extent : e = c.found[k]
    BY <1>1
  <2>2. Fit(e)'
    BY <2>1, FitKept DEF Good
  <2> QED
    BY <2>1, <2>2 DEF Fit, Told, Placed, Safe, Sound
<1>3. Shape(t, c)' /\ Partial(c)' /\ Put2(c)'
  BY DEF Good, Shape, Partial, Put2, Collects, Writing, Kept
<1>4. c.astray => spoiled'
  BY DEF Good, Kept
<1> QED
  BY <1>1, <1>2, <1>3, <1>4 DEF Good

LEMMA TableKept ==
  ASSUME Inv, Kept, UNCHANGED table
  PROVE  \A k \in Key : Fit(table[k])'
<1> SUFFICES ASSUME NEW k \in Key PROVE Fit(table[k])'
  OBVIOUS
<1>1. PICK e \in Extent : e = table[k]
  BY DEF Inv, StoreOK
<1>2. Fit(e)'
  BY <1>1, FitKept DEF Inv, StoreOK
<1> QED
  BY <1>1, <1>2 DEF Fit, Told, Placed, Safe, Sound

\* A step that leaves the log and what is on its way alone writes no safe cell.
LEMMA StillKept ==
  ASSUME UNCHANGED <<nvme, late, log, end>>, spoiled => spoiled'
  PROVE  Kept
BY DEF Kept, Safe

\* A step that changes no more than one thread's call, and that to a good one.
LEMMA GoodProceed ==
  ASSUME Inv, NEW t \in Threads, NEW c, Good(t, c),
         call' = [call EXCEPT ![t] = c],
         UNCHANGED <<nvme, late, log, end, writes>>, spoiled => spoiled'
  PROVE  call' \in [Threads -> Call] /\ \A u \in Threads : Good(u, call[u])'
<1>1. call' \in [Threads -> Call]
  BY DEF Inv, Good
<1>2. ASSUME NEW u \in Threads PROVE Good(u, call'[u])
  BY <1>2 DEF Inv
<1>3. ASSUME NEW u \in Threads PROVE Good(u, call[u])'
  <2>1. PICK d : d = call'[u]
    OBVIOUS
  <2>2. Good(u, d)
    BY <1>2, <2>1
  <2>3. d \in Call /\ Shape(u, d)' /\ Put2(d)' /\ Partial(d)' /\ (d.astray => spoiled')
    BY <2>2 DEF Good, Shape, Put2, Partial, Own, Collects
  <2>4. ASSUME NEW k \in Key PROVE Fit(d.found[k])'
    <3>1. PICK e \in Extent : e = d.found[k]
      BY <2>2 DEF Good, Call
    <3>2. Fit(e)'
      BY <2>2, <3>1, FitKept, StillKept DEF Good
    <3> QED
      BY <3>1, <3>2 DEF Fit, Told, Placed, Safe, Sound
  <2>5. Good(u, d)'
    BY <2>3, <2>4 DEF Good
  <2> QED
    BY <2>1, <2>5, SMTT(30)
       DEF Good, Shape, Put2, Partial, Own, Collects, Fit, Told, Placed, Safe, Sound
<1> QED
  BY <1>1, <1>3

-----------------------------------------------------------------------------
(***************************************************************************)
(* Calls and their answers.                                                *)
(***************************************************************************)

LEMMA BeginGood ==
  ASSUME Inv, NEW t \in Threads, NEW op \in {"read", "batch", "topk"},
         NEW want \in {"k", "v", "kv"},
         NEW keys \in Seq(Key), keys # <<>>, IsInjective(keys),
         Begin(t, op, "lookup", want, keys), UNCHANGED <<nvme, batching, store>>
  PROVE  Inv'
<1> DEFINE c == [Idle EXCEPT !.op = op, !.step = "lookup", !.want = want,
                             !.asked = keys, !.todo = keys]
<1>1. Good(t, Idle)
  BY IdleGood
<1>2. c \in Call /\ c.op = op /\ c.step = "lookup" /\ c.asked = keys /\ c.todo = keys
      /\ c.found = Idle.found /\ c.got = Idle.got /\ \A k \in Key : c.got[k] = <<>>
  BY <1>1 DEF Good, Call, Idle
<1>3. \A k \in Range(keys) : k \in Key
  BY RangeOfSeq
<1>4. Good(t, c)
  <2>1. Shape(t, c) /\ Put2(c)
    BY <1>2 DEF Shape, Put2, Writing, Reading
  <2>2. Partial(c)
    BY <1>2, <1>3 DEF Partial
  <2> QED
    BY <1>1, <1>2, <2>1, <2>2 DEF Good
<1>5. call' = [call EXCEPT ![t] = c]
  BY DEF Begin
<1> HIDE DEF c
<1>6. call' \in [Threads -> Call] /\ \A u \in Threads : Good(u, call[u])'
  BY <1>4, <1>5, GoodProceed DEF store
<1>7. StoreOK'
  <2>1. held' \in [Threads -> [Key -> SUBSET (0..MaxWrites)]]
    BY ExtentType DEF Begin, Inv, StoreOK
  <2>2. \A k \in Key : Fit(table[k])'
    BY StillKept, TableKept DEF store
  <2> QED
    BY <2>1, <2>2 DEF Inv, StoreOK, store, Present
<1> QED
  BY <1>6, <1>7 DEF Inv

LEMMA ProceedInv ==
  ASSUME Inv, NEW t \in Threads, NEW c, Good(t, c), Proceed(t, c)
  PROVE  Inv'
<1>1. call' = [call EXCEPT ![t] = c] /\ UNCHANGED <<nvme, batching, store, held>>
  BY DEF Proceed
<1>2. call' \in [Threads -> Call] /\ \A u \in Threads : Good(u, call[u])'
  BY <1>1, GoodProceed DEF store
<1>3. StoreOK'
  <2>1. \A k \in Key : Fit(table[k])'
    BY <1>1, StillKept, TableKept DEF store
  <2> QED
    BY <1>1, <2>1 DEF Inv, StoreOK, store, Present
<1> QED
  BY <1>2, <1>3 DEF Inv

\* A call that is done with the head of its list has the rest of it left.
LEMMA DoneFacts ==
  ASSUME NEW c \in Call, c.todo # <<>>, IsInjective(c.todo),
         NEW step \in {"lookup", "fetch", "unpack"}
  PROVE  LET d == Done(c, step) IN
         /\ d \in Call
         /\ d.op = c.op /\ d.want = c.want /\ d.asked = c.asked
         /\ d.found = c.found /\ d.got = c.got /\ d.astray = c.astray
         /\ Range(d.todo) = Range(c.todo) \ {Head(c.todo)}
         /\ d.step = "returned" => Range(d.todo) = {}
         /\ \/ d.step = step /\ d.todo # <<>> /\ IsInjective(d.todo)
            \/ d.step = "returned"
<1>1. c.todo \in Seq(Key)
  BY DEF Call
<1>2. /\ Tail(c.todo) \in Seq(Key) /\ IsInjective(Tail(c.todo))
      /\ Head(c.todo) \notin Range(Tail(c.todo))
  BY <1>1, TailInjective
<1>3. (Len(c.todo) > 1) <=> (Tail(c.todo) # <<>>)
  BY <1>1, TailEmpty
<1>4. Range(c.todo) = {Head(c.todo)} \union Range(Tail(c.todo))
  BY <1>1, HeadTailRange
<1>5. CASE Len(c.todo) > 1
  <2>1. PICK d : d = [c EXCEPT !.todo = Tail(c.todo), !.step = step]
    OBVIOUS
  <2>2. d = Done(c, step)
    BY <1>5, <2>1 DEF Done
  <2>3. /\ d \in Call /\ d.op = c.op /\ d.want = c.want /\ d.asked = c.asked
        /\ d.found = c.found /\ d.got = c.got /\ d.astray = c.astray
        /\ d.todo = Tail(c.todo) /\ d.step = step
    BY <1>2, <2>1 DEF Call
  <2> QED
    BY <1>2, <1>3, <1>4, <1>5, <2>2, <2>3
<1>6. CASE ~(Len(c.todo) > 1)
  <2>1. Range(<<>>) = {} /\ <<>> \in Seq(Key)
    BY DEF Range
  <2>2. Done(c, step) = [c EXCEPT !.todo = <<>>, !.step = "returned"]
    BY <1>6 DEF Done
  <2> QED
    BY <1>3, <1>4, <1>6, <2>1, <2>2 DEF Call
<1> QED
  BY <1>5, <1>6

-----------------------------------------------------------------------------
(***************************************************************************)
(* The writer.                                                             *)
(***************************************************************************)

\* Only the decode thread is ever inside a write.
LEMMA WriterAlone ==
  ASSUME Inv, NEW t \in Threads, t # Caller
  PROVE  call[t].step \notin Writing
BY DEF Inv, Good, Shape

LEMMA WriterStep ==
  ASSUME Inv, Kept, NEW c, Good(Caller, c)', call' = [call EXCEPT ![Caller] = c]
  PROVE  call' \in [Threads -> Call] /\ \A t \in Threads : Good(t, call[t])'
<1>1. Caller \in Threads /\ c \in Call
  BY DEF Threads, Good
<1>2. call' \in [Threads -> Call]
  BY <1>1 DEF Inv
<1>3. ASSUME NEW t \in Threads, t # Caller PROVE Good(t, call[t])'
  <2>1. call'[t] = call[t] /\ Good(t, call[t]) /\ call[t].step \notin Writing
    BY <1>3, WriterAlone DEF Inv
  <2>2. PICK e : e = call[t]
    OBVIOUS
  <2>3. Good(t, e)'
    BY <2>1, <2>2, GoodKept
  <2>4. call'[t] = e
    BY <2>1, <2>2
  <2> QED
    BY <2>3, <2>4 DEF Good, Shape, Put2, Partial, Own, Collects, Fit, Told, Placed, Safe, Sound
<1>4. Good(Caller, call[Caller])'
  <2>1. call'[Caller] = c
    BY <1>1 DEF Inv
  <2> QED
    BY <2>1 DEF Good, Shape, Put2, Partial, Own, Collects, Fit, Told, Placed, Safe, Sound
<1> QED
  BY <1>2, <1>3, <1>4

LEMMA WriteBlockInv ==
  ASSUME Inv, NEW k \in Key, WriteBlock(k)
  PROVE  Inv'
<1>1. Caller \in Threads
  BY DEF Threads
<1>2. PICK c : /\ c = [Idle EXCEPT !.op = "write", !.want = "kv", !.asked = <<k>>,
                                   !.todo = <<k>>,
                                   !.step = IF nvme THEN "transfer" ELSE "pwrite_k"]
               /\ call' = [call EXCEPT ![Caller] = c]
  BY DEF WriteBlock, Begin
<1>3. writes \in Nat /\ writes' = writes + 1 /\ writes' \in 0..MaxWrites
  BY BackendAssumption DEF WriteBlock, Inv, StoreOK
<1>4. c \in Call /\ c.found = Idle.found /\ c.asked # <<>>
      /\ c.step \in {"transfer", "pwrite_k"} /\ c.op = "write"
  <2>1. Idle \in Call /\ <<k>> \in Seq(Key) /\ <<k>> # <<>>
    BY <1>1, IdleGood DEF Good
  <2> QED
    BY <1>2, <2>1 DEF Call, Idle
<1>5. \A x \in Key : c.found[x] = Absent
  BY <1>4 DEF Idle
<1>6. Good(Caller, c)'
  <2>1. \A x \in Key : Fit(c.found[x])'
    BY <1>5 DEF Fit, Told, Present, Absent
  <2>2. c.step = "transfer" <=> nvme
    BY <1>2, <1>4 DEF Call, Idle
  <2>3. ~c.astray
    BY <1>2 DEF Idle
  <2>4. Shape(Caller, c)' /\ Put2(c)' /\ Partial(c)'
    BY <1>3, <1>4, <2>2 DEF Shape, Put2, Partial, Writing, Reading, WriteBlock
  <2> QED
    BY <1>4, <2>1, <2>3, <2>4 DEF Good
<1>7. UNCHANGED <<nvme, batching, open, spoiled, late, log, end, table>> /\ Kept
  BY StillKept DEF WriteBlock
<1>8. call' \in [Threads -> Call] /\ \A t \in Threads : Good(t, call[t])'
  BY <1>2, <1>6, <1>7, WriterStep
<1>9. StoreOK'
  <2>1. held' \in [Threads -> [Key -> SUBSET (0..MaxWrites)]]
    BY <1>1, ExtentType DEF WriteBlock, Begin, Inv, StoreOK
  <2>2. \A x \in Key : Fit(table[x])'
    BY <1>7, TableKept
  <2> QED
    BY <1>3, <1>7, <2>1, <2>2 DEF Inv, StoreOK, Present
<1> QED
  BY <1>8, <1>9 DEF Inv

\* What a step of the writer leaves behind: no cell below the end of the log changes, and
\* another write may be on its way, to where the log ends.
LEMMA PutInv ==
  ASSUME Inv, NEW c, Good(Caller, c)', call' = [call EXCEPT ![Caller] = c],
         Kept, log' \in [0..Size-1 -> Cell],
         late' \in Seq([at: Nat, of: 1..MaxWrites]), late' # <<>> => spoiled',
         spoiled' \in BOOLEAN, spoiled' => nvme,
         UNCHANGED <<nvme, batching, open, end, table, writes, held>>
  PROVE  Inv'
<1>1. call' \in [Threads -> Call] /\ \A t \in Threads : Good(t, call[t])'
  BY WriterStep
<1>2. \A k \in Key : Fit(table[k])'
  BY TableKept
<1>3. StoreOK'
  BY <1>2 DEF Inv, StoreOK, Present
<1> QED
  BY <1>1, <1>3 DEF Inv

\* The two pages of the write in progress are cells, and stand above the old end.
LEMMA PageCells ==
  ASSUME Inv
  PROVE  /\ KPage(writes) \in Cell /\ VPage(writes) \in Cell
         /\ Target = end /\ end \in Nat /\ writes \in Nat /\ Size \in Nat
         /\ log \in [0..Size-1 -> Cell]
         /\ late \in Seq([at: Nat, of: 1..MaxWrites])
         /\ spoiled \in BOOLEAN /\ (late # <<>> => spoiled) /\ (spoiled => nvme)
BY BackendAssumption DEF Inv, StoreOK, KPage, VPage, Cell, Target, Where

\* Writing at the end of the log or above it touches no safe cell.
LEMMA AboveKept ==
  ASSUME Inv, UNCHANGED <<nvme, late, end>>, spoiled => spoiled',
         \A o \in 0..Size-1 : o < end => log'[o] = log[o]
  PROVE  Kept
<1> SUFFICES ASSUME NEW o \in Nat, Safe(o) PROVE Safe(o)' /\ log'[o] = log[o]
  BY DEF Kept
<1>1. o \in 0..Size-1 /\ o < end
  BY PageCells DEF Safe
<1> QED
  BY <1>1 DEF Safe

\* What the writer's call becomes when it moves to its next step.
LEMMA NextStep ==
  ASSUME Inv, Kept, call[Caller].step \in Writing, NEW step \in {"pwrite_v", "publish"},
         step = "pwrite_v" => ~nvme,
         NEW astray \in BOOLEAN, astray => spoiled,
         NEW c, c = [call[Caller] EXCEPT !.step = step, !.astray = astray],
         UNCHANGED <<nvme, writes>>, Put2(c)'
  PROVE  Good(Caller, c)'
<1>1. PICK d : d = call[Caller]
  OBVIOUS
<1>2. Good(Caller, d) /\ d \in Call /\ d.step \in Writing
  BY <1>1 DEF Inv, Threads, Good
<1>3. /\ c \in Call /\ c.step = step /\ c.found = d.found /\ c.asked = d.asked
      /\ c.op = d.op /\ c.todo = d.todo /\ c.got = d.got /\ c.want = d.want
      /\ c.astray = astray
  BY <1>1, <1>2 DEF Call, Writing
<1>4. ASSUME NEW k \in Key PROVE Fit(c.found[k])'
  <2>1. PICK e \in Extent : e = c.found[k]
    BY <1>2, <1>3 DEF Call
  <2>2. Fit(e)'
    BY <1>2, <1>3, <2>1, FitKept DEF Good
  <2> QED
    BY <2>1, <2>2 DEF Fit, Told, Placed, Safe, Sound
<1>5. Shape(Caller, c)' /\ Partial(c)'
  BY <1>2, <1>3 DEF Good, Shape, Partial, Writing, Reading, Collects
<1>6. c.astray => spoiled'
  BY <1>3 DEF Kept
<1> QED
  BY <1>3, <1>4, <1>5, <1>6 DEF Good

\* The writer's call before the step.
LEMMA WriterCall ==
  ASSUME Inv, call[Caller].step \in Writing
  PROVE  /\ call[Caller] \in Call /\ call[Caller].astray \in BOOLEAN
         /\ call[Caller].astray => spoiled
         /\ \A step : [call[Caller] EXCEPT !.step = step]
                      = [call[Caller] EXCEPT !.step = step, !.astray = call[Caller].astray]
BY DEF Inv, Good, Threads, Call

LEMMA PwriteKeyInv == ASSUME Inv, PwriteKey PROVE Inv'
<1>1. PICK astray : astray = call[Caller].astray
  OBVIOUS
<1>2. PICK c : c = [call[Caller] EXCEPT !.step = "pwrite_v", !.astray = astray]
  OBVIOUS
<1>3. /\ call' = [call EXCEPT ![Caller] = c]
      /\ end' = end /\ end < Size /\ log' = [log EXCEPT ![end] = KPage(writes)]
      /\ UNCHANGED <<nvme, batching, open, spoiled, late, end, table, writes, held>>
      /\ call[Caller].step \in Writing /\ ~nvme
      /\ astray \in BOOLEAN /\ (astray => spoiled)
  <2>1. call[Caller].step = "pwrite_k" /\ call[Caller].step \in Writing /\ Caller \in Threads
    BY DEF PwriteKey, Writing, Threads
  <2>2. ~nvme
    BY <2>1 DEF Inv, Good, Shape
  <2>3. call' = [call EXCEPT ![Caller] = c]
    BY <1>1, <1>2, <2>1, WriterCall DEF PwriteKey
  <2> QED
    BY <1>1, <2>1, <2>2, <2>3, WriterCall, PageCells DEF PwriteKey, Put
<1>4. /\ log' \in [0..Size-1 -> Cell] /\ log'[end] = KPage(writes)
      /\ \A o \in 0..Size-1 : o < end => log'[o] = log[o]
  BY <1>3, PageCells
<1>5. Kept
  BY <1>3, <1>4, AboveKept
<1>6. c.step = "pwrite_v"
  BY <1>2, <1>3, WriterCall DEF Call
<1>7. Put2(c)'
  BY <1>3, <1>4, <1>6 DEF Put2, KPage
<1>8. Good(Caller, c)'
  BY <1>2, <1>3, <1>5, <1>7, NextStep
<1> QED
  BY <1>3, <1>4, <1>5, <1>8, PutInv, PageCells

LEMMA PwriteValueInv == ASSUME Inv, PwriteValue PROVE Inv'
<1>1. PICK astray : astray = call[Caller].astray
  OBVIOUS
<1>2. PICK c : c = [call[Caller] EXCEPT !.step = "publish", !.astray = astray]
  OBVIOUS
<1>3. /\ call' = [call EXCEPT ![Caller] = c]
      /\ end' = end /\ end + 1 < Size /\ log' = [log EXCEPT ![end + 1] = VPage(writes)]
      /\ UNCHANGED <<nvme, batching, open, spoiled, late, end, table, writes, held>>
      /\ call[Caller].step \in Writing /\ ~nvme /\ log[end] = KPage(writes)
      /\ astray \in BOOLEAN /\ (astray => spoiled)
  <2>1. call[Caller].step = "pwrite_v" /\ call[Caller].step \in Writing /\ Caller \in Threads
    BY DEF PwriteValue, Writing, Threads
  <2>2. ~nvme /\ log[end] = KPage(writes)
    BY <2>1 DEF Inv, Good, Shape, Put2
  <2>3. call' = [call EXCEPT ![Caller] = c]
    BY <1>1, <1>2, <2>1, WriterCall DEF PwriteValue
  <2> QED
    BY <1>1, <2>1, <2>2, <2>3, WriterCall, PageCells DEF PwriteValue, Put
<1>4. /\ log' \in [0..Size-1 -> Cell] /\ log'[end + 1] = VPage(writes)
      /\ log'[end] = KPage(writes)
      /\ \A o \in 0..Size-1 : o < end => log'[o] = log[o]
  BY <1>3, PageCells
<1>5. Kept
  BY <1>3, <1>4, AboveKept
<1>6. c.step = "publish"
  BY <1>2, <1>3, WriterCall DEF Call
<1>7. Put2(c)'
  BY <1>3, <1>4, <1>6, PageCells DEF Put2, KPage, VPage
<1>8. Good(Caller, c)'
  BY <1>2, <1>3, <1>5, <1>7, NextStep
<1> QED
  BY <1>3, <1>4, <1>5, <1>8, PutInv, PageCells

\* Whatever the device does with a write of both pages, it does from where it was sent.
LEMMA CarriedFacts ==
  ASSUME Inv, NEW at \in Nat, NEW of \in Nat, NEW new \in Carried(at, of)
  PROVE  /\ new \in [0..Size-1 -> Cell]
         /\ \A o \in 0..Size-1 : o < at => new[o] = log[o]
<1>1. KPage(of) \in Cell /\ VPage(of) \in Cell
  BY DEF KPage, VPage, Cell
<1>2. /\ log \in [0..Size-1 -> Cell] /\ Size \in Nat
      /\ \/ new = log
         \/ at < Size /\ new = [log EXCEPT ![at] = KPage(of)]
         \/ at + 1 < Size /\ new = [log EXCEPT ![at] = KPage(of), ![at + 1] = VPage(of)]
  BY PageCells DEF Carried, Both
<1> QED
  BY <1>1, <1>2

LEMMA TransferInv == ASSUME Inv, Transfer PROVE Inv'
<1>1. PICK astray : astray = call[Caller].astray
  OBVIOUS
<1>2. PICK c : c = [call[Caller] EXCEPT !.step = "publish", !.astray = astray]
  OBVIOUS
<1>3. /\ call' = [call EXCEPT ![Caller] = c]
      /\ end' = end /\ end + 1 < Size /\ late = <<>>
      /\ log' = [log EXCEPT ![end] = KPage(writes), ![end + 1] = VPage(writes)]
      /\ UNCHANGED <<nvme, batching, open, spoiled, late, end, table, writes, held>>
      /\ call[Caller].step \in Writing
      /\ astray \in BOOLEAN /\ (astray => spoiled)
  <2>1. call[Caller].step \in Writing
    BY DEF Transfer, Writing
  <2>2. call' = [call EXCEPT ![Caller] = c]
    BY <1>1, <1>2, <2>1, WriterCall DEF Transfer
  <2> QED
    BY <1>1, <2>1, <2>2, WriterCall, PageCells DEF Transfer, Both
<1>4. /\ log' \in [0..Size-1 -> Cell]
      /\ log'[end] = KPage(writes) /\ log'[end + 1] = VPage(writes)
      /\ \A o \in 0..Size-1 : o < end => log'[o] = log[o]
  BY <1>3, PageCells
<1>5. Kept
  BY <1>3, <1>4, AboveKept
<1>6. c.step = "publish"
  BY <1>2, <1>3, WriterCall DEF Call
<1>7. Put2(c)'
  BY <1>3, <1>4, <1>6, PageCells DEF Put2, KPage, VPage
<1>8. Good(Caller, c)'
  BY <1>2, <1>3, <1>5, <1>7, NextStep
<1> QED
  BY <1>3, <1>4, <1>5, <1>8, PutInv, PageCells

\* A write that is sent out of step will be carried out at the end of the log as it is.
LEMMA SentFacts ==
  ASSUME Inv, call[Caller].step \in Writing, late' = Sent,
         UNCHANGED <<nvme, log, end>>, spoiled => spoiled'
  PROVE  Kept /\ late' \in Seq([at: Nat, of: 1..MaxWrites]) /\ late' # <<>>
<1>1. PICK w : w = [at |-> end, of |-> writes]
  OBVIOUS
<1>2. writes \in 1..MaxWrites /\ end \in Nat
  BY DEF Inv, StoreOK, Good, Shape, Threads
<1>3. w \in [at: Nat, of: 1..MaxWrites] /\ w.at = end
  BY <1>1, <1>2
<1>4. late' = Append(late, w) /\ late \in Seq([at: Nat, of: 1..MaxWrites])
  BY <1>1, PageCells DEF Sent
<1>5. /\ late' \in Seq([at: Nat, of: 1..MaxWrites]) /\ late' # <<>>
      /\ \A i \in DOMAIN late' : late'[i].at = end \/ (i \in DOMAIN late /\ late'[i] = late[i])
  BY <1>3, <1>4
<1>6. ASSUME NEW o \in Nat, Safe(o) PROVE Safe(o)'
  BY <1>5, <1>6 DEF Safe
<1> QED
  BY <1>5, <1>6 DEF Kept

LEMMA TransferAstrayInv == ASSUME Inv, TransferAstray PROVE Inv'
<1>1. PICK astray \in BOOLEAN : astray = TRUE
  OBVIOUS
<1>2. PICK c : c = [call[Caller] EXCEPT !.step = "publish", !.astray = astray]
  OBVIOUS
<1>3. /\ call' = [call EXCEPT ![Caller] = c]
      /\ UNCHANGED <<nvme, batching, open, spoiled, log, end, table, writes, held>>
      /\ call[Caller].step \in Writing /\ spoiled /\ late' = Sent
  BY <1>1, <1>2 DEF TransferAstray, Writing
<1>4. Kept /\ late' \in Seq([at: Nat, of: 1..MaxWrites])
  BY <1>3, SentFacts
<1>5. c.step = "publish" /\ c.astray /\ nvme
  BY <1>1, <1>2, <1>3, WriterCall, PageCells DEF Call
<1>6. Put2(c)'
  BY <1>3, <1>5 DEF Put2, Own
<1>7. Good(Caller, c)'
  BY <1>1, <1>2, <1>3, <1>4, <1>6, NextStep
<1> QED
  BY <1>3, <1>4, <1>7, PutInv, PageCells

\* What arrives late is above every safe cell, and finds no write that had its reply.
LEMMA ArriveInv == ASSUME Inv, Arrive PROVE Inv'
<1>0. late \in Seq([at: Nat, of: 1..MaxWrites]) /\ late # <<>>
  BY PageCells DEF Arrive
<1>1. PICK w \in [at: Nat, of: 1..MaxWrites] : w = Head(late)
  <2>1. PICK W : W = [at: Nat, of: 1..MaxWrites]
    OBVIOUS
  <2>2. late \in Seq(W) /\ late # <<>>
    BY <1>0, <2>1
  <2>3. Head(late) \in W
    BY <2>2, HeadTailProperties
  <2> QED
    BY <2>1, <2>3
<1>2. /\ late # <<>> /\ late' = Tail(late) /\ spoiled /\ nvme
      /\ log' \in Carried(w.at, w.of) /\ w.at \in Nat /\ w.of \in Nat
      /\ UNCHANGED <<nvme, batching, open, spoiled, end, table, writes, call, held>>
  BY <1>1, PageCells DEF Arrive
<1>3. /\ log' \in [0..Size-1 -> Cell]
      /\ \A o \in 0..Size-1 : o < w.at => log'[o] = log[o]
  BY <1>2, CarriedFacts
<1>4. /\ late' \in Seq([at: Nat, of: 1..MaxWrites])
      /\ late[1] = w /\ 1 \in DOMAIN late
      /\ \A i \in DOMAIN late' : i + 1 \in DOMAIN late /\ late'[i] = late[i + 1]
  BY <1>1, <1>2, PageCells
<1>5. Kept
  <2> SUFFICES ASSUME NEW o \in Nat, Safe(o) PROVE Safe(o)' /\ log'[o] = log[o]
    BY <1>2 DEF Kept
  <2>1. o \in 0..Size-1 /\ o < w.at
    BY <1>4, PageCells DEF Safe
  <2>2. Safe(o)'
    BY <1>2, <1>4 DEF Safe
  <2> QED
    BY <1>3, <2>1, <2>2
<1>6. ASSUME NEW t \in Threads PROVE Good(t, call[t])'
  <2>1. PICK c : c = call[t] /\ call'[t] = c
    BY <1>2
  <2>2. Good(t, c) /\ c \in Call
    BY <2>1 DEF Inv, Good
  <2>3. ASSUME NEW k \in Key PROVE Fit(c.found[k])'
    <3>1. PICK e \in Extent : e = c.found[k]
      BY <2>2 DEF Call
    <3>2. Fit(e)'
      BY <1>5, <2>2, <3>1, FitKept DEF Good
    <3> QED
      BY <3>1, <3>2 DEF Fit, Told, Placed, Safe, Sound
  <2>4. Shape(t, c)' /\ Put2(c)' /\ Partial(c)' /\ (c.astray => spoiled')
    BY <1>2, <2>2 DEF Good, Shape, Put2, Partial, Own, Collects
  <2>5. Good(t, c)'
    BY <2>2, <2>3, <2>4 DEF Good
  <2> QED
    BY <2>1, <2>5 DEF Good, Shape, Put2, Partial, Own, Collects, Fit, Told, Placed, Safe, Sound
<1>7. \A k \in Key : Fit(table[k])'
  BY <1>2, <1>5, TableKept
<1>8. StoreOK'
  BY <1>2, <1>3, <1>4, <1>7 DEF Inv, StoreOK, Present
<1> QED
  BY <1>2, <1>6, <1>8 DEF Inv

LEMMA IdleGoodNext == Good(Caller, Idle)'
<1>1. Idle.step = "idle" /\ ~Idle.astray /\ \A k \in Key : Idle.found[k] = Absent
  BY DEF Idle
<1>2. Idle \in Call
  BY IdleGood DEF Good, Threads
<1>3. \A k \in Key : Fit(Idle.found[k])'
  BY <1>1 DEF Fit, Told, Present, Absent
<1>4. Shape(Caller, Idle)' /\ Put2(Idle)' /\ Partial(Idle)'
  BY <1>1 DEF Shape, Put2, Partial, Writing, Reading
<1> QED
  BY <1>1, <1>2, <1>3, <1>4 DEF Good

\* A write that fails leaves what it has written above the end of the log, and so does
\* what the device makes of it later.
LEMMA WriteFailsInv == ASSUME Inv, WriteFails PROVE Inv'
<1>1. /\ call' = [call EXCEPT ![Caller] = Idle]
      /\ UNCHANGED <<nvme, batching, open, end, table, writes, held>>
      /\ call[Caller].step \in Writing
  BY DEF WriteFails, Raise, Writing
<1>2. CASE (UNCHANGED log \/ log' \in Carried(Target, writes)) /\ MaySpoil /\ UNCHANGED late
  <2>1. log' \in [0..Size-1 -> Cell] /\ \A o \in 0..Size-1 : o < end => log'[o] = log[o]
    BY <1>2, PageCells, CarriedFacts
  <2>2. /\ spoiled' \in BOOLEAN /\ (spoiled => spoiled') /\ (spoiled' => nvme)
    BY <1>2, PageCells DEF MaySpoil
  <2>3. Kept
    BY <1>1, <1>2, <2>1, <2>2, AboveKept
  <2>4. /\ late' \in Seq([at: Nat, of: 1..MaxWrites]) /\ (late' # <<>> => spoiled')
    BY <1>2, <2>2, PageCells
  <2> QED
    BY <1>1, <2>1, <2>2, <2>3, <2>4, IdleGoodNext, PutInv
<1>3. CASE /\ call[Caller].step = "transfer" /\ late' = Sent /\ spoiled' = TRUE
           /\ UNCHANGED log
  <2>1. Kept /\ late' \in Seq([at: Nat, of: 1..MaxWrites])
    BY <1>1, <1>3, SentFacts
  <2>2. nvme
    BY <1>3 DEF Inv, Good, Shape, Threads
  <2> QED
    BY <1>1, <1>3, <2>1, <2>2, IdleGoodNext, PutInv, PageCells
<1> QED
  BY <1>2, <1>3 DEF WriteFails

\* What the calls in flight may find for a block stays in its type.
LEMMA EnterType ==
  ASSUME Inv, NEW k \in Key, NEW e \in Extent, Enter(k, e)
  PROVE  /\ table' \in [Key -> Extent]
         /\ held' \in [Threads -> [Key -> SUBSET (0..MaxWrites)]]
<1>1. e.of \in 0..MaxWrites
  BY ExtentType
<1>2. table' \in [Key -> Extent]
  BY DEF Enter, Inv, StoreOK
<1>3. ASSUME NEW t \in Threads
      PROVE  held'[t] \in [Key -> SUBSET (0..MaxWrites)]
  <2>1. held[t] \in [Key -> SUBSET (0..MaxWrites)]
    BY DEF Inv, StoreOK
  <2>2. held'[t] = IF InFlight(t) THEN [held[t] EXCEPT ![k] = @ \union {e.of}] ELSE held[t]
    BY DEF Enter
  <2> QED
    BY <1>1, <2>1, <2>2
<1>4. held' \in [Threads -> [Key -> SUBSET (0..MaxWrites)]]
  BY <1>3 DEF Enter
<1> QED
  BY <1>2, <1>4

LEMMA PublishInv == ASSUME Inv, Publish PROVE Inv'
<1>1. PICK d : d = call[Caller]
  OBVIOUS
<1>2. PICK e : e = [k |-> end, v |-> end + 1, of |-> writes, sure |-> ~d.astray]
  OBVIOUS
<1>3. PICK key : key = d.asked[1]
  OBVIOUS
<1>4. /\ Good(Caller, d) /\ d \in Call /\ d.step = "publish" /\ d.step \in Writing
      /\ d.asked \in Seq(Key) /\ d.asked # <<>> /\ writes # 0 /\ d.astray \in BOOLEAN
  BY <1>1 DEF Publish, Inv, Good, Shape, Writing, Threads, Call
<1>5. key \in Key
  BY <1>3, <1>4, EmptySeq, LenProperties, ElementOfSeq
<1>6. /\ call' = [call EXCEPT ![Caller] = Idle]
      /\ end' = end + 2 /\ Enter(key, e)
      /\ UNCHANGED <<nvme, batching, open, spoiled, late, log, writes>>
  BY <1>1, <1>2, <1>3, PageCells DEF Publish, Advanced
<1>7. Kept /\ end' \in Nat
  BY <1>6, PageCells DEF Kept, Safe
<1>8. e \in Extent /\ e.v < end'
  BY <1>2, <1>4, <1>6, PageCells DEF Inv, StoreOK, Extent
<1>9. Fit(e)'
  <2>1. e.sure \/ spoiled'
    BY <1>2, <1>4, <1>6 DEF Good
  <2>2. ASSUME Told(e)' PROVE Placed(e)'
    <3>1. Own(d)
      BY <1>2, <1>6, <2>2 DEF Told, Own
    <3>2. /\ late' = <<>> /\ end + 1 < Size
          /\ log'[end] = KPage(writes) /\ log'[end + 1] = VPage(writes)
      BY <1>4, <1>6, <3>1 DEF Good, Put2
    <3>3. DOMAIN late' = {}
      BY <3>2
    <3>4. e.k = end /\ e.v = end + 1 /\ e.of = writes /\ e.v < end' /\ e.v < Size
      BY <1>2, <1>6, <3>2, PageCells
    <3>5. Sound(e)'
      BY <3>2, <3>4 DEF Sound, KPage, VPage
    <3>6. Safe(e.v)'
      BY <3>3, <3>4 DEF Safe
    <3> QED
      BY <3>5, <3>6 DEF Placed, Safe, Sound
  <2> QED
    BY <2>1, <2>2 DEF Fit
<1>10. call' \in [Threads -> Call] /\ \A t \in Threads : Good(t, call[t])'
  BY <1>6, <1>7, IdleGoodNext, WriterStep
<1>11. ASSUME NEW k \in Key
       PROVE  Fit(table[k])' /\ (Present(table'[k]) => table'[k].v < end')
  <2>1. CASE k = key
    <3>1. table'[k] = e
      BY <1>5, <1>6, <2>1 DEF Enter, Inv, StoreOK
    <3> QED
      BY <1>8, <1>9, <3>1 DEF Fit, Told, Placed, Safe, Sound
  <2>2. CASE k # key
    <3>1. PICK x \in Extent : x = table[k] /\ table'[k] = x
      BY <1>6, <2>2 DEF Enter, Inv, StoreOK
    <3>2. Fit(x)' /\ (Present(x) => x.v < end)
      BY <1>7, <3>1, FitKept DEF Inv, StoreOK
    <3>3. Present(x) => x.v < end'
      BY <1>6, <3>1, <3>2, ExtentType, PageCells
    <3> QED
      BY <3>1, <3>2, <3>3 DEF Fit, Told, Placed, Safe, Sound
  <2> QED
    BY <2>1, <2>2
<1>12. table' \in [Key -> Extent] /\ held' \in [Threads -> [Key -> SUBSET (0..MaxWrites)]]
  BY <1>5, <1>6, <1>8, EnterType
<1>13. StoreOK'
  BY <1>6, <1>7, <1>11, <1>12 DEF Inv, StoreOK, Present
<1> QED
  BY <1>10, <1>13 DEF Inv

\* A step that leaves every call as it is, and writes no safe cell.
LEMMA CallsKept ==
  ASSUME Inv, UNCHANGED <<nvme, spoiled, late, log, end, writes, call>>
  PROVE  call' \in [Threads -> Call] /\ \A t \in Threads : Good(t, call[t])'
<1>1. ASSUME NEW t \in Threads
      PROVE  Good(t, call[t]) /\ call' = [call EXCEPT ![t] = call[t]]
  BY DEF Inv
<1>2. Caller \in Threads
  BY DEF Threads
<1> QED
  BY <1>1, <1>2, GoodProceed

LEMMA EvictBlockInv == ASSUME Inv, NEW k \in Key, EvictBlock(k) PROVE Inv'
<1>1. Enter(k, Absent) /\ UNCHANGED <<nvme, batching, open, spoiled, late, log, end, writes, call>>
  BY DEF EvictBlock
<1>2. table' \in [Key -> Extent] /\ held' \in [Threads -> [Key -> SUBSET (0..MaxWrites)]]
  BY <1>1, EnterType, AbsentFit
<1>3. ASSUME NEW x \in Key
      PROVE  Fit(table[x])' /\ (Present(table'[x]) => table'[x].v < end')
  <2>1. table'[x] = table[x] \/ table'[x] = Absent
    BY <1>1 DEF Enter, Inv, StoreOK
  <2>2. Fit(table[x]) /\ (Present(table[x]) => table[x].v < end)
    BY DEF Inv, StoreOK
  <2>3. Fit(table'[x]) /\ (Present(table'[x]) => table'[x].v < end)
    BY <2>1, <2>2, AbsentFit, Zenon
  <2> QED
    BY <1>1, <2>3 DEF Fit, Told, Placed, Safe, Sound
<1>4. StoreOK'
  BY <1>1, <1>2, <1>3 DEF Inv, StoreOK, Present
<1>5. call' \in [Threads -> Call] /\ \A t \in Threads : Good(t, call[t])'
  BY <1>1, CallsKept
<1> QED
  BY <1>4, <1>5 DEF Inv

LEMMA CloseInv == ASSUME Inv, Close PROVE Inv'
<1>1. UNCHANGED <<nvme, batching, spoiled, late, log, end, table, writes, call, held>>
      /\ open' = FALSE
  BY DEF Close
<1>2. \A k \in Key : Fit(table[k])'
  BY <1>1, StillKept, TableKept
<1>3. StoreOK'
  BY <1>1, <1>2 DEF Inv, StoreOK, Present
<1>4. call' \in [Threads -> Call] /\ \A t \in Threads : Good(t, call[t])'
  BY <1>1, CallsKept
<1> QED
  BY <1>3, <1>4 DEF Inv

-----------------------------------------------------------------------------
(***************************************************************************)
(* The readers.                                                            *)
(***************************************************************************)

LEMMA PagesType ==
  ASSUME NEW n \in Nat, NEW want \in {"k", "v", "kv"}
  PROVE  Pages(n, want) \in Seq(Cell)
<1>1. KPage(n) \in Cell /\ VPage(n) \in Cell
  BY DEF KPage, VPage, Cell
<1> QED
  BY <1>1 DEF Pages

\* What a call in one of its reading steps has on its list.
LEMMA ReaderFacts ==
  ASSUME Inv, NEW t \in Threads, NEW c, c = call[t], c.step \in Reading
  PROVE  /\ Good(t, c) /\ c \in Call /\ c.todo \in Seq(Key) /\ c.asked \in Seq(Key)
         /\ c.todo # <<>> /\ IsInjective(c.todo)
         /\ Head(c.todo) \in Key /\ Tail(c.todo) \in Seq(Key)
         /\ IsInjective(Tail(c.todo)) /\ Head(c.todo) \notin Range(Tail(c.todo))
         /\ Range(c.todo) = {Head(c.todo)} \union Range(Tail(c.todo))
         /\ Range(c.todo) \subseteq Key
         /\ c.op \in {"read", "batch", "topk"} /\ c.want \in {"k", "v", "kv"}
<1>1. Good(t, c) /\ c \in Call /\ c.todo \in Seq(Key) /\ c.asked \in Seq(Key)
      /\ c.todo # <<>> /\ IsInjective(c.todo)
      /\ c.op \in {"read", "batch", "topk"} /\ c.want \in {"k", "v", "kv"}
  BY DEF Inv, Good, Shape, Call
<1>2. \A x \in Range(c.todo) : x \in Key
  BY <1>1, RangeOfSeq
<1> QED
  BY <1>1, <1>2, TailInjective, HeadTailRange

\* Having got the pages of a block, a call has the rest as it was.
LEMMA GotFacts ==
  ASSUME NEW c \in Call, NEW k \in Key, NEW pages \in Seq(Cell),
         NEW d, d = [c EXCEPT !.got[k] = pages]
  PROVE  /\ d \in Call
         /\ d.op = c.op /\ d.step = c.step /\ d.want = c.want /\ d.asked = c.asked
         /\ d.todo = c.todo /\ d.found = c.found /\ d.astray = c.astray
         /\ d.got[k] = pages /\ \A x \in Key \ {k} : d.got[x] = c.got[x]
BY DEF Call

\* A call that is done with a block, its extents and its other pages as they were.
LEMMA DoneGood ==
  ASSUME Inv, NEW t \in Threads, NEW c, c = call[t], c.step \in Reading,
         NEW d \in Call, d.op = c.op, d.want = c.want, d.asked = c.asked,
         d.todo = c.todo, d.found = c.found, d.astray => spoiled,
         \A x \in Key \ {Head(c.todo)} : d.got[x] = c.got[x],
         NEW step \in {"lookup", "fetch", "unpack"},
         step = "lookup" => ~Collects(c),
         step = "fetch" => Collects(c) /\ ~nvme,
         step = "unpack" => c.step = "unpack"
  PROVE  Good(t, Done(d, step))
<1>1. Good(t, c) /\ Range(c.todo) \subseteq Key
  BY ReaderFacts
<1>2. PICK e : e = Done(d, step)
  OBVIOUS
<1>3. /\ e \in Call
      /\ e.op = c.op /\ e.want = c.want /\ e.asked = c.asked
      /\ e.found = c.found /\ e.got = d.got /\ (e.astray => spoiled)
      /\ Range(e.todo) = Range(c.todo) \ {Head(c.todo)}
      /\ \/ e.step = step /\ e.todo # <<>> /\ IsInjective(e.todo)
         \/ e.step = "returned"
  <2>1. d.todo # <<>> /\ IsInjective(d.todo)
    BY ReaderFacts
  <2>2. /\ e \in Call
        /\ e.op = d.op /\ e.want = d.want /\ e.asked = d.asked
        /\ e.found = d.found /\ e.got = d.got /\ e.astray = d.astray
        /\ Range(e.todo) = Range(d.todo) \ {Head(d.todo)}
        /\ \/ e.step = step /\ e.todo # <<>> /\ IsInjective(e.todo)
           \/ e.step = "returned"
    BY <1>2, <2>1, DoneFacts
  <2> QED
    BY <2>2
<1>4. Shape(t, e) /\ Put2(e)
  BY <1>1, <1>3, ReaderFacts DEF Good, Shape, Put2, Collects, Reading, Writing
<1>5. Partial(e)
  <2> SUFFICES ASSUME e.op = "read", ~nvme, e.step = "lookup", NEW x \in Range(e.todo)
               PROVE  e.got[x] = <<>>
    BY <1>3 DEF Partial
  <2>1. x \in Range(c.todo) /\ x \in Range(Tail(c.todo)) /\ x \in Key \ {Head(c.todo)}
    BY <1>1, <1>3, ReaderFacts
  <2>2. c.step \in {"lookup", "pread"}
    BY <1>1, <1>3 DEF Good, Shape, Collects, Reading
  <2>3. c.got[x] = <<>>
    BY <1>1, <1>3, <2>1, <2>2 DEF Good, Partial
  <2> QED
    BY <1>3, <2>1, <2>3
<1> QED
  BY <1>1, <1>2, <1>3, <1>4, <1>5 DEF Good

LEMMA LookupInv == ASSUME Inv, NEW t \in Threads, Lookup(t) PROVE Inv'
<1>1. PICK c : c = call[t]
  OBVIOUS
<1>2. PICK k : k = Head(c.todo)
  OBVIOUS
<1>3. PICK seen : seen = [c EXCEPT !.found[k] = table[k]]
  OBVIOUS
<1>4. c.step = "lookup" /\ c.step \in Reading /\ Good(t, c) /\ c \in Call /\ k \in Key
  BY <1>1, <1>2, ReaderFacts DEF Lookup, Reading
<1>5. /\ seen \in Call
      /\ seen.op = c.op /\ seen.step = c.step /\ seen.want = c.want
      /\ seen.asked = c.asked /\ seen.todo = c.todo /\ seen.got = c.got
      /\ seen.found[k] = table[k] /\ (seen.astray => spoiled)
      /\ \A x \in Key : Fit(seen.found[x])
  <2>1. /\ seen \in Call /\ seen.found = [c.found EXCEPT ![k] = table[k]]
        /\ seen.op = c.op /\ seen.step = c.step /\ seen.want = c.want
        /\ seen.asked = c.asked /\ seen.todo = c.todo /\ seen.got = c.got
        /\ seen.astray = c.astray
    BY <1>3, <1>4 DEF Call, Inv, StoreOK
  <2>2. \A x \in Key : seen.found[x] = IF x = k THEN table[k] ELSE c.found[x]
    BY <1>4, <2>1 DEF Call
  <2> QED
    BY <1>4, <2>1, <2>2 DEF Good, Inv, StoreOK
<1>6. CASE /\ Collects(c)
           /\ Proceed(t, IF Len(c.todo) > 1 THEN [seen EXCEPT !.todo = Tail(@)]
                         ELSE [seen EXCEPT !.todo = c.asked, !.step = "fetch"])
  <2>1. PICK d : d = IF Len(c.todo) > 1 THEN [seen EXCEPT !.todo = Tail(@)]
                     ELSE [seen EXCEPT !.todo = c.asked, !.step = "fetch"]
    OBVIOUS
  <2>2. c.op # "read"
    BY <1>6 DEF Collects
  <2>3. CASE Len(c.todo) > 1
    <3>1. Tail(c.todo) # <<>> /\ Tail(c.todo) \in Seq(Key) /\ IsInjective(Tail(c.todo))
      BY <1>1, <1>4, <2>3, ReaderFacts, TailEmpty
    <3>2. d \in Call /\ d.op = c.op /\ d.step = c.step /\ d.asked = c.asked
          /\ d.todo = Tail(c.todo) /\ d.found = seen.found /\ d.astray = seen.astray
      BY <1>5, <2>1, <2>3, <3>1 DEF Call
    <3>3. Good(t, d)
      BY <1>4, <1>5, <2>2, <3>1, <3>2 DEF Good, Shape, Put2, Partial, Reading, Writing
    <3> QED
      BY <1>6, <2>1, <3>3, ProceedInv
  <2>4. CASE ~(Len(c.todo) > 1)
    <3>1. c.asked \in Seq(Key) /\ c.asked # <<>> /\ IsInjective(c.asked)
      BY <1>4 DEF Good, Shape, Call
    <3>2. d \in Call /\ d.op = c.op /\ d.step = "fetch" /\ d.asked = c.asked
          /\ d.todo = c.asked /\ d.found = seen.found /\ d.astray = seen.astray
      BY <1>5, <2>1, <2>4, <3>1 DEF Call
    <3>3. Good(t, d)
      BY <1>4, <1>5, <1>6, <2>2, <3>1, <3>2
         DEF Good, Shape, Put2, Partial, Reading, Writing, Collects
    <3> QED
      BY <1>6, <2>1, <3>3, ProceedInv
  <2> QED
    BY <2>3, <2>4
<1>7. CASE /\ ~Collects(c) /\ Present(table[k])
           /\ Proceed(t, [seen EXCEPT !.step = "pread"])
  <2>1. PICK d : d = [seen EXCEPT !.step = "pread"]
    OBVIOUS
  <2>2. d \in Call /\ d.op = c.op /\ d.step = "pread" /\ d.asked = c.asked
        /\ d.todo = c.todo /\ d.found = seen.found /\ d.astray = seen.astray
        /\ d.got = c.got /\ d.want = c.want
    BY <1>5, <2>1 DEF Call
  <2>3. Shape(t, d) /\ Put2(d)
    BY <1>2, <1>4, <1>5, <1>7, <2>2 DEF Good, Shape, Put2, Reading, Writing, Collects
  <2>4. Partial(d)
    <3>1. Head(c.todo) \in Range(c.todo) /\ Range(Tail(c.todo)) \subseteq Range(c.todo)
      BY <1>1, <1>4, ReaderFacts
    <3> QED
      BY <1>4, <2>2, <3>1 DEF Good, Partial
  <2>5. Good(t, d)
    BY <1>5, <2>2, <2>3, <2>4 DEF Good
  <2> QED
    BY <1>7, <2>1, <2>5, ProceedInv
<1>8. CASE /\ ~Collects(c) /\ ~Present(table[k])
           /\ Proceed(t, Done([c EXCEPT !.got[k] = Pages(0, c.want)], "lookup"))
  <2>1. PICK d : d = [c EXCEPT !.got[k] = Pages(0, c.want)]
    OBVIOUS
  <2>2. Pages(0, c.want) \in Seq(Cell)
    BY <1>1, <1>4, ReaderFacts, PagesType
  <2>3. Good(t, Done(d, "lookup"))
    <3>1. c.astray => spoiled
      BY <1>4 DEF Good
    <3> QED
      BY <1>1, <1>2, <1>4, <1>8, <2>1, <2>2, <3>1, GotFacts, DoneGood
  <2> QED
    BY <1>8, <2>1, <2>3, ProceedInv
<1> QED
  BY <1>1, <1>2, <1>3, <1>6, <1>7, <1>8 DEF Lookup

\* In step, every extent that a call has found is placed.
LEMMA InStepPlaced ==
  ASSUME NEW t, NEW c, Good(t, c), nvme => ~spoiled, NEW k \in Key, Present(c.found[k])
  PROVE  Placed(c.found[k])
BY DEF Good, Fit, Told

\* Reading at the offsets of a placed extent gives the pages of its write.
LEMMA PlacedCells ==
  ASSUME Inv, NEW c \in Call, c.op \in {"read", "batch", "topk"},
         NEW e \in Extent, Present(e), Placed(e)
  PROVE  /\ Cells(Offsets(c, e)) = Pages(e.of, c.want)
         /\ Pages(e.of, c.want) \in Seq(Cell)
         /\ e.k \in 0..Size-1 /\ e.v \in 0..Size-1 /\ e.v = e.k + 1 /\ e.of \in Nat
         /\ log[e.k] = KPage(e.of) /\ log[e.v] = VPage(e.of)
<1>1. /\ e.k \in 0..Size-1 /\ e.v \in 0..Size-1 /\ e.v = e.k + 1
      /\ log[e.k] = KPage(e.of) /\ log[e.v] = VPage(e.of)
  <2>1. Size \in Nat
    BY BackendAssumption
  <2>2. /\ e.k \in Nat /\ e.v \in Nat /\ e.v < Size /\ e.v = e.k + 1
        /\ log[e.k] = KPage(e.of) /\ log[e.v] = VPage(e.of)
    BY ExtentType DEF Placed, Safe, Sound
  <2> QED
    BY <2>1, <2>2
<1>2. e.of \in Nat /\ c.want \in {"k", "v", "kv"}
  BY ExtentType DEF Call
<1>3. Pages(e.of, c.want) \in Seq(Cell)
  BY <1>2, PagesType
<1>4. ASSUME NEW a, NEW b PROVE Cells(<<a>>) = <<log[a]>> /\ Cells(<<a, b>>) = <<log[a], log[b]>>
  BY DEF Cells
<1>5. Cells(Offsets(c, e)) = Pages(e.of, c.want)
  <2>1. CASE c.want = "k"
    <3>1. Offsets(c, e) = <<e.k>> /\ Pages(e.of, c.want) = <<KPage(e.of)>>
      BY <2>1 DEF Offsets, Pages
    <3>2. Cells(<<e.k>>) = <<log[e.k]>>
      BY <1>4, Zenon
    <3>3. <<log[e.k]>> = <<KPage(e.of)>>
      BY <1>1, Zenon
    <3> QED
      BY <3>1, <3>2, <3>3, Zenon
  <2>2. CASE c.want = "v"
    <3>1. Offsets(c, e) = <<e.v>> /\ Pages(e.of, c.want) = <<VPage(e.of)>>
      BY <2>2 DEF Offsets, Pages
    <3>2. Cells(<<e.v>>) = <<log[e.v]>>
      BY <1>4, Zenon
    <3>3. <<log[e.v]>> = <<VPage(e.of)>>
      BY <1>1, Zenon
    <3> QED
      BY <3>1, <3>2, <3>3, Zenon
  <2>3. CASE c.want = "kv"
    <3>1. Offsets(c, e) = <<e.k, e.v>> /\ Pages(e.of, c.want) = <<KPage(e.of), VPage(e.of)>>
      BY <1>1, <2>3 DEF Offsets, Pages
    <3>2. Cells(<<e.k, e.v>>) = <<log[e.k], log[e.v]>>
      BY <1>4, Zenon
    <3>3. <<log[e.k], log[e.v]>> = <<KPage(e.of), VPage(e.of)>>
      BY <1>1, Zenon
    <3> QED
      BY <3>1, <3>2, <3>3, Zenon
  <2> QED
    BY <1>2, <2>1, <2>2, <2>3
<1> QED
  BY <1>1, <1>2, <1>3, <1>5

\* What read_block() on a file has of a block after its next read: one page, and that
\* the key of two, or all it wants.
LEMMA TwoPages ==
  ASSUME NEW a \in Cell, NEW b \in Cell
  PROVE  Append(<<a>>, b) = <<a, b>>
BY Tuples

LEMMA NextPage ==
  ASSUME Inv, NEW t \in Threads, NEW c, c = call[t], c.step = "pread",
         c.op = "read", ~nvme, NEW k, k = Head(c.todo),
         NEW pages, pages = Append(c.got[k], log[Offsets(c, c.found[k])[Len(c.got[k]) + 1]])
  PROVE  /\ pages \in Seq(Cell)
         /\ Len(c.got[k]) + 1 < Len(Offsets(c, c.found[k])) =>
              c.want = "kv" /\ pages = <<KPage(c.found[k].of)>>
         /\ ~(Len(c.got[k]) + 1 < Len(Offsets(c, c.found[k]))) =>
              pages = Pages(c.found[k].of, c.want)
<1>1. Good(t, c) /\ c \in Call /\ k \in Key /\ c.want \in {"k", "v", "kv"}
  BY ReaderFacts DEF Reading
<1>2. PICK e \in Extent : e = c.found[k]
  BY <1>1 DEF Call
<1>3. PICK got : got = c.got[k]
  OBVIOUS
<1>4. /\ Present(e) /\ Placed(e)
      /\ got = <<>> \/ (c.want = "kv" /\ got = <<KPage(e.of)>>)
  BY <1>1, <1>2, <1>3, InStepPlaced DEF Good, Shape, Partial
<1>5. /\ e.of \in Nat /\ e.v = e.k + 1 /\ e.k \in 0..Size-1 /\ e.v \in 0..Size-1
      /\ log[e.k] = KPage(e.of) /\ log[e.v] = VPage(e.of)
  BY <1>1, <1>2, <1>4, PlacedCells
<1>6. PICK key \in Cell : key = KPage(e.of)
  BY <1>5 DEF KPage, Cell
<1>7. PICK value \in Cell : value = VPage(e.of)
  BY <1>5 DEF VPage, Cell
<1>8. PICK offsets : offsets = Offsets(c, e)
  OBVIOUS
<1>9. pages = Append(got, log[offsets[Len(got) + 1]])
  BY <1>2, <1>3, <1>8
<1>10. Append(<<key>>, value) = <<key, value>>
  BY TwoPages
<1>11. /\ <<>> \in Seq(Cell) /\ Len(<<>>) = 0 /\ Len(<<key>>) = 1
       /\ <<key>> \in Seq(Cell) /\ <<value>> \in Seq(Cell)
       /\ Append(<<>>, key) = <<key>> /\ Append(<<>>, value) = <<value>>
       /\ <<key, value>> \in Seq(Cell)
  BY Tuples
<1> SUFFICES /\ pages \in Seq(Cell)
             /\ Len(got) + 1 < Len(offsets) => c.want = "kv" /\ pages = <<key>>
             /\ ~(Len(got) + 1 < Len(offsets)) => pages = Pages(e.of, c.want)
  BY <1>2, <1>3, <1>6, <1>8
<1>12. CASE c.want = "k"
  <2>1. offsets = <<e.k>> /\ Len(offsets) = 1 /\ offsets[1] = e.k
    BY <1>5, <1>8, <1>12, Tuples DEF Offsets
  <2>2. pages = <<key>>
    BY <1>4, <1>5, <1>6, <1>9, <1>10, <1>11, <1>12, <2>1
  <2> QED
    BY <1>4, <1>6, <1>10, <1>11, <1>12, <2>1, <2>2 DEF Pages
<1>13. CASE c.want = "v"
  <2>1. offsets = <<e.v>> /\ Len(offsets) = 1 /\ offsets[1] = e.v
    BY <1>5, <1>8, <1>13, Tuples DEF Offsets
  <2>2. pages = <<value>>
    BY <1>4, <1>5, <1>7, <1>9, <1>10, <1>11, <1>13, <2>1
  <2> QED
    BY <1>4, <1>7, <1>10, <1>11, <1>13, <2>1, <2>2 DEF Pages
<1>14. CASE c.want = "kv"
  <2>1. offsets = <<e.k, e.v>> /\ Len(offsets) = 2 /\ offsets[1] = e.k /\ offsets[2] = e.v
    BY <1>5, <1>8, <1>14, Tuples DEF Offsets
  <2>2. CASE got = <<>>
    <3>1. pages = <<key>>
      BY <1>5, <1>6, <1>9, <1>10, <1>11, <2>1, <2>2
    <3> QED
      BY <1>10, <1>11, <1>14, <2>1, <2>2, <3>1
  <2>3. CASE got = <<key>>
    <3>1. Len(got) = 1 /\ pages = Append(<<key>>, value)
      BY <1>5, <1>7, <1>9, <1>10, <1>11, <2>1, <2>3
    <3> QED
      BY <1>6, <1>7, <1>10, <1>11, <1>14, <2>1, <3>1 DEF Pages
  <2> QED
    BY <1>4, <1>6, <2>2, <2>3
<1> QED
  BY <1>1, <1>12, <1>13, <1>14

LEMMA PreadFileGood ==
  ASSUME Inv, NEW t \in Threads, NEW c, c = call[t], c.step = "pread",
         c.op = "read", ~nvme, NEW k, k = Head(c.todo), c.want = "kv",
         NEW pages \in Seq(Cell), pages = <<KPage(c.found[k].of)>>,
         NEW d, d = [c EXCEPT !.got[k] = pages]
  PROVE  Good(t, d)
<1>1. Good(t, c) /\ c \in Call /\ k \in Key /\ k \notin Range(Tail(c.todo))
      /\ Range(Tail(c.todo)) \subseteq Key
  BY ReaderFacts DEF Reading
<1>2. /\ d \in Call
      /\ d.op = c.op /\ d.step = c.step /\ d.want = c.want /\ d.asked = c.asked
      /\ d.todo = c.todo /\ d.found = c.found /\ d.astray = c.astray
      /\ d.got[k] = pages /\ \A x \in Key \ {k} : d.got[x] = c.got[x]
  BY <1>1 DEF Call
<1>3. Shape(t, d) /\ Put2(d)
  BY <1>1, <1>2 DEF Good, Shape, Put2, Collects, Reading, Writing
<1>4. Partial(d)
  BY <1>1, <1>2 DEF Good, Partial
<1> QED
  BY <1>1, <1>2, <1>3, <1>4 DEF Good

LEMMA PreadInv == ASSUME Inv, NEW t \in Threads, Pread(t) PROVE Inv'
<1>1. PICK c : c = call[t]
  OBVIOUS
<1>2. PICK k : k = Head(c.todo)
  OBVIOUS
<1>3. c.step = "pread" /\ c.step \in Reading /\ Good(t, c) /\ c \in Call /\ k \in Key
      /\ c.op \in {"read", "batch", "topk"} /\ ~spoiled /\ (c.astray => spoiled)
  BY <1>1, <1>2, ReaderFacts DEF Pread, Reading, Good
<1>4. CASE c.op = "read" /\ ~nvme
  <2>0. PICK pages : pages = Append(c.got[k], log[Offsets(c, c.found[k])[Len(c.got[k]) + 1]])
    OBVIOUS
  <2>1. PICK d : d = [c EXCEPT !.got[k] = pages]
    OBVIOUS
  <2>2. Proceed(t, IF Len(c.got[k]) + 1 < Len(Offsets(c, c.found[k])) THEN d
                   ELSE Done(d, "lookup"))
    BY <1>1, <1>2, <1>4, <2>0, <2>1 DEF Pread
  <2>3. /\ pages \in Seq(Cell)
        /\ Len(c.got[k]) + 1 < Len(Offsets(c, c.found[k])) =>
             c.want = "kv" /\ pages = <<KPage(c.found[k].of)>>
    BY <1>1, <1>2, <1>3, <1>4, <2>0, NextPage
  <2>4. ASSUME Len(c.got[k]) + 1 < Len(Offsets(c, c.found[k])) PROVE Good(t, d)
    BY <1>1, <1>2, <1>3, <1>4, <2>1, <2>3, <2>4, PreadFileGood
  <2>5. Good(t, Done(d, "lookup"))
    BY <1>1, <1>2, <1>3, <1>4, <2>1, <2>3, GotFacts, DoneGood DEF Collects
  <2> QED
    BY <2>2, <2>4, <2>5, ProceedInv
<1>5. CASE ~(c.op = "read" /\ ~nvme)
  <2>1. PICK e \in Extent : e = c.found[k]
    BY <1>3 DEF Call
  <2>2. PICK pages : pages = Cells(Offsets(c, e))
    OBVIOUS
  <2>3. PICK d : d = [c EXCEPT !.got[k] = pages]
    OBVIOUS
  <2>4. Proceed(t, Done(d, "lookup"))
    BY <1>1, <1>2, <1>5, <2>1, <2>2, <2>3 DEF Pread
  <2>5. Present(e) /\ Placed(e) /\ ~Collects(c)
    BY <1>2, <1>3, <2>1, InStepPlaced DEF Good, Shape
  <2>6. pages \in Seq(Cell)
    BY <1>3, <2>2, <2>5, PlacedCells
  <2>7. Good(t, Done(d, "lookup"))
    BY <1>1, <1>2, <1>3, <2>3, <2>5, <2>6, GotFacts, DoneGood
  <2> QED
    BY <2>4, <2>7, ProceedInv
<1> QED
  BY <1>4, <1>5

LEMMA ReadFailsInv == ASSUME Inv, NEW t \in Threads, ReadFails(t) PROVE Inv'
<1>1. /\ call' = [call EXCEPT ![t] = Idle]
      /\ UNCHANGED <<nvme, batching, open, late, log, end, table, writes, held>>
      /\ spoiled' \in BOOLEAN /\ (spoiled => spoiled') /\ (spoiled' => nvme)
  BY PageCells DEF ReadFails, Raise, MaySpoil
<1>2. call' \in [Threads -> Call] /\ \A u \in Threads : Good(u, call[u])'
  BY <1>1, IdleGood, GoodProceed
<1>3. \A k \in Key : Fit(table[k])'
  BY <1>1, StillKept, TableKept
<1>4. StoreOK'
  BY <1>1, <1>3 DEF Inv, StoreOK, Present
<1> QED
  BY <1>2, <1>4 DEF Inv

\* Out of step a call is done with a block, or with its request, whatever it got.
LEMMA ReadAstrayInv == ASSUME Inv, NEW t \in Threads, ReadAstray(t) PROVE Inv'
<1>1. PICK b : b = call[t]
  OBVIOUS
<1>2. PICK c : c = [b EXCEPT !.astray = TRUE]
  OBVIOUS
<1>3. spoiled /\ nvme /\ b.step \in {"pread", "fetch"} /\ b.step \in Reading
  BY <1>1, <1>2, PageCells DEF ReadAstray, Reading, Inv, Call
<1>4. Good(t, b) /\ b \in Call
  BY <1>1, <1>3, ReaderFacts
<1>5. /\ c \in Call /\ c.op = b.op /\ c.step = b.step /\ c.want = b.want
      /\ c.asked = b.asked /\ c.todo = b.todo /\ c.found = b.found /\ c.got = b.got
  BY <1>2, <1>4 DEF Call
<1>6. CASE c.step = "pread" /\ Proceed(t, Done(c, "lookup"))
  <2>1. ~Collects(b)
    BY <1>4, <1>5, <1>6 DEF Good, Shape
  <2>2. Good(t, Done(c, "lookup"))
    BY <1>1, <1>3, <1>5, <2>1, DoneGood
  <2> QED
    BY <1>6, <2>2, ProceedInv
<1>7. CASE /\ c.step = "fetch" /\ c.op = "topk"
           /\ Proceed(t, [c EXCEPT !.todo = <<>>, !.step = "returned"])
  <2>1. PICK d : d = [c EXCEPT !.todo = <<>>, !.step = "returned"]
    OBVIOUS
  <2>2. d \in Call /\ d.op = b.op /\ d.found = b.found /\ d.step = "returned"
    <3>1. <<>> \in Seq(Key)
      OBVIOUS
    <3> QED
      BY <1>5, <2>1, <3>1 DEF Call
  <2>3. Good(t, d)
    BY <1>3, <1>4, <1>5, <1>7, <2>2 DEF Good, Shape, Put2, Partial, Reading, Writing
  <2> QED
    BY <1>7, <2>1, <2>3, ProceedInv
<1>8. CASE /\ c.step = "fetch" /\ c.op = "batch"
           /\ Proceed(t, [c EXCEPT !.step = "unpack"])
  <2>1. PICK d : d = [c EXCEPT !.step = "unpack"]
    OBVIOUS
  <2>2. d \in Call /\ d.op = b.op /\ d.found = b.found /\ d.step = "unpack"
        /\ d.asked = b.asked /\ d.todo = b.todo
    BY <1>5, <2>1 DEF Call
  <2>3. Good(t, d)
    BY <1>3, <1>4, <1>5, <1>8, <2>2 DEF Good, Shape, Put2, Partial, Reading, Writing
  <2> QED
    BY <1>8, <2>1, <2>3, ProceedInv
<1> QED
  BY <1>1, <1>2, <1>6, <1>7, <1>8 DEF ReadAstray

LEMMA UnpackInv == ASSUME Inv, NEW t \in Threads, Unpack(t) PROVE Inv'
<1>1. PICK c : c = call[t]
  OBVIOUS
<1>2. PICK k : k = Head(c.todo)
  OBVIOUS
<1>3. c.step = "unpack" /\ c.step \in Reading /\ Good(t, c) /\ c \in Call /\ k \in Key
  BY <1>1, <1>2, ReaderFacts DEF Unpack, Reading
<1>0. c.astray => spoiled
  BY <1>3 DEF Good
<1>4. CASE Proceed(t, Done([c EXCEPT !.got[k] = Pages(0, c.want)], "unpack"))
  <2>1. PICK d : d = [c EXCEPT !.got[k] = Pages(0, c.want)]
    OBVIOUS
  <2>2. Pages(0, c.want) \in Seq(Cell)
    BY <1>1, <1>3, ReaderFacts, PagesType
  <2>3. Good(t, Done(d, "unpack"))
    BY <1>0, <1>1, <1>2, <1>3, <2>1, <2>2, GotFacts, DoneGood
  <2> QED
    BY <1>4, <2>1, <2>3, ProceedInv
<1>5. CASE Proceed(t, Done(c, "unpack"))
  <2>1. Good(t, Done(c, "unpack"))
    BY <1>0, <1>1, <1>3, DoneGood
  <2> QED
    BY <1>5, <2>1, ProceedInv
<1>6. CASE Proceed(t, Idle)
  BY <1>6, IdleGood, ProceedInv
<1> QED
  BY <1>1, <1>2, <1>4, <1>5, <1>6 DEF Unpack

\* What a request or a scoring brings for one block.
Fetched(c, k) ==
  IF c.op = "topk" THEN Scored(c, k)
  ELSE IF Present(c.found[k]) THEN Cells(Offsets(c, c.found[k])) ELSE <<>>

LEMMA FetchedType ==
  ASSUME Inv, NEW t \in Threads, NEW c \in Call, Good(t, c),
         c.op \in {"read", "batch", "topk"}, NEW k \in Key,
         ~spoiled \/ (c.op = "batch" /\ ~Present(c.found[k]))
  PROVE  Fetched(c, k) \in Seq(Cell)
<1>1. PICK e \in Extent : e = c.found[k]
  BY DEF Call
<1>2. CASE Present(e)
  <2>1. Placed(e)
    BY <1>1, <1>2, InStepPlaced
  <2>2. /\ Cells(Offsets(c, e)) \in Seq(Cell) /\ e.k \in 0..Size-1
    BY <1>2, <2>1, PlacedCells
  <2>3. log[e.k] \in Cell
    BY <2>2 DEF Inv, StoreOK
  <2> QED
    BY <1>1, <1>2, <2>2, <2>3 DEF Fetched, Scored
<1>3. CASE ~Present(e)
  <2>1. e.k = 0 /\ <<>> \in Seq(Cell)
    BY <1>3, ExtentType
  <2>2. log[e.k] \in Cell
    BY <2>1, BackendAssumption DEF Inv, StoreOK
  <2> QED
    BY <1>1, <1>3, <2>1, <2>2 DEF Fetched, Scored
<1> QED
  BY <1>2, <1>3

LEMMA FetchInv == ASSUME Inv, NEW t \in Threads, Fetch(t) PROVE Inv'
<1>1. PICK c : c = call[t]
  OBVIOUS
<1>2. PICK k : k = Head(c.todo)
  OBVIOUS
<1>3. c.step = "fetch" /\ c.step \in Reading /\ Good(t, c) /\ c \in Call /\ k \in Key
      /\ c.op \in {"read", "batch", "topk"} /\ c.op # "read"
      /\ (c.op # "batch" => ~spoiled) /\ (c.astray => spoiled)
      /\ \A x \in Range(c.asked) : Present(c.found[x]) => ~spoiled
  BY <1>1, <1>2, ReaderFacts DEF Fetch, Reading, Good, Shape, Collects, Asks
<1>4. CASE nvme
  <2>1. PICK got : got = [x \in Key |-> IF x \in Range(c.asked) THEN Fetched(c, x) ELSE <<>>]
    OBVIOUS
  <2>2. got \in [Key -> Seq(Cell)]
    <3>1. <<>> \in Seq(Cell)
      OBVIOUS
    <3>2. ASSUME NEW x \in Key, x \in Range(c.asked) PROVE Fetched(c, x) \in Seq(Cell)
      BY <1>3, <3>2, FetchedType
    <3> QED
      BY <2>1, <3>1, <3>2
  <2>3. PICK all : all = [c EXCEPT !.got = got]
    OBVIOUS
  <2>4. PICK d : d = IF c.op = "topk" THEN [all EXCEPT !.todo = <<>>, !.step = "returned"]
                     ELSE [all EXCEPT !.step = "unpack"]
    OBVIOUS
  <2>5. Proceed(t, d)
    BY <1>1, <1>4, <2>1, <2>3, <2>4 DEF Fetch, Fetched
  <2>6. /\ all \in Call /\ all.op = c.op /\ all.found = c.found /\ all.asked = c.asked
        /\ all.todo = c.todo /\ all.astray = c.astray
    BY <1>3, <2>2, <2>3 DEF Call
  <2>7. CASE c.op = "topk"
    <3>0. <<>> \in Seq(Key)
      OBVIOUS
    <3>1. d \in Call /\ d.op = c.op /\ d.found = c.found /\ d.step = "returned"
          /\ d.astray = c.astray
      BY <2>4, <2>6, <2>7, <3>0 DEF Call
    <3>2. Good(t, d)
      BY <1>3, <3>1 DEF Good, Shape, Put2, Partial, Reading, Writing
    <3> QED
      BY <2>5, <3>2, ProceedInv
  <2>8. CASE c.op # "topk"
    <3>1. d \in Call /\ d.op = c.op /\ d.found = c.found /\ d.step = "unpack"
          /\ d.asked = c.asked /\ d.todo = c.todo /\ d.astray = c.astray
      BY <2>4, <2>6, <2>8 DEF Call
    <3>2. Good(t, d)
      BY <1>3, <1>4, <2>8, <3>1 DEF Good, Shape, Put2, Partial, Reading, Writing
    <3> QED
      BY <2>5, <3>2, ProceedInv
  <2> QED
    BY <2>7, <2>8
<1>5. CASE ~nvme
  <2>0. c.op = "topk"
    BY <1>3, <1>5 DEF Good, Shape, Collects
  <2>1. PICK pages \in Seq(Cell) : pages = Fetched(c, k)
    BY <1>3, <2>0, FetchedType
  <2>2. PICK d : d = [c EXCEPT !.got[k] = pages]
    OBVIOUS
  <2>3. Proceed(t, Done(d, "fetch"))
    BY <1>1, <1>2, <1>5, <2>1, <2>2 DEF Fetch, Fetched
  <2>4. Collects(c)
    BY <1>3 DEF Good, Shape
  <2>5. Good(t, Done(d, "fetch"))
    BY <1>1, <1>2, <1>3, <1>5, <2>2, <2>4, GotFacts, DoneGood
  <2> QED
    BY <2>3, <2>5, ProceedInv
<1> QED
  BY <1>4, <1>5

-----------------------------------------------------------------------------
(***************************************************************************)
(* Every step.                                                             *)
(***************************************************************************)

LEMMA ReadPageInv ==
  ASSUME Inv, NEW t \in Threads, NEW want \in {"k", "v", "kv"}, NEW k \in Key,
         ReadPage(t, want, k)
  PROVE  Inv'
<1>1. <<k>> \in Seq(Key) /\ <<k>> # <<>> /\ IsInjective(<<k>>)
  BY DEF IsInjective
<1> QED
  BY <1>1, BeginGood DEF ReadPage

LEMMA ReadBatchInv ==
  ASSUME Inv, NEW t \in Threads, NEW want \in {"k", "v", "kv"}, NEW keys \in Lists,
         ReadBatch(t, want, keys)
  PROVE  Inv'
<1>1. keys \in Seq(Key) /\ keys # <<>> /\ IsInjective(keys)
  BY BackendAssumption
<1>2. PICK op \in {"read", "batch"} : op = IF batching THEN "batch" ELSE "read"
  OBVIOUS
<1>3. Begin(t, op, "lookup", want, keys) /\ UNCHANGED <<nvme, batching, store>>
  BY <1>2 DEF ReadBatch
<1> QED
  BY <1>1, <1>3, BeginGood

LEMMA ComputeTopKInv == ASSUME Inv, NEW keys \in Lists, ComputeTopK(keys) PROVE Inv'
<1>1. keys \in Seq(Key) /\ keys # <<>> /\ IsInjective(keys) /\ Caller \in Threads
  BY BackendAssumption DEF Threads
<1> QED
  BY <1>1, BeginGood DEF ComputeTopK

LEMMA ServeInv == ASSUME Inv, NEW t \in Threads, Serve(t) PROVE Inv'
BY LookupInv, PreadInv, FetchInv, ReadAstrayInv, UnpackInv, ReadFailsInv DEF Serve

LEMMA NextInv == Inv /\ [Next]_vars => Inv'
<1> SUFFICES ASSUME Inv, [Next]_vars PROVE Inv'
  OBVIOUS
<1>1. Caller \in Threads /\ \A w \in Workers : w \in Threads
  BY DEF Threads
<1>2. ASSUME NEW k \in Key, WriteBlock(k) PROVE Inv'
  BY <1>2, WriteBlockInv
<1>3. ASSUME NEW k \in Key, EvictBlock(k) PROVE Inv'
  BY <1>3, EvictBlockInv
<1>4. CASE PwriteKey
  BY <1>4, PwriteKeyInv
<1>5. CASE PwriteValue
  BY <1>5, PwriteValueInv
<1>6. CASE Transfer
  BY <1>6, TransferInv
<1>7. CASE WriteFails
  BY <1>7, WriteFailsInv
<1>8. CASE Publish
  BY <1>8, PublishInv
<1>9. CASE Close
  BY <1>9, CloseInv
<1>10. ASSUME NEW k \in Key, NEW want \in {"k", "v", "kv"}, ReadPage(Caller, want, k)
       PROVE  Inv'
  BY <1>1, <1>10, ReadPageInv
<1>11. ASSUME NEW keys \in Lists, NEW want \in {"k", "v", "kv"},
              ReadBatch(Caller, want, keys)
       PROVE  Inv'
  BY <1>1, <1>11, ReadBatchInv
<1>12. ASSUME NEW keys \in Lists, NEW w \in Workers, ReadBatch(w, "kv", keys)
       PROVE  Inv'
  BY <1>1, <1>12, ReadBatchInv
<1>13. ASSUME NEW keys \in Lists, ComputeTopK(keys) PROVE Inv'
  BY <1>13, ComputeTopKInv
<1>14. ASSUME NEW t \in Threads, Serve(t) PROVE Inv'
  BY <1>14, ServeInv
<1>15. CASE UNCHANGED vars
  <2>1. call' \in [Threads -> Call] /\ \A t \in Threads : Good(t, call[t])'
    BY <1>15, CallsKept DEF vars
  <2>2. \A k \in Key : Fit(table[k])'
    BY <1>15, StillKept, TableKept DEF vars
  <2>3. StoreOK'
    BY <1>15, <2>2 DEF vars, Inv, StoreOK, Present
  <2> QED
    BY <2>1, <2>3 DEF Inv
<1>16. CASE TransferAstray
  BY <1>16, TransferAstrayInv
<1>17. CASE Arrive
  BY <1>17, ArriveInv
<1> QED
  BY <1>16, <1>17, <1>2, <1>3, <1>4, <1>5, <1>6, <1>7, <1>8, <1>9, <1>10, <1>11, <1>12, <1>13,
     <1>14, <1>15 DEF Next

LEMMA InvHolds == Spec => []Inv
BY InitInv, NextInv, PTL DEF Spec

\* Type correctness: what _storage, _file_offset and the calls of the threads hold is of
\* its kind, and every extent that read_block() could look up lies below the end of the
\* log, whatever the workers, the caller and close() do, and however the connection to
\* the device gets out of step.
THEOREM BackendTypeCorrect == Spec => []TypeOK
BY InvHolds, InvType, PTL

\* The pages an extent points to, in the table or in the hands of a reader that has left
\* the table behind, are the two pages of the write that entered it, on a device if the
\* reply to that write was its own: write_block() puts them down before it enters the
\* extent, and nothing is ever written below the end, not even by a write that raised
\* and that the device carries out later.
THEOREM PagesStayIntact == Spec => []PagesIntact
BY InvHolds, InvType, PTL

-----------------------------------------------------------------------------
(***************************************************************************)
(* What the calls answer.                                                  *)
(***************************************************************************)

\* A block is answered by the pages of a write that the block was during the call; a
\* stored candidate of Top-K, by the key page of the extent it was found with.
Answered(c, h, k) ==
  IF c.op = "topk" THEN Present(c.found[k]) => c.got[k] = <<KPage(c.found[k].of)>>
  ELSE \E n \in h[k] : c.got[k] = Pages(n, c.want)

\* All a call knows it has from the table as it was during the call, unless it went by
\* the reply of another.
Heard(c, h) ==
  /\ c.step \notin {"idle", "returned"} => \A k \in Key : table[k].of \in h[k]
  /\ \A k \in Key : Present(c.found[k]) => c.found[k].of \in h[k]
  /\ c.step \in Reading /\ ~(c.step = "lookup" /\ Collects(c)) /\ Own(c) =>
       \A k \in Range(c.asked) \ Range(c.todo) : Answered(c, h, k)
  /\ c.step = "unpack" /\ Own(c) =>
       \A k \in Range(c.todo) :
         Present(c.found[k]) => c.got[k] = Pages(c.found[k].of, c.want)
  /\ c.step = "returned" /\ Own(c) => \A k \in Range(c.asked) : Answered(c, h, k)

AllHeard == \A t \in Threads : Heard(call[t], held[t])

LEMMA HeardAnswers == Inv /\ AllHeard => ReadsHeld /\ ScoredFromOwn
<1> SUFFICES ASSUME Inv, AllHeard PROVE ReadsHeld /\ ScoredFromOwn
  OBVIOUS
<1>1. ReadsHeld
  BY DEF AllHeard, Heard, Own, Answered, ReadsHeld
<1>2. ASSUME call[Caller].step = "returned", call[Caller].op = "topk", Own(call[Caller]),
             NEW k \in Range(call[Caller].asked), Present(call[Caller].found[k])
      PROVE  \E n \in held[Caller][k] : call[Caller].got[k] = <<KPage(n)>>
  <2>1. Caller \in Threads /\ call[Caller].asked \in Seq(Key)
    BY DEF Threads, Inv, Call
  <2>2. k \in Key
    BY <1>2, <2>1, RangeOfSeq
  <2> QED
    BY <1>2, <2>1, <2>2 DEF AllHeard, Heard, Own, Answered
<1> QED
  BY <1>1, <1>2 DEF ScoredFromOwn, Own

LEMMA IdleHeard == ASSUME NEW h PROVE Heard(Idle, h)
BY DEF Heard, Own, Idle, Absent, Present, Reading

LEMMA InitHeard == Init => AllHeard
BY IdleHeard DEF Init, AllHeard

\* A call that begins has been told nothing yet, and may find the table as it is.
LEMMA BeginHeard ==
  ASSUME Inv, AllHeard, NEW t \in Threads, NEW op \in {"read", "batch", "topk", "write"},
         NEW step \in {"lookup", "transfer", "pwrite_k"},
         NEW want, NEW keys, Begin(t, op, step, want, keys), UNCHANGED <<nvme, table>>
  PROVE  AllHeard'
<1>1. PICK c : /\ c = [Idle EXCEPT !.op = op, !.step = step, !.want = want,
                                   !.asked = keys, !.todo = keys]
               /\ call' = [call EXCEPT ![t] = c]
  BY DEF Begin
<1>2. PICK h : h = [k \in Key |-> {table[k].of}] /\ held' = [held EXCEPT ![t] = h]
  BY DEF Begin
<1>3. c.step = step /\ c.asked = keys /\ c.todo = keys /\ c.found = Idle.found
  BY <1>1 DEF Idle
<1>4. \A k \in Key : ~Present(c.found[k])
  BY <1>3 DEF Idle, Absent, Present
<1>5. Heard(c, h)
  BY <1>2, <1>3, <1>4 DEF Heard, Own, Reading
<1>6. ASSUME NEW u \in Threads PROVE Heard(call[u], held[u])'
  <2>1. CASE u = t
    <3>1. call'[u] = c /\ held'[u] = h
      BY <1>1, <1>2, <2>1 DEF Inv, StoreOK
    <3> QED
      BY <1>5, <3>1 DEF Heard, Own, Answered, Collects
  <2>2. CASE u # t
    <3>1. call'[u] = call[u] /\ held'[u] = held[u]
      BY <1>1, <1>2, <2>2 DEF Inv, StoreOK
    <3> QED
      BY <3>1 DEF AllHeard, Heard, Own, Answered, Collects
  <2> QED
    BY <2>1, <2>2
<1> QED
  BY <1>6 DEF AllHeard

\* A step that changes one thread's call only.
LEMMA CallHeard ==
  ASSUME Inv, AllHeard, NEW t \in Threads, NEW c, Heard(c, held[t]),
         call' = [call EXCEPT ![t] = c], UNCHANGED <<nvme, table, held>>
  PROVE  AllHeard'
<1>1. ASSUME NEW u \in Threads PROVE Heard(call'[u], held[u])
  BY DEF AllHeard, Inv
<1> QED
  BY <1>1 DEF AllHeard, Heard, Own, Answered, Collects

\* The writer's steps before it enters the extent.
LEMMA WritingHeard ==
  ASSUME Inv, AllHeard, call[Caller].step \in Writing, NEW step \in Writing,
         call' = [call EXCEPT ![Caller].step = step], UNCHANGED <<nvme, table, held>>
  PROVE  AllHeard'
<1>1. PICK c : c = [call[Caller] EXCEPT !.step = step]
  OBVIOUS
<1>2. PICK d : d = call[Caller]
  OBVIOUS
<1>3. Caller \in Threads /\ d \in Call /\ Heard(d, held[Caller]) /\ d.step \in Writing
  BY <1>2 DEF Threads, AllHeard, Inv
<1>4. c.step = step /\ c.found = d.found
  BY <1>1, <1>2, <1>3 DEF Call
<1>5. Heard(c, held[Caller])
  BY <1>3, <1>4 DEF Heard, Own, Writing, Reading
<1>6. call' = [call EXCEPT ![Caller] = c]
  BY <1>1
<1> QED
  BY <1>3, <1>5, <1>6, CallHeard

\* A call in flight learns of the table's new entry; one that is over has its answers.
LEMMA EnterHeard ==
  ASSUME Inv, AllHeard, NEW k \in Key, NEW e \in Extent, Enter(k, e), UNCHANGED nvme,
         NEW t \in Threads, NEW c, c = call[t], NEW g, g = held'[t]
  PROVE  Heard(c, g)'
<1>1. PICK h : h = held[t]
  OBVIOUS
<1>2. Heard(c, h)
  BY <1>1 DEF AllHeard
<1>3. /\ \A x \in Key : table'[x] = IF x = k THEN e ELSE table[x]
      /\ h \in [Key -> SUBSET (0..MaxWrites)]
      /\ g = IF c.step \notin {"idle", "returned"}
             THEN [h EXCEPT ![k] = @ \union {e.of}] ELSE h
  BY <1>1 DEF Enter, Inv, StoreOK, InFlight
<1>4. /\ \A x \in Key : h[x] \subseteq g[x]
      /\ c.step \notin {"idle", "returned"} => e.of \in g[k]
  BY <1>3
<1>5. c \in Call /\ \A x \in Range(c.asked) : x \in Key
  BY RangeOfSeq DEF Inv, Call
<1>6. \A x \in Key : Answered(c, h, x) => Answered(c, g, x)
  BY <1>4 DEF Answered
<1>7. c.step \notin {"idle", "returned"} => \A x \in Key : table'[x].of \in g[x]
  BY <1>2, <1>3, <1>4 DEF Heard, Own
<1> QED
  BY <1>2, <1>4, <1>5, <1>6, <1>7 DEF Heard, Own, Answered, Collects

LEMMA PublishHeard == ASSUME Inv, AllHeard, Publish PROVE AllHeard'
<1>1. PICK e : e = [k |-> end, v |-> end + 1, of |-> writes, sure |-> ~call[Caller].astray]
  OBVIOUS
<1>2. PICK key : key = call[Caller].asked[1]
  OBVIOUS
<1>3. PICK c : c = Idle
  OBVIOUS
<1>4. /\ call[Caller].asked \in Seq(Key) /\ call[Caller].asked # <<>> /\ writes # 0
      /\ call[Caller].astray \in BOOLEAN
  BY DEF Publish, Inv, Good, Shape, Writing, Threads, Call
<1>5. key \in Key
  BY <1>2, <1>4, EmptySeq, LenProperties, ElementOfSeq
<1>6. e \in Extent
  BY <1>1, <1>4, PageCells DEF Extent, Inv, StoreOK
<1>7. /\ Enter(key, e) /\ UNCHANGED nvme /\ call' = [call EXCEPT ![Caller] = c]
  BY <1>1, <1>2, <1>3, PageCells DEF Publish
<1>8. ASSUME NEW t \in Threads PROVE Heard(call[t], held[t])'
  <2>1. PICK g : g = held'[t]
    OBVIOUS
  <2>2. CASE t = Caller
    <3>1. call'[t] = c /\ c.step = "idle" /\ \A k \in Key : ~Present(c.found[k])
      BY <1>3, <1>7, <2>2 DEF Inv, Idle, Absent, Present
    <3> QED
      BY <3>1 DEF Heard, Own, Reading, Present
  <2>3. CASE t # Caller
    <3>1. PICK d : d = call[t] /\ call'[t] = d
      BY <1>7, <2>3 DEF Inv
    <3>2. Heard(d, g)'
      BY <1>5, <1>6, <1>7, <2>1, <3>1, EnterHeard
    <3> QED
      BY <2>1, <3>1, <3>2 DEF Heard, Own, Answered, Collects
  <2> QED
    BY <2>2, <2>3
<1> QED
  BY <1>8 DEF AllHeard

LEMMA EvictBlockHeard == ASSUME Inv, AllHeard, NEW k \in Key, EvictBlock(k) PROVE AllHeard'
<1>1. /\ Absent \in Extent /\ Enter(k, Absent) /\ UNCHANGED <<nvme, call>>
  BY DEF EvictBlock, Extent
<1>2. ASSUME NEW t \in Threads PROVE Heard(call[t], held[t])'
  <2>1. PICK g : g = held'[t]
    OBVIOUS
  <2>2. PICK d : d = call[t] /\ call'[t] = d
    BY <1>1
  <2>3. Heard(d, g)'
    BY <1>1, <2>1, <2>2, EnterHeard
  <2> QED
    BY <2>1, <2>2, <2>3 DEF Heard, Own, Answered, Collects
<1> QED
  BY <1>2 DEF AllHeard

\* A call that has the answer for the head of its list is done with it.
LEMMA DoneHeard ==
  ASSUME Inv, NEW t \in Threads, NEW c, c = call[t], c.step \in Reading,
         NEW h, Heard(c, h), ~(c.step = "lookup" /\ Collects(c)),
         NEW d \in Call, d.op = c.op, d.want = c.want, d.asked = c.asked,
         d.todo = c.todo, d.found = c.found,
         \A x \in Key \ {Head(c.todo)} : d.got[x] = c.got[x],
         c.astray => d.astray, Own(d) => Answered(d, h, Head(c.todo)),
         NEW step \in {"lookup", "fetch", "unpack"},
         step = "unpack" => c.step = "unpack"
  PROVE  Heard(Done(d, step), h)
<1>1. /\ Range(c.todo) \subseteq Key /\ c.todo # <<>> /\ IsInjective(c.todo)
      /\ Range(c.asked) \subseteq Key
  <2>1. \A x \in Range(c.asked) : x \in Key
    BY ReaderFacts, RangeOfSeq
  <2> QED
    BY <2>1, ReaderFacts
<1>2. PICK e : e = Done(d, step)
  OBVIOUS
<1>3. /\ e \in Call
      /\ e.op = d.op /\ e.want = d.want /\ e.asked = d.asked
      /\ e.found = d.found /\ e.got = d.got /\ e.astray = d.astray
      /\ Range(e.todo) = Range(d.todo) \ {Head(d.todo)}
      /\ e.step = "returned" => Range(e.todo) = {}
      /\ \/ e.step = step /\ e.todo # <<>> /\ IsInjective(e.todo)
         \/ e.step = "returned"
  <2>1. d.todo # <<>> /\ IsInjective(d.todo)
    BY <1>1
  <2>2. /\ e \in Call
        /\ e.op = d.op /\ e.want = d.want /\ e.asked = d.asked
        /\ e.found = d.found /\ e.got = d.got /\ e.astray = d.astray
    BY <1>2, <2>1, DoneFacts
  <2>3. /\ Range(e.todo) = Range(d.todo) \ {Head(d.todo)}
        /\ e.step = "returned" => Range(e.todo) = {}
    BY <1>2, <2>1, DoneFacts
  <2>4. \/ e.step = step /\ e.todo # <<>> /\ IsInjective(e.todo)
        \/ e.step = "returned"
    BY <1>2, <2>1, DoneFacts
  <2> QED
    BY <2>2, <2>3, <2>4
<1>4. /\ Range(e.todo) = Range(c.todo) \ {Head(c.todo)} /\ e.asked = c.asked
      /\ e.found = c.found /\ e.op = c.op /\ e.want = c.want
      /\ Own(e) => Own(c) /\ Own(d)
  BY <1>3 DEF Own
<1>5. ASSUME Own(e), NEW k \in Range(c.asked) \ Range(e.todo) PROVE Answered(e, h, k)
  <2>1. CASE k = Head(c.todo)
    <3>1. Answered(d, h, k)
      BY <1>4, <1>5, <2>1
    <3> QED
      BY <1>3, <3>1 DEF Answered
  <2>2. CASE k # Head(c.todo)
    <3>1. k \in Range(c.asked) \ Range(c.todo) /\ k \in Key \ {Head(c.todo)}
      BY <1>1, <1>4, <2>2
    <3>2. Answered(c, h, k) /\ e.got[k] = c.got[k]
      BY <1>3, <1>4, <1>5, <3>1 DEF Heard
    <3> QED
      BY <1>4, <3>2 DEF Answered
  <2> QED
    BY <2>1, <2>2
<1>6. ASSUME Own(e), e.step = "unpack", NEW k \in Range(e.todo), Present(e.found[k])
      PROVE  e.got[k] = Pages(e.found[k].of, e.want)
  <2>1. k \in Range(c.todo) /\ k \in Key \ {Head(c.todo)} /\ c.step = "unpack"
    BY <1>1, <1>3, <1>4, <1>6
  <2>2. e.got[k] = c.got[k]
    BY <1>3, <2>1
  <2> QED
    BY <1>4, <1>6, <2>1, <2>2 DEF Heard
<1>7. \A k \in Key : table[k].of \in h[k]
  BY DEF Heard, Own, Reading
<1>8. \A k \in Key : Present(e.found[k]) => e.found[k].of \in h[k]
  BY <1>4 DEF Heard, Own
<1>9. e.step = "returned" /\ Own(e) => \A k \in Range(e.asked) : Answered(e, h, k)
  BY <1>3, <1>4, <1>5
<1>10. Own(e) => \A k \in Range(e.asked) \ Range(e.todo) : Answered(e, h, k)
  BY <1>4, <1>5
<1>11. Heard(e, h)
  BY <1>6, <1>7, <1>8, <1>9, <1>10 DEF Heard, Own
<1> QED
  BY <1>2, <1>11

LEMMA ProceedHeard ==
  ASSUME Inv, AllHeard, NEW t \in Threads, NEW c, Heard(c, held[t]), Proceed(t, c)
  PROVE  AllHeard'
BY CallHeard DEF Proceed, store

\* Zeros answer for a block that the table lacks.
LEMMA ZerosAnswer ==
  ASSUME NEW c \in Call, NEW d, d.op = c.op, d.want = c.want, c.op # "topk",
         NEW k \in Key, NEW h, table[k].of \in h[k], ~Present(table[k]),
         d.got[k] = Pages(0, c.want)
  PROVE  Answered(d, h, k)
BY DEF Answered, Present

LEMMA LookupHeard == ASSUME Inv, AllHeard, NEW t \in Threads, Lookup(t) PROVE AllHeard'
<1>1. PICK c : c = call[t]
  OBVIOUS
<1>2. PICK k : k = Head(c.todo)
  OBVIOUS
<1>3. PICK seen : seen = [c EXCEPT !.found[k] = table[k]]
  OBVIOUS
<1>4. PICK h : h = held[t]
  OBVIOUS
<1>5. c.step = "lookup" /\ c.step \in Reading /\ Good(t, c) /\ c \in Call /\ k \in Key
      /\ Heard(c, h) /\ \A x \in Key : table[x].of \in h[x]
  BY <1>1, <1>2, <1>4, ReaderFacts DEF Lookup, Reading, AllHeard, Heard, Own
<1>6. /\ seen \in Call /\ seen.op = c.op /\ seen.step = c.step /\ seen.want = c.want
      /\ seen.asked = c.asked /\ seen.todo = c.todo /\ seen.got = c.got
      /\ seen.astray = c.astray
      /\ \A x \in Key : Present(seen.found[x]) => seen.found[x].of \in h[x]
  <2>1. /\ seen \in Call /\ seen.found = [c.found EXCEPT ![k] = table[k]]
        /\ seen.op = c.op /\ seen.step = c.step /\ seen.want = c.want
        /\ seen.asked = c.asked /\ seen.todo = c.todo /\ seen.got = c.got
        /\ seen.astray = c.astray
    BY <1>3, <1>5 DEF Call, Inv, StoreOK
  <2>2. \A x \in Key : seen.found[x] = IF x = k THEN table[k] ELSE c.found[x]
    BY <1>5, <2>1 DEF Call
  <2> QED
    BY <1>5, <2>1, <2>2 DEF Heard, Own
<1>7. CASE /\ Collects(c)
           /\ Proceed(t, IF Len(c.todo) > 1 THEN [seen EXCEPT !.todo = Tail(@)]
                         ELSE [seen EXCEPT !.todo = c.asked, !.step = "fetch"])
  <2>1. PICK d : d = IF Len(c.todo) > 1 THEN [seen EXCEPT !.todo = Tail(@)]
                     ELSE [seen EXCEPT !.todo = c.asked, !.step = "fetch"]
    OBVIOUS
  <2>2. d.op = c.op /\ d.asked = c.asked /\ d.found = seen.found /\ d.astray = c.astray
        /\ \/ d.step = "lookup"
           \/ d.step = "fetch" /\ d.todo = c.asked
    BY <1>5, <1>6, <2>1 DEF Call
  <2>3. Heard(d, h)
    BY <1>5, <1>6, <1>7, <2>2 DEF Heard, Own, Reading, Collects
  <2> QED
    BY <1>4, <1>7, <2>1, <2>3, ProceedHeard
<1>8. CASE /\ ~Collects(c) /\ Present(table[k])
           /\ Proceed(t, [seen EXCEPT !.step = "pread"])
  <2>1. PICK d : d = [seen EXCEPT !.step = "pread"]
    OBVIOUS
  <2>2. d.op = c.op /\ d.step = "pread" /\ d.asked = c.asked /\ d.want = c.want
        /\ d.todo = c.todo /\ d.found = seen.found /\ d.got = c.got /\ d.astray = c.astray
    BY <1>6, <2>1 DEF Call
  <2>3. c.op # "topk"
    BY <1>8 DEF Collects
  <2>4. Own(d) => \A x \in Range(d.asked) \ Range(d.todo) : Answered(d, h, x)
    BY <1>5, <1>8, <2>2, <2>3 DEF Heard, Own, Answered
  <2>5. Heard(d, h)
    BY <1>5, <1>6, <2>2, <2>4 DEF Heard, Own
  <2> QED
    BY <1>4, <1>8, <2>1, <2>5, ProceedHeard
<1>9. CASE /\ ~Collects(c) /\ ~Present(table[k])
           /\ Proceed(t, Done([c EXCEPT !.got[k] = Pages(0, c.want)], "lookup"))
  <2>1. PICK d : d = [c EXCEPT !.got[k] = Pages(0, c.want)]
    OBVIOUS
  <2>2. Pages(0, c.want) \in Seq(Cell) /\ c.op # "topk"
    BY <1>1, <1>5, <1>9, ReaderFacts, PagesType DEF Collects
  <2>3. /\ d \in Call
        /\ d.op = c.op /\ d.step = c.step /\ d.want = c.want /\ d.asked = c.asked
        /\ d.todo = c.todo /\ d.found = c.found /\ d.astray = c.astray
        /\ d.got[k] = Pages(0, c.want) /\ \A x \in Key \ {k} : d.got[x] = c.got[x]
    BY <1>5, <2>1, <2>2 DEF Call
  <2>4. Answered(d, h, k)
    BY <1>5, <1>9, <2>2, <2>3, ZerosAnswer
  <2>5. Heard(Done(d, "lookup"), h)
    BY <1>1, <1>2, <1>5, <1>9, <2>3, <2>4, DoneHeard
  <2> QED
    BY <1>4, <1>9, <2>1, <2>5, ProceedHeard
<1> QED
  BY <1>1, <1>2, <1>3, <1>7, <1>8, <1>9 DEF Lookup

LEMMA PreadHeard == ASSUME Inv, AllHeard, NEW t \in Threads, Pread(t) PROVE AllHeard'
<1>1. PICK c : c = call[t]
  OBVIOUS
<1>2. PICK k : k = Head(c.todo)
  OBVIOUS
<1>3. PICK h : h = held[t]
  OBVIOUS
<1>4. c.step = "pread" /\ c.step \in Reading /\ Good(t, c) /\ c \in Call /\ k \in Key
      /\ c.op \in {"read", "batch", "topk"} /\ Heard(c, h) /\ ~spoiled /\ Own(c)
  BY <1>1, <1>2, <1>3, ReaderFacts DEF Pread, Reading, AllHeard, Own, Good
<1>5. PICK e \in Extent : e = c.found[k]
  BY <1>4 DEF Call
<1>6. Present(e) /\ Placed(e) /\ c.op # "topk" /\ e.of \in h[k]
  BY <1>2, <1>4, <1>5, InStepPlaced DEF Good, Shape, Collects, Heard
<1>7. /\ Cells(Offsets(c, e)) = Pages(e.of, c.want) /\ Pages(e.of, c.want) \in Seq(Cell)
  BY <1>4, <1>6, PlacedCells
\* The last page of a block gives the call its answer.
<1>8. ASSUME NEW d, d = [c EXCEPT !.got[k] = Pages(e.of, c.want)]
      PROVE  Heard(Done(d, "lookup"), h)
  <2>1. PICK pages \in Seq(Cell) : pages = Pages(e.of, c.want)
    BY <1>7
  <2>2. /\ d \in Call
        /\ d.op = c.op /\ d.step = c.step /\ d.want = c.want /\ d.asked = c.asked
        /\ d.todo = c.todo /\ d.found = c.found /\ d.astray = c.astray
        /\ d.got[k] = pages /\ \A x \in Key \ {k} : d.got[x] = c.got[x]
    BY <1>4, <1>8, <2>1 DEF Call
  <2>3. Answered(d, h, k)
    BY <1>6, <2>1, <2>2 DEF Answered
  <2> QED
    BY <1>1, <1>2, <1>4, <2>2, <2>3, DoneHeard
<1>9. CASE c.op = "read" /\ ~nvme
  <2>1. PICK pages : pages = Append(c.got[k], log[Offsets(c, c.found[k])[Len(c.got[k]) + 1]])
    OBVIOUS
  <2>2. PICK d : d = [c EXCEPT !.got[k] = pages]
    OBVIOUS
  <2>3. Proceed(t, IF Len(c.got[k]) + 1 < Len(Offsets(c, c.found[k])) THEN d
                   ELSE Done(d, "lookup"))
    BY <1>1, <1>2, <1>9, <2>1, <2>2 DEF Pread
  <2>4. ~(Len(c.got[k]) + 1 < Len(Offsets(c, c.found[k]))) => pages = Pages(e.of, c.want)
    BY <1>1, <1>2, <1>4, <1>5, <1>9, <2>1, NextPage
  <2>5. CASE Len(c.got[k]) + 1 < Len(Offsets(c, c.found[k]))
    <3>1. pages \in Seq(Cell)
      BY <1>1, <1>2, <1>4, <1>9, <2>1, NextPage
    <3>2. /\ d.op = c.op /\ d.step = c.step /\ d.want = c.want /\ d.asked = c.asked
          /\ d.todo = c.todo /\ d.found = c.found /\ d.astray = c.astray
          /\ \A x \in Key \ {k} : d.got[x] = c.got[x]
      BY <1>4, <2>2, <3>1 DEF Call
    <3>3. \A x \in Range(c.asked) \ Range(c.todo) : x \in Key \ {k}
      <4>1. k \in Range(c.todo) /\ c.asked \in Seq(Key)
        BY <1>1, <1>2, <1>4, ReaderFacts
      <4>2. \A x \in Range(c.asked) : x \in Key
        BY <4>1, RangeOfSeq
      <4> QED
        BY <4>1, <4>2
    <3>4. \A x \in Range(d.asked) \ Range(d.todo) : Answered(d, h, x)
      BY <1>4, <1>6, <3>2, <3>3 DEF Heard, Own, Answered
    <3>5. Heard(d, h)
      BY <1>4, <3>2, <3>4 DEF Heard, Own
    <3> QED
      BY <1>3, <2>3, <2>5, <3>5, ProceedHeard
  <2>6. CASE ~(Len(c.got[k]) + 1 < Len(Offsets(c, c.found[k])))
    BY <1>3, <1>8, <2>2, <2>3, <2>4, <2>6, ProceedHeard
  <2> QED
    BY <2>5, <2>6
<1>10. CASE ~(c.op = "read" /\ ~nvme)
  <2>1. PICK d : d = [c EXCEPT !.got[k] = Pages(e.of, c.want)]
    OBVIOUS
  <2>2. Proceed(t, Done(d, "lookup"))
    BY <1>1, <1>2, <1>5, <1>7, <1>10, <2>1 DEF Pread
  <2> QED
    BY <1>3, <1>8, <2>1, <2>2, ProceedHeard
<1> QED
  BY <1>9, <1>10

LEMMA ReadFailsHeard == ASSUME Inv, AllHeard, NEW t \in Threads, ReadFails(t) PROVE AllHeard'
BY IdleHeard, CallHeard DEF ReadFails, Raise

LEMMA UnpackHeard == ASSUME Inv, AllHeard, NEW t \in Threads, Unpack(t) PROVE AllHeard'
<1>1. PICK c : c = call[t]
  OBVIOUS
<1>2. PICK k : k = Head(c.todo)
  OBVIOUS
<1>3. PICK h : h = held[t]
  OBVIOUS
<1>4. c.step = "unpack" /\ c.step \in Reading /\ Good(t, c) /\ c \in Call /\ k \in Key
      /\ Heard(c, h) /\ \A x \in Key : table[x].of \in h[x]
  BY <1>1, <1>2, <1>3, ReaderFacts DEF Unpack, Reading, AllHeard, Heard, Own
<1>5. c.op # "topk" /\ k \in Range(c.todo)
  BY <1>1, <1>2, <1>4, ReaderFacts DEF Good, Shape
<1>6. CASE /\ ~Present(table[k])
           /\ Proceed(t, Done([c EXCEPT !.got[k] = Pages(0, c.want)], "unpack"))
  <2>1. PICK d : d = [c EXCEPT !.got[k] = Pages(0, c.want)]
    OBVIOUS
  <2>2. Pages(0, c.want) \in Seq(Cell)
    BY <1>1, <1>4, ReaderFacts, PagesType
  <2>3. /\ d \in Call
        /\ d.op = c.op /\ d.step = c.step /\ d.want = c.want /\ d.asked = c.asked
        /\ d.todo = c.todo /\ d.found = c.found /\ d.astray = c.astray
        /\ d.got[k] = Pages(0, c.want) /\ \A x \in Key \ {k} : d.got[x] = c.got[x]
    BY <1>4, <2>1, <2>2 DEF Call
  <2>4. Answered(d, h, k)
    BY <1>4, <1>5, <1>6, <2>3, ZerosAnswer
  <2>5. Heard(Done(d, "unpack"), h)
    BY <1>1, <1>2, <1>4, <2>3, <2>4, DoneHeard
  <2> QED
    BY <1>3, <1>6, <2>1, <2>5, ProceedHeard
<1>7. CASE /\ Present(c.found[k]) \/ c.astray
           /\ Present(table[k]) /\ Proceed(t, Done(c, "unpack"))
  <2>1. Own(c) => Answered(c, h, k)
    <3>1. nvme
      BY <1>4 DEF Good, Shape
    <3> QED
      BY <1>4, <1>5, <1>7, <3>1 DEF Heard, Own, Answered
  <2>2. Heard(Done(c, "unpack"), h)
    BY <1>1, <1>2, <1>4, <2>1, DoneHeard
  <2> QED
    BY <1>3, <1>7, <2>2, ProceedHeard
<1>8. CASE Proceed(t, Idle)
  BY <1>8, IdleHeard, ProceedHeard
<1> QED
  BY <1>1, <1>2, <1>6, <1>7, <1>8 DEF Unpack

\* A call that goes by another's reply has nothing to answer for.
LEMMA ReadAstrayHeard ==
  ASSUME Inv, AllHeard, NEW t \in Threads, ReadAstray(t)
  PROVE  AllHeard'
<1>1. PICK b : b = call[t]
  OBVIOUS
<1>2. PICK c : c = [b EXCEPT !.astray = TRUE]
  OBVIOUS
<1>3. PICK h : h = held[t]
  OBVIOUS
<1>4. /\ spoiled /\ nvme /\ b.step \in {"pread", "fetch"} /\ b.step \in Reading
      /\ Heard(b, h)
  BY <1>1, <1>2, <1>3, PageCells DEF ReadAstray, Reading, Inv, Call, AllHeard
<1>5. Good(t, b) /\ b \in Call /\ b.todo # <<>> /\ IsInjective(b.todo)
  BY <1>1, <1>4, ReaderFacts
<1>6. /\ c \in Call /\ c.op = b.op /\ c.step = b.step /\ c.want = b.want
      /\ c.asked = b.asked /\ c.todo = b.todo /\ c.found = b.found /\ c.got = b.got
      /\ c.astray
  BY <1>2, <1>5 DEF Call
<1>7. ASSUME NEW d, d.found = b.found, d.astray, d.step \in {"lookup", "unpack", "returned"}
      PROVE  Heard(d, h)
  BY <1>4, <1>7 DEF Heard, Own, Reading
<1>8. CASE c.step = "pread" /\ Proceed(t, Done(c, "lookup"))
  <2>1. PICK d : d = Done(c, "lookup")
    OBVIOUS
  <2>2. d.found = b.found /\ d.astray = c.astray /\ d.step \in {"lookup", "returned"}
    BY <1>5, <1>6, <2>1, DoneFacts
  <2>3. Heard(d, h)
    BY <1>6, <1>7, <2>2
  <2> QED
    BY <1>3, <1>8, <2>1, <2>3, ProceedHeard
<1>9. CASE /\ c.step = "fetch" /\ c.op = "topk"
           /\ Proceed(t, [c EXCEPT !.todo = <<>>, !.step = "returned"])
  <2>1. PICK d : d = [c EXCEPT !.todo = <<>>, !.step = "returned"]
    OBVIOUS
  <2>2. d.found = b.found /\ d.astray = c.astray /\ d.step = "returned"
    BY <1>6, <2>1 DEF Call
  <2>3. Heard(d, h)
    BY <1>6, <1>7, <2>2
  <2> QED
    BY <1>3, <1>9, <2>1, <2>3, ProceedHeard
<1>10. CASE /\ c.step = "fetch" /\ c.op = "batch"
            /\ Proceed(t, [c EXCEPT !.step = "unpack"])
  <2>1. PICK d : d = [c EXCEPT !.step = "unpack"]
    OBVIOUS
  <2>2. d.found = b.found /\ d.astray = c.astray /\ d.step = "unpack"
    BY <1>6, <2>1 DEF Call
  <2>3. Heard(d, h)
    BY <1>6, <1>7, <2>2
  <2> QED
    BY <1>3, <1>10, <2>1, <2>3, ProceedHeard
<1> QED
  BY <1>1, <1>2, <1>8, <1>9, <1>10 DEF ReadAstray

\* What is fetched for a stored block is its pages, or its key for Top-K.
LEMMA FetchedPages ==
  ASSUME Inv, NEW t \in Threads, NEW c \in Call, Good(t, c),
         c.op \in {"read", "batch", "topk"}, NEW k \in Key, Present(c.found[k]), ~spoiled
  PROVE  Fetched(c, k) = IF c.op = "topk" THEN <<KPage(c.found[k].of)>>
                         ELSE Pages(c.found[k].of, c.want)
<1>1. PICK e \in Extent : e = c.found[k]
  BY DEF Call
<1>2. Present(e) /\ Placed(e)
  BY <1>1, InStepPlaced
<1>3. Cells(Offsets(c, e)) = Pages(e.of, c.want) /\ log[e.k] = KPage(e.of)
  BY <1>2, PlacedCells
<1> QED
  BY <1>1, <1>2, <1>3 DEF Fetched, Scored

LEMMA FetchHeard == ASSUME Inv, AllHeard, NEW t \in Threads, Fetch(t) PROVE AllHeard'
<1>1. PICK c : c = call[t]
  OBVIOUS
<1>2. PICK k : k = Head(c.todo)
  OBVIOUS
<1>3. PICK h : h = held[t]
  OBVIOUS
<1>4. c.step = "fetch" /\ c.step \in Reading /\ Good(t, c) /\ c \in Call /\ k \in Key
      /\ c.op \in {"read", "batch", "topk"} /\ Heard(c, h) /\ Range(c.asked) \subseteq Key
      /\ (c.op # "batch" => ~spoiled)
      /\ \A x \in Range(c.asked) : Present(c.found[x]) => ~spoiled
  <2>1. c.step = "fetch" /\ c.step \in Reading /\ Good(t, c) /\ c \in Call /\ k \in Key
        /\ c.op \in {"read", "batch", "topk"} /\ Heard(c, h) /\ c.asked \in Seq(Key)
        /\ (c.op # "batch" => ~spoiled)
        /\ \A x \in Range(c.asked) : Present(c.found[x]) => ~spoiled
    BY <1>1, <1>2, <1>3, ReaderFacts DEF Fetch, Reading, AllHeard, Asks
  <2>2. \A x \in Range(c.asked) : x \in Key
    BY <2>1, RangeOfSeq
  <2> QED
    BY <2>1, <2>2
<1>5. CASE nvme
  <2>1. PICK got : got = [x \in Key |-> IF x \in Range(c.asked) THEN Fetched(c, x) ELSE <<>>]
    OBVIOUS
  <2>2. PICK all : all = [c EXCEPT !.got = got]
    OBVIOUS
  <2>3. PICK d : d = IF c.op = "topk" THEN [all EXCEPT !.todo = <<>>, !.step = "returned"]
                     ELSE [all EXCEPT !.step = "unpack"]
    OBVIOUS
  <2>4. Proceed(t, d)
    BY <1>1, <1>5, <2>1, <2>2, <2>3 DEF Fetch, Fetched
  <2>5. /\ d.op = c.op /\ d.found = c.found /\ d.asked = c.asked /\ d.want = c.want
        /\ d.got = got /\ d.astray = c.astray
        /\ \/ c.op = "topk" /\ d.step = "returned"
           \/ c.op # "topk" /\ d.step = "unpack" /\ d.todo = c.todo
    BY <1>4, <2>2, <2>3 DEF Call
  <2>6. ASSUME NEW x \in Range(c.asked), Present(c.found[x])
        PROVE  got[x] = IF c.op = "topk" THEN <<KPage(c.found[x].of)>>
                        ELSE Pages(c.found[x].of, c.want)
    BY <1>4, <2>1, <2>6, FetchedPages
  <2>7. CASE c.op = "topk"
    <3>1. \A x \in Range(d.asked) : Answered(d, h, x)
      BY <2>5, <2>6, <2>7 DEF Answered
    <3>2. Heard(d, h)
      BY <1>4, <2>5, <2>7, <3>1 DEF Heard, Own, Reading
    <3> QED
      BY <1>3, <2>4, <3>2, ProceedHeard
  <2>8. CASE c.op # "topk"
    <3>1. c.todo = c.asked
      BY <1>4, <1>5 DEF Good, Shape
    <3>2. Heard(d, h)
      BY <1>4, <2>5, <2>6, <2>8, <3>1 DEF Heard, Own, Reading
    <3> QED
      BY <1>3, <2>4, <3>2, ProceedHeard
  <2> QED
    BY <2>7, <2>8
<1>6. CASE ~nvme
  <2>4. c.op = "topk"
    BY <1>4, <1>6 DEF Good, Shape, Collects
  <2>1. PICK pages \in Seq(Cell) : pages = Fetched(c, k)
    BY <1>4, <2>4, FetchedType
  <2>2. PICK d : d = [c EXCEPT !.got[k] = pages]
    OBVIOUS
  <2>3. Proceed(t, Done(d, "fetch"))
    BY <1>1, <1>2, <1>6, <2>1, <2>2 DEF Fetch, Fetched
  <2>5. /\ d \in Call
        /\ d.op = c.op /\ d.step = c.step /\ d.want = c.want /\ d.asked = c.asked
        /\ d.todo = c.todo /\ d.found = c.found /\ d.astray = c.astray
        /\ d.got[k] = pages /\ \A x \in Key \ {k} : d.got[x] = c.got[x]
    BY <1>4, <2>1, <2>2 DEF Call
  <2>6. Answered(d, h, k)
    BY <1>4, <2>1, <2>4, <2>5, FetchedPages DEF Answered
  <2>7. Heard(Done(d, "fetch"), h)
    BY <1>1, <1>2, <1>4, <2>5, <2>6, DoneHeard
  <2> QED
    BY <1>3, <2>3, <2>7, ProceedHeard
<1> QED
  BY <1>5, <1>6

LEMMA NextHeard == Inv /\ AllHeard /\ [Next]_vars => AllHeard'
<1> SUFFICES ASSUME Inv, AllHeard, [Next]_vars PROVE AllHeard'
  OBVIOUS
<1>1. Caller \in Threads /\ \A w \in Workers : w \in Threads
  BY DEF Threads
<1>2. ASSUME NEW k \in Key, WriteBlock(k) PROVE AllHeard'
  <2>1. PICK step \in {"transfer", "pwrite_k"} :
          Begin(Caller, "write", step, "kv", <<k>>) /\ UNCHANGED <<nvme, table>>
    BY <1>2 DEF WriteBlock
  <2> QED
    BY <1>1, <2>1, BeginHeard
<1>3. ASSUME NEW k \in Key, EvictBlock(k) PROVE AllHeard'
  BY <1>3, EvictBlockHeard
<1>4. CASE PwriteKey
  BY <1>4, WritingHeard DEF PwriteKey, Writing
<1>5. CASE PwriteValue
  BY <1>5, WritingHeard DEF PwriteValue, Writing
<1>6. CASE Transfer
  BY <1>6, WritingHeard DEF Transfer, Writing
<1>7. CASE WriteFails
  <2>1. call' = [call EXCEPT ![Caller] = Idle] /\ UNCHANGED <<nvme, table, held>>
    BY <1>7 DEF WriteFails, Raise
  <2> QED
    BY <1>1, <2>1, IdleHeard, CallHeard
<1>8. CASE Publish
  BY <1>8, PublishHeard
<1>9. CASE Close
  BY <1>9 DEF Close, AllHeard, Heard, Own, Answered, Collects
<1>10. ASSUME NEW k \in Key, NEW want \in {"k", "v", "kv"}, ReadPage(Caller, want, k)
       PROVE  AllHeard'
  BY <1>1, <1>10, BeginHeard DEF ReadPage, store
<1>11. ASSUME NEW t \in Threads, NEW want, NEW keys, ReadBatch(t, want, keys)
       PROVE  AllHeard'
  <2>1. PICK op \in {"read", "batch"} : op = IF batching THEN "batch" ELSE "read"
    OBVIOUS
  <2>2. Begin(t, op, "lookup", want, keys) /\ UNCHANGED <<nvme, table>>
    BY <1>11, <2>1 DEF ReadBatch, store
  <2> QED
    BY <2>2, BeginHeard
<1>12. ASSUME NEW keys \in Lists, ComputeTopK(keys) PROVE AllHeard'
  BY <1>1, <1>12, BeginHeard DEF ComputeTopK, store
<1>13. ASSUME NEW t \in Threads, Serve(t) PROVE AllHeard'
  BY <1>13, LookupHeard, PreadHeard, FetchHeard, ReadAstrayHeard, UnpackHeard,
     ReadFailsHeard DEF Serve
<1>14. CASE UNCHANGED vars
  BY <1>14 DEF vars, AllHeard, Heard, Own, Answered, Collects
<1>15. CASE TransferAstray
  <2>1. PICK c : c = [call[Caller] EXCEPT !.step = "publish", !.astray = TRUE]
    OBVIOUS
  <2>2. PICK d : d = call[Caller]
    OBVIOUS
  <2>3. /\ d \in Call /\ Heard(d, held[Caller]) /\ d.step = "transfer"
        /\ call' = [call EXCEPT ![Caller] = c] /\ UNCHANGED <<nvme, table, held>>
    BY <1>1, <1>15, <2>1, <2>2 DEF TransferAstray, AllHeard, Inv
  <2>4. c.step = "publish" /\ c.found = d.found
    BY <2>1, <2>2, <2>3 DEF Call
  <2>5. Heard(c, held[Caller])
    BY <2>3, <2>4 DEF Heard, Reading
  <2> QED
    BY <1>1, <2>3, <2>5, CallHeard
<1>16. CASE Arrive
  <2>1. PICK c : c = call[Caller]
    OBVIOUS
  <2>2. Heard(c, held[Caller]) /\ call' = [call EXCEPT ![Caller] = c]
    BY <1>1, <1>16, <2>1 DEF Arrive, AllHeard, Inv
  <2> QED
    BY <1>1, <1>16, <2>2, CallHeard DEF Arrive
<1> QED
  BY <1>15, <1>16, <1>1, <1>2, <1>3, <1>4, <1>5, <1>6, <1>7, <1>8, <1>9, <1>10, <1>11,
     <1>12, <1>13, <1>14 DEF Next

LEMMA HeardHolds == Spec => []AllHeard
<1>1. Init => AllHeard
  BY InitHeard
<1>2. Inv /\ AllHeard /\ [Next]_vars => AllHeard'
  BY NextHeard
<1> QED
  BY <1>1, <1>2, InvHolds, PTL DEF Spec

\* What read_block(), read_key_block() and the batch reads return for a block, unless
\* they took another's reply from the device, is what the table named at some moment of
\* the call: never the key of one write with the value of another, and never a write that
\* raised.
THEOREM ReadsReturnOneWrite == Spec => []ReadsHeld
BY InvHolds, HeardHolds, HeardAnswers, PTL

\* compute_topk_blocks() scores each stored candidate from its own key page, written by
\* a write that the table named during the call, unless it took another's reply.
THEOREM TopKScoresOwnKeys == Spec => []ScoredFromOwn
BY InvHolds, HeardHolds, HeardAnswers, PTL

=============================================================================
