---------------------------- MODULE SessionProofs ----------------------------
(***************************************************************************)
(* Theorems about DecodeSession: every behaviour of the decode path is a   *)
(* behaviour of the adapter, and the staging it uses is invisible to       *)
(* attention, for every number of layers, blocks, workers and capacities.  *)
(***************************************************************************)
EXTENDS DecodeSession, PrefetchAdapterProofs

-----------------------------------------------------------------------------
(***************************************************************************)
(* Type correctness.                                                       *)
(***************************************************************************)

\* The layers are the numbers from 0, and the layer after a layer is a layer.
LEMMA LayerFacts ==
  /\ Cardinality(Layers) \in Nat \ {0}
  /\ LastLayer \in Layers
  /\ \A l \in Layers : (l + 1) % Cardinality(Layers) \in Layers
<1> DEFINE n == Cardinality(Layers)
<1>1. n \in Nat
  BY FS_CardinalityType, AdapterAssumption
<1>2. Layers = 0..n-1 /\ Layers # {}
  BY SessionAssumption
<1> HIDE DEF n
<1>3. n \in Nat \ {0}
  BY <1>1, <1>2
<1>4. n - 1 \in Layers /\ \A l \in Layers : (l + 1) % n \in Layers
  BY <1>2, <1>3
<1> QED
  BY <1>3, <1>4 DEF n, LastLayer

\* The orders a configuration can ask for are sequences of the three steps.
LEMMA PlanType ==
  ASSUME NEW m \in Modes
  PROVE  Plan[m.order] \in Seq({"winners", "candidates", "prefetch"})
<1> DEFINE S == {"winners", "candidates", "prefetch"}
<1>1. m.order \in {"async", "sync", "host"}
  BY SessionAssumption DEF Mode, Plan
<1>2. /\ <<"winners", "prefetch">> \in Seq(S)
      /\ <<"prefetch", "winners", "winners">> \in Seq(S)
      /\ <<"candidates", "prefetch", "winners">> \in Seq(S)
  OBVIOUS
<1>3. /\ Plan["async"] = <<"winners", "prefetch">>
      /\ Plan["sync"] = <<"prefetch", "winners", "winners">>
      /\ Plan["host"] = <<"candidates", "prefetch", "winners">>
  BY DEF Plan
<1> QED
  BY <1>1, <1>2, <1>3

\* The session starts well-typed.
LEMMA SessionTypeInit == SessionInit => SessionTypeOK
<1> SUFFICES ASSUME SessionInit PROVE SessionTypeOK
  OBVIOUS
<1>1. toWrite \in SUBSET Key
  BY DEF SessionInit, NewPrompt, Candidates, Key
<1>2. plan \in Seq({"winners", "candidates", "prefetch"})
  BY EmptySeq DEF SessionInit
<1> QED
  BY <1>1, <1>2, LayerFacts DEF SessionInit, NewPrompt, SessionTypeOK

\* Every step of the session keeps its types.
LEMMA SessionTypeStep == SessionTypeOK /\ [SessionNext]_allVars => SessionTypeOK'
<1> SUFFICES ASSUME SessionTypeOK, [SessionNext]_allVars PROVE SessionTypeOK'
  OBVIOUS
<1>1. CASE PrefillWrite
  BY <1>1 DEF PrefillWrite, SessionTypeOK
<1>2. CASE StartDecode
  BY <1>2 DEF StartDecode, SessionTypeOK
<1>3. CASE EnterLayer
  <2>1. won' \in SUBSET BlockIds
    BY <1>3 DEF EnterLayer, Candidates
  <2>2. layer' \in Layers
    BY <1>3, LayerFacts DEF EnterLayer, NextLayer, SessionTypeOK
  <2>3. plan' \in Seq({"winners", "candidates", "prefetch"})
    BY <1>3, PlanType DEF EnterLayer, SessionTypeOK
  <2> QED
    BY <1>3, <2>1, <2>2, <2>3 DEF EnterLayer, SessionTypeOK
<1>4. CASE ReadLayer \/ PredictAndPrefetch
  <2>1. plan # <<>> /\ plan' = Tail(plan) /\ UNCHANGED <<phase, mode, blocks, toWrite, layer, won>>
    BY <1>4 DEF ReadLayer, PredictAndPrefetch
  <2>2. plan' \in Seq({"winners", "candidates", "prefetch"})
    BY <2>1, HeadTailProperties DEF SessionTypeOK
  <2> QED
    BY <2>1, <2>2 DEF SessionTypeOK
<1>5. CASE NextPrompt
  <2>1. toWrite' \in SUBSET Key
    BY <1>5 DEF NextPrompt, Candidates, Key
  <2> QED
    BY <1>5, <2>1 DEF NextPrompt, SessionTypeOK
<1>6. CASE Background \/ UNCHANGED allVars
  BY <1>6 DEF Background, session, allVars, SessionTypeOK
<1> QED
  BY <1>1, <1>2, <1>3, <1>4, <1>5, <1>6 DEF SessionNext

\* Whatever prompts, orders and layers follow each other, the session's variables
\* stay in their types: the layer after the last is a layer again.
THEOREM SessionTypesHold == SessionSpec => []SessionTypeOK
  BY SessionTypeInit, SessionTypeStep, PTL DEF SessionSpec

-----------------------------------------------------------------------------
(***************************************************************************)
(* The session is a client of the adapter.                                 *)
(***************************************************************************)

\* Each step of the session is one the adapter allows its caller or its workers.
LEMMA AdapterStep == SessionTypeOK /\ [SessionNext]_allVars => [Next]_vars
<1> SUFFICES ASSUME SessionTypeOK, [SessionNext]_allVars PROVE [Next]_vars
  OBVIOUS
<1>1. CASE PrefillWrite
  <2>1. PICK k \in toWrite : WriteBlock(k)
    BY <1>1 DEF PrefillWrite
  <2> QED
    BY <2>1 DEF Next, SessionTypeOK
<1>2. CASE StartDecode
  BY <1>2 DEF StartDecode, Next
<1>3. CASE EnterLayer \/ NextPrompt \/ UNCHANGED allVars
  BY <1>3 DEF EnterLayer, NextPrompt, allVars, vars
<1>4. CASE ReadLayer
  <2> DEFINE B == IF Head(plan) = "winners" THEN won ELSE Candidates(blocks)
  <2>1. B \in SUBSET BlockIds /\ layer \in Layers
    BY DEF SessionTypeOK, Candidates
  <2>2. \E s \in SetToSeqs({layer} \X B) : BeginRead(s)
    BY <1>4 DEF ReadLayer
  <2> HIDE DEF B
  <2>3. Read
    BY <2>1, <2>2 DEF Read
  <2> QED
    BY <2>3 DEF Next
<1>5. CASE PredictAndPrefetch
  <2>1. NextLayer \in Layers /\ won \in SUBSET BlockIds
    BY LayerFacts DEF NextLayer, SessionTypeOK
  <2>2. PICK m \in Listings(Missing(NextLayer, won)) :
          \/ UNCHANGED vars
          \/ PrefetchSync(m)
          \/ \E f \in Futures : PrefetchSubmit(m, f)
    BY <1>5 DEF PredictAndPrefetch
  <2>3. UNCHANGED vars \/ Prefetch
    BY <2>1, <2>2 DEF Prefetch
  <2> QED
    BY <2>3 DEF Next
<1>6. CASE Background
  BY <1>6 DEF Background, Next
<1> QED
  BY <1>1, <1>2, <1>3, <1>4, <1>5, <1>6 DEF SessionNext

\* A decode session uses the adapter as the adapter's own model allows: all that is
\* proved of the adapter holds in every session.
THEOREM SessionOnAdapter == SessionSpec => Spec
<1>1. SessionInit => Init
  BY DEF SessionInit
<1> QED
  BY <1>1, AdapterStep, SessionTypesHold, PTL DEF SessionSpec, Spec

-----------------------------------------------------------------------------
(***************************************************************************)
(* What is staged while a session decodes.  Besides StagingFresh itself the*)
(* invariant says that every fetch that an entry or a pending insertion    *)
(* holds has obtained what the backend holds: the fetches of an earlier    *)
(* prompt may still run, but the reset took every entry that held them.    *)
(***************************************************************************)

\* In the table fs, what fetch f has obtained is what the store s holds.
UpToDate(fs, s, f) == \A k \in Key : fs[f].got[k] \in {NoData, s[k]}

HeldFresh ==
  phase = "decode" =>
    \A f \in Futures : HeldIn(entry, f) => UpToDate(future, store, f)

\* Only an insertion holds a future; no call is open while the prompt is offloaded;
\* and the backend holds the last write of every block, for a session evicts none.
Between ==
  /\ call.op # "insert" => call.future = NoFuture
  /\ phase = "prefill" => call.op = "idle"
  /\ store = written

Steady == Between /\ StagingFresh /\ HeldFresh

\* The collection of garbage leaves no fetch with other data.
LEMMA CollectUpToDate ==
  ASSUME NEW fs, NEW e, NEW s, NEW f \in Futures, UpToDate(fs, s, f)
  PROVE  UpToDate(Collect(e, fs), s, f)
<1>1. Collect(e, fs)[f] = fs[f] \/ Collect(e, fs)[f] = FreeSlot
  BY CollectFrees
<1>2. \A k \in Key : FreeSlot.got[k] = NoData
  BY DEF FreeSlot, Nothing
<1> QED
  BY <1>1, <1>2 DEF UpToDate

\* A hit on a staged block serves what the backend holds, and so will every later
\* hit on a block whose future it resolved.
LEMMA HitFresh ==
  ASSUME TypeOK, Sound, StagingFresh, HeldFresh, phase = "decode",
         NEW k \in Key, k \in Staged, Ready(k)
  PROVE  /\ HitData(k) = store[k]
         /\ \A x \in Staged : \/ Resolved(k)[x].future = NoFuture /\ Resolved(k)[x].data = store[x]
                              \/ Resolved(k)[x].future = entry[x].future
                                 /\ entry[x].future # NoFuture
<1>1. \A x \in Staged : x \in Key /\ entry[x] \in Entry
  BY StagedKeys DEF TypeOK
<1>2. \A x \in Staged : entry[x].future = NoFuture => entry[x].data = store[x]
  BY DEF StagingFresh
<1>3. store[k] \in Nat /\ NoData \notin Nat
  BY AdapterAssumption DEF TypeOK
<1>4. CASE entry[k].future = NoFuture
  <2>1. Resolved(k) = entry
    BY <1>4 DEF Resolved
  <2> QED
    BY <1>2, <1>3, <1>4, <2>1 DEF HitData
<1>5. CASE entry[k].future # NoFuture
  <2> DEFINE f == entry[k].future
  <2>1. f \in Futures /\ Covers(future, f, k) /\ future[f].state = "done"
    BY <1>5, EntryFuture DEF Ready
  <2>2. HeldIn(entry, f)
    BY DEF HeldIn
  <2>3. UpToDate(future, store, f)
    BY <2>1, <2>2 DEF HeldFresh
  <2>4. future[f].got[k] = store[k]
    BY <2>1, <2>3 DEF UpToDate, Covers, Sound, Complete, Range
  <2>5. \A x \in Key :
          Resolved(k)[x] = IF x \in Staged /\ future[f].got[x] # NoData
                           THEN [entry[x] EXCEPT !.data = future[f].got[x],
                                                 !.future = NoFuture]
                           ELSE entry[x]
    BY <1>5 DEF Resolved
  <2> HIDE DEF f
  <2>6. \A x \in Staged : future[f].got[x] # NoData =>
          Resolved(k)[x].future = NoFuture /\ Resolved(k)[x].data = store[x]
    <3>1. SUFFICES ASSUME NEW x \in Staged, future[f].got[x] # NoData
                   PROVE  Resolved(k)[x].future = NoFuture /\ Resolved(k)[x].data = store[x]
      OBVIOUS
    <3>2. Resolved(k)[x] = [entry[x] EXCEPT !.data = future[f].got[x], !.future = NoFuture]
      BY <1>1, <2>5, <3>1
    <3>3. future[f].got[x] = store[x]
      BY <1>1, <2>3, <3>1 DEF UpToDate
    <3> QED
      BY <1>1, <3>2, <3>3 DEF Entry
  <2>7. \A x \in Staged : future[f].got[x] = NoData => Resolved(k)[x] = entry[x]
    BY <1>1, <2>5
  <2>8. HitData(k) = store[k]
    BY <1>3, <2>4, <2>6 DEF HitData
  <2> QED
    BY <1>2, <2>6, <2>7, <2>8
<1> QED
  BY <1>4, <1>5

\* When no future is newly held and none that is held obtains anything stale, what
\* is held stays up to date.
LEMMA HeldKept ==
  ASSUME HeldFresh, phase = "decode", store' = store,
         call'.future \in {call.future, NoFuture},
         \A k \in Key : entry'[k].future \in {entry[k].future, call.future, NoFuture},
         \A f \in Futures : UpToDate(future, store, f) => UpToDate(future', store, f)
  PROVE  HeldFresh'
<1> SUFFICES ASSUME NEW f \in Futures, call'.future = f \/ \E k \in Key : entry'[k].future = f
             PROVE  UpToDate(future', store, f)
  BY DEF HeldFresh, HeldIn, UpToDate
<1>1. f # NoFuture
  BY DataFacts
<1>2. HeldIn(entry, f)
  BY <1>1 DEF HeldIn
<1> QED
  BY <1>2 DEF HeldFresh

-----------------------------------------------------------------------------
(***************************************************************************)
(* The steps.                                                              *)
(***************************************************************************)

\* A session starts with nothing staged and nothing written.
LEMMA SteadyInit == SessionInit => Steady
<1> SUFFICES ASSUME SessionInit PROVE Steady
  OBVIOUS
<1>1. phase = "prefill" /\ call = Idle
  BY DEF SessionInit, NewPrompt, Init
<1>2. store = written
  BY DEF SessionInit, Init, Zeros
<1> QED
  BY <1>1, <1>2 DEF Steady, Between, StagingFresh, HeldFresh, Idle

\* While the prompt is offloaded the staging buffer is nobody's concern; what has
\* to hold is what does not speak of it.
LEMMA SteadyPrefill ==
  ASSUME TypeOK, Steady, PrefillWrite
  PROVE  Steady'
<1>1. PICK k \in toWrite : WriteBlock(k)
  BY DEF PrefillWrite
<1>2. store' = written'
  <2>1. store = written
    BY DEF Steady, Between
  <2> QED
    BY <1>1, <2>1 DEF WriteBlock
<1>3. phase' = "prefill" /\ call' = call
  BY <1>1 DEF PrefillWrite, WriteBlock
<1>4. phase' # "decode"
  BY <1>3
<1>5. StagingFresh' /\ HeldFresh'
  BY <1>4, Zenon DEF StagingFresh, HeldFresh
<1>6. call.op = "idle"
  BY <1>1 DEF WriteBlock, Free, InCall
<1>7. Between'
  BY <1>2, <1>3, <1>6 DEF Steady, Between
<1> QED
  BY <1>5, <1>7 DEF Steady

\* The reset between prefill and decode leaves no entry, so none that is stale.
LEMMA SteadyStart ==
  ASSUME TypeOK, Steady, StartDecode
  PROVE  Steady'
<1>1. /\ lru' = <<>> /\ entry' = [k \in Key |-> Unstaged]
      /\ call.op = "idle" /\ UNCHANGED <<call, store, written>>
      /\ phase' = "decode"
  BY DEF StartDecode, ResetStats, Free, InCall
<1>2. StagingFresh'
  BY <1>1 DEF StagingFresh, Staged, Range
<1>3. HeldFresh'
  <2>1. call'.future = NoFuture /\ \A k \in Key : entry'[k].future = NoFuture
    BY <1>1 DEF Steady, Between, Unstaged
  <2> QED
    BY <2>1, DataFacts DEF HeldFresh, HeldIn
<1>4. Between'
  BY <1>1 DEF Steady, Between
<1> QED
  BY <1>2, <1>3, <1>4 DEF Steady

\* Steps that leave the buffer, its entries, the futures and the backend alone.
LEMMA SteadyFrame ==
  ASSUME Steady, UNCHANGED <<store, written, lru, entry, future>>,
         call' = call \/ (call'.future = NoFuture /\ call'.op # "insert"),
         phase' = phase \/ phase' = "prefill",
         phase' = "prefill" => call'.op = "idle"
  PROVE  Steady'
<1>1. StagingFresh'
  BY DEF Steady, StagingFresh, Staged
<1>2. CASE phase' = "decode"
  <2>1. phase = "decode" /\ HeldFresh
    BY <1>2 DEF Steady
  <2>2. HeldFresh'
    BY <2>1, HeldKept
  <2> QED
    BY <1>1, <1>2, <2>2 DEF Steady, Between
<1>3. CASE phase' # "decode"
  BY <1>1, <1>3 DEF Steady, Between, HeldFresh
<1> QED
  BY <1>2, <1>3

\* A call that stages blocks makes room first, and then either only that ...
LEMMA SteadySubmit ==
  ASSUME TypeOK, TypeOK', Sound, Steady, phase = "decode", phase' = "decode",
         NEW m \in Seq(Key), NEW f \in Futures, PrefetchSubmit(m, f)
  PROVE  Steady'
<1> DEFINE fs == Collect(entry', future)
<1>1. /\ MakeRoom
      /\ future' = [fs EXCEPT ![f] = [state |-> "queued", todo |-> m, got |-> Nothing]]
      /\ call' = [Idle EXCEPT !.op = "insert", !.todo = m, !.future = f]
      /\ UNCHANGED <<store, written>>
  BY DEF PrefetchSubmit
<1>2. /\ Staged' \subseteq Staged
      /\ \A k \in Staged' : entry'[k] = entry[k]
      /\ \A k \in Key : entry'[k].future \in {entry[k].future, NoFuture}
  BY <1>1, MakeRoomEntries, MakeRoomSound
<1>3. StagingFresh'
  BY <1>1, <1>2 DEF Steady, StagingFresh
<1>4. /\ \A g \in Futures : g # f => future'[g] = fs[g]
      /\ future'[f].got = Nothing
  BY <1>1, CollectType DEF TypeOK
<1>5. HeldFresh'
  <2>1. ASSUME NEW g \in Futures, call'.future = g \/ \E k \in Key : entry'[k].future = g
        PROVE  UpToDate(future', store', g)
    <3>1. CASE g = f
      BY <1>4, <3>1 DEF UpToDate, Nothing
    <3>2. CASE g # f
      <4>1. HeldIn(entry, g)
        BY <1>1, <1>2, <2>1, <3>2, DataFacts DEF HeldIn, Idle
      <4>2. UpToDate(future, store, g)
        BY <4>1 DEF Steady, HeldFresh
      <4>3. UpToDate(fs, store, g)
        BY <4>2, CollectUpToDate
      <4> QED
        BY <1>1, <1>4, <3>2, <4>3 DEF UpToDate
    <3> QED
      BY <3>1, <3>2
  <2> QED
    BY <2>1 DEF HeldFresh, HeldIn, UpToDate
<1>6. Between'
  BY <1>1 DEF Steady, Between, Idle
<1> QED
  BY <1>3, <1>5, <1>6 DEF Steady

\* ... or inserts what the backend holds at that moment.
LEMMA SteadySync ==
  ASSUME TypeOK, TypeOK', Sound, Steady, phase = "decode", phase' = "decode",
         NEW m \in Seq(Key), PrefetchSync(m)
  PROVE  Steady'
<1>1. Kept \in Seq(Key) /\ Range(Kept) \subseteq Staged
  BY KeptType DEF TypeOK
<1>2. Staged' = Range(Kept) \union Range(m) /\ Range(m) \subseteq Key
  BY <1>1, RangeConcatenation, RangeOfSeq DEF PrefetchSync, Staged
<1>3. \A k \in Key :
        entry'[k] = IF k \in Range(m)
                    THEN [data |-> store[k], future |-> NoFuture, useful |-> FALSE]
                    ELSE IF k \in Evicted THEN Unstaged ELSE entry[k]
  BY DEF PrefetchSync
<1>4. UNCHANGED <<store, written, call>> /\ future' = Collect(entry', future)
  BY DEF PrefetchSync
<1>5. /\ \A k \in Range(m) : entry'[k].data = store[k] /\ entry'[k].future = NoFuture
      /\ \A k \in Range(Kept) : k \in Range(m) \/ entry'[k] = entry[k]
      /\ \A k \in Key : entry'[k].future \in {entry[k].future, NoFuture}
  <2>1. \A k \in Range(m) : entry'[k].data = store[k] /\ entry'[k].future = NoFuture
    <3>1. SUFFICES ASSUME NEW k \in Range(m)
                   PROVE  entry'[k].data = store[k] /\ entry'[k].future = NoFuture
      OBVIOUS
    <3>2. entry'[k] = [data |-> store[k], future |-> NoFuture, useful |-> FALSE]
      BY <1>2, <1>3, <3>1, Zenon
    <3> QED
      BY <3>2
  <2>2. \A k \in Range(Kept) : k \in Range(m) \/ entry'[k] = entry[k]
    BY <1>1, <1>3, StagedKeys DEF Evicted
  <2>3. Unstaged.future = NoFuture
    BY DEF Unstaged
  <2>4. \A k \in Key : entry'[k].future \in {entry[k].future, NoFuture}
    BY <1>3, <2>1, <2>3
  <2> QED
    BY <2>1, <2>2, <2>4
<1>6. StagingFresh'
  BY <1>1, <1>2, <1>4, <1>5 DEF Steady, StagingFresh
<1>7. HeldFresh'
  BY <1>4, <1>5, CollectUpToDate, HeldKept DEF Steady
<1>8. Between'
  BY <1>4 DEF Steady, Between
<1> QED
  BY <1>6, <1>7, <1>8 DEF Steady

\* The placeholders hold the future that the call held.
LEMMA SteadyInsert ==
  ASSUME TypeOK, TypeOK', Sound, Steady, phase = "decode", phase' = "decode", PrefetchInsert
  PROVE  Steady'
<1> DEFINE m == call.todo
<1>1. /\ m \in Seq(Key) /\ Range(m) \subseteq Key /\ call.future \in Futures
      /\ UNCHANGED <<store, written, future>> /\ call' = Idle
  BY RangeOfSeq DEF PrefetchInsert, TypeOK, Call, Sound, Pending
<1>2. Staged' = Staged \union Range(m)
  BY <1>1, RangeConcatenation DEF PrefetchInsert, TypeOK, Staged
<1>3. \A k \in Key :
        entry'[k] = IF k \in Range(m)
                    THEN [data |-> NoData, future |-> call.future, useful |-> FALSE]
                    ELSE entry[k]
  BY DEF PrefetchInsert
<1>4. /\ \A k \in Range(m) : entry'[k].future = call.future
      /\ \A k \in Key : k \notin Range(m) => entry'[k] = entry[k]
  BY <1>1, <1>3
<1>5. StagingFresh'
  BY <1>1, <1>2, <1>4, DataFacts, StagedKeys DEF Steady, StagingFresh
<1>6. HeldFresh'
  BY <1>1, <1>4, HeldKept DEF Steady, Idle
<1>7. Between'
  BY <1>1 DEF Steady, Between, Idle
<1> QED
  BY <1>5, <1>6, <1>7 DEF Steady

\* A hit, whoever makes it: the entries it resolves hold what the backend holds.
LEMMA SteadyHit ==
  ASSUME TypeOK, Sound, Steady, phase = "decode", phase' = "decode",
         NEW k \in Key, k \in Staged, Ready(k), Hit(k), store' = store
  PROVE  StagingFresh'
<1>1. \A x \in Staged : \/ Resolved(k)[x].future = NoFuture /\ Resolved(k)[x].data = store[x]
                        \/ Resolved(k)[x].future # NoFuture
  BY HitFresh DEF Steady
<1>2. Staged' = Staged
  BY HitSound
<1>3. Resolved(k) \in [Key -> Entry]
  BY ResolvedType
<1>4. \A x \in Key : /\ entry'[x].future = Resolved(k)[x].future
                     /\ entry'[x].data = Resolved(k)[x].data
  <2>1. entry' = [Resolved(k) EXCEPT ![k] = [Resolved(k)[k] EXCEPT !.useful = TRUE]]
    BY DEF Hit
  <2>2. Resolved(k)[k] \in Entry
    BY <1>3
  <2> QED
    BY <1>3, <2>1, <2>2 DEF Entry
<1> QED
  BY <1>1, <1>2, <1>4, StagedKeys DEF StagingFresh

\* A demand read that hits.
LEMMA SteadyReadHit ==
  ASSUME TypeOK, TypeOK', Sound, Steady, phase = "decode", phase' = "decode", ReadHit
  PROVE  Steady' /\ \E k \in Key : result' = [result EXCEPT ![k] = store[k]]
<1> DEFINE k == Head(call.todo)
<1>1. /\ k \in Key /\ k \in Staged /\ Ready(k) /\ Hit(k)
      /\ future' = Collect(entry', future)
      /\ UNCHANGED <<store, written>>
      /\ result' = [result EXCEPT ![k] = HitData(k)]
  BY HeadTailProperties DEF ReadHit, TypeOK, Call
<1>2. call'.future = call.future /\ call'.op = "read" /\ call.op = "read"
  BY DEF ReadHit, InCall, TypeOK, Call
<1> HIDE DEF k
<1>3. StagingFresh'
  BY <1>1, SteadyHit
<1>4. HeldFresh'
  BY <1>1, <1>2, HitSound, CollectUpToDate, HeldKept DEF Steady
<1>5. Between'
  BY <1>1, <1>2 DEF Steady, Between
<1>6. HitData(k) = store[k]
  BY <1>1, HitFresh DEF Steady
<1> QED
  BY <1>1, <1>3, <1>4, <1>5, <1>6 DEF Steady

\* A worker that obtains what the backend holds leaves every fetch up to date.
LEMMA ObtainedUpToDate ==
  ASSUME TypeOK, NEW f \in Futures, future[f].todo # <<>>, NEW g \in Futures,
         UpToDate(future, store, g)
  PROVE  UpToDate(Obtained(f, store[Head(future[f].todo)]), store, g)
<1> DEFINE h == Head(future[f].todo)
<1>1. h \in Key /\ future[f] \in Fetch
  BY HeadTailProperties DEF TypeOK, Fetch
<1>2. CASE g # f
  BY <1>2 DEF Obtained, TypeOK, UpToDate
<1>3. CASE g = f
  <2>1. Obtained(f, store[h])[f].got = [future[f].got EXCEPT ![h] = store[h]]
    BY <1>1 DEF Obtained, TypeOK, Fetch
  <2>2. future[f].got \in [Key -> Data]
    BY <1>1 DEF Fetch
  <2> HIDE DEF h
  <2>3. \A k \in Key : Obtained(f, store[h])[f].got[k] \in {NoData, store[k]}
    BY <1>1, <1>3, <2>1, <2>2 DEF UpToDate
  <2> QED
    BY <1>3, <2>3 DEF UpToDate, h
<1> QED
  BY <1>2, <1>3

\* The steps of the worker threads while the session decodes ...
LEMMA SteadyWorker ==
  ASSUME TypeOK, TypeOK', Sound, Steady, phase = "decode", phase' = "decode",
         WorkerTake \/ \E f \in Futures : Worker(f)
  PROVE  Steady' /\ result' = result
<1>1. UNCHANGED <<store, written, call, result>>
  BY DEF WorkerTake, Worker, WorkerFetch, WorkerFinish, WorkerFail
<1>2. Between'
  BY <1>1 DEF Steady, Between
<1>3. CASE WorkerTake
  <2>1. /\ Head(queue) \in Futures
        /\ UNCHANGED <<lru, entry>>
        /\ future' = [future EXCEPT ![Head(queue)] =
                        [future[Head(queue)] EXCEPT !.state = "running"]]
    BY <1>3, HeadTailProperties DEF WorkerTake, TypeOK
  <2>2. \A g \in Futures : future'[g].got = future[g].got
    BY <2>1 DEF TypeOK, Fetch
  <2>3. HeldFresh'
    BY <1>1, <2>1, <2>2, HeldKept DEF Steady, UpToDate
  <2>4. StagingFresh'
    BY <1>1, <2>1 DEF Steady, StagingFresh, Staged
  <2> QED
    BY <1>1, <1>2, <2>3, <2>4 DEF Steady
<1>4. ASSUME NEW f \in Futures, WorkerFetch(f)
      PROVE  Steady'
  <2>1. /\ future[f].todo # <<>>
        /\ future' = Obtained(f, store[Head(future[f].todo)])
        /\ UNCHANGED <<lru, entry>>
    BY <1>4 DEF WorkerFetch
  <2>2. HeldFresh'
    BY <1>1, <2>1, ObtainedUpToDate, HeldKept DEF Steady
  <2>3. StagingFresh'
    BY <1>1, <2>1 DEF Steady, StagingFresh, Staged
  <2> QED
    BY <1>2, <2>2, <2>3 DEF Steady
<1>5. ASSUME NEW f \in Futures, WorkerFinish(f) \/ WorkerFail(f)
      PROVE  Steady'
  <2>1. PICK s \in Settled : Settle(f, s) /\ UNCHANGED <<lru, entry>>
    BY <1>5 DEF WorkerFinish, WorkerFail, Settled
  <2>2. \A g \in Futures : future'[g].got \in {future[g].got, Nothing}
    BY <2>1 DEF Settle, TypeOK, Fetch, FreeSlot
  <2>3. \A g \in Futures : UpToDate(future, store, g) => UpToDate(future', store, g)
    BY <2>2 DEF UpToDate, Nothing
  <2>4. HeldFresh'
    BY <1>1, <2>1, <2>3, HeldKept DEF Steady
  <2>5. StagingFresh'
    BY <1>1, <2>1 DEF Steady, StagingFresh, Staged
  <2> QED
    BY <1>2, <2>4, <2>5 DEF Steady
<1> QED
  BY <1>1, <1>3, <1>4, <1>5 DEF Worker
\* ... and while the prompt is offloaded, when no call is open.
LEMMA SteadyIdle ==
  ASSUME TypeOK, Steady, phase = "prefill", Background
  PROVE  /\ Steady'
         /\ result' = result
         /\ UNCHANGED <<lru, entry>>
<1>1. call.op = "idle" /\ UNCHANGED session
  BY DEF Steady, Between, Background
<1>2. ~Continue
  BY <1>1 DEF Continue, PrefetchInsert, ReadHit, ReadPoisoned, ReadMiss, ReadReturn,
              ReadFails, InCall
<1>3. UNCHANGED <<store, written, call, result>>
  BY <1>2 DEF Background, WorkerTake, Worker, WorkerFetch, WorkerFinish,
              WorkerFail
<1>4. UNCHANGED <<lru, entry>>
  BY <1>2 DEF Background, WorkerTake, Worker, WorkerFetch, WorkerFinish,
              WorkerFail
<1>5. phase' = "prefill"
  BY <1>1 DEF session
<1> QED
  BY <1>3, <1>4, <1>5 DEF Steady, Between, StagingFresh, HeldFresh

\* The steps of the call the caller is inside.
LEMMA SteadyContinue ==
  ASSUME TypeOK, TypeOK', Sound, Steady, phase = "decode", phase' = "decode", Continue
  PROVE  Steady'
<1>1. CASE ReadPoisoned \/ ReadReturn \/ ReadFails
  BY <1>1, SteadyFrame DEF ReadPoisoned, ReadReturn, ReadFails, Idle
<1>2. CASE ReadMiss
  <2>1. call'.future = call.future /\ call'.op = "read" /\ call.op = "read"
    BY <1>2 DEF ReadMiss, InCall, TypeOK, Call
  <2>2. call'.future = NoFuture
    BY <2>1 DEF Steady, Between
  <2> QED
    BY <1>2, <2>1, <2>2, SteadyFrame DEF ReadMiss
<1> QED
  BY <1>1, <1>2, SteadyInsert, SteadyReadHit DEF Continue

\* The prefetch of the next layer.
LEMMA SteadyPredict ==
  ASSUME TypeOK, TypeOK', Sound, Steady, SessionTypeOK, PredictAndPrefetch
  PROVE  Steady' /\ UNCHANGED <<store, result>>
<1>1. phase = "decode" /\ phase' = "decode" /\ NextLayer \in Layers /\ won \in SUBSET BlockIds
  BY LayerFacts DEF PredictAndPrefetch, NextLayer, SessionTypeOK
<1>2. PICK m \in Listings(Missing(NextLayer, won)) :
        \/ UNCHANGED vars
        \/ PrefetchSync(m)
        \/ \E f \in Futures : PrefetchSubmit(m, f)
  BY DEF PredictAndPrefetch
<1>3. m \in Seq(Key)
  BY <1>1, MissingType
<1>4. CASE UNCHANGED vars
  BY <1>1, <1>4, SteadyFrame DEF vars
<1>5. CASE PrefetchSync(m)
  BY <1>1, <1>3, <1>5, SteadySync DEF PrefetchSync
<1>6. ASSUME NEW f \in Futures, PrefetchSubmit(m, f)
      PROVE  Steady' /\ UNCHANGED <<store, result>>
  BY <1>1, <1>3, <1>6, SteadySubmit DEF PrefetchSubmit
<1> QED
  BY <1>2, <1>4, <1>5, <1>6

\* A read call opens: nothing that is staged changes.
LEMMA SteadyReadLayer ==
  ASSUME Steady, ReadLayer
  PROVE  Steady' /\ store' = store /\ result' = Nothing
<1>1. PICK s : BeginRead(s)
  BY DEF ReadLayer
<1>2. call'.future = NoFuture /\ call'.op = "read"
  BY <1>1 DEF BeginRead, Idle
<1> QED
  BY <1>1, <1>2, SteadyFrame DEF BeginRead, ReadLayer

\* Every step of a session keeps what is staged up to date.
LEMMA SteadyStep ==
  TypeOK /\ TypeOK' /\ Sound /\ SessionTypeOK /\ Steady /\ [SessionNext]_allVars => Steady'
<1> SUFFICES ASSUME TypeOK, TypeOK', Sound, SessionTypeOK, Steady, [SessionNext]_allVars
             PROVE  Steady'
  OBVIOUS
<1>1. CASE PrefillWrite \/ StartDecode
  BY <1>1, SteadyPrefill, SteadyStart
<1>2. CASE EnterLayer \/ NextPrompt
  BY <1>2, SteadyFrame DEF EnterLayer, NextPrompt, Free, InCall
<1>3. CASE ReadLayer \/ PredictAndPrefetch
  BY <1>3, SteadyReadLayer, SteadyPredict
<1>4. CASE Background
  <2>1. phase' = phase /\ phase \in {"prefill", "decode"}
    BY <1>4 DEF Background, session, SessionTypeOK
  <2>2. CASE phase = "prefill"
    BY <1>4, <2>2, SteadyIdle
  <2>3. CASE phase = "decode"
    BY <1>4, <2>1, <2>3, SteadyContinue, SteadyWorker DEF Background
  <2> QED
    BY <2>1, <2>2, <2>3
<1>5. CASE UNCHANGED allVars
  <2>1. UNCHANGED <<store, written, lru, entry, future, call, phase>>
    BY <1>5 DEF allVars
  <2> QED
    BY <2>1, SteadyFrame DEF Steady, Between
<1> QED
  BY <1>1, <1>2, <1>3, <1>4, <1>5 DEF SessionNext

-----------------------------------------------------------------------------
(***************************************************************************)
(* The theorems.                                                           *)
(***************************************************************************)

\* The inductive invariant holds in every session.
THEOREM SteadyAlways == SessionSpec => [](TypeOK /\ Sound /\ Steady)
<1>1. SessionSpec => []TypeOK /\ []Sound
  BY SessionOnAdapter, TypeCorrect, SoundAlways, PTL
<1> QED
  BY <1>1, SessionTypesHold, SteadyInit, SteadyStep, PTL DEF SessionSpec

\* While a session decodes, a staged block that can be served holds what the backend
\* holds, though write_block never looks at the staging buffer and fetches of the
\* earlier prompt may still run.
THEOREM StagingFreshAlways == SessionSpec => []StagingFresh
<1>1. Steady => StagingFresh
  BY DEF Steady
<1> QED
  BY <1>1, SteadyAlways, PTL

\* No step gives a block that stays staged a future it had not.
LEMMA NoNewFuture ==
  ASSUME TypeOK, Sound, [Next]_vars, NEW k \in Staged
  PROVE  entry'[k].future \in {entry[k].future, NoFuture}
<1>1. k \in Key
  BY StagedKeys
<1>2. ASSUME NEW x \in Key, EvictBlock(x)
      PROVE  entry'[k].future \in {entry[k].future, NoFuture}
  BY <1>1, <1>2 DEF EvictBlock, TypeOK, Unstaged
<1>3. CASE Prefetch
  <2>1. PICK l \in Layers, B \in SUBSET BlockIds :
          \E m \in Listings(Missing(l, B)) :
            PrefetchSync(m) \/ PrefetchSyncFails(m) \/ \E f \in Futures : PrefetchSubmit(m, f)
    BY <1>3 DEF Prefetch
  <2>2. PICK m \in Listings(Missing(l, B)) :
          PrefetchSync(m) \/ PrefetchSyncFails(m) \/ \E f \in Futures : PrefetchSubmit(m, f)
    BY <2>1
  <2>3. k \notin Range(m)
    BY MissingType
  <2>4. entry'[k] = entry[k] \/ entry'[k] = Unstaged
    BY <1>1, <2>2, <2>3
       DEF PrefetchSync, PrefetchSyncFails, PrefetchSubmit, MakeRoom
  <2> QED
    BY <2>4 DEF Unstaged
<1>4. CASE PrefetchInsert
  BY <1>1, <1>4 DEF PrefetchInsert, Sound, Pending
<1>5. CASE ReadHit
  <2>1. Head(call.todo) \in Key /\ Head(call.todo) \in Staged /\ Hit(Head(call.todo))
    BY <1>5, HeadTailProperties DEF ReadHit, TypeOK, Call
  <2> QED
    BY <1>1, <2>1, HitSound
<1>6. CASE ResetStats
  BY <1>1, <1>6 DEF ResetStats, Unstaged
<1>7. CASE \/ Read \/ ReadPoisoned \/ ReadMiss \/ ReadReturn \/ ReadFails \/ Close
           \/ WorkerTake \/ UNCHANGED vars
           \/ \E x \in Key : WriteBlock(x)
           \/ \E f \in Futures : WorkerFetch(f) \/ WorkerFinish(f) \/ WorkerFail(f)
  BY <1>7 DEF Read, BeginRead, ReadPoisoned, ReadMiss, ReadReturn, ReadFails, Close, WriteBlock,
              WorkerTake, WorkerFetch, WorkerFinish, WorkerFail, vars
<1> QED
  BY <1>2, <1>3, <1>4, <1>5, <1>6, <1>7 DEF Next, Continue, Worker

\* No completion of another fetch replaces the
\* data of a block that stays staged, in either phase.
LEMMA StableStep ==
  ASSUME TypeOK, Sound, SessionTypeOK, Steady, Steady', [SessionNext]_allVars
  PROVE  \A k \in Staged \intersect Staged' :
           entry[k].future = NoFuture => entry'[k].data = entry[k].data
<1>1. CASE phase = "decode" /\ phase' = "decode"
  <2>1. store' = store
    <3>1. ~PrefillWrite
      BY <1>1 DEF PrefillWrite
    <3>2. CASE ReadLayer \/ PredictAndPrefetch
      BY <3>2 DEF ReadLayer, PredictAndPrefetch, BeginRead, PrefetchSubmit, PrefetchSync, vars
    <3>3. CASE StartDecode \/ EnterLayer \/ NextPrompt \/ UNCHANGED allVars
      BY <3>3 DEF StartDecode, ResetStats, EnterLayer, NextPrompt, allVars
    <3>4. CASE Background
      BY <3>4 DEF Background, Continue, PrefetchInsert, ReadHit, ReadPoisoned, ReadMiss,
                  ReadReturn, ReadFails, WorkerTake, Worker, WorkerFetch,
                  WorkerFinish, WorkerFail
    <3> QED
      BY <3>1, <3>2, <3>3, <3>4 DEF SessionNext
  <2>2. \A k \in Staged : entry[k].future = NoFuture => entry'[k].future = NoFuture
    BY AdapterStep, NoNewFuture
  <2>3. /\ \A k \in Staged : entry[k].future = NoFuture => entry[k].data = store[k]
        /\ \A k \in Staged' : entry'[k].future = NoFuture => entry'[k].data = store'[k]
    BY <1>1 DEF Steady, StagingFresh
  <2> QED
    BY <2>1, <2>2, <2>3
<1>2. CASE phase = "prefill" \/ phase' = "prefill"
  <2>1. CASE StartDecode
    BY <2>1 DEF StartDecode, ResetStats, Staged, Range
  <2>2. CASE Background
    <3>1. phase = "prefill"
      BY <1>2, <2>2 DEF Background, session
    <3>2. entry' = entry
      BY <2>2, <3>1, SteadyIdle
    <3> QED
      BY <3>2
  <2>3. CASE PrefillWrite \/ EnterLayer \/ NextPrompt \/ UNCHANGED allVars
    BY <2>3 DEF PrefillWrite, WriteBlock, EnterLayer, NextPrompt, allVars
  <2>4. ~ReadLayer /\ ~PredictAndPrefetch
    BY <1>2 DEF ReadLayer, PredictAndPrefetch
  <2> QED
    BY <2>1, <2>2, <2>3, <2>4 DEF SessionNext
<1>3. phase \in {"prefill", "decode"} /\ phase' \in {"prefill", "decode"}
  BY SessionTypeStep DEF SessionTypeOK
<1> QED
  BY <1>1, <1>2, <1>3

\* A staged tensor does not change under its reader.
THEOREM StagedStableAlways == SessionSpec => StagedStable
<1> DEFINE Stable == \A k \in Staged \intersect Staged' :
                       entry[k].future = NoFuture => entry'[k].data = entry[k].data
<1>1. TypeOK /\ Sound /\ SessionTypeOK /\ Steady /\ Steady' /\ [SessionNext]_allVars
        => [Stable]_allVars
  BY StableStep
<1>2. SessionSpec => [][Stable]_allVars
  BY <1>1, SessionTypesHold, SteadyAlways, PTL DEF SessionSpec
<1> QED
  BY <1>2 DEF StagedStable

-----------------------------------------------------------------------------
(***************************************************************************)
(* The refinement: prefetching is invisible.  A write of prefill is a write*)
(* of the store, a hit answers one block, the return of a read answers the *)
(* blocks it missed, and everything else is a stutter.                     *)
(***************************************************************************)

\* The block a hit answers is one that the abstract store answers.
LEMMA AnswerOne ==
  ASSUME TypeOK, NEW k \in Key, result' = [result EXCEPT ![k] = store[k]], store' = store
  PROVE  Promise!Next
<1>1. result' = [x \in Key |-> IF x \in {k} THEN store[x] ELSE result[x]]
  BY DEF TypeOK
<1>2. Promise!Answer({k})
  BY <1>1 DEF Promise!Answer
<1> QED
  BY <1>2 DEF Promise!Next

\* The blocks a read missed are answered together.
LEMMA AnswerMissed ==
  ASSUME TypeOK, ReadReturn
  PROVE  Promise!Next
<1>1. Range(call.missed) \in SUBSET Key
  BY RangeOfSeq DEF TypeOK, Call
<1>2. Promise!Answer(Range(call.missed))
  BY DEF ReadReturn, Promise!Answer
<1> QED
  BY <1>1, <1>2 DEF Promise!Next

\* A block that prefill offloads is written once more.
LEMMA WriteOne ==
  ASSUME TypeOK, SessionTypeOK, Steady, PrefillWrite
  PROVE  Promise!Next
<1>1. PICK k \in Key : WriteBlock(k)
  BY DEF PrefillWrite, SessionTypeOK
<1>2. store' = [store EXCEPT ![k] = store[k] + 1] /\ result' = result
  BY <1>1 DEF WriteBlock, Steady, Between
<1>3. Promise!Write(k, store[k] + 1)
  BY <1>2 DEF Promise!Write
<1>4. store[k] + 1 \in {store[x] + 1 : x \in Key} \union {0}
  OBVIOUS
<1> QED
  BY <1>3, <1>4 DEF Promise!Next

\* Every step of a session is a step of the abstract store or a stutter.
LEMMA PromiseStep ==
  ASSUME TypeOK, TypeOK', Sound, SessionTypeOK, Steady, [SessionNext]_allVars
  PROVE  [Promise!Next]_<<store, result>>
<1>1. CASE PrefillWrite
  BY <1>1, WriteOne
<1>2. CASE StartDecode \/ EnterLayer \/ NextPrompt \/ UNCHANGED allVars
  BY <1>2 DEF StartDecode, ResetStats, EnterLayer, NextPrompt, allVars
<1>3. CASE PredictAndPrefetch
  BY <1>3, SteadyPredict
<1>4. CASE ReadLayer
  <2>1. Promise!BeginRead
    BY <1>4, SteadyReadLayer DEF Promise!BeginRead, Nothing
  <2> QED
    BY <2>1 DEF Promise!Next
<1>5. CASE Background
  <2>1. phase' = phase /\ phase \in {"prefill", "decode"}
    BY <1>5 DEF Background, session, SessionTypeOK
  <2>2. CASE ReadReturn
    BY <2>2, AnswerMissed
  <2>3. CASE ReadHit
    <3>1. phase = "decode"
      BY <2>1, <2>3 DEF ReadHit, InCall, Steady, Between
    <3>2. PICK k \in Key : result' = [result EXCEPT ![k] = store[k]]
      BY <2>1, <2>3, <3>1, SteadyReadHit
    <3> QED
      BY <2>3, <3>2, AnswerOne DEF ReadHit
  <2>4. CASE \/ PrefetchInsert \/ ReadPoisoned \/ ReadMiss \/ ReadFails \/ WorkerTake
             \/ \E f \in Futures : Worker(f)
    BY <2>4 DEF PrefetchInsert, ReadPoisoned, ReadMiss, ReadFails, WorkerTake, Worker,
                WorkerFetch, WorkerFinish, WorkerFail
  <2> QED
    BY <1>5, <2>2, <2>3, <2>4 DEF Background, Continue
<1> QED
  BY <1>1, <1>2, <1>3, <1>4, <1>5 DEF SessionNext

\* Prefetching is invisible to attention: whatever the worker threads have fetched,
\* and in whatever order it arrives, each block a read call returns is the one the
\* backend holds.
THEOREM SessionImplementsBlockStore == SessionSpec => ImplementsBlockStore
<1>1. SessionInit => Promise!Init
  BY DEF SessionInit, Init, Nothing, Zeros, Promise!Init
<1>2. SessionSpec => [][Promise!Next]_<<store, result>>
  BY SessionTypesHold, SteadyAlways, PromiseStep, PTL DEF SessionSpec
<1> QED
  BY <1>1, <1>2, PTL DEF SessionSpec, ImplementsBlockStore, Promise!Spec

=============================================================================
