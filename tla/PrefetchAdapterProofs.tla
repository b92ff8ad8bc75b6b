------------------------ MODULE PrefetchAdapterProofs ------------------------
(***************************************************************************)
(* Theorems about PrefetchAdapter, for every value of its constants.       *)
(***************************************************************************)
EXTENDS PrefetchAdapter, SequenceLemmas, SequenceTheorems, FiniteSetTheorems, TLAPS

-----------------------------------------------------------------------------
(***************************************************************************)
(* Facts about the helpers.                                                *)
(***************************************************************************)

\* There are finitely many keys, so counts of blocks are natural numbers.
LEMMA KeyFinite ==
  /\ IsFiniteSet(Key)
  /\ \A K \in SUBSET Key : IsFiniteSet(K) /\ Cardinality(K) \in Nat
<1>1. IsFiniteSet(Key)
  BY FS_Product, AdapterAssumption DEF Key
<1>2. ASSUME NEW K \in SUBSET Key
      PROVE  IsFiniteSet(K) /\ Cardinality(K) \in Nat
  BY <1>1, <1>2, FS_Subset, FS_CardinalityType
<1> QED
  BY <1>1, <1>2

\* Counting the unread blocks of a set of keys gives a natural number.
LEMMA UnreadCount ==
  ASSUME NEW K \in SUBSET Key
  PROVE  Cardinality(Unread(K)) \in Nat
BY KeyFinite DEF Unread

\* A read or a prefetch names every block of its set once ...
LEMMA SetToSeqsType ==
  ASSUME NEW K \in SUBSET Key, NEW s \in SetToSeqs(K)
  PROVE  /\ s \in Seq(Key)
         /\ Range(s) \subseteq K
         /\ IsInjective(s)
<1>1. /\ Cardinality(K) \in Nat
      /\ s \in [1..Cardinality(K) -> K]
      /\ \A i, j \in 1..Cardinality(K) : i # j => s[i] # s[j]
  BY KeyFinite DEF SetToSeqs
<1>2. s \in Seq(Key)
  BY <1>1, SeqDef
<1> QED
  BY <1>1, <1>2 DEF Range, IsInjective

\* ... and a prefetch fits in one batch.
LEMMA ListingsType ==
  ASSUME NEW K \in SUBSET Key, NEW s \in Listings(K)
  PROVE  /\ s \in Seq(Key)
         /\ Len(s) <= MaxBatch
         /\ Range(s) \subseteq K
         /\ IsInjective(s)
BY SetToSeqsType DEF Listings

\* _ensure_buffer_capacity leaves a suffix of the LRU order with room for one.
LEMMA KeptType ==
  ASSUME lru \in Seq(Key)
  PROVE  /\ Kept \in Seq(Key)
         /\ Len(Kept) <= Capacity - 1
         /\ Range(Kept) \subseteq Staged
         /\ Evicted \in SUBSET Key
<1> USE AdapterAssumption
<1>1. /\ Len(lru) \in Nat
      /\ \A i \in 1..Len(lru) : lru[i] \in Key
      /\ DOMAIN lru = 1..Len(lru)
  BY LenProperties
<1>2. Staged \in SUBSET Key
  BY <1>1 DEF Staged, Range
<1>3. CASE Len(lru) < Capacity
  BY <1>1, <1>2, <1>3 DEF Kept, Evicted, Staged
<1>4. CASE ~(Len(lru) < Capacity)
  <2> DEFINE m == Len(lru) - Capacity + 2
  <2>1. /\ Kept = SubSeq(lru, m, Len(lru))
        /\ m \in Int /\ m >= 2 /\ m <= Len(lru) + 1
    BY <1>1, <1>4 DEF Kept
  <2>2. \A i \in m..Len(lru) : lru[i] \in Range(lru) /\ lru[i] \in Key
    BY <1>1, <2>1 DEF Range
  <2> HIDE DEF m
  <2>3. /\ Kept \in Seq(Key)
        /\ Kept \in Seq(Range(lru))
        /\ Len(Kept) = IF m <= Len(lru) THEN Len(lru) - m + 1 ELSE 0
    BY <1>1, <2>1, <2>2, SubSeqProperties
  <2>4. Range(Kept) \subseteq Staged
    BY <2>3, RangeOfSeq DEF Staged
  <2>5. Len(Kept) <= Capacity - 1
    BY <1>1, <1>4, <2>1, <2>3 DEF m
  <2> QED
    BY <1>2, <2>3, <2>4, <2>5 DEF Evicted
<1> QED
  BY <1>3, <1>4

\* Taking a key out of a sequence that holds it shortens it by one.
LEMMA WithoutType ==
  ASSUME NEW s \in Seq(Key), NEW k \in Range(s)
  PROVE  /\ Without(s, k) \in Seq(Key)
         /\ Len(Without(s, k)) = Len(s) - 1
         /\ Range(Without(s, k)) \subseteq Range(s)
<1>1. Len(s) \in Nat /\ DOMAIN s = 1..Len(s)
  BY LenProperties
<1>2. PICK i \in 1..Len(s) : i = Position(s, k)
  BY <1>1 DEF Range, Position
<1>3. \A j \in 1..Len(s) : s[j] \in Range(s)
  BY <1>1 DEF Range
<1>4. /\ SubSeq(s, 1, i-1) \in Seq(Range(s))
      /\ Len(SubSeq(s, 1, i-1)) = i - 1
  <2>1. /\ \A j \in 1..i-1 : s[j] \in Range(s)
        /\ i - 1 \in Int /\ 1 \in Int
    BY <1>1, <1>2, <1>3
  <2>2. /\ SubSeq(s, 1, i-1) \in Seq(Range(s))
        /\ Len(SubSeq(s, 1, i-1)) = IF 1 <= i-1 THEN (i-1) - 1 + 1 ELSE 0
    BY <2>1, SubSeqProperties
  <2> QED
    BY <2>2
<1>5. /\ SubSeq(s, i+1, Len(s)) \in Seq(Range(s))
      /\ Len(SubSeq(s, i+1, Len(s))) = Len(s) - i
  <2>1. /\ \A j \in i+1..Len(s) : s[j] \in Range(s)
        /\ i + 1 \in Int /\ Len(s) \in Int
    BY <1>1, <1>2, <1>3
  <2>2. /\ SubSeq(s, i+1, Len(s)) \in Seq(Range(s))
        /\ Len(SubSeq(s, i+1, Len(s))) = IF i+1 <= Len(s) THEN Len(s) - (i+1) + 1 ELSE 0
    BY <2>1, SubSeqProperties
  <2> QED
    BY <1>1, <1>2, <2>2
<1>6. /\ Without(s, k) \in Seq(Range(s))
      /\ Len(Without(s, k)) = Len(s) - 1
  <2>1. Without(s, k) = SubSeq(s, 1, i-1) \o SubSeq(s, i+1, Len(s))
    BY <1>2 DEF Without, RemoveAt
  <2>2. /\ Without(s, k) \in Seq(Range(s))
        /\ Len(Without(s, k)) = Len(SubSeq(s, 1, i-1)) + Len(SubSeq(s, i+1, Len(s)))
    BY <1>4, <1>5, <2>1, ConcatProperties
  <2>3. Len(SubSeq(s, 1, i-1)) + Len(SubSeq(s, i+1, Len(s))) = Len(s) - 1
    BY <1>1, <1>2, <1>4, <1>5
  <2> QED
    BY <2>2, <2>3, Zenon
<1>7. Range(s) \subseteq Key
  BY RangeOfSeq
<1> QED
  BY <1>6, <1>7, RangeOfSeq, SeqMonotonic

\* The entries after a future is resolved are entries.
LEMMA ResolvedType ==
  ASSUME TypeOK, NEW k \in Key
  PROVE  Resolved(k) \in [Key -> Entry]
<1>1. CASE entry[k].future = NoFuture
  BY <1>1 DEF TypeOK, Resolved
<1>2. CASE entry[k].future # NoFuture
  <2>1. entry[k].future \in Futures
    BY <1>2 DEF TypeOK, Entry
  <2>2. \A x \in Key : future[entry[k].future].got[x] \in Data
    BY <2>1 DEF TypeOK, Fetch
  <2> QED
    BY <1>2, <2>2 DEF TypeOK, Resolved, Entry
<1> QED
  BY <1>1, <1>2

\* What a hit returns is data.
LEMMA HitDataType ==
  ASSUME TypeOK, NEW k \in Key
  PROVE  HitData(k) \in Nat
BY ResolvedType DEF HitData, Entry, Data, Zeros

\* Collecting garbage leaves a future table.
LEMMA CollectType ==
  ASSUME NEW fs \in [Futures -> Fetch], NEW e
  PROVE  Collect(e, fs) \in [Futures -> Fetch]
<1>1. FreeSlot \in Fetch
  BY EmptySeq DEF FreeSlot, Fetch, Nothing, Data
<1> QED
  BY <1>1 DEF Collect

\* A hit keeps the buffer, its entries and the counters well-typed.
LEMMA HitType ==
  ASSUME TypeOK, NEW k \in Key, k \in Staged, Hit(k)
  PROVE  /\ lru' \in Seq(Key)
         /\ Len(lru') = Len(lru)
         /\ Range(lru') \subseteq Staged
         /\ entry' \in [Key -> Entry]
         /\ stats' \in Counters
<1>1. /\ Without(lru, k) \in Seq(Key)
      /\ Len(Without(lru, k)) = Len(lru) - 1
      /\ Range(Without(lru, k)) \subseteq Staged
  BY WithoutType DEF TypeOK, Staged
<1>2. Len(lru) \in Nat
  BY LenProperties DEF TypeOK
<1>3. lru' \in Seq(Key) /\ Len(lru') = Len(lru)
  BY <1>1, <1>2, AppendProperties DEF Hit
<1>4. Range(lru') \subseteq Staged
  <2>1. lru' = Without(lru, k) \o <<k>> /\ <<k>> \in Seq(Key)
    BY <1>1, AppendIsConcat DEF Hit
  <2>2. Range(lru') = Range(Without(lru, k)) \union Range(<<k>>)
    BY <1>1, <2>1, RangeConcatenation
  <2>3. Range(<<k>>) = {k}
    BY DEF Range
  <2> QED
    BY <1>1, <2>2, <2>3
<1>5. entry' \in [Key -> Entry]
  <2>1. Resolved(k) \in [Key -> Entry]
    BY ResolvedType
  <2> QED
    BY <2>1 DEF Hit, Entry
<1>6. stats' \in Counters
  <2>1. stats.hits + 1 \in Nat
    BY DEF TypeOK, Counters
  <2>2. (IF entry[k].useful THEN stats.useful ELSE stats.useful + 1) \in Nat
    BY DEF TypeOK, Counters
  <2> QED
    BY <2>1, <2>2 DEF Hit, TypeOK, Counters
<1> QED
  BY <1>3, <1>4, <1>5, <1>6

-----------------------------------------------------------------------------
(***************************************************************************)
(* Type correctness.                                                       *)
(***************************************************************************)

\* A fetch table stays one when the block at the head of a batch is obtained.
LEMMA ObtainedType ==
  ASSUME TypeOK, NEW f \in Futures, future[f].todo # <<>>, NEW d \in Data
  PROVE  Obtained(f, d) \in [Futures -> Fetch]
<1>1. /\ future[f] \in Fetch
      /\ Head(future[f].todo) \in Key
      /\ Tail(future[f].todo) \in Seq(Key)
  BY HeadTailProperties DEF TypeOK, Fetch
<1>2. [future[f].got EXCEPT ![Head(future[f].todo)] = d] \in [Key -> Data]
  BY <1>1 DEF Fetch
<1> QED
  BY <1>1, <1>2 DEF TypeOK, Obtained, Fetch

\* A settled fetch is a fetch.
LEMMA SettleType ==
  ASSUME TypeOK, NEW f \in Futures, NEW s \in Settled, Settle(f, s)
  PROVE  future' \in [Futures -> Fetch]
<1>1. FreeSlot \in Fetch
  BY EmptySeq DEF FreeSlot, Fetch, Nothing, Data
<1>2. [future[f] EXCEPT !.state = s] \in Fetch
  BY DEF TypeOK, Fetch, Settled
<1> QED
  BY <1>1, <1>2 DEF Settle, TypeOK

\* Making room keeps the buffer, its entries and the counters well-typed.
LEMMA MakeRoomType ==
  ASSUME TypeOK, MakeRoom
  PROVE  /\ lru' \in Seq(Key)
         /\ Len(lru') <= Capacity - 1
         /\ entry' \in [Key -> Entry]
         /\ stats' \in Counters
<1>1. /\ lru' \in Seq(Key)
      /\ Len(lru') <= Capacity - 1
      /\ Evicted \in SUBSET Key
  BY KeptType DEF TypeOK, MakeRoom
<1>2. Unstaged \in Entry
  BY DEF Unstaged, Entry, Data
<1>3. entry' \in [Key -> Entry]
  BY <1>2 DEF MakeRoom, TypeOK
<1>4. stats.useless + Cardinality(Unread(Evicted)) \in Nat
  <2>1. stats.useless \in Nat
    BY DEF TypeOK, Counters
  <2>2. Cardinality(Unread(Evicted)) \in Nat
    BY <1>1, UnreadCount
  <2> QED
    BY <2>1, <2>2
<1>5. stats' \in Counters
  BY <1>4 DEF MakeRoom, TypeOK, Counters
<1> QED
  BY <1>1, <1>3, <1>5

\* The initial state is well-typed.
LEMMA TypeInit == Init => TypeOK
<1> SUFFICES ASSUME Init PROVE TypeOK
  OBVIOUS
<1>1. Unstaged \in Entry /\ FreeSlot \in Fetch /\ Nothing \in [Key -> Data]
  BY EmptySeq DEF Unstaged, Entry, FreeSlot, Fetch, Nothing, Data
<1>2. Idle \in Call
  BY EmptySeq DEF Idle, Call
<1>3. NoCounts \in Counters
  BY DEF NoCounts, Counters
<1> QED
  BY <1>1, <1>2, <1>3, EmptySeq DEF Init, TypeOK, Zeros

\* The ids a prefetch call is left with are a sequence of at most MaxBatch keys,
\* and no key of the staging buffer is among them.
LEMMA MissingType ==
  ASSUME NEW l \in Layers, NEW B \in SUBSET BlockIds, NEW m \in Listings(Missing(l, B))
  PROVE  /\ m \in Seq(Key)
         /\ Len(m) \in Nat /\ Len(m) <= MaxBatch
         /\ Range(m) \intersect Staged = {}
         /\ IsInjective(m)
<1>1. Missing(l, B) \in SUBSET Key /\ Missing(l, B) \intersect Staged = {}
  BY DEF Missing, Key
<1> QED
  BY <1>1, ListingsType, LenProperties

\* Each operation of the caller on the buffer keeps the state well-typed ...
LEMMA TypeWrite ==
  ASSUME TypeOK, NEW k \in Key, WriteBlock(k) \/ EvictBlock(k)
  PROVE  TypeOK'
<1>1. CASE WriteBlock(k)
  BY <1>1 DEF WriteBlock, TypeOK
<1>2. CASE EvictBlock(k)
  <2>1. store' \in [Key -> Nat]
    BY <1>2 DEF EvictBlock, TypeOK, Zeros
  <2>2. CASE k \in Staged
    <3>1. lru' \in Seq(Key)
      BY <1>2, <2>2, WithoutType DEF EvictBlock, TypeOK, Staged
    <3>2. entry' \in [Key -> Entry]
      <4>1. Unstaged \in Entry
        BY DEF Unstaged, Entry, Data
      <4>2. entry' = [entry EXCEPT ![k] = Unstaged]
        BY <1>2, <2>2 DEF EvictBlock
      <4> QED
        BY <4>1, <4>2 DEF TypeOK
    <3>3. (IF entry[k].useful THEN stats.dropped ELSE stats.dropped + 1) \in Nat
      BY DEF TypeOK, Counters
    <3>4. stats' \in Counters
      BY <1>2, <2>2, <3>3 DEF EvictBlock, TypeOK, Counters
    <3>5. future' \in [Futures -> Fetch]
      BY <1>2, <2>2, CollectType DEF EvictBlock, TypeOK
    <3> QED
      BY <1>2, <2>1, <3>1, <3>2, <3>4, <3>5 DEF EvictBlock, TypeOK
  <2>3. CASE k \notin Staged
    BY <1>2, <2>1, <2>3 DEF EvictBlock, TypeOK
  <2> QED
    BY <2>2, <2>3
<1> QED
  BY <1>1, <1>2

\* A synchronous prefetch keeps every variable in its type.
LEMMA TypePrefetchSync ==
  ASSUME TypeOK, NEW m \in Seq(Key), PrefetchSync(m)
  PROVE  TypeOK'
<1>1. Kept \in Seq(Key) /\ Evicted \in SUBSET Key
  BY KeptType DEF TypeOK
<1>2. lru' \in Seq(Key)
  BY <1>1, ConcatProperties DEF PrefetchSync
<1>3. entry' \in [Key -> Entry]
  BY DEF PrefetchSync, TypeOK, Entry, Unstaged, Data
<1>4. /\ stats.useless + Cardinality(Unread(Evicted)) \in Nat
      /\ stats.requests + Len(m) \in Nat
  <2>1. stats.useless \in Nat /\ stats.requests \in Nat
    BY DEF TypeOK, Counters
  <2>2. Cardinality(Unread(Evicted)) \in Nat
    BY <1>1, UnreadCount
  <2>3. Len(m) \in Nat
    BY LenProperties
  <2> QED
    BY <2>1, <2>2, <2>3
<1>5. stats' \in Counters
  BY <1>4 DEF PrefetchSync, TypeOK, Counters
<1>6. future' \in [Futures -> Fetch]
  BY CollectType DEF PrefetchSync, TypeOK
<1> QED
  BY <1>2, <1>3, <1>5, <1>6 DEF PrefetchSync, TypeOK

\* So does one whose backend read raises.
LEMMA TypePrefetchSyncFails ==
  ASSUME TypeOK, NEW m \in Seq(Key), PrefetchSyncFails(m)
  PROVE  TypeOK'
<1>1. MakeRoom
  BY DEF PrefetchSyncFails
<1>2. future' \in [Futures -> Fetch]
  BY CollectType DEF PrefetchSyncFails, TypeOK
<1> QED
  BY <1>1, <1>2, MakeRoomType DEF PrefetchSyncFails, TypeOK

\* ... and one that hands its blocks to the worker pool.
LEMMA TypePrefetchSubmit ==
  ASSUME TypeOK, NEW m \in Seq(Key), NEW f \in Futures, PrefetchSubmit(m, f)
  PROVE  TypeOK'
<1>1. MakeRoom
  BY DEF PrefetchSubmit
<1>2. [state |-> "queued", todo |-> m, got |-> Nothing] \in Fetch
  BY DEF Fetch, Nothing, Data
<1>3. Collect(entry', future) \in [Futures -> Fetch]
  BY CollectType DEF TypeOK
<1>4. future' \in [Futures -> Fetch]
  BY <1>2, <1>3 DEF PrefetchSubmit
<1>5. queue' \in Seq(Futures)
  BY AppendProperties DEF PrefetchSubmit, TypeOK
<1>6. call' \in Call
  BY EmptySeq DEF PrefetchSubmit, Idle, Call
<1> QED
  BY <1>1, <1>4, <1>5, <1>6, MakeRoomType DEF PrefetchSubmit, TypeOK

\* ... as do the steps of the call the caller is inside ...
LEMMA TypePrefetchInsert ==
  ASSUME TypeOK, PrefetchInsert
  PROVE  TypeOK'
<1>1. call.todo \in Seq(Key) /\ call.future \in Futures \union {NoFuture}
  BY DEF TypeOK, Call
<1>2. lru' \in Seq(Key)
  BY <1>1, ConcatProperties DEF PrefetchInsert, TypeOK
<1>3. entry' \in [Key -> Entry]
  BY <1>1 DEF PrefetchInsert, TypeOK, Entry, Data
<1>4. stats' \in Counters
  <2>1. stats.requests \in Nat
    BY DEF TypeOK, Counters
  <2>2. Len(call.todo) \in Nat
    BY <1>1, LenProperties
  <2>3. stats.requests + Len(call.todo) \in Nat
    BY <2>1, <2>2
  <2> QED
    BY <2>3 DEF PrefetchInsert, TypeOK, Counters
<1>5. call' \in Call
  BY EmptySeq DEF PrefetchInsert, Idle, Call
<1> QED
  BY <1>2, <1>3, <1>4, <1>5 DEF PrefetchInsert, TypeOK

\* Every step of a demand read keeps every variable in its type.
LEMMA TypeRead ==
  ASSUME TypeOK,
         \/ \E keys \in Seq(Key) : BeginRead(keys)
         \/ ReadHit \/ ReadPoisoned \/ ReadMiss \/ ReadReturn \/ ReadFails
  PROVE  TypeOK'
<1>1. Idle \in Call
  BY EmptySeq DEF Idle, Call
<1>2. call \in Call /\ call.todo \in Seq(Key) /\ call.missed \in Seq(Key)
  BY DEF TypeOK, Call
<1>3. ASSUME NEW keys \in Seq(Key), BeginRead(keys)
      PROVE  TypeOK'
  <2>1. call' \in Call
    BY <1>3, EmptySeq DEF BeginRead, Idle, Call
  <2>2. result' \in [Key -> Data]
    BY <1>3 DEF BeginRead, Nothing, Data
  <2> QED
    BY <1>3, <2>1, <2>2 DEF BeginRead, TypeOK
<1>4. CASE ReadHit
  <2> DEFINE k == Head(call.todo)
  <2>1. /\ k \in Key
        /\ Tail(call.todo) \in Seq(Key)
        /\ k \in Staged
        /\ Hit(k)
    BY <1>2, <1>4, HeadTailProperties DEF ReadHit
  <2>2. /\ lru' \in Seq(Key)
        /\ entry' \in [Key -> Entry]
        /\ stats' \in Counters
    BY <2>1, HitType
  <2>3. HitData(k) \in Nat
    BY <2>1, HitDataType
  <2>4. result' \in [Key -> Data]
    BY <1>4, <2>1, <2>3 DEF ReadHit, TypeOK, Data
  <2>5. call' \in Call
    BY <1>2, <1>4, <2>1 DEF ReadHit, Call
  <2>6. future' \in [Futures -> Fetch]
    BY <1>4, CollectType DEF ReadHit, TypeOK
  <2> QED
    BY <1>4, <2>2, <2>4, <2>5, <2>6 DEF ReadHit, TypeOK
<1>5. CASE ReadPoisoned \/ ReadFails
  BY <1>1, <1>5 DEF ReadPoisoned, ReadFails, TypeOK
<1>6. CASE ReadMiss
  <2>1. Tail(call.todo) \in Seq(Key) /\ Append(call.missed, Head(call.todo)) \in Seq(Key)
    BY <1>2, <1>6, HeadTailProperties, AppendProperties DEF ReadMiss
  <2>2. call' \in Call
    BY <1>2, <1>6, <2>1 DEF ReadMiss, Call
  <2> QED
    BY <1>6, <2>2 DEF ReadMiss, TypeOK
<1>7. CASE ReadReturn
  <2>1. stats' \in Counters
    <3>1. stats.misses \in Nat
      BY DEF TypeOK, Counters
    <3>2. Len(call.missed) \in Nat
      BY <1>2, LenProperties
    <3>3. stats.misses + Len(call.missed) \in Nat
      BY <3>1, <3>2
    <3> QED
      BY <1>7, <3>3 DEF ReadReturn, TypeOK, Counters
  <2>2. result' \in [Key -> Data]
    BY <1>7 DEF ReadReturn, TypeOK, Data
  <2> QED
    BY <1>1, <1>7, <2>1, <2>2 DEF ReadReturn, TypeOK
<1> QED
  BY <1>3, <1>4, <1>5, <1>6, <1>7

\* reset_stats keeps every variable in its type.
LEMMA TypeReset ==
  ASSUME TypeOK, ResetStats \/ Close
  PROVE  TypeOK'
<1>1. CASE ResetStats
  <2>1. entry' \in [Key -> Entry]
    BY <1>1 DEF ResetStats, Unstaged, Entry, Data
  <2>2. stats' \in Counters
    BY <1>1 DEF ResetStats, NoCounts, Counters
  <2>3. future' \in [Futures -> Fetch]
    BY <1>1, CollectType DEF ResetStats, TypeOK
  <2> QED
    BY <1>1, <2>1, <2>2, <2>3, EmptySeq DEF ResetStats, TypeOK
<1>2. CASE Close
  BY <1>2 DEF Close, TypeOK
<1> QED
  BY <1>1, <1>2

\* ... and those of the worker threads.
LEMMA TypeWorker ==
  ASSUME TypeOK, WorkerTake \/ \E f \in Futures : Worker(f)
  PROVE  TypeOK'
<1>1. CASE WorkerTake
  <2>1. Head(queue) \in Futures /\ Tail(queue) \in Seq(Futures)
    BY <1>1, HeadTailProperties DEF WorkerTake, TypeOK
  <2>2. future' \in [Futures -> Fetch]
    BY <1>1, <2>1 DEF WorkerTake, TypeOK, Fetch
  <2> QED
    BY <1>1, <2>1, <2>2 DEF WorkerTake, TypeOK
<1>2. ASSUME NEW f \in Futures, WorkerFetch(f)
      PROVE  TypeOK'
  <2>1. Head(future[f].todo) \in Key
    BY <1>2, HeadTailProperties DEF WorkerFetch, TypeOK, Fetch
  <2>2. store[Head(future[f].todo)] \in Data
    BY <2>1 DEF TypeOK, Data
  <2>3. future' \in [Futures -> Fetch]
    BY <1>2, <2>2, ObtainedType DEF WorkerFetch
  <2> QED
    BY <1>2, <2>3 DEF WorkerFetch, TypeOK
<1>3. ASSUME NEW f \in Futures, WorkerFinish(f)
      PROVE  TypeOK'
  <2>1. future' \in [Futures -> Fetch]
    BY <1>3, SettleType DEF WorkerFinish, Settled
  <2> QED
    BY <1>3, <2>1 DEF WorkerFinish, TypeOK
<1>4. ASSUME NEW f \in Futures, WorkerFail(f)
      PROVE  TypeOK'
  <2>1. future' \in [Futures -> Fetch]
    BY <1>4, SettleType DEF WorkerFail, Settled
  <2> QED
    BY <1>4, <2>1 DEF WorkerFail, TypeOK
<1> QED
  BY <1>1, <1>2, <1>3, <1>3, <1>4 DEF Worker

\* What a prefetch or read call names is a sequence of keys.
LEMMA TypePrefetch ==
  ASSUME TypeOK, Prefetch
  PROVE  TypeOK'
<1>1. PICK l \in Layers, B \in SUBSET BlockIds :
        \E m \in Listings(Missing(l, B)) :
          PrefetchSync(m) \/ PrefetchSyncFails(m) \/ \E f \in Futures : PrefetchSubmit(m, f)
  BY DEF Prefetch
<1>2. PICK m \in Listings(Missing(l, B)) :
        PrefetchSync(m) \/ PrefetchSyncFails(m) \/ \E f \in Futures : PrefetchSubmit(m, f)
  BY <1>1
<1>3. m \in Seq(Key)
  BY MissingType
<1> QED
  BY <1>2, <1>3, TypePrefetchSync, TypePrefetchSyncFails, TypePrefetchSubmit

\* A read call names keys of one layer.
LEMMA ReadKeys ==
  ASSUME Read
  PROVE  \E keys \in Seq(Key) : BeginRead(keys)
<1>1. PICK l \in Layers, B \in SUBSET BlockIds :
        \E s \in SetToSeqs({l} \X B) : BeginRead(s)
  BY DEF Read
<1>2. PICK s \in SetToSeqs({l} \X B) : BeginRead(s)
  BY <1>1
<1>3. {l} \X B \in SUBSET Key
  BY DEF Key
<1>4. s \in Seq(Key)
  BY <1>3, SetToSeqsType
<1> QED
  BY <1>2, <1>4

\* Every step of the adapter, its caller and its workers keeps the types.
LEMMA TypeStep == TypeOK /\ [Next]_vars => TypeOK'
<1> SUFFICES ASSUME TypeOK, [Next]_vars PROVE TypeOK'
  OBVIOUS
<1>1. CASE \E k \in Key : WriteBlock(k) \/ EvictBlock(k)
  BY <1>1, TypeWrite
<1>2. CASE Prefetch
  BY <1>2, TypePrefetch
<1>3. CASE Read \/ ReadHit \/ ReadPoisoned \/ ReadMiss \/ ReadReturn \/ ReadFails
  BY <1>3, TypeRead, ReadKeys
<1>4. CASE PrefetchInsert
  BY <1>4, TypePrefetchInsert
<1>5. CASE ResetStats \/ Close
  BY <1>5, TypeReset
<1>6. CASE WorkerTake \/ \E f \in Futures : Worker(f)
  BY <1>6, TypeWorker
<1>7. CASE UNCHANGED vars
  BY <1>7 DEF vars, TypeOK
<1> QED
  BY <1>1, <1>2, <1>3, <1>4, <1>5, <1>6, <1>7 DEF Next, Continue

\* Whatever the sizes, every reachable state of the adapter is well-typed.
THEOREM TypeCorrect == Spec => []TypeOK
  BY TypeInit, TypeStep, PTL DEF Spec

-----------------------------------------------------------------------------
(***************************************************************************)
(* The bound on the staging buffer.  While a prefetch call is between its*)
(* submit and the insertion of the placeholders, the room it made is still *)
(* there: no other step lengthens the buffer.                              *)
(***************************************************************************)
Room ==
  InCall("insert") => Len(lru) <= Capacity - 1 /\ Len(call.todo) <= MaxBatch

Bounded == StagingBound /\ Room

\* Prefetching stays within the bound.
LEMMA BoundPrefetch ==
  ASSUME TypeOK, Bounded, Prefetch
  PROVE  Bounded'
<1> USE AdapterAssumption
<1>1. PICK l \in Layers, B \in SUBSET BlockIds :
        \E m \in Listings(Missing(l, B)) :
          PrefetchSync(m) \/ PrefetchSyncFails(m) \/ \E f \in Futures : PrefetchSubmit(m, f)
  BY DEF Prefetch
<1>2. PICK m \in Listings(Missing(l, B)) :
        PrefetchSync(m) \/ PrefetchSyncFails(m) \/ \E f \in Futures : PrefetchSubmit(m, f)
  BY <1>1
<1>3. m \in Seq(Key) /\ Len(m) \in Nat /\ Len(m) <= MaxBatch
  BY MissingType
<1>4. CASE PrefetchSync(m)
  <2>1. Kept \in Seq(Key) /\ Len(Kept) \in Nat /\ Len(Kept) <= Capacity - 1
    BY KeptType, LenProperties DEF TypeOK
  <2>2. Len(lru') = Len(Kept) + Len(m)
    BY <1>3, <1>4, <2>1, ConcatProperties DEF PrefetchSync
  <2>3. StagingBound'
    BY <1>3, <2>1, <2>2 DEF StagingBound
  <2> QED
    BY <1>4, <2>3 DEF PrefetchSync, Free, InCall, Room, Bounded
<1>5. CASE PrefetchSyncFails(m) \/ \E f \in Futures : PrefetchSubmit(m, f)
  <2>1. lru' \in Seq(Key) /\ Len(lru') <= Capacity - 1
    BY <1>5, MakeRoomType DEF PrefetchSyncFails, PrefetchSubmit
  <2>2. Len(lru') \in Nat
    BY <2>1, LenProperties
  <2>3. Len(call'.todo) <= MaxBatch \/ call'.op = "idle"
    BY <1>3, <1>5 DEF PrefetchSyncFails, PrefetchSubmit, Free, InCall, Idle
  <2> QED
    BY <2>1, <2>2, <2>3 DEF StagingBound, Room, Bounded, InCall
<1> QED
  BY <1>2, <1>4, <1>5

\* Inserting the placeholders of a submitted batch stays within the bound.
LEMMA BoundInsert ==
  ASSUME TypeOK, Bounded, PrefetchInsert
  PROVE  Bounded'
<1> USE AdapterAssumption
<1>1. /\ lru \in Seq(Key) /\ Len(lru) \in Nat
      /\ call.todo \in Seq(Key) /\ Len(call.todo) \in Nat
  BY LenProperties DEF TypeOK, Call
<1>2. Len(lru') = Len(lru) + Len(call.todo)
  BY <1>1, ConcatProperties DEF PrefetchInsert
<1>3. Len(lru) <= Capacity - 1 /\ Len(call.todo) <= MaxBatch
  BY DEF Bounded, Room, PrefetchInsert
<1> QED
  BY <1>1, <1>2, <1>3 DEF Bounded, StagingBound, Room, PrefetchInsert, InCall, Idle

\* No other step lengthens the buffer, and none of them opens an insertion.
LEMMA BoundOther ==
  ASSUME TypeOK, Bounded, Next, ~Prefetch, ~PrefetchInsert
  PROVE  Bounded'
<1> USE AdapterAssumption
<1>1. lru \in Seq(Key) /\ Len(lru) \in Nat
  BY LenProperties DEF TypeOK
<1>2. SUFFICES /\ Len(lru') \in Nat /\ Len(lru') <= Len(lru)
               /\ call'.op # "insert" \/ call' = call
  BY <1>1 DEF Bounded, StagingBound, Room, InCall
<1>3. ASSUME NEW k \in Key, EvictBlock(k)
      PROVE  /\ Len(lru') \in Nat /\ Len(lru') <= Len(lru)
             /\ call' = call
  <2>1. CASE k \in Staged
    BY <1>1, <1>3, <2>1, WithoutType, LenProperties DEF EvictBlock, Staged
  <2>2. CASE k \notin Staged
    BY <1>1, <1>3, <2>2 DEF EvictBlock
  <2> QED
    BY <1>3, <2>1, <2>2 DEF EvictBlock
<1>4. CASE ReadHit
  <2>1. Head(call.todo) \in Key
    BY <1>4, HeadTailProperties DEF ReadHit, TypeOK, Call
  <2>2. Len(lru') = Len(lru)
    BY <1>4, <2>1, HitType DEF ReadHit
  <2>3. call'.op = "read"
    BY <1>4 DEF ReadHit, TypeOK, Call, InCall
  <2> QED
    BY <1>1, <2>2, <2>3
<1>5. CASE ReadMiss
  BY <1>1, <1>5 DEF ReadMiss, TypeOK, Call, InCall
<1>6. CASE Read \/ ReadPoisoned \/ ReadReturn \/ ReadFails \/ Close
  <2>1. CASE Read
    <3>1. PICK keys \in Seq(Key) : BeginRead(keys)
      BY <2>1, ReadKeys
    <3>2. lru' = lru /\ call'.op = "read"
      BY <3>1, Zenon DEF BeginRead, Idle
    <3> QED
      BY <1>1, <3>2
  <2>2. CASE ReadPoisoned \/ ReadReturn \/ ReadFails
    BY <1>1, <2>2 DEF ReadPoisoned, ReadReturn, ReadFails, Idle
  <2>3. CASE Close
    BY <1>1, <2>3 DEF Close
  <2> QED
    BY <1>6, <2>1, <2>2, <2>3
<1>7. CASE ResetStats
  BY <1>1, <1>7, EmptySeq DEF ResetStats
<1>8. ASSUME \/ \E k \in Key : WriteBlock(k)
             \/ WorkerTake
             \/ \E f \in Futures : WorkerFetch(f) \/ WorkerFinish(f) \/ WorkerFail(f)
      PROVE  lru' = lru /\ call' = call
  BY <1>8 DEF WriteBlock, WorkerTake, WorkerFetch, WorkerFinish, WorkerFail
<1> QED
  BY <1>1, <1>3, <1>4, <1>5, <1>6, <1>7, <1>8 DEF Next, Continue, Worker

\* However calls, reads and worker threads interleave, the staging buffer never
\* outgrows its capacity by more than a batch less one block: the room that
\* _ensure_buffer_capacity makes for one block is the only room a batch gets.
THEOREM StagingBounded == Spec => []StagingBound
<1>1. Init => Bounded
  BY EmptySeq, AdapterAssumption DEF Init, Bounded, StagingBound, Room, InCall, Idle
<1>2. TypeOK /\ Bounded /\ [Next]_vars => Bounded'
  <2> SUFFICES ASSUME TypeOK, Bounded, [Next]_vars PROVE Bounded'
    OBVIOUS
  <2>1. CASE UNCHANGED vars
    BY <2>1 DEF vars, Bounded, StagingBound, Room, InCall
  <2> QED
    BY <2>1, BoundPrefetch, BoundInsert, BoundOther
<1>3. Bounded => StagingBound
  BY DEF Bounded
<1> QED
  BY <1>1, <1>2, <1>3, TypeCorrect, PTL DEF Spec

-----------------------------------------------------------------------------
(***************************************************************************)
(* Sequences without duplicates.                                           *)
(***************************************************************************)

\* Appending an element that is not there adds it and makes no duplicate.
LEMMA AppendNew ==
  ASSUME NEW s \in Seq(Key), IsInjective(s), NEW k \in Key, k \notin Range(s)
  PROVE  /\ IsInjective(Append(s, k))
         /\ Range(Append(s, k)) = Range(s) \union {k}
<1>1. /\ Len(s) \in Nat /\ DOMAIN s = 1..Len(s)
      /\ Append(s, k) \in Seq(Key)
      /\ Len(Append(s, k)) = Len(s) + 1
      /\ \A i \in 1..Len(s) : Append(s, k)[i] = s[i]
      /\ Append(s, k)[Len(s) + 1] = k
  BY LenProperties, AppendProperties
<1>2. DOMAIN Append(s, k) = 1..Len(s)+1
  BY <1>1, LenProperties
<1>3. ASSUME NEW i \in 1..Len(s)+1, NEW j \in 1..Len(s)+1,
             Append(s, k)[i] = Append(s, k)[j]
      PROVE  i = j
  <2>1. \A x \in 1..Len(s) : s[x] # k
    BY <1>1 DEF Range
  <2>2. CASE i \in 1..Len(s) /\ j \in 1..Len(s)
    BY <1>1, <1>3, <2>2 DEF IsInjective
  <2>3. CASE i = Len(s) + 1 \/ j = Len(s) + 1
    <3>1. \A x \in 1..Len(s) : Append(s, k)[x] # k
      BY <1>1, <2>1
    <3> QED
      BY <1>1, <1>3, <2>3, <3>1
  <2> QED
    BY <1>1, <2>2, <2>3
<1>4. Range(Append(s, k)) = Range(s) \union {k}
  <2>1. Append(s, k) = s \o <<k>> /\ <<k>> \in Seq(Key)
    BY AppendIsConcat
  <2>2. Range(<<k>>) = {k}
    BY DEF Range
  <2>3. Range(s \o <<k>>) = Range(s) \union Range(<<k>>)
    BY <2>1, RangeConcatenation
  <2> QED
    BY <2>1, <2>2, <2>3
<1> QED
  BY <1>2, <1>3, <1>4 DEF IsInjective

\* Two duplicate-free sequences of different elements join without duplicates.
LEMMA ConcatNew ==
  ASSUME NEW s \in Seq(Key), NEW t \in Seq(Key), IsInjective(s), IsInjective(t),
         Range(t) \intersect Range(s) = {}
  PROVE  /\ IsInjective(s \o t)
         /\ Range(s \o t) = Range(s) \union Range(t)
<1> DEFINE m == Len(s)
           n == Len(t)
<1>1. /\ m \in Nat /\ DOMAIN s = 1..m
      /\ n \in Nat /\ DOMAIN t = 1..n
      /\ s \o t \in Seq(Key) /\ Len(s \o t) = m + n
      /\ \A i \in 1..m+n : (s \o t)[i] = IF i <= m THEN s[i] ELSE t[i-m]
  BY LenProperties, ConcatProperties
<1>2. DOMAIN (s \o t) = 1..m+n
  BY <1>1, LenProperties
<1>3. \A i \in 1..m, j \in 1..n : s[i] # t[j]
  BY <1>1 DEF Range
<1> HIDE DEF m, n
<1>4. ASSUME NEW i \in 1..m+n, NEW j \in 1..m+n, (s \o t)[i] = (s \o t)[j]
      PROVE  i = j
  <2>1. CASE i <= m /\ j <= m
    BY <1>1, <1>4, <2>1 DEF IsInjective
  <2>2. CASE i > m /\ j > m
    <3>1. i - m \in 1..n /\ j - m \in 1..n /\ t[i-m] = t[j-m]
      BY <1>1, <1>4, <2>2
    <3>2. i - m = j - m
      BY <1>1, <3>1 DEF IsInjective
    <3> QED
      BY <1>1, <3>2
  <2>3. CASE i <= m /\ j > m
    <3>1. i \in 1..m /\ j - m \in 1..n /\ s[i] = t[j-m]
      BY <1>1, <1>4, <2>3
    <3> QED
      BY <1>3, <3>1
  <2>4. CASE i > m /\ j <= m
    <3>1. j \in 1..m /\ i - m \in 1..n /\ s[j] = t[i-m]
      BY <1>1, <1>4, <2>4
    <3> QED
      BY <1>3, <3>1
  <2> QED
    BY <1>1, <2>1, <2>2, <2>3, <2>4
<1>5. IsInjective(s \o t)
  BY <1>2, <1>4 DEF IsInjective
<1>6. Range(s \o t) = Range(s) \union Range(t)
  BY RangeConcatenation
<1> QED
  BY <1>5, <1>6

\* A duplicate-free sequence without one of its elements has lost just that one.
LEMMA WithoutNew ==
  ASSUME NEW s \in Seq(Key), IsInjective(s), NEW k \in Range(s)
  PROVE  /\ Without(s, k) \in Seq(Key)
         /\ IsInjective(Without(s, k))
         /\ Range(Without(s, k)) = Range(s) \ {k}
<1> DEFINE n == Len(s)
           w == Without(s, k)
<1>1. n \in Nat /\ DOMAIN s = 1..n /\ \A j \in 1..n : s[j] \in Key
  BY LenProperties
<1>2. PICK i \in 1..n : i = Position(s, k) /\ s[i] = k
  BY <1>1 DEF Range, Position
<1>3. /\ SubSeq(s, 1, i-1) \in Seq(Key)
      /\ Len(SubSeq(s, 1, i-1)) = i - 1
      /\ \A j \in 1..i-1 : SubSeq(s, 1, i-1)[j] = s[j]
  <2>1. i - 1 \in Int /\ 1 \in Int /\ \A j \in 1..i-1 : s[j] \in Key
    BY <1>1, <1>2
  <2>2. /\ SubSeq(s, 1, i-1) \in Seq(Key)
        /\ Len(SubSeq(s, 1, i-1)) = IF 1 <= i-1 THEN (i-1) - 1 + 1 ELSE 0
        /\ \A j \in 1..(i-1)-1+1 : SubSeq(s, 1, i-1)[j] = s[1+j-1]
    BY <2>1, SubSeqProperties
  <2>3. \A j \in 1..i-1 : j \in 1..(i-1)-1+1 /\ 1+j-1 = j
    BY <1>2
  <2> QED
    BY <1>2, <2>2, <2>3
<1>4. /\ SubSeq(s, i+1, n) \in Seq(Key)
      /\ Len(SubSeq(s, i+1, n)) = n - i
      /\ \A j \in 1..n-i : SubSeq(s, i+1, n)[j] = s[i+j]
  <2>1. i + 1 \in Int /\ n \in Int /\ \A j \in i+1..n : s[j] \in Key
    BY <1>1, <1>2
  <2>2. /\ SubSeq(s, i+1, n) \in Seq(Key)
        /\ Len(SubSeq(s, i+1, n)) = IF i+1 <= n THEN n - (i+1) + 1 ELSE 0
        /\ \A j \in 1..n-(i+1)+1 : SubSeq(s, i+1, n)[j] = s[(i+1)+j-1]
    BY <2>1, SubSeqProperties
  <2>3. \A j \in 1..n-i : j \in 1..n-(i+1)+1 /\ (i+1)+j-1 = i+j
    BY <1>1, <1>2
  <2> QED
    BY <1>1, <1>2, <2>2, <2>3
<1>5. w = SubSeq(s, 1, i-1) \o SubSeq(s, i+1, n)
  BY <1>2 DEF Without, RemoveAt
<1> HIDE DEF w, n
<1>6. w \in Seq(Key) /\ Len(w) = (i - 1) + (n - i)
  BY <1>3, <1>4, <1>5, ConcatProperties
<1>7. \A j \in 1..n-1 : w[j] = IF j < i THEN s[j] ELSE s[j+1]
  <2> DEFINE u == SubSeq(s, 1, i-1)
             v == SubSeq(s, i+1, n)
  <2>1. u \in Seq(Key) /\ v \in Seq(Key) /\ w = u \o v
    BY <1>3, <1>4, <1>5
  <2> HIDE DEF u, v
  <2>2. \A j \in 1..Len(u)+Len(v) : w[j] = IF j <= Len(u) THEN u[j] ELSE v[j-Len(u)]
    BY <2>1, ConcatProperties
  <2>3. Len(u) = i-1 /\ Len(v) = n-i
    BY <1>3, <1>4 DEF u, v
  <2>4. \A j \in 1..(i-1)+(n-i) : w[j] = IF j <= i-1 THEN SubSeq(s, 1, i-1)[j]
                                         ELSE SubSeq(s, i+1, n)[j-(i-1)]
    BY <2>2, <2>3 DEF u, v
  <2>5. ASSUME NEW j \in 1..n-1
        PROVE  w[j] = IF j < i THEN s[j] ELSE s[j+1]
    <3>1. j \in 1..(i-1)+(n-i)
      BY <1>1, <1>2
    <3>2. CASE j < i
      <4>1. j <= i-1 /\ j \in 1..i-1
        BY <1>2, <3>2
      <4> QED
        BY <1>3, <2>4, <3>1, <3>2, <4>1
    <3>3. CASE ~(j < i)
      <4>1. ~(j <= i-1) /\ j-(i-1) \in 1..n-i /\ i + (j-(i-1)) = j + 1
        BY <1>1, <1>2, <3>3
      <4> QED
        BY <1>4, <2>4, <3>1, <3>3, <4>1
    <3> QED
      BY <3>2, <3>3
  <2> QED
    BY <2>5
<1>8. DOMAIN w = 1..n-1
  <2>1. (i - 1) + (n - i) = n - 1
    BY <1>1, <1>2
  <2> QED
    BY <1>6, <2>1, LenProperties
<1>9. \A a, b \in 1..n : s[a] = s[b] => a = b
  BY <1>1 DEF IsInjective
<1>10. IsInjective(w)
  <2>1. ASSUME NEW a \in 1..n-1, NEW b \in 1..n-1, w[a] = w[b]
        PROVE  a = b
    <3>1. /\ w[a] = IF a < i THEN s[a] ELSE s[a+1]
          /\ w[b] = IF b < i THEN s[b] ELSE s[b+1]
          /\ a \in 1..n /\ a+1 \in 1..n /\ b \in 1..n /\ b+1 \in 1..n
      BY <1>1, <1>7
    <3>2. CASE a < i /\ b < i
      BY <1>9, <2>1, <3>1, <3>2
    <3>3. CASE a < i /\ ~(b < i)
      <4>1. a = b + 1
        BY <1>9, <2>1, <3>1, <3>3
      <4> QED
        BY <3>3, <4>1
    <3>4. CASE ~(a < i) /\ b < i
      <4>1. a + 1 = b
        BY <1>9, <2>1, <3>1, <3>4
      <4> QED
        BY <3>4, <4>1
    <3>5. CASE ~(a < i) /\ ~(b < i)
      <4>1. a + 1 = b + 1
        BY <1>9, <2>1, <3>1, <3>5
      <4> QED
        BY <4>1
    <3> QED
      BY <3>2, <3>3, <3>4, <3>5
  <2> QED
    BY <1>8, <2>1 DEF IsInjective
<1>11. ASSUME NEW x \in Range(w) PROVE x \in Range(s) \ {k}
  <2>1. PICK a \in 1..n-1 : w[a] = x
    BY <1>8 DEF Range
  <2>2. PICK b \in 1..n : b # i /\ s[b] = x
    <3>1. a \in 1..n /\ a + 1 \in 1..n
      BY <1>1
    <3>2. CASE a < i
      BY <1>2, <1>7, <2>1, <3>1, <3>2
    <3>3. CASE ~(a < i)
      <4>1. a + 1 # i /\ s[a+1] = x
        BY <1>2, <1>7, <2>1, <3>3
      <4> QED
        BY <3>1, <4>1
    <3> QED
      BY <3>2, <3>3
  <2>3. x # k
    BY <1>2, <1>9, <2>2
  <2> QED
    BY <1>1, <2>2, <2>3 DEF Range
<1>12. ASSUME NEW x \in Range(s) \ {k} PROVE x \in Range(w)
  <2>1. PICK b \in 1..n : s[b] = x /\ b # i
    BY <1>1, <1>2 DEF Range
  <2>2. CASE b < i
    <3>1. b \in 1..n-1 /\ w[b] = x
      BY <1>1, <1>2, <1>7, <2>1, <2>2
    <3> QED
      BY <1>8, <3>1 DEF Range
  <2>3. CASE ~(b < i)
    <3>1. b-1 \in 1..n-1 /\ ~(b-1 < i) /\ (b-1)+1 = b
      BY <1>1, <1>2, <2>1, <2>3
    <3>2. w[b-1] = x
      BY <1>7, <2>1, <3>1
    <3> QED
      BY <1>8, <3>1, <3>2 DEF Range
  <2> QED
    BY <2>2, <2>3
<1> QED
  BY <1>6, <1>10, <1>11, <1>12 DEF w

\* What _ensure_buffer_capacity keeps has no duplicates.
LEMMA KeptNew ==
  ASSUME lru \in Seq(Key), IsInjective(lru)
  PROVE  IsInjective(Kept)
<1> USE AdapterAssumption
<1>1. /\ Len(lru) \in Nat /\ DOMAIN lru = 1..Len(lru)
      /\ \A i \in 1..Len(lru) : lru[i] \in Key
  BY LenProperties
<1>2. CASE Len(lru) < Capacity
  BY <1>2 DEF Kept
<1>3. CASE ~(Len(lru) < Capacity)
  <2> DEFINE m == Len(lru) - Capacity + 2
             n == Len(lru)
  <2>1. /\ Kept = SubSeq(lru, m, n)
        /\ m \in Int /\ m >= 2 /\ n \in Int
    BY <1>1, <1>3 DEF Kept
  <2>2. \A i \in m..n : lru[i] \in Key
    BY <1>1, <2>1
  <2> HIDE DEF m, n
  <2>3. /\ Kept \in Seq(Key)
        /\ Len(Kept) = IF m <= n THEN n - m + 1 ELSE 0
        /\ \A i \in 1..n-m+1 : Kept[i] = lru[m+i-1]
    BY <2>1, <2>2, SubSeqProperties
  <2>4. DOMAIN Kept = 1..Len(Kept)
    BY <2>3, LenProperties
  <2>5. \A a, b \in 1..n : lru[a] = lru[b] => a = b
    BY <1>1 DEF IsInjective, n
  <2>6. ASSUME NEW a \in 1..Len(Kept), NEW b \in 1..Len(Kept), Kept[a] = Kept[b]
        PROVE  a = b
    <3>1. /\ a \in 1..n-m+1 /\ b \in 1..n-m+1
          /\ m+a-1 \in 1..n /\ m+b-1 \in 1..n
      BY <2>1, <2>3
    <3>2. m+a-1 = m+b-1
      BY <2>3, <2>5, <2>6, <3>1
    <3> QED
      BY <2>1, <3>1, <3>2
  <2> QED
    BY <2>4, <2>6 DEF IsInjective
<1> QED
  BY <1>2, <1>3

-----------------------------------------------------------------------------
(***************************************************************************)
(* The invariant.  Besides the properties themselves it says what is true*)
(* between the submit of a fetch and the insertion of its placeholders,    *)
(* that a completed fetch has read its whole batch, and that an entry      *)
(* without a future has its tensors.                                       *)
(***************************************************************************)

\* In the future table fs, fetch g is live and has read k or will read it.
Covers(fs, g, k) ==
  /\ fs[g].state # "free"
  /\ fs[g].got[k] # NoData \/ k \in Range(fs[g].todo)

Covered == \A k \in Staged : entry[k].future # NoFuture => Covers(future, entry[k].future, k)

Pending ==
  InCall("insert") =>
    /\ IsInjective(call.todo)
    /\ Range(call.todo) \intersect Staged = {}
    /\ call.future \in Futures
    /\ \A k \in Range(call.todo) : Covers(future, call.future, k)

Complete == \A f \in Futures : future[f].state = "done" => future[f].todo = <<>>

Filled == \A k \in Staged : entry[k].future = NoFuture => entry[k].data # NoData

\* The keys of the staging buffer and the entries of its keys are one index.
IndexOK ==
  /\ IsInjective(lru)
  /\ \A k \in Key : k \notin Staged => entry[k] = Unstaged

Sound == IndexOK /\ Covered /\ Pending /\ Complete /\ Filled

\* What no data is: not a version.
LEMMA DataFacts == NoData \notin Nat /\ NoFuture \notin Futures
  BY AdapterAssumption

\* A staged key is a key of the model.
LEMMA StagedKeys ==
  ASSUME TypeOK
  PROVE  Staged \in SUBSET Key
BY RangeOfSeq DEF TypeOK, Staged

\* A future that an entry or the pending insertion holds survives the collection.
LEMMA CollectKeeps ==
  ASSUME NEW fs, NEW e, NEW g \in Futures, HeldIn(e, g)
  PROVE  Collect(e, fs)[g] = fs[g]
BY DEF Collect

\* Collection only ever frees.
LEMMA CollectFrees ==
  ASSUME NEW fs, NEW e, NEW g \in Futures
  PROVE  Collect(e, fs)[g] = fs[g] \/ Collect(e, fs)[g] = FreeSlot
BY DEF Collect

\* Freeing a settled future nobody holds leaves the covered blocks of the others.
LEMMA CollectComplete ==
  ASSUME NEW fs, NEW e,
         \A f \in Futures : fs[f].state = "done" => fs[f].todo = <<>>
  PROVE  \A f \in Futures : Collect(e, fs)[f].state = "done" => Collect(e, fs)[f].todo = <<>>
BY DEF Collect, FreeSlot

\* An entry that keeps its future, or loses it, stays covered by the table that
\* the collection leaves.
LEMMA CoverKept ==
  ASSUME TypeOK, NEW fs, NEW e, NEW k \in Key,
         e[k].future \in Futures => Covers(fs, e[k].future, k),
         e[k].future \in Futures \union {NoFuture},
         e[k].future # NoFuture
  PROVE  Covers(Collect(e, fs), e[k].future, k)
<1>1. e[k].future \in Futures
  OBVIOUS
<1>2. HeldIn(e, e[k].future)
  BY DEF HeldIn
<1>3. Collect(e, fs)[e[k].future] = fs[e[k].future]
  BY <1>1, <1>2, CollectKeeps
<1> QED
  BY <1>1, <1>3 DEF Covers

\* Reading the head of f's batch takes no block away from any fetch.
LEMMA ObtainedCovers ==
  ASSUME TypeOK, NEW f \in Futures, future[f].todo # <<>>, NEW d \in Nat,
         NEW g \in Futures, NEW k \in Key, Covers(future, g, k)
  PROVE  Covers(Obtained(f, d), g, k)
<1> DEFINE h == Head(future[f].todo)
<1>1. /\ future[f].todo \in Seq(Key)
      /\ future[f].got \in [Key -> Data]
      /\ future[f] \in Fetch
  BY DEF TypeOK, Fetch
<1>2. Range(future[f].todo) = {h} \union Range(Tail(future[f].todo))
  BY <1>1, HeadTailRange
<1>3. h \in Key
  BY <1>1, HeadTailProperties
<1>4. CASE g # f
  <2>1. Obtained(f, d)[g] = future[g]
    BY <1>4 DEF Obtained, TypeOK
  <2> QED
    BY <2>1 DEF Covers
<1>5. CASE g = f
  <2>1. /\ Obtained(f, d)[f].state = future[f].state
        /\ Obtained(f, d)[f].todo = Tail(future[f].todo)
        /\ Obtained(f, d)[f].got = [future[f].got EXCEPT ![h] = d]
    BY <1>1 DEF Obtained, TypeOK, Fetch
  <2>2. CASE k = h
    <3>1. Obtained(f, d)[f].got[k] = d /\ d # NoData
      BY <1>1, <1>3, <2>1, <2>2, DataFacts
    <3> QED
      BY <1>5, <2>1, <3>1 DEF Covers
  <2>3. CASE k # h
    <3>1. Obtained(f, d)[f].got[k] = future[f].got[k]
      BY <1>1, <1>3, <2>1, <2>3
    <3> QED
      BY <1>2, <1>5, <2>1, <2>3, <3>1 DEF Covers
  <2> QED
    BY <2>2, <2>3
<1> QED
  BY <1>4, <1>5

\* A block a worker has read stays among those its batch covers.
LEMMA ObtainedComplete ==
  ASSUME TypeOK, Complete, NEW f \in Futures, future[f].state = "running", NEW d
  PROVE  \A g \in Futures : Obtained(f, d)[g].state = "done" => Obtained(f, d)[g].todo = <<>>
<1>1. \A g \in Futures : Obtained(f, d)[g].state = future[g].state
  BY DEF Obtained, TypeOK, Fetch
<1>2. \A g \in Futures : g # f => Obtained(f, d)[g] = future[g]
  BY DEF Obtained, TypeOK
<1> QED
  BY <1>1, <1>2 DEF Complete

\* A hit reorders the index and touches nothing else of it, and the entries of the
\* other blocks keep their futures or have their tensors.
LEMMA HitSound ==
  ASSUME TypeOK, Sound, NEW k \in Key, k \in Staged, Hit(k)
  PROVE  /\ Staged' = Staged
         /\ IndexOK'
         /\ Filled'
         /\ \A x \in Key : entry'[x].future \in {entry[x].future, NoFuture}
<1>1. lru \in Seq(Key) /\ IsInjective(lru) /\ k \in Range(lru)
  BY DEF TypeOK, Sound, IndexOK, Staged
<1>2. /\ Without(lru, k) \in Seq(Key)
      /\ IsInjective(Without(lru, k))
      /\ Range(Without(lru, k)) = Staged \ {k}
  BY <1>1, WithoutNew DEF Staged
<1>3. IsInjective(lru') /\ Staged' = Staged
  <2>1. /\ IsInjective(Append(Without(lru, k), k))
        /\ Range(Append(Without(lru, k), k)) = (Staged \ {k}) \union {k}
    BY <1>2, AppendNew
  <2> QED
    BY <2>1 DEF Hit, Staged
<1>4. /\ Resolved(k) \in [Key -> Entry]
      /\ \A x \in Key : x \notin Staged => Resolved(k)[x] = entry[x]
      /\ \A x \in Key : \/ Resolved(k)[x].future = entry[x].future
                           /\ Resolved(k)[x].data = entry[x].data
                        \/ Resolved(k)[x].future = NoFuture
                           /\ Resolved(k)[x].data # NoData
  <2>1. Resolved(k) \in [Key -> Entry]
    BY ResolvedType
  <2>2. CASE entry[k].future = NoFuture
    BY <2>1, <2>2 DEF Resolved
  <2>3. CASE entry[k].future # NoFuture
    <3> DEFINE f == entry[k].future
    <3>1. \A x \in Key :
            Resolved(k)[x] = IF x \in Staged /\ future[f].got[x] # NoData
                             THEN [entry[x] EXCEPT !.data = future[f].got[x],
                                                   !.future = NoFuture]
                             ELSE entry[x]
      BY <2>3 DEF Resolved
    <3>2. \A x \in Key : entry[x] \in Entry
      BY DEF TypeOK
    <3> HIDE DEF f
    <3> QED
      BY <2>1, <3>1, <3>2 DEF Entry
  <2> QED
    BY <2>2, <2>3
<1>5. \A x \in Key : /\ entry'[x].future = Resolved(k)[x].future
                     /\ entry'[x].data = Resolved(k)[x].data
                     /\ x # k => entry'[x] = Resolved(k)[x]
  <2>1. entry' = [Resolved(k) EXCEPT ![k] = [Resolved(k)[k] EXCEPT !.useful = TRUE]]
    BY DEF Hit
  <2>2. Resolved(k)[k] \in Entry
    BY <1>4
  <2> QED
    BY <1>4, <2>1, <2>2 DEF Entry
<1>6. IndexOK'
  BY <1>3, <1>4, <1>5 DEF IndexOK, Sound, Unstaged
<1>7. Filled'
  BY <1>3, <1>4, <1>5, StagedKeys DEF Filled, Sound
<1>8. \A x \in Key : entry'[x].future \in {entry[x].future, NoFuture}
  BY <1>4, <1>5
<1> QED
  BY <1>3, <1>6, <1>7, <1>8

-----------------------------------------------------------------------------
(***************************************************************************)
(* The steps.                                                              *)
(***************************************************************************)

\* What every entry's future is, from the types and the index.
LEMMA EntryFuture ==
  ASSUME TypeOK, Sound, NEW k \in Key, entry[k].future # NoFuture
  PROVE  /\ entry[k].future \in Futures
         /\ k \in Staged
         /\ Covers(future, entry[k].future, k)
<1>1. entry[k].future \in Futures
  BY DEF TypeOK, Entry
<1>2. k \in Staged
  BY DEF Sound, IndexOK, Unstaged
<1> QED
  BY <1>1, <1>2 DEF Sound, Covered

\* When entries only keep or lose their futures and the garbage is collected, the
\* futures that are left cover theirs.
LEMMA CoveredKept ==
  ASSUME TypeOK, TypeOK', Sound, Staged' \subseteq Key,
         \A k \in Key : entry'[k].future \in {entry[k].future, NoFuture},
         future' = Collect(entry', future)
  PROVE  Covered' /\ Complete'
<1>1. ASSUME NEW k \in Key, entry'[k].future # NoFuture
      PROVE  Covers(future', entry'[k].future, k)
  <2>1. entry'[k].future = entry[k].future /\ entry[k].future # NoFuture
    BY <1>1
  <2>2. Covers(future, entry'[k].future, k) /\ entry'[k].future \in Futures
    BY <2>1, EntryFuture
  <2>3. Covers(Collect(entry', future), entry'[k].future, k)
    BY <1>1, <2>2, CoverKept
  <2> QED
    BY <2>3
<1>2. Covered'
  BY <1>1 DEF Covered, Covers
<1>3. Complete'
  BY CollectComplete DEF Complete, Sound
<1> QED
  BY <1>2, <1>3

\* evict_block preserves the invariant.
LEMMA SoundEvict ==
  ASSUME TypeOK, TypeOK', Sound, NEW k \in Key, EvictBlock(k)
  PROVE  Sound'
<1>1. Pending'
  BY DEF EvictBlock, Free, InCall, Pending
<1>2. CASE k \in Staged
  <2>1. lru' = Without(lru, k) /\ entry' = [entry EXCEPT ![k] = Unstaged]
    BY <1>2 DEF EvictBlock
  <2>2. IsInjective(lru') /\ Staged' = Staged \ {k}
    BY <1>2, <2>1, WithoutNew DEF TypeOK, Sound, IndexOK, Staged
  <2>3. \A x \in Key : entry'[x] = IF x = k THEN Unstaged ELSE entry[x]
    BY <2>1 DEF TypeOK
  <2>4. IndexOK'
    BY <2>2, <2>3 DEF IndexOK, Sound, Unstaged
  <2>5. Filled'
    BY <2>2, <2>3, StagedKeys DEF Filled, Sound
  <2>6. future' = Collect(entry', future)
    BY <1>2 DEF EvictBlock
  <2>7. Covered' /\ Complete'
    BY <2>2, <2>3, <2>6, StagedKeys, CoveredKept DEF Unstaged
  <2> QED
    BY <1>1, <2>4, <2>5, <2>7 DEF Sound
<1>3. CASE k \notin Staged
  <2>1. UNCHANGED <<lru, entry, future>>
    BY <1>3 DEF EvictBlock
  <2> QED
    BY <1>1, <2>1 DEF Sound, IndexOK, Covered, Covers, Complete, Filled, Staged
<1> QED
  BY <1>2, <1>3

\* Making room: evicted blocks leave the index, the others keep their entries.
LEMMA MakeRoomSound ==
  ASSUME TypeOK, Sound, lru' = Kept,
         \A k \in Staged' : entry'[k] = entry[k],
         \A k \in Key : k \notin Staged' => entry'[k] = Unstaged
  PROVE  /\ Staged' \subseteq Staged
         /\ IndexOK'
         /\ Filled'
         /\ \A k \in Key : entry'[k].future \in {entry[k].future, NoFuture}
<1>1. /\ Staged' \subseteq Staged
      /\ IsInjective(lru')
  BY KeptType, KeptNew DEF TypeOK, Sound, IndexOK, Staged
<1>2. IndexOK'
  BY <1>1 DEF IndexOK, Unstaged
<1>3. Filled'
  BY <1>1 DEF Filled, Sound
<1>4. \A k \in Key : entry'[k].future \in {entry[k].future, NoFuture}
  BY DEF Unstaged
<1> QED
  BY <1>1, <1>2, <1>3, <1>4

\* MakeRoom does just that.
LEMMA MakeRoomEntries ==
  ASSUME TypeOK, Sound, MakeRoom
  PROVE  /\ lru' = Kept
         /\ \A k \in Staged' : entry'[k] = entry[k]
         /\ \A k \in Key : k \notin Staged' => entry'[k] = Unstaged
<1>1. lru' = Kept /\ Staged' = Range(Kept) /\ Range(Kept) \subseteq Staged
  BY KeptType DEF MakeRoom, TypeOK, Staged
<1>2. \A k \in Key : entry'[k] = IF k \in Evicted THEN Unstaged ELSE entry[k]
  BY DEF MakeRoom
<1>3. \A k \in Staged' : k \in Key /\ k \notin Evicted
  BY <1>1, StagedKeys DEF Evicted
<1>4. \A k \in Key : k \notin Staged => entry[k] = Unstaged
  BY DEF Sound, IndexOK
<1>5. \A k \in Key : k \notin Staged' => k \in Evicted \/ k \notin Staged
  BY <1>1 DEF Evicted
<1> QED
  BY <1>1, <1>2, <1>3, <1>4, <1>5

\* A prefetch whose read raises only makes room.
LEMMA SoundPrefetchSyncFails ==
  ASSUME TypeOK, TypeOK', Sound, NEW m, PrefetchSyncFails(m)
  PROVE  Sound'
<1>1. MakeRoom /\ future' = Collect(entry', future)
  BY DEF PrefetchSyncFails
<1>2. /\ Staged' \subseteq Staged
      /\ IndexOK'
      /\ Filled'
      /\ \A k \in Key : entry'[k].future \in {entry[k].future, NoFuture}
  BY <1>1, MakeRoomEntries, MakeRoomSound
<1>3. Covered' /\ Complete'
  BY <1>1, <1>2, StagedKeys, CoveredKept
<1>4. Pending'
  BY DEF PrefetchSyncFails, Free, InCall, Pending
<1> QED
  BY <1>2, <1>3, <1>4 DEF Sound

\* A synchronous prefetch inserts filled entries.
LEMMA SoundPrefetchSync ==
  ASSUME TypeOK, TypeOK', Sound, NEW m \in Seq(Key), IsInjective(m),
         Range(m) \intersect Staged = {}, PrefetchSync(m)
  PROVE  Sound'
<1>1. /\ Kept \in Seq(Key) /\ IsInjective(Kept) /\ Range(Kept) \subseteq Staged
  BY KeptType, KeptNew DEF TypeOK, Sound, IndexOK
<1>2. /\ IsInjective(lru')
      /\ Staged' = Range(Kept) \union Range(m)
  BY <1>1, ConcatNew DEF PrefetchSync, Staged
<1>3. \A k \in Key :
        entry'[k] = IF k \in Range(m)
                    THEN [data |-> store[k], future |-> NoFuture, useful |-> FALSE]
                    ELSE IF k \in Evicted THEN Unstaged ELSE entry[k]
  BY DEF PrefetchSync
<1>4. \A k \in Key : k \notin Staged => entry[k] = Unstaged
  BY DEF Sound, IndexOK
<1>5. IndexOK'
  BY <1>2, <1>3, <1>4 DEF IndexOK, Evicted, Unstaged
<1>6. /\ \A k \in Key : k \in Range(m) =>
           entry'[k].future = NoFuture /\ entry'[k].data = store[k]
      /\ \A k \in Key : k \notin Range(m) =>
           entry'[k] = entry[k] \/ entry'[k].future = NoFuture
      /\ \A k \in Range(Kept) : entry'[k] = entry[k]
  <2>1. \A k \in Range(Kept) : k \in Key /\ k \notin Range(m) /\ k \notin Evicted
    BY <1>1, StagedKeys DEF Evicted
  <2>2. \A k \in Key : k \in Range(m) =>
          entry'[k].future = NoFuture /\ entry'[k].data = store[k]
    <3>1. SUFFICES ASSUME NEW k \in Key, k \in Range(m)
                   PROVE  entry'[k].future = NoFuture /\ entry'[k].data = store[k]
      OBVIOUS
    <3>2. entry'[k] = [data |-> store[k], future |-> NoFuture, useful |-> FALSE]
      BY <1>3, <3>1, Zenon
    <3> QED
      BY <3>2
  <2>3. Unstaged.future = NoFuture
    BY DEF Unstaged
  <2>4. \A k \in Key : k \notin Range(m) =>
          entry'[k] = entry[k] \/ entry'[k].future = NoFuture
    BY <1>3, <2>3
  <2>5. \A k \in Range(Kept) : entry'[k] = entry[k]
    BY <1>3, <2>1
  <2> QED
    BY <2>2, <2>4, <2>5
<1>7. Filled'
  <2>1. \A k \in Key : store[k] # NoData
    BY DataFacts DEF TypeOK
  <2>2. Range(m) \subseteq Key
    BY RangeOfSeq
  <2> QED
    BY <1>1, <1>2, <1>6, <2>1, <2>2 DEF Filled, Sound
<1>8. \A k \in Key : entry'[k].future \in {entry[k].future, NoFuture}
  BY <1>6
<1>9. future' = Collect(entry', future)
  BY DEF PrefetchSync
<1>10. Covered' /\ Complete'
  <2>1. Staged' \subseteq Key
    BY <1>1, <1>2, RangeOfSeq
  <2> QED
    BY <1>8, <1>9, <2>1, CoveredKept
<1>11. Pending'
  BY DEF PrefetchSync, Free, InCall, Pending
<1> QED
  BY <1>5, <1>7, <1>10, <1>11 DEF Sound

\* A submitted fetch covers the blocks whose placeholders are still to be inserted.
LEMMA SoundPrefetchSubmit ==
  ASSUME TypeOK, TypeOK', Sound, NEW m \in Seq(Key), IsInjective(m),
         Range(m) \intersect Staged = {}, NEW f \in Futures, PrefetchSubmit(m, f)
  PROVE  Sound'
<1> DEFINE fs == Collect(entry', future)
<1>1. /\ MakeRoom
      /\ future[f].state = "free"
      /\ future' = [fs EXCEPT ![f] = [state |-> "queued", todo |-> m, got |-> Nothing]]
      /\ call' = [Idle EXCEPT !.op = "insert", !.todo = m, !.future = f]
  BY DEF PrefetchSubmit
<1>2. /\ Staged' \subseteq Staged
      /\ IndexOK'
      /\ Filled'
      /\ \A k \in Key : entry'[k].future \in {entry[k].future, NoFuture}
  BY <1>1, MakeRoomEntries, MakeRoomSound
<1>3. /\ \A g \in Futures : g # f => future'[g] = fs[g]
      /\ future'[f] = [state |-> "queued", todo |-> m, got |-> Nothing]
  BY <1>1, CollectType DEF TypeOK
<1>4. Covered'
  <2>1. ASSUME NEW k \in Staged', entry'[k].future # NoFuture
        PROVE  Covers(future', entry'[k].future, k)
    <3>1. k \in Key /\ entry'[k].future = entry[k].future /\ entry[k].future # NoFuture
      BY <1>2, <2>1, StagedKeys
    <3>2. entry'[k].future \in Futures /\ Covers(future, entry'[k].future, k)
      BY <3>1, EntryFuture
    <3>3. entry'[k].future # f
      BY <1>1, <3>2 DEF Covers
    <3>4. Covers(fs, entry'[k].future, k)
      BY <2>1, <3>1, <3>2, CoverKept
    <3> QED
      BY <1>3, <3>2, <3>3, <3>4 DEF Covers
  <2> QED
    BY <2>1 DEF Covered, Covers
<1>5. Complete'
  <2>1. \A g \in Futures : fs[g].state = "done" => fs[g].todo = <<>>
    BY CollectComplete DEF Complete, Sound
  <2> QED
    BY <1>3, <2>1 DEF Complete
<1>6. Pending'
  <2>1. call'.todo = m /\ call'.future = f
    BY <1>1 DEF Idle
  <2>2. \A k \in Range(m) : Covers(future', f, k)
    BY <1>3 DEF Covers
  <2> QED
    BY <1>2, <2>1, <2>2 DEF Pending, Covers
<1> QED
  BY <1>2, <1>4, <1>5, <1>6 DEF Sound

\* The placeholders join the index, each with the future that covers it.
LEMMA SoundPrefetchInsert ==
  ASSUME TypeOK, TypeOK', Sound, PrefetchInsert
  PROVE  Sound'
<1> DEFINE m == call.todo
<1>1. /\ m \in Seq(Key) /\ Range(m) \subseteq Key
      /\ IsInjective(m)
      /\ Range(m) \intersect Staged = {}
      /\ call.future \in Futures
      /\ \A k \in Range(m) : Covers(future, call.future, k)
  BY RangeOfSeq DEF PrefetchInsert, TypeOK, Call, Sound, Pending
<1>2. IsInjective(lru') /\ Staged' = Staged \union Range(m)
  BY <1>1, ConcatNew DEF PrefetchInsert, TypeOK, Sound, IndexOK, Staged
<1>3. \A k \in Key :
        entry'[k] = IF k \in Range(m)
                    THEN [data |-> NoData, future |-> call.future, useful |-> FALSE]
                    ELSE entry[k]
  BY DEF PrefetchInsert
<1>4. /\ \A k \in Range(m) : entry'[k].future = call.future
      /\ \A k \in Key : k \notin Range(m) => entry'[k] = entry[k]
  BY <1>1, <1>3
<1>5. IndexOK'
  BY <1>2, <1>4 DEF Sound, IndexOK, Unstaged
<1>6. Filled'
  BY <1>1, <1>2, <1>4, DataFacts, StagedKeys DEF Sound, Filled
<1>7. Covered'
  BY <1>1, <1>2, <1>4, StagedKeys DEF Sound, Covered, Covers, PrefetchInsert
<1>8. Complete' /\ Pending'
  BY DEF PrefetchInsert, Sound, Complete, Pending, InCall, Idle
<1> QED
  BY <1>5, <1>6, <1>7, <1>8 DEF Sound

\* The steps of a read call.
LEMMA SoundReadHit ==
  ASSUME TypeOK, TypeOK', Sound, ReadHit
  PROVE  Sound'
<1> DEFINE k == Head(call.todo)
<1>1. k \in Key /\ k \in Staged /\ Hit(k) /\ future' = Collect(entry', future)
  BY HeadTailProperties DEF ReadHit, TypeOK, Call
<1> HIDE DEF k
<1>2. /\ Staged' = Staged
      /\ IndexOK'
      /\ Filled'
      /\ \A x \in Key : entry'[x].future \in {entry[x].future, NoFuture}
  BY <1>1, HitSound
<1>3. Covered' /\ Complete'
  BY <1>1, <1>2, StagedKeys, CoveredKept
<1>4. Pending'
  BY DEF ReadHit, Pending, InCall, TypeOK, Call
<1> QED
  BY <1>2, <1>3, <1>4 DEF Sound

\* Steps that leave the buffer, its entries and the futures alone.
LEMMA SoundFrame ==
  ASSUME TypeOK, Sound, UNCHANGED <<lru, entry, future>>,
         call'.op # "insert" \/ call' = call
  PROVE  Sound'
<1>1. IndexOK' /\ Covered' /\ Complete' /\ Filled' /\ Staged' = Staged
  BY DEF Sound, IndexOK, Covered, Covers, Complete, Filled, Staged
<1>2. Pending'
  BY <1>1 DEF Sound, Pending, Covers, InCall
<1> QED
  BY <1>1, <1>2 DEF Sound

\* A demand read resolves an entry before it serves it.
LEMMA SoundRead ==
  ASSUME TypeOK, TypeOK', Sound,
         Read \/ ReadPoisoned \/ ReadMiss \/ ReadReturn \/ ReadFails \/ Close
           \/ \E k \in Key : WriteBlock(k)
  PROVE  Sound'
<1>1. UNCHANGED <<lru, entry, future>> /\ (call'.op # "insert" \/ call' = call)
  <2>1. CASE Read
    <3>1. PICK keys \in Seq(Key) : BeginRead(keys)
      BY <2>1, ReadKeys
    <3> QED
      BY <3>1, Zenon DEF BeginRead, Idle
  <2>2. CASE ReadPoisoned \/ ReadReturn \/ ReadFails
    BY <2>2 DEF ReadPoisoned, ReadReturn, ReadFails, Idle
  <2>3. CASE ReadMiss
    BY <2>3 DEF ReadMiss, InCall, TypeOK, Call
  <2>4. CASE Close \/ \E k \in Key : WriteBlock(k)
    BY <2>4 DEF Close, WriteBlock
  <2> QED
    BY <2>1, <2>2, <2>3, <2>4
<1> QED
  BY <1>1, SoundFrame

\* reset_stats empties the buffer and the placeholders with it.
LEMMA SoundReset ==
  ASSUME TypeOK, TypeOK', Sound, ResetStats
  PROVE  Sound'
<1>1. /\ lru' = <<>> /\ Staged' = {}
      /\ \A k \in Key : entry'[k] = Unstaged
      /\ future' = Collect(entry', future)
  BY DEF ResetStats, Staged, Range
<1>2. IndexOK' /\ Filled'
  <2>1. IsInjective(<<>>)
    BY DEF IsInjective
  <2> QED
    BY <1>1, <2>1 DEF IndexOK, Filled, Unstaged
<1>3. Covered' /\ Complete'
  BY <1>1, CoveredKept DEF Unstaged
<1>4. Pending'
  BY DEF ResetStats, Free, InCall, Pending
<1> QED
  BY <1>2, <1>3, <1>4 DEF Sound

\* The steps of the worker threads.
LEMMA SoundWorkerTake ==
  ASSUME TypeOK, TypeOK', Sound, WorkerTake
  PROVE  Sound'
<1>1. /\ Head(queue) \in Futures
      /\ UNCHANGED <<lru, entry, call>>
      /\ future' = [future EXCEPT ![Head(queue)] =
                      [future[Head(queue)] EXCEPT !.state = "running"]]
  BY HeadTailProperties DEF WorkerTake, TypeOK
<1>2. \A g \in Futures : /\ future'[g].todo = future[g].todo
                         /\ future'[g].got = future[g].got
                         /\ \/ future'[g].state = future[g].state
                            \/ future'[g].state = "running"
  BY <1>1 DEF TypeOK, Fetch
<1>3. \A g \in Futures, k \in Key : Covers(future, g, k) => Covers(future', g, k)
  BY <1>2 DEF Covers
<1>4. Covered'
  <2>1. ASSUME NEW k \in Staged, entry[k].future # NoFuture
        PROVE  Covers(future', entry[k].future, k)
    BY <1>3, <2>1, StagedKeys, EntryFuture
  <2> QED
    BY <1>1, <2>1 DEF Covered, Covers, Staged
<1>5. Pending'
  <2>1. ASSUME InCall("insert"), NEW k \in Range(call.todo)
        PROVE  Covers(future', call.future, k)
    <3>1. k \in Key /\ call.future \in Futures /\ Covers(future, call.future, k)
      BY <2>1, RangeOfSeq DEF TypeOK, Call, Sound, Pending
    <3> QED
      BY <1>3, <3>1
  <2> QED
    BY <1>1, <2>1 DEF Sound, Pending, Covers, InCall, Staged
<1>6. Complete'
  BY <1>2 DEF Sound, Complete
<1>7. IndexOK' /\ Filled'
  BY <1>1 DEF Sound, IndexOK, Filled, Staged
<1> QED
  BY <1>4, <1>5, <1>6, <1>7 DEF Sound

\* A fetch that obtains a block.
LEMMA SoundObtained ==
  ASSUME TypeOK, TypeOK', Sound, NEW f \in Futures, future[f].state = "running",
         future[f].todo # <<>>, NEW d \in Nat, call' = call,
         Staged' = Staged, IndexOK', Filled', UNCHANGED <<lru, entry>>,
         future' = Obtained(f, d)
  PROVE  Sound'
<1> DEFINE fs == Obtained(f, d)
<1>1. \A g \in Futures, k \in Key : Covers(future, g, k) => Covers(fs, g, k)
  BY ObtainedCovers
<1>2. Complete'
  <2>1. \A g \in Futures : fs[g].state = "done" => fs[g].todo = <<>>
    BY ObtainedComplete DEF Sound
  <2> HIDE DEF fs
  <2>2. CASE future' = fs
    BY <2>1, <2>2 DEF Complete
  <2>3. CASE future' = Collect(entry', fs)
    BY <2>1, <2>3, CollectComplete DEF Complete
  <2> QED
    BY <2>2, <2>3 DEF fs
<1> HIDE DEF fs
<1>3. ASSUME NEW k \in Key, entry'[k].future # NoFuture
      PROVE  Covers(future', entry'[k].future, k)
  <2>1. entry'[k].future = entry[k].future /\ entry[k].future # NoFuture
    BY <1>3
  <2>2. Covers(fs, entry'[k].future, k) /\ entry'[k].future \in Futures
    BY <1>1, <2>1, EntryFuture
  <2>3. Covers(Collect(entry', fs), entry'[k].future, k)
    BY <1>3, <2>2, CoverKept
  <2> QED
    BY <2>2, <2>3 DEF fs
<1>4. Covered'
  BY <1>3, StagedKeys DEF Covered, Covers
<1>5. Pending'
  <2>1. ASSUME InCall("insert"), NEW k \in Range(call.todo)
        PROVE  Covers(future', call.future, k)
    <3>1. k \in Key /\ call.future \in Futures /\ Covers(future, call.future, k)
      BY <2>1, RangeOfSeq DEF TypeOK, Call, Sound, Pending
    <3>2. Covers(fs, call.future, k)
      BY <1>1, <3>1
    <3>3. Collect(entry', fs)[call.future] = fs[call.future]
      BY <3>1, CollectKeeps DEF HeldIn
    <3> QED
      BY <3>2, <3>3 DEF Covers, fs
  <2> QED
    BY <2>1 DEF Sound, Pending, Covers, InCall
<1> QED
  BY <1>2, <1>4, <1>5 DEF Sound

\* A worker that reads one more block of its batch preserves the invariant.
LEMMA SoundWorkerFetch ==
  ASSUME TypeOK, TypeOK', Sound, NEW f \in Futures, WorkerFetch(f)
  PROVE  Sound'
<1> DEFINE d == store[Head(future[f].todo)]
<1>1. /\ d \in Nat
      /\ future[f].state = "running" /\ future[f].todo # <<>>
      /\ future' = Obtained(f, d)
      /\ UNCHANGED <<lru, entry, call>>
  BY HeadTailProperties DEF WorkerFetch, TypeOK, Fetch
<1>2. Staged' = Staged /\ IndexOK' /\ Filled'
  BY <1>1 DEF Sound, IndexOK, Filled, Staged
<1> HIDE DEF d
<1> QED
  BY <1>1, <1>2, SoundObtained

\* A settled fetch that nobody holds is garbage; one that is held keeps its batch.
LEMMA SoundSettle ==
  ASSUME TypeOK, TypeOK', Sound, NEW f \in Futures, NEW s \in Settled, Settle(f, s),
         s = "done" => future[f].todo = <<>>,
         UNCHANGED <<lru, entry, call>>
  PROVE  Sound'
<1>1. \A g \in Futures : g # f => future'[g] = future[g]
  BY DEF Settle, TypeOK
<1>2. CASE HeldIn(entry, f)
  <2>1. future'[f] = [future[f] EXCEPT !.state = s]
    BY <1>2 DEF Settle, TypeOK
  <2>2. /\ future'[f].todo = future[f].todo
        /\ future'[f].got = future[f].got
        /\ future'[f].state = s /\ s # "free"
    BY <2>1 DEF TypeOK, Fetch, Settled
  <2>3. \A g \in Futures, k \in Key : Covers(future, g, k) => Covers(future', g, k)
    BY <1>1, <2>2 DEF Covers
  <2>4. Covered'
    <3>1. ASSUME NEW k \in Staged, entry[k].future # NoFuture
          PROVE  Covers(future', entry[k].future, k)
      BY <2>3, <3>1, StagedKeys, EntryFuture
    <3> QED
      BY <3>1 DEF Covered, Covers, Staged
  <2>5. Pending'
    <3>1. ASSUME InCall("insert"), NEW k \in Range(call.todo)
          PROVE  Covers(future', call.future, k)
      <4>1. k \in Key /\ call.future \in Futures /\ Covers(future, call.future, k)
        BY <3>1, RangeOfSeq DEF TypeOK, Call, Sound, Pending
      <4> QED
        BY <2>3, <4>1
    <3> QED
      BY <3>1 DEF Sound, Pending, Covers, InCall, Staged
  <2>6. Complete'
    BY <1>1, <2>2 DEF Sound, Complete
  <2> QED
    BY <2>4, <2>5, <2>6 DEF Sound, IndexOK, Filled, Staged
<1>3. CASE ~HeldIn(entry, f)
  <2>1. future'[f] = FreeSlot
    BY <1>3 DEF Settle, TypeOK
  <2>2. call.future # f /\ \A k \in Key : entry[k].future # f
    BY <1>3 DEF HeldIn
  <2>3. Covered'
    <3>1. ASSUME NEW k \in Staged, entry[k].future # NoFuture
          PROVE  Covers(future', entry[k].future, k)
      <4>1. k \in Key /\ entry[k].future \in Futures /\ Covers(future, entry[k].future, k)
        BY <3>1, StagedKeys, EntryFuture
      <4> QED
        BY <1>1, <2>2, <4>1 DEF Covers
    <3> QED
      BY <3>1 DEF Covered, Covers, Staged
  <2>4. Pending'
    BY <1>1, <2>2 DEF Sound, Pending, Covers, InCall, Staged
  <2>5. Complete'
    BY <1>1, <2>1 DEF Sound, Complete, FreeSlot
  <2> QED
    BY <2>3, <2>4, <2>5 DEF Sound, IndexOK, Filled, Staged
<1> QED
  BY <1>2, <1>3

\* Every step of a worker thread preserves the invariant.
LEMMA SoundWorker ==
  ASSUME TypeOK, TypeOK', Sound, NEW f \in Futures, Worker(f)
  PROVE  Sound'
<1>1. CASE WorkerFinish(f)
  <2>1. Settle(f, "done") /\ future[f].todo = <<>> /\ UNCHANGED <<lru, entry, call>>
    BY <1>1 DEF WorkerFinish
  <2> QED
    BY <2>1, SoundSettle DEF Settled
<1>2. CASE WorkerFail(f)
  <2>1. Settle(f, "failed") /\ UNCHANGED <<lru, entry, call>>
    BY <1>2 DEF WorkerFail
  <2> QED
    BY <2>1, SoundSettle DEF Settled
<1> QED
  BY <1>1, <1>2, SoundWorkerFetch DEF Worker

-----------------------------------------------------------------------------
(***************************************************************************)
(* The theorems.                                                           *)
(***************************************************************************)

\* The invariant holds of an adapter that was just built.
LEMMA SoundInit == Init => Sound
<1> SUFFICES ASSUME Init PROVE Sound
  OBVIOUS
<1>1. lru = <<>> /\ Staged = {} /\ \A k \in Key : entry[k] = Unstaged
  BY DEF Init, Staged, Range
<1>2. IsInjective(<<>>)
  BY DEF IsInjective
<1>3. IndexOK /\ Covered /\ Filled
  BY <1>1, <1>2 DEF IndexOK, Covered, Filled
<1>4. Pending /\ Complete
  BY DEF Init, Pending, InCall, Idle, Complete, FreeSlot
<1> QED
  BY <1>3, <1>4 DEF Sound

\* Every kind of prefetch call preserves the invariant.
LEMMA SoundPrefetch ==
  ASSUME TypeOK, TypeOK', Sound, Prefetch
  PROVE  Sound'
<1>1. PICK l \in Layers, B \in SUBSET BlockIds :
        \E m \in Listings(Missing(l, B)) :
          PrefetchSync(m) \/ PrefetchSyncFails(m) \/ \E f \in Futures : PrefetchSubmit(m, f)
  BY DEF Prefetch
<1>2. PICK m \in Listings(Missing(l, B)) :
        PrefetchSync(m) \/ PrefetchSyncFails(m) \/ \E f \in Futures : PrefetchSubmit(m, f)
  BY <1>1
<1>3. m \in Seq(Key) /\ IsInjective(m) /\ Range(m) \intersect Staged = {}
  BY MissingType
<1> QED
  BY <1>2, <1>3, SoundPrefetchSync, SoundPrefetchSyncFails, SoundPrefetchSubmit

\* Every step keeps the index, its futures and a pending insertion consistent.
LEMMA SoundStep == TypeOK /\ TypeOK' /\ Sound /\ [Next]_vars => Sound'
<1> SUFFICES ASSUME TypeOK, TypeOK', Sound, [Next]_vars PROVE Sound'
  OBVIOUS
<1>1. CASE \E k \in Key : EvictBlock(k)
  BY <1>1, SoundEvict
<1>2. CASE Prefetch
  BY <1>2, SoundPrefetch
<1>3. CASE Read \/ ReadPoisoned \/ ReadMiss \/ ReadReturn \/ ReadFails \/ Close
             \/ \E k \in Key : WriteBlock(k)
  BY <1>3, SoundRead
<1>4. CASE PrefetchInsert \/ ReadHit
  BY <1>4, SoundPrefetchInsert, SoundReadHit
<1>5. CASE ResetStats
  BY <1>5, SoundReset
<1>6. CASE WorkerTake \/ \E f \in Futures : Worker(f)
  BY <1>6, SoundWorkerTake, SoundWorker
<1>7. CASE UNCHANGED vars
  BY <1>7, SoundFrame DEF vars
<1> QED
  BY <1>1, <1>2, <1>3, <1>4, <1>5, <1>6, <1>7 DEF Next, Continue

\* The staging buffer stays sound: the inductive invariant from which the two
\* results below follow.
THEOREM SoundAlways == Spec => []Sound
  BY SoundInit, SoundStep, TypeCorrect, PTL DEF Spec

\* The future a staged entry waits for is always live, and its batch has read or
\* will read that entry's block: a demand read never awaits a fetch that cannot
\* fill what it wants.
THEOREM EntriesCovered == Spec => []FutureCoversEntry
<1>1. Sound => FutureCoversEntry
  BY DEF Sound, Covered, Covers, FutureCoversEntry
<1> QED
  BY <1>1, SoundAlways, PTL

\* No hit is ever served from the zero-filled fallback of the read methods.
THEOREM HitsNeverEmpty == Spec => []HitsFilled
<1>1. TypeOK /\ Sound => HitsFilled
  <2> SUFFICES ASSUME TypeOK, Sound, NEW k \in Staged, Ready(k)
               PROVE  Resolved(k)[k].data # NoData
    BY DEF HitsFilled
  <2>1. k \in Key
    BY StagedKeys
  <2>2. CASE entry[k].future = NoFuture
    BY <2>2 DEF Resolved, Sound, Filled
  <2>3. CASE entry[k].future # NoFuture
    <3> DEFINE f == entry[k].future
    <3>1. f \in Futures /\ Covers(future, f, k) /\ future[f].state = "done"
      BY <2>1, <2>3, EntryFuture DEF Ready
    <3>2. future[f].todo = <<>>
      BY <3>1 DEF Sound, Complete
    <3>3. future[f].got[k] # NoData
      BY <3>1, <3>2 DEF Covers, Range
    <3>4. Resolved(k)[k] = [entry[k] EXCEPT !.data = future[f].got[k], !.future = NoFuture]
      BY <2>1, <2>3, <3>3 DEF Resolved
    <3> QED
      BY <2>1, <3>3, <3>4 DEF TypeOK, Entry
  <2> QED
    BY <2>2, <2>3
<1> QED
  BY <1>1, SoundAlways, TypeCorrect, PTL

-----------------------------------------------------------------------------
(***************************************************************************)
(* The account of the prefetches.  The telemetry counts what is staged and *)
(* unread as useless, so each step has to move as many blocks between the  *)
(* counters and the buffer as it takes from either.                        *)
(***************************************************************************)

\* A sequence without duplicates names as many blocks as it is long.
LEMMA CountListing ==
  ASSUME NEW m \in Seq(Key), IsInjective(m)
  PROVE  Cardinality(Range(m)) = Len(m)
<1>1. Len(m) \in Nat /\ m \in [1..Len(m) -> Key] /\ DOMAIN m = 1..Len(m)
  BY LenProperties, SeqDef
<1>2. m \in Surjection(1..Len(m), Range(m)) /\ m \in Injection(1..Len(m), Range(m))
  BY <1>1 DEF Surjection, Injection, IsInjective, Range
<1>3. IsFiniteSet(1..Len(m)) /\ Cardinality(1..Len(m)) = Len(m)
  BY <1>1, FS_Interval
<1> QED
  BY <1>2, <1>3, FS_Surjection

\* Blocks of two disjoint sets are counted apart.
LEMMA CountApart ==
  ASSUME NEW S \in SUBSET Key, NEW T \in SUBSET Key, S \intersect T = {}
  PROVE  /\ Cardinality(S) \in Nat /\ Cardinality(T) \in Nat
         /\ Cardinality(S \union T) = Cardinality(S) + Cardinality(T)
<1>1. /\ IsFiniteSet(S) /\ IsFiniteSet(T)
      /\ Cardinality(S) \in Nat /\ Cardinality(T) \in Nat
  BY KeyFinite
<1>2. Cardinality(S \intersect T) = 0
  BY FS_EmptySet
<1>3. Cardinality(S \union T) =
        Cardinality(S) + Cardinality(T) - Cardinality(S \intersect T)
  BY <1>1, FS_Union
<1> QED
  BY <1>1, <1>2, <1>3

\* The prefetches that are accounted for, with u blocks staged and unread.
Accounted(s, u) ==
  /\ s.requests = s.useful + s.useless + u + s.dropped
  /\ s.useful <= s.hits

Account == Accounted(stats, Cardinality(Unread(Staged)))

\* A hit takes the block it serves from those that wait to be read.
LEMMA AccountHit ==
  ASSUME TypeOK, Sound, Account, NEW k \in Key, k \in Staged, Hit(k)
  PROVE  Account'
<1> DEFINE U == Unread(Staged)
<1>1. Staged' = Staged /\ U \in SUBSET Key /\ IsFiniteSet(U) /\ Cardinality(U) \in Nat
  BY HitSound, StagedKeys, KeyFinite DEF Unread
<1>2. \A x \in Key : x # k => entry'[x].useful = entry[x].useful
  <2>1. Resolved(k) \in [Key -> Entry] /\ \A x \in Key : entry[x] \in Entry
    BY ResolvedType DEF TypeOK
  <2>2. \A x \in Key : Resolved(k)[x].useful = entry[x].useful
    BY <2>1, Zenon DEF Resolved, Entry
  <2> QED
    BY <2>1, <2>2 DEF Hit
<1>3. entry'[k].useful = TRUE
  BY ResolvedType DEF Hit, Entry
<1>4. Unread(Staged)' = U \ {k}
  BY <1>1, <1>2, <1>3, StagedKeys DEF Unread
<1>5. stats \in Counters
  BY DEF TypeOK
<1>6. CASE entry[k].useful
  <2>1. k \notin U
    BY <1>6 DEF Unread
  <2>2. stats' = [stats EXCEPT !.hits = @ + 1]
    BY <1>5, <1>6 DEF Hit, Counters
  <2> HIDE DEF U
  <2>3. Unread(Staged)' = U
    BY <1>4, <2>1
  <2> QED
    BY <1>1, <1>5, <2>2, <2>3 DEF Account, Accounted, Counters, U
<1>7. CASE ~entry[k].useful
  <2>1. k \in U
    BY <1>7 DEF Unread
  <2>2. stats' = [stats EXCEPT !.hits = @ + 1, !.useful = @ + 1]
    BY <1>5, <1>7 DEF Hit, Counters
  <2> HIDE DEF U
  <2>3. Cardinality(U \ {k}) = Cardinality(U) - 1
    BY <1>1, <2>1, FS_RemoveElement
  <2> QED
    BY <1>1, <1>4, <1>5, <2>2, <2>3 DEF Account, Accounted, Counters, U
<1> QED
  BY <1>6, <1>7

\* A block evicted unread moves from the buffer to the dropped ones.
LEMMA AccountEvict ==
  ASSUME TypeOK, Sound, Account, NEW k \in Key, EvictBlock(k)
  PROVE  Account'
<1> DEFINE U == Unread(Staged)
<1>1. U \in SUBSET Key /\ IsFiniteSet(U) /\ Cardinality(U) \in Nat /\ stats \in Counters
  BY StagedKeys, KeyFinite DEF Unread, TypeOK
<1>2. CASE k \notin Staged
  BY <1>2 DEF EvictBlock, Account, Accounted, Unread, Staged
<1>3. CASE k \in Staged
  <2>1. Staged' = Staged \ {k}
    BY <1>3, WithoutNew DEF EvictBlock, TypeOK, Sound, IndexOK, Staged
  <2>2. \A x \in Key : x # k => entry'[x] = entry[x]
    BY <1>3 DEF EvictBlock, TypeOK
  <2>3. Unread(Staged)' = U \ {k}
    BY <2>1, <2>2, StagedKeys DEF Unread
  <2>4. CASE entry[k].useful
    <3>1. k \notin U /\ stats' = stats
      BY <1>1, <1>3, <2>4 DEF Unread, EvictBlock, Counters
    <3> HIDE DEF U
    <3>2. Unread(Staged)' = U
      BY <2>3, <3>1
    <3> QED
      BY <3>1, <3>2 DEF Account, U
  <2>5. CASE ~entry[k].useful
    <3>1. k \in U /\ stats' = [stats EXCEPT !.dropped = @ + 1]
      BY <1>1, <1>3, <2>5 DEF Unread, EvictBlock, Counters
    <3> HIDE DEF U
    <3>2. Cardinality(U \ {k}) = Cardinality(U) - 1
      BY <1>1, <3>1, FS_RemoveElement
    <3> QED
      BY <1>1, <2>3, <3>1, <3>2 DEF Account, Accounted, Counters, U
  <2> QED
    BY <2>4, <2>5
<1> QED
  BY <1>2, <1>3

\* Making room splits the unread blocks into the kept ones and the useless ones.
LEMMA UnreadSplit ==
  ASSUME TypeOK
  PROVE  /\ Unread(Range(Kept)) \in SUBSET Key /\ Unread(Evicted) \in SUBSET Key
         /\ Cardinality(Unread(Range(Kept))) \in Nat
         /\ Cardinality(Unread(Evicted)) \in Nat
         /\ Cardinality(Unread(Staged)) =
              Cardinality(Unread(Range(Kept))) + Cardinality(Unread(Evicted))
<1>1. Range(Kept) \subseteq Staged /\ Staged \in SUBSET Key /\ Evicted = Staged \ Range(Kept)
  BY KeptType, StagedKeys DEF TypeOK, Evicted
<1>2. /\ Unread(Range(Kept)) \in SUBSET Key
      /\ Unread(Evicted) \in SUBSET Key
      /\ Unread(Range(Kept)) \intersect Unread(Evicted) = {}
      /\ Unread(Staged) = Unread(Range(Kept)) \union Unread(Evicted)
  BY <1>1 DEF Unread
<1> QED
  BY <1>2, CountApart

\* Room that is made without an insertion keeps the account.
LEMMA AccountRoom ==
  ASSUME TypeOK, Sound, Account, MakeRoom
  PROVE  Account'
<1> DEFINE kept == Cardinality(Unread(Range(Kept)))
           gone == Cardinality(Unread(Evicted))
<1>1. kept \in Nat /\ gone \in Nat /\ Cardinality(Unread(Staged)) = kept + gone
  BY UnreadSplit
<1>2. Staged' = Range(Kept) /\ \A k \in Staged' : entry'[k] = entry[k]
  BY MakeRoomEntries DEF Staged
<1>3. Unread(Staged)' = Unread(Range(Kept))
  BY <1>2 DEF Unread
<1>4. stats \in Counters /\ stats' = [stats EXCEPT !.useless = @ + gone]
  BY DEF MakeRoom, TypeOK
<1> HIDE DEF gone
<1>5. Cardinality(Unread(Staged))' = kept
  BY <1>3
<1> HIDE DEF kept
<1> QED
  BY <1>1, <1>4, <1>5 DEF Account, Accounted, Counters

\* A block that is inserted is a request that waits to be read.
LEMMA AccountSync ==
  ASSUME TypeOK, Sound, Account, NEW m \in Seq(Key), IsInjective(m),
         Range(m) \intersect Staged = {}, PrefetchSync(m)
  PROVE  Account'
<1> DEFINE kept == Cardinality(Unread(Range(Kept)))
           gone == Cardinality(Unread(Evicted))
<1>1. /\ kept \in Nat /\ gone \in Nat /\ Cardinality(Unread(Staged)) = kept + gone
      /\ Unread(Range(Kept)) \in SUBSET Key
  BY UnreadSplit
<1>2. /\ Range(Kept) \subseteq Staged /\ Staged \in SUBSET Key
      /\ Staged' = Range(Kept) \union Range(m) /\ Range(m) \in SUBSET Key
  BY KeptType, StagedKeys, RangeConcatenation, RangeOfSeq DEF TypeOK, PrefetchSync, Staged
<1>3. \A k \in Key :
        entry'[k] = IF k \in Range(m)
                    THEN [data |-> store[k], future |-> NoFuture, useful |-> FALSE]
                    ELSE IF k \in Evicted THEN Unstaged ELSE entry[k]
  BY DEF PrefetchSync
<1>4. \A k \in Range(m) : entry'[k].useful = FALSE
  <2>1. SUFFICES ASSUME NEW k \in Range(m) PROVE entry'[k].useful = FALSE
    OBVIOUS
  <2>2. entry'[k] = [data |-> store[k], future |-> NoFuture, useful |-> FALSE]
    BY <1>2, <1>3, <2>1, Zenon
  <2> QED
    BY <2>2
<1>5. \A k \in Range(Kept) : entry'[k] = entry[k]
  BY <1>2, <1>3 DEF Evicted
<1>6. Unread(Staged)' = Unread(Range(Kept)) \union Range(m)
  BY <1>2, <1>4, <1>5 DEF Unread
<1>7. Unread(Range(Kept)) \intersect Range(m) = {}
  BY <1>2 DEF Unread
<1>8. Cardinality(Unread(Staged)') = kept + Len(m) /\ Len(m) \in Nat
  <2>1. Cardinality(Range(m)) = Len(m) /\ Len(m) \in Nat
    BY CountListing, LenProperties
  <2>2. Cardinality(Unread(Range(Kept)) \union Range(m)) = kept + Cardinality(Range(m))
    BY <1>1, <1>2, <1>7, CountApart
  <2> QED BY <1>6, <2>1, <2>2
<1>9. /\ stats \in Counters
      /\ stats' = [stats EXCEPT !.useless = @ + gone, !.requests = @ + Len(m)]
  BY DEF PrefetchSync, TypeOK
<1> HIDE DEF kept, gone
<1> QED
  BY <1>1, <1>8, <1>9 DEF Account, Accounted, Counters

\* So is a placeholder.
LEMMA AccountInsert ==
  ASSUME TypeOK, Sound, Account, PrefetchInsert
  PROVE  Account'
<1> DEFINE m == call.todo
           u == Cardinality(Unread(Staged))
<1>1. /\ m \in Seq(Key) /\ Range(m) \in SUBSET Key /\ IsInjective(m)
      /\ Range(m) \intersect Staged = {}
      /\ Staged \in SUBSET Key
  BY RangeOfSeq, StagedKeys DEF PrefetchInsert, TypeOK, Call, Sound, Pending
<1>2. Staged' = Staged \union Range(m)
  BY <1>1, RangeConcatenation DEF PrefetchInsert, TypeOK, Staged
<1>3. \A k \in Key :
        entry'[k] = IF k \in Range(m)
                    THEN [data |-> NoData, future |-> call.future, useful |-> FALSE]
                    ELSE entry[k]
  BY DEF PrefetchInsert
<1>4. \A k \in Range(m) : entry'[k].useful = FALSE
  BY <1>1, <1>3
<1>5. \A k \in Staged : entry'[k] = entry[k]
  BY <1>1, <1>3
<1>6. /\ Unread(Staged)' = Unread(Staged) \union Range(m)
      /\ Unread(Staged) \in SUBSET Key
      /\ Unread(Staged) \intersect Range(m) = {}
  BY <1>1, <1>2, <1>4, <1>5 DEF Unread
<1>7. Cardinality(Unread(Staged)') = u + Len(m) /\ Len(m) \in Nat /\ u \in Nat
  BY <1>1, <1>6, CountApart, CountListing, LenProperties
<1>8. stats \in Counters /\ stats' = [stats EXCEPT !.requests = @ + Len(m)]
  BY DEF PrefetchInsert, TypeOK
<1> HIDE DEF m
<1> QED
  BY <1>7, <1>8 DEF Account, Accounted, Counters

\* Steps that leave the buffer, its entries and these counters alone.
LEMMA AccountFrame ==
  ASSUME TypeOK, Account, UNCHANGED <<lru, entry>>,
         stats' = stats \/ \E n : stats' = [stats EXCEPT !.misses = n]
  PROVE  Account'
<1>1. Unread(Staged)' = Unread(Staged)
  BY DEF Unread, Staged
<1>2. stats \in Counters
  BY DEF TypeOK
<1> QED
  BY <1>1, <1>2 DEF Account, Accounted, Counters

\* Every step keeps the account.
LEMMA AccountStep == TypeOK /\ Sound /\ Account /\ [Next]_vars => Account'
<1> SUFFICES ASSUME TypeOK, Sound, Account, [Next]_vars PROVE Account'
  OBVIOUS
<1>1. CASE \E k \in Key : EvictBlock(k)
  BY <1>1, AccountEvict
<1>2. CASE Prefetch
  <2>1. PICK l \in Layers, B \in SUBSET BlockIds :
          \E m \in Listings(Missing(l, B)) :
            PrefetchSync(m) \/ PrefetchSyncFails(m) \/ \E f \in Futures : PrefetchSubmit(m, f)
    BY <1>2 DEF Prefetch
  <2>2. PICK m \in Listings(Missing(l, B)) :
          PrefetchSync(m) \/ PrefetchSyncFails(m) \/ \E f \in Futures : PrefetchSubmit(m, f)
    BY <2>1
  <2>3. m \in Seq(Key) /\ IsInjective(m) /\ Range(m) \intersect Staged = {}
    BY MissingType
  <2>4. CASE PrefetchSync(m)
    BY <2>3, <2>4, AccountSync
  <2>5. CASE ~PrefetchSync(m)
    BY <2>2, <2>5, AccountRoom DEF PrefetchSyncFails, PrefetchSubmit
  <2> QED
    BY <2>4, <2>5
<1>3. CASE PrefetchInsert
  BY <1>3, AccountInsert
<1>4. CASE ReadHit
  <2>1. Head(call.todo) \in Key /\ Head(call.todo) \in Staged /\ Hit(Head(call.todo))
    BY <1>4, HeadTailProperties DEF ReadHit, TypeOK, Call
  <2> QED
    BY <2>1, AccountHit
<1>5. CASE ResetStats
  <2>1. Unread(Staged)' = {} /\ stats' = NoCounts
    BY <1>5 DEF ResetStats, Unread, Staged, Range
  <2> QED
    BY <2>1, FS_EmptySet DEF Account, Accounted, NoCounts
<1>6. CASE ReadReturn
  BY <1>6, AccountFrame DEF ReadReturn
<1>7. CASE \/ Read \/ ReadPoisoned \/ ReadMiss \/ ReadFails \/ Close \/ WorkerTake
           \/ UNCHANGED vars
           \/ \E k \in Key : WriteBlock(k)
           \/ \E f \in Futures : WorkerFetch(f) \/ WorkerFinish(f) \/ WorkerFail(f)
  <2>1. UNCHANGED <<lru, entry, stats>>
    BY <1>7 DEF Read, BeginRead, ReadPoisoned, ReadMiss, ReadFails, Close, WorkerTake, vars,
                WriteBlock, WorkerFetch, WorkerFinish, WorkerFail
  <2> QED
    BY <2>1, AccountFrame
<1> QED
  BY <1>1, <1>2, <1>3, <1>4, <1>5, <1>6, <1>7 DEF Next, Continue, Worker

\* The telemetry accounts for every prefetch: it was read, it was evicted or is staged
\* unread, or evict_block dropped it; and no more of them are useful than there were
\* hits, whatever the caller and the workers interleave.
THEOREM BalanceAlways == Spec => []Balance
<1>1. Init => Account
  <2> SUFFICES ASSUME Init PROVE Account
    OBVIOUS
  <2>1. Unread(Staged) = {} /\ stats = NoCounts
    BY DEF Init, Unread, Staged, Range
  <2> QED
    BY <2>1, FS_EmptySet DEF Account, Accounted, NoCounts
<1>2. TypeOK /\ Account => Balance
  <2> SUFFICES ASSUME TypeOK, Account PROVE Balance
    OBVIOUS
  <2>1. stats \in Counters /\ Cardinality(Unread(Staged)) \in Nat
    BY StagedKeys, UnreadCount DEF TypeOK
  <2> QED
    BY <2>1 DEF Account, Accounted, Balance, Telemetry, Counters
<1> QED
  BY <1>1, <1>2, AccountStep, TypeCorrect, SoundAlways, PTL DEF Spec

=============================================================================
