---------------------------- MODULE SequenceLemmas ----------------------------
(***************************************************************************)
(* Facts about sequences and about sums over finite sets that the proofs of*)
(* several components use.                                                 *)
(***************************************************************************)
EXTENDS Integers, SequencesExt, SequenceTheorems, FiniteSetTheorems, WellFoundedInduction, TLAPS

\* The elements of a non-empty sequence are its head and those of its tail.
LEMMA HeadTailRange ==
  ASSUME NEW S, NEW s \in Seq(S), s # <<>>
  PROVE  Range(s) = {Head(s)} \union Range(Tail(s))
<1>1. /\ Len(s) \in Nat /\ DOMAIN s = 1..Len(s) /\ Len(s) # 0
      /\ Tail(s) \in Seq(S) /\ Len(Tail(s)) = Len(s) - 1
      /\ \A i \in 1..Len(Tail(s)) : Tail(s)[i] = s[i+1]
      /\ Head(s) = s[1]
  BY LenProperties, EmptySeq, HeadTailProperties
<1>2. DOMAIN Tail(s) = 1..Len(Tail(s))
  BY <1>1, LenProperties
<1>3. ASSUME NEW x \in Range(s)
      PROVE  x \in {Head(s)} \union Range(Tail(s))
  <2>1. PICK i \in 1..Len(s) : s[i] = x
    BY <1>1 DEF Range
  <2>2. CASE i = 1
    BY <1>1, <2>1, <2>2
  <2>3. CASE i # 1
    <3>1. i - 1 \in 1..Len(Tail(s)) /\ Tail(s)[i-1] = x
      BY <1>1, <2>1, <2>3
    <3> QED
      BY <1>2, <3>1 DEF Range
  <2> QED
    BY <2>2, <2>3
<1>4. ASSUME NEW x \in {Head(s)} \union Range(Tail(s))
      PROVE  x \in Range(s)
  <2>1. CASE x = Head(s)
    <3>1. 1 \in DOMAIN s
      BY <1>1
    <3> QED
      BY <1>1, <2>1, <3>1 DEF Range
  <2>2. CASE x \in Range(Tail(s))
    <3>1. PICK i \in 1..Len(Tail(s)) : Tail(s)[i] = x
      BY <1>2, <2>2 DEF Range
    <3>2. i + 1 \in DOMAIN s /\ s[i+1] = x
      BY <1>1, <3>1
    <3> QED
      BY <3>2 DEF Range
  <2> QED
    BY <2>1, <2>2
<1> QED
  BY <1>3, <1>4

\* What is left of a sequence without duplicates has none, and lacks the head.
LEMMA TailInjective ==
  ASSUME NEW S, NEW s \in Seq(S), s # <<>>, IsInjective(s)
  PROVE  /\ Tail(s) \in Seq(S)
         /\ Head(s) \in S
         /\ IsInjective(Tail(s))
         /\ Head(s) \notin Range(Tail(s))
<1>1. /\ Len(s) \in Nat /\ DOMAIN s = 1..Len(s) /\ Len(s) # 0
      /\ Tail(s) \in Seq(S) /\ Len(Tail(s)) = Len(s) - 1
      /\ \A i \in 1..Len(Tail(s)) : Tail(s)[i] = s[i+1]
      /\ Head(s) = s[1] /\ Head(s) \in S
  BY LenProperties, EmptySeq, HeadTailProperties
<1>2. DOMAIN Tail(s) = 1..Len(Tail(s))
  BY <1>1, LenProperties
<1>3. ASSUME NEW a \in DOMAIN Tail(s), NEW b \in DOMAIN Tail(s), Tail(s)[a] = Tail(s)[b]
      PROVE  a = b
  <2>1. s[a+1] = s[b+1] /\ a+1 \in DOMAIN s /\ b+1 \in DOMAIN s
    BY <1>1, <1>2, <1>3
  <2>2. a + 1 = b + 1
    BY <2>1 DEF IsInjective
  <2> QED
    BY <1>1, <1>2, <2>2
<1>4. ASSUME NEW a \in DOMAIN Tail(s), Tail(s)[a] = Head(s)
      PROVE  FALSE
  <2>1. s[a+1] = s[1] /\ a+1 \in DOMAIN s /\ 1 \in DOMAIN s
    BY <1>1, <1>2, <1>4
  <2>2. a + 1 = 1
    BY <2>1 DEF IsInjective
  <2> QED
    BY <1>1, <1>2, <2>2
<1> QED
  BY <1>1, <1>3, <1>4 DEF IsInjective, Range

\* A sequence without one of its elements.
LEMMA RemoveAtIs ==
  ASSUME NEW S, NEW s, s \in Seq(S), NEW at, at \in 1..Len(s)
  PROVE  /\ RemoveAt(s, at) \in Seq(S) /\ Len(RemoveAt(s, at)) = Len(s) - 1
         /\ \A i \in 1..Len(RemoveAt(s, at)) : RemoveAt(s, at)[i] = s[IF i < at THEN i ELSE i + 1]
<1>1. /\ Len(s) \in Nat /\ at \in Int /\ at >= 1 /\ at <= Len(s)
      /\ \A i \in 1..Len(s) : s[i] \in S
  BY LenProperties, ElementOfSeq
<1>2. PICK L, p, q : L = Len(s) /\ p = SubSeq(s, 1, at - 1) /\ q = SubSeq(s, at + 1, Len(s))
  OBVIOUS
<1>3. /\ p \in Seq(S) /\ Len(p) = at - 1
      /\ \A i \in 1..(at - 1) : p[i] = s[i]
  <2>1. /\ at - 1 \in Int /\ 1 \in Int /\ (\A i \in 1..(at - 1) : s[i] \in S)
    BY <1>1
  <2>2. /\ p \in Seq(S) /\ Len(p) = IF 1 <= at - 1 THEN (at - 1) - 1 + 1 ELSE 0
        /\ \A i \in 1..((at - 1) - 1 + 1) : p[i] = s[1 + i - 1]
    BY <1>2, <2>1, SubSeqProperties
  <2> QED BY <1>1, <2>2
<1>4. /\ q \in Seq(S) /\ Len(q) = L - at
      /\ \A i \in 1..(L - at) : q[i] = s[at + i]
  <2>1. /\ at + 1 \in Int /\ L \in Int /\ (\A i \in (at + 1)..L : s[i] \in S)
    BY <1>1, <1>2
  <2>2. /\ q \in Seq(S) /\ Len(q) = IF at + 1 <= L THEN L - (at + 1) + 1 ELSE 0
        /\ \A i \in 1..(L - (at + 1) + 1) : q[i] = s[(at + 1) + i - 1]
    BY <1>2, <2>1, SubSeqProperties
  <2> QED BY <1>1, <1>2, <2>2
<1>5. PICK r : r = p \o q
  OBVIOUS
<1>6. /\ r \in Seq(S) /\ Len(r) = Len(p) + Len(q)
      /\ \A i \in 1..(Len(p) + Len(q)) : r[i] = IF i <= Len(p) THEN p[i] ELSE q[i - Len(p)]
  BY <1>3, <1>4, <1>5, ConcatProperties
<1>7. Len(r) = Len(s) - 1
  BY <1>1, <1>2, <1>3, <1>4, <1>6
<1>8. ASSUME NEW i \in 1..Len(r) PROVE r[i] = s[IF i < at THEN i ELSE i + 1]
  <2>1. r[i] = IF i <= at - 1 THEN p[i] ELSE q[i - (at - 1)]
    BY <1>3, <1>6
  <2>2. CASE i < at
    <3>1. i <= at - 1 /\ i \in 1..(at - 1)
      BY <1>1, <2>2
    <3> QED BY <1>3, <2>1, <2>2, <3>1
  <2>3. CASE ~(i < at)
    <3>1. i - (at - 1) \in 1..(L - at) /\ ~(i <= at - 1) /\ at + (i - (at - 1)) = i + 1
      BY <1>1, <1>2, <1>7, <2>3
    <3>2. q[i - (at - 1)] = s[at + (i - (at - 1))]
      BY <1>4, <3>1
    <3> QED BY <2>1, <2>3, <3>1, <3>2
  <2> QED BY <2>2, <2>3
<1>9. RemoveAt(s, at) = r
  BY <1>2, <1>5 DEF RemoveAt
<1> QED BY <1>6, <1>7, <1>8, <1>9

\* A sequence without duplicates loses just the element that is removed.
LEMMA RemoveAtInjective ==
  ASSUME NEW S, NEW s, s \in Seq(S), IsInjective(s), NEW at, at \in 1..Len(s)
  PROVE  /\ IsInjective(RemoveAt(s, at))
         /\ Range(RemoveAt(s, at)) = Range(s) \ {s[at]}
<1>1. PICK r : r = RemoveAt(s, at)
  OBVIOUS
<1>2. /\ r \in Seq(S) /\ Len(r) = Len(s) - 1
      /\ \A i \in 1..Len(r) : r[i] = s[IF i < at THEN i ELSE i + 1]
  BY <1>1, RemoveAtIs
<1>3. /\ Len(s) \in Nat /\ DOMAIN s = 1..Len(s) /\ DOMAIN r = 1..Len(r)
      /\ \A a, b \in 1..Len(s) : s[a] = s[b] => a = b
  BY <1>2, LenProperties DEF IsInjective
<1>. DEFINE From(i) == IF i < at THEN i ELSE i + 1
<1>4. ASSUME NEW i \in 1..Len(r) PROVE From(i) \in 1..Len(s) /\ From(i) # at /\ r[i] = s[From(i)]
  BY <1>2, <1>3
<1>5. ASSUME NEW i \in 1..Len(r), NEW j \in 1..Len(r), r[i] = r[j] PROVE i = j
  <2>1. s[From(i)] = s[From(j)] /\ From(i) \in 1..Len(s) /\ From(j) \in 1..Len(s)
    BY <1>4, <1>5
  <2>2. From(i) = From(j)
    <3>. HIDE DEF From
    <3> QED BY <1>3, <2>1
  <2> QED BY <1>2, <1>3, <2>2
<1>6. ASSUME NEW x \in Range(r) PROVE x \in Range(s) \ {s[at]}
  <2>1. PICK i \in 1..Len(r) : r[i] = x
    BY <1>3 DEF Range
  <2>2. PICK k \in 1..Len(s) : k # at /\ s[k] = x
    BY <1>4, <2>1
  <2>3. s[k] # s[at]
    BY <1>3, <2>2
  <2> QED BY <1>3, <2>2, <2>3 DEF Range
<1>7. ASSUME NEW x \in Range(s) \ {s[at]} PROVE x \in Range(r)
  <2>1. PICK k \in 1..Len(s) : s[k] = x /\ k # at
    BY <1>3 DEF Range
  <2>2. PICK i \in 1..Len(r) : From(i) = k
    <3>1. CASE k < at
      BY <1>2, <1>3, <3>1
    <3>2. CASE k > at
      <4>1. k - 1 \in 1..Len(r) /\ ~(k - 1 < at) /\ (k - 1) + 1 = k
        BY <1>2, <1>3, <3>2
      <4> QED BY <4>1
    <3> QED BY <1>3, <2>1, <3>1, <3>2
  <2>3. r[i] = x
    BY <1>4, <2>1, <2>2
  <2> QED BY <1>3, <2>3 DEF Range
<1> QED BY <1>1, <1>3, <1>5, <1>6, <1>7 DEF IsInjective

\* The tail of a non-empty sequence is empty when that has one element, and only then.
LEMMA TailEmpty ==
  ASSUME NEW S, NEW s \in Seq(S), s # <<>>
  PROVE  (Len(s) > 1) <=> (Tail(s) # <<>>)
<1>1. /\ Len(s) \in Nat /\ Len(s) # 0
      /\ Tail(s) \in Seq(S) /\ Len(Tail(s)) = Len(s) - 1
  BY LenProperties, EmptySeq, HeadTailProperties
<1>2. Tail(s) = <<>> <=> Len(Tail(s)) = 0
  BY <1>1, EmptySeq
<1>3. (Len(s) > 1) <=> (Len(Tail(s)) # 0)
  BY <1>1, SMTT(30)
<1> QED
  BY <1>2, <1>3

\* Sequences of one element and of two.
LEMMA Tuples ==
  ASSUME NEW S, NEW x \in S, NEW y \in S
  PROVE  /\ <<x>> \in Seq(S) /\ Len(<<x>>) = 1 /\ <<x>>[1] = x
         /\ <<x, y>> \in Seq(S) /\ Len(<<x, y>>) = 2 /\ <<x, y>>[1] = x /\ <<x, y>>[2] = y
         /\ <<>> \in Seq(S) /\ Len(<<>>) = 0
         /\ Append(<<>>, x) = <<x>>
         /\ Append(<<x>>, y) = <<x, y>>
<1>1. /\ <<x>> \in Seq(S) /\ Len(<<x>>) = 1 /\ <<x>>[1] = x
      /\ <<x, y>> \in Seq(S) /\ Len(<<x, y>>) = 2 /\ <<x, y>>[1] = x /\ <<x, y>>[2] = y
      /\ <<>> \in Seq(S) /\ Len(<<>>) = 0
  OBVIOUS
<1>2. Append(<<>>, x) = <<x>>
  <2>1. PICK s \in Seq(S) : s = Append(<<>>, x)
    BY <1>1, AppendProperties
  <2>2. Len(s) = 1 /\ s[1] = x
    BY <1>1, <2>1, AppendProperties
  <2> QED
    BY <1>1, <2>1, <2>2, SeqEqual
<1>3. Append(<<x>>, y) = <<x, y>>
  <2>1. PICK s \in Seq(S) : s = Append(<<x>>, y)
    BY <1>1, AppendProperties
  <2>2. Len(s) = 2 /\ s[1] = x /\ s[2] = y
    BY <1>1, <2>1, AppendProperties
  <2>3. PICK r \in Seq(S) : r = <<x, y>> /\ Len(r) = 2 /\ r[1] = x /\ r[2] = y
    BY <1>1
  <2>4. s = r
    <3>1. \A i \in 1..Len(s) : s[i] = r[i]
      BY <2>2, <2>3
    <3> QED
      BY <2>2, <2>3, <3>1, SeqEqual
  <2> QED
    BY <2>1, <2>3, <2>4
<1> QED
  BY <1>1, <1>2, <1>3

\* Induction on a set: one that contains 0 and, with every number, the next one.
LEMMA SetInduction ==
  ASSUME NEW X, 0 \in X, \A n \in Nat : n \in X => n + 1 \in X
  PROVE  Nat \subseteq X
<1>. DEFINE T == {n \in Nat : n \notin X}
<1> SUFFICES ASSUME T # {} PROVE FALSE
  OBVIOUS
<1>1. PICK x \in T : \A y \in T : <<y, x>> \notin OpToRel(<, Nat)
  <2>1. T \subseteq Nat
    OBVIOUS
  <2>. HIDE DEF T
  <2> QED
    BY <2>1, WFMin, NatLessThanWellFounded
<1>2. x \in Nat /\ x # 0 /\ x \notin X
  OBVIOUS
<1>3. x - 1 \in Nat /\ x - 1 < x /\ (x - 1) + 1 = x
  BY <1>2
<1>4. x - 1 \in T
  BY <1>2, <1>3
<1>5. <<x - 1, x>> \in OpToRel(<, Nat)
  BY <1>2, <1>3 DEF OpToRel
<1> QED
  BY <1>1, <1>4, <1>5

\* How FlattenSeq joins its elements, from the first to the last.
Joins(f, seqs, n) ==
  \A i \in 1..n : f[i] = IF i = 1 THEN seqs[1] ELSE f[i-1] \o seqs[i]

\* The same, for one of the steps of the join.
LEMMA JoinsAt ==
  ASSUME NEW f, NEW seqs, NEW n \in Nat, Joins(f, seqs, n), NEW i \in 1..n
  PROVE  IF i = 1 THEN f[i] = seqs[1] ELSE f[i] = f[i-1] \o seqs[i]
<1>1. f[i] = IF i = 1 THEN seqs[1] ELSE f[i-1] \o seqs[i]
  BY Zenon DEF Joins
<1> QED BY <1>1, Zenon

\* FlattenSeq is the last of the partial joins.
LEMMA FlattenJoins ==
  ASSUME NEW S, NEW seqs \in Seq(Seq(S)), seqs # <<>>
  PROVE  \E f \in [1..Len(seqs) -> Seq(S)] :
            Joins(f, seqs, Len(seqs)) /\ FlattenSeq(seqs) = f[Len(seqs)]
<1>. DEFINE N == Len(seqs)
<1>1. N \in Nat /\ N # 0 /\ DOMAIN seqs = 1..N /\ \A i \in 1..N : seqs[i] \in Seq(S)
  BY EmptySeq, LenProperties, ElementOfSeq
<1>. HIDE DEF N
<1>. DEFINE X == {n \in Nat : n <= N => \E f \in [1..n -> Seq(S)] : Joins(f, seqs, n)}
<1>2. 0 \in X
  <2>1. [i \in 1..0 |-> <<>>] \in [1..0 -> Seq(S)] /\ 1..0 = {}
    OBVIOUS
  <2>2. Joins([i \in 1..0 |-> <<>>], seqs, 0)
    BY <2>1 DEF Joins
  <2> QED
    BY <2>1, <2>2
<1>3. ASSUME NEW n \in Nat, n \in X PROVE n + 1 \in X
  <2> SUFFICES ASSUME n + 1 <= N
               PROVE  \E f \in [1..(n+1) -> Seq(S)] : Joins(f, seqs, n + 1)
    OBVIOUS
  <2>1. PICK f \in [1..n -> Seq(S)] : Joins(f, seqs, n)
    BY <1>1, <1>3
  <2>. DEFINE last == IF n = 0 THEN seqs[1] ELSE f[n] \o seqs[n+1]
              g == [i \in 1..(n+1) |-> IF i = n + 1 THEN last ELSE f[i]]
  <2>2. last \in Seq(S)
    <3>1. n # 0 => f[n] \in Seq(S)
      BY <2>1
    <3>2. seqs[1] \in Seq(S) /\ seqs[n+1] \in Seq(S)
      BY <1>1
    <3> QED
      BY <3>1, <3>2, ConcatProperties
  <2>3. g \in [1..(n+1) -> Seq(S)]
    <3>. HIDE DEF last
    <3> QED BY <2>1, <2>2
  <2>4. \A i \in 1..n : g[i] = f[i]
    <3>. HIDE DEF last
    <3>1. \A i \in 1..n : i \in 1..(n+1) /\ i # n + 1
      OBVIOUS
    <3> QED BY <3>1
  <2>5. g[n+1] = last
    OBVIOUS
  <2>6. ASSUME NEW i \in 1..(n+1)
        PROVE  g[i] = IF i = 1 THEN seqs[1] ELSE g[i-1] \o seqs[i]
    <3>1. CASE i = n + 1
      <4>1. CASE n = 0
        BY <3>1, <4>1, <2>5
      <4>2. CASE n # 0
        <5>1. g[n] = f[n] /\ i # 1 /\ i - 1 = n
          BY <2>4, <3>1, <4>2
        <5>. HIDE DEF g
        <5> QED
          BY <2>5, <3>1, <4>2, <5>1
      <4> QED
        BY <4>1, <4>2
    <3>2. CASE i # n + 1
      <4>1. i \in 1..n /\ (i # 1 => i - 1 \in 1..n)
        BY <3>2
      <4>2. f[i] = IF i = 1 THEN seqs[1] ELSE f[i-1] \o seqs[i]
        BY <2>1, <4>1 DEF Joins
      <4>. HIDE DEF g, last
      <4> QED
        BY <2>4, <4>1, <4>2
    <3> QED
      BY <3>1, <3>2
  <2>. HIDE DEF g
  <2> QED
    BY <2>3, <2>6 DEF Joins
<1>4. PICK f \in [1..N -> Seq(S)] : Joins(f, seqs, N)
  <2>1. Nat \subseteq X
    <3>. HIDE DEF X
    <3> QED BY <1>2, <1>3, SetInduction
  <2> QED
    BY <1>1, <2>1
<1>. DEFINE Eq(h) == h = [i \in 1..N |-> IF i = 1 THEN seqs[i] ELSE h[i-1] \o seqs[i]]
            h == CHOOSE h : Eq(h)
<1>5. Eq(f)
  BY <1>1, <1>4 DEF Joins
<1>6. Eq(h)
  BY <1>5
<1>7. FlattenSeq(seqs) = h[N]
  BY <1>1 DEF FlattenSeq, N
<1>. HIDE DEF h
<1>8. Joins(h, seqs, N)
  BY <1>1, <1>6 DEF Joins
<1>. DEFINE Y == {i \in Nat : i \in 1..N => h[i] \in Seq(S)}
<1>9. Nat \subseteq Y
  <2>1. 0 \in Y
    OBVIOUS
  <2>2. ASSUME NEW i \in Nat, i \in Y PROVE i + 1 \in Y
    <3> SUFFICES ASSUME i + 1 \in 1..N PROVE h[i+1] \in Seq(S)
      OBVIOUS
    <3>1. h[i+1] = IF i + 1 = 1 THEN seqs[1] ELSE h[i] \o seqs[i+1]
      <4>1. h[i+1] = IF i + 1 = 1 THEN seqs[1] ELSE h[(i+1)-1] \o seqs[i+1]
        BY <1>8 DEF Joins
      <4>2. (i + 1) - 1 = i
        OBVIOUS
      <4> QED BY <4>1, <4>2
    <3>2. CASE i = 0
      BY <1>1, <3>1, <3>2
    <3>3. CASE i # 0
      <4>1. i \in 1..N /\ h[i] \in Seq(S) /\ seqs[i+1] \in Seq(S) /\ i + 1 # 1
        BY <1>1, <2>2, <3>3
      <4> QED
        BY <3>1, <4>1, ConcatProperties
    <3> QED
      BY <3>2, <3>3
  <2>. HIDE DEF Y
  <2> QED
    BY <2>1, <2>2, SetInduction
<1>10. h \in [1..N -> Seq(S)]
  <2>1. \A i \in 1..N : h[i] \in Seq(S)
    BY <1>1, <1>9
  <2>2. h = [i \in 1..N |-> h[i]]
    BY <1>6
  <2> QED
    BY <2>1, <2>2
<1> QED
  BY <1>7, <1>8, <1>10 DEF N

\* FlattenSeq puts its first element in front of the rest, flattened.
LEMMA FlattenFirst ==
  ASSUME NEW S, NEW seqs \in Seq(Seq(S))
  PROVE  /\ FlattenSeq(<<>>) = <<>>
         /\ FlattenSeq(seqs) \in Seq(S)
         /\ seqs # <<>> => FlattenSeq(seqs) = seqs[1] \o FlattenSeq(Tail(seqs))
<1>1. FlattenSeq(<<>>) = <<>>
  BY EmptySeq DEF FlattenSeq
<1>2. CASE seqs = <<>>
  BY <1>1, <1>2, EmptySeq
<1>3. CASE seqs # <<>>
  <2>1. PICK f \in [1..Len(seqs) -> Seq(S)] :
           Joins(f, seqs, Len(seqs)) /\ FlattenSeq(seqs) = f[Len(seqs)]
    BY <1>3, FlattenJoins
  <2>. DEFINE N == Len(seqs)
              t == Tail(seqs)
  <2>2. /\ Len(seqs) \in Nat \ {0} /\ Len(t) = Len(seqs) - 1 /\ t \in Seq(Seq(S))
        /\ \A i \in 1..Len(t) : t[i] = seqs[i+1]
    BY <1>3, EmptySeq, HeadTailProperties
  <2>3. \A i \in 1..Len(seqs) : seqs[i] \in Seq(S)
    BY ElementOfSeq
  <2>4. /\ N \in Nat \ {0} /\ Len(t) = N - 1 /\ t \in Seq(Seq(S))
        /\ \A i \in 1..N : seqs[i] \in Seq(S)
        /\ \A i \in 1..(N-1) : t[i] = seqs[i+1]
    BY <2>2, <2>3
  <2>5. f \in [1..N -> Seq(S)] /\ Joins(f, seqs, N) /\ FlattenSeq(seqs) = f[N]
    BY <2>1
  <2>6. t = <<>> <=> N = 1
    <3>1. t = <<>> <=> Len(t) = 0
      BY <2>2, EmptySeq
    <3> QED BY <2>4, <3>1, SMTT(30)
  <2>. HIDE DEF N, t
  <2>7. f[1] = seqs[1] /\ \A i \in 1..N : i # 1 => f[i] = f[i-1] \o seqs[i]
    <3>1. N \in Nat /\ 1 \in 1..N
      BY <2>4
    <3>2. \A i \in 1..N : IF i = 1 THEN f[i] = seqs[1] ELSE f[i] = f[i-1] \o seqs[i]
      BY <2>5, <3>1, JoinsAt, Zenon
    <3> QED BY <3>1, <3>2, Zenon
  <2>8. FlattenSeq(seqs) \in Seq(S)
    BY <2>4, <2>5
  <2>9. FlattenSeq(seqs) = seqs[1] \o FlattenSeq(t)
    <3>1. CASE N = 1
      <4>1. FlattenSeq(seqs) = seqs[1] /\ seqs[1] \in Seq(S)
        BY <2>4, <2>5, <2>7, <3>1
      <4>2. seqs[1] \o <<>> = seqs[1]
        BY <4>1, ConcatEmptySeq
      <4> QED
        BY <1>1, <2>6, <3>1, <4>1, <4>2
    <3>2. CASE N # 1
      <4>1. PICK g \in [1..Len(t) -> Seq(S)] :
               Joins(g, t, Len(t)) /\ FlattenSeq(t) = g[Len(t)]
        BY <2>4, <2>6, <3>2, FlattenJoins
      <4>2. g \in [1..(N-1) -> Seq(S)] /\ Joins(g, t, N-1) /\ FlattenSeq(t) = g[N-1]
        BY <2>4, <4>1
      <4>3. g[1] = t[1] /\ \A i \in 1..(N-1) : i # 1 => g[i] = g[i-1] \o t[i]
        <5>1. N - 1 \in Nat /\ 1 \in 1..(N-1)
          BY <2>4, <3>2
        <5>2. \A i \in 1..(N-1) : IF i = 1 THEN g[i] = t[1] ELSE g[i] = g[i-1] \o t[i]
          BY <4>2, <5>1, JoinsAt, Zenon
        <5> QED BY <5>1, <5>2, Zenon
      <4>. DEFINE X == {i \in Nat : i \in 1..(N-1) => f[i+1] = seqs[1] \o g[i]}
      <4>4. 0 \in X
        OBVIOUS
      <4>5. ASSUME NEW i \in Nat, i \in X, NEW j, j = i + 1, j \in 1..(N-1)
            PROVE  f[j+1] = seqs[1] \o g[j]
        <5>1. /\ j + 1 \in 1..N /\ j + 1 # 1 /\ (j + 1) - 1 = j /\ j \in 1..N
              /\ j - 1 = i /\ i + 1 = j /\ 1 \in 1..N /\ (i = 0 <=> j = 1)
          BY <2>4, <4>5
        <5>2. i # 0 => i \in 1..(N-1) /\ f[j] = seqs[1] \o g[i]
          <6>1. i # 0 => i \in 1..(N-1)
            BY <2>4, <4>5
          <6> QED BY <4>5, <6>1
        <5>. HIDE DEF X
        <5>3. f[j+1] = f[j] \o seqs[j+1]
          BY <2>7, <5>1, Zenon
        <5>4. t[j] = seqs[j+1] /\ seqs[j+1] \in Seq(S) /\ seqs[1] \in Seq(S)
          BY <2>4, <4>5, <5>1, Zenon
        <5>5. CASE i = 0
          BY <2>7, <4>3, <5>1, <5>3, <5>4, <5>5
        <5>6. CASE i # 0
          <6>1. g[j] = g[i] \o t[j]
            <7>1. j # 1 /\ j \in 1..(N-1)
              BY <4>5, <5>1, <5>6
            <7>2. g[j] = g[j-1] \o t[j]
              BY <4>3, <7>1, Zenon
            <7> QED BY <5>1, <7>2, Zenon
          <6>2. g[i] \in Seq(S)
            BY <4>2, <5>2, <5>6
          <6>3. (seqs[1] \o g[i]) \o seqs[j+1] = seqs[1] \o (g[i] \o seqs[j+1])
            <7>1. \A a, b, c \in Seq(S) : (a \o b) \o c = a \o (b \o c)
              BY ConcatAssociative
            <7> QED BY <5>4, <6>2, <7>1, Zenon
          <6> QED BY <5>2, <5>3, <5>4, <5>6, <6>1, <6>3, Zenon
        <5> QED BY <5>5, <5>6
      <4>9. ASSUME NEW i \in Nat, i \in X PROVE i + 1 \in X
        <5>1. i + 1 \in 1..(N-1) => f[(i+1)+1] = seqs[1] \o g[i+1]
          <6>. HIDE DEF X
          <6> QED BY <4>5, <4>9
        <5>2. i + 1 \in Nat
          OBVIOUS
        <5> QED BY <5>1, <5>2, Zenon
      <4>6. Nat \subseteq X
        <5>. HIDE DEF X
        <5> QED BY <4>4, <4>9, SetInduction
      <4>7. N - 1 \in Nat /\ N - 1 \in 1..(N-1) /\ (N - 1) + 1 = N
        BY <2>4, <3>2
      <4>8. f[(N-1)+1] = seqs[1] \o g[N-1]
        BY <4>6, <4>7
      <4> QED BY <2>5, <4>2, <4>7, <4>8
    <3> QED BY <3>1, <3>2
  <2> QED
    BY <1>1, <1>3, <2>8, <2>9 DEF t
<1> QED
  BY <1>2, <1>3

\* The largest number of a set with one above the others.
LEMMA MaxIs ==
  ASSUME NEW S, NEW m \in S, S \subseteq Nat, \A x \in S : x <= m
  PROVE  Max(S) = m
<1>1. m \in S /\ \A y \in S : m >= y
  OBVIOUS
<1>2. PICK x \in S : x = Max(S) /\ \A y \in S : x >= y
  BY <1>1 DEF Max
<1> QED BY <1>1, <1>2

-----------------------------------------------------------------------------
(***************************************************************************)
(* Sums over a set.                                                        *)
(***************************************************************************)

\* An element of a set that is not empty.
One(s) == CHOOSE x \in s : TRUE

\* h[s] sums w over s, element by element.
Sums(h, w, A) ==
  h = [s \in SUBSET A |-> IF s = {} THEN 0 ELSE w[One(s)] + h[s \ {One(s)}]]

\* The same for the sets of up to n elements.
SumsUpTo(h, w, A, n) ==
  \A s \in SUBSET A : Cardinality(s) <= n =>
    h[s] = IF s = {} THEN 0 ELSE w[One(s)] + h[s \ {One(s)}]

\* The element that the sum takes first.
LEMMA OneIn == ASSUME NEW s, s # {} PROVE One(s) \in s
BY DEF One

\* Cardinalities of the sets a sum goes through.
LEMMA FewerElements ==
  ASSUME NEW A, IsFiniteSet(A), NEW s \in SUBSET A
  PROVE  /\ IsFiniteSet(s) /\ Cardinality(s) \in Nat
         /\ Cardinality(s) = 0 <=> s = {}
         /\ \A x \in s : Cardinality(s \ {x}) = Cardinality(s) - 1
<1>1. IsFiniteSet(s)
  BY FS_Subset
<1>2. Cardinality(s) \in Nat
  BY <1>1, FS_CardinalityType
<1>3. Cardinality(s) = 0 <=> s = {}
  BY <1>1, FS_EmptySet
<1>4. ASSUME NEW x \in s PROVE Cardinality(s \ {x}) = Cardinality(s) - 1
  BY <1>1, FS_RemoveElement
<1> QED BY <1>1, <1>2, <1>3, <1>4

\* There is a function that sums w over every subset of a finite set.
LEMMA SumsExist ==
  ASSUME NEW A, IsFiniteSet(A), NEW w, \A x \in A : w[x] \in Nat
  PROVE  \E h \in [SUBSET A -> Nat] : Sums(h, w, A)
<1>. DEFINE X == {n \in Nat : \E h \in [SUBSET A -> Nat] : SumsUpTo(h, w, A, n)}
<1>1. 0 \in X
  <2>1. PICK h \in [SUBSET A -> Nat] : \A s \in SUBSET A : h[s] = 0
    <3>1. [s \in SUBSET A |-> 0] \in [SUBSET A -> Nat]
      OBVIOUS
    <3> QED BY <3>1
  <2>2. \A s \in SUBSET A : Cardinality(s) <= 0 => s = {}
    BY FewerElements
  <2>3. SumsUpTo(h, w, A, 0)
    BY <2>1, <2>2 DEF SumsUpTo
  <2> QED BY <2>3
<1>2. ASSUME NEW n \in Nat, n \in X PROVE n + 1 \in X
  <2>1. PICK h \in [SUBSET A -> Nat] : SumsUpTo(h, w, A, n)
    BY <1>2
  <2>2. PICK g : g = [s \in SUBSET A |-> IF Cardinality(s) = n + 1
                                          THEN w[One(s)] + h[s \ {One(s)}] ELSE h[s]]
    OBVIOUS
  <2>3. ASSUME NEW s \in SUBSET A, s # {}
        PROVE  /\ One(s) \in s /\ w[One(s)] \in Nat
               /\ s \ {One(s)} \in SUBSET A /\ h[s \ {One(s)}] \in Nat
               /\ Cardinality(s) \in Nat
               /\ Cardinality(s \ {One(s)}) = Cardinality(s) - 1
    <3>1. One(s) \in s
      BY <2>3, OneIn
    <3>2. Cardinality(s) \in Nat /\ Cardinality(s \ {One(s)}) = Cardinality(s) - 1
      BY <3>1, FewerElements
    <3>3. s \ {One(s)} \in SUBSET A
      OBVIOUS
    <3> QED BY <3>1, <3>2, <3>3
  <2>4. ASSUME NEW s \in SUBSET A
        PROVE  Cardinality(s) \in Nat /\ (s = {} => Cardinality(s) = 0)
    BY FewerElements
  <2>5. g \in [SUBSET A -> Nat]
    <3>1. ASSUME NEW s \in SUBSET A PROVE g[s] \in Nat
      <4>1. CASE Cardinality(s) = n + 1
        <5>1. s # {}
          BY <2>4, <4>1
        <5>2. w[One(s)] \in Nat /\ h[s \ {One(s)}] \in Nat
          BY <2>3, <5>1
        <5> QED BY <2>2, <4>1, <5>2
      <4>2. CASE Cardinality(s) # n + 1
        BY <2>2, <4>2
      <4> QED BY <4>1, <4>2
    <3> QED BY <2>2, <3>1
  <2>6. ASSUME NEW s \in SUBSET A, Cardinality(s) <= n + 1
        PROVE  g[s] = IF s = {} THEN 0 ELSE w[One(s)] + g[s \ {One(s)}]
    <3>1. CASE s = {}
      <4>1. g[s] = h[s] /\ Cardinality(s) = 0
        BY <2>2, <2>4, <3>1
      <4>2. h[s] = 0
        BY <2>1, <3>1, <4>1 DEF SumsUpTo
      <4> QED BY <3>1, <4>1, <4>2
    <3>2. CASE s # {}
      <4>1. g[s \ {One(s)}] = h[s \ {One(s)}]
        <5>1. Cardinality(s \ {One(s)}) # n + 1 /\ s \ {One(s)} \in SUBSET A
          BY <2>3, <2>6, <3>2
        <5> QED BY <2>2, <5>1
      <4>2. g[s] = w[One(s)] + h[s \ {One(s)}]
        <5>1. CASE Cardinality(s) = n + 1
          BY <2>2, <5>1
        <5>2. CASE Cardinality(s) # n + 1
          <6>1. Cardinality(s) <= n
            BY <2>4, <2>6, <5>2
          <6>2. g[s] = h[s]
            BY <2>2, <5>2
          <6>3. h[s] = w[One(s)] + h[s \ {One(s)}]
            BY <2>1, <3>2, <6>1 DEF SumsUpTo
          <6> QED BY <6>2, <6>3
        <5> QED BY <5>1, <5>2
      <4> QED BY <3>2, <4>1, <4>2
    <3> QED BY <3>1, <3>2
  <2>7. SumsUpTo(g, w, A, n + 1)
    BY <2>6 DEF SumsUpTo
  <2> QED BY <2>5, <2>7
<1>. HIDE DEF X
<1>3. Nat \subseteq X
  BY <1>1, <1>2, SetInduction
<1>4. PICK n \in Nat : n = Cardinality(A)
  BY FS_CardinalityType
<1>5. PICK h \in [SUBSET A -> Nat] : SumsUpTo(h, w, A, n)
  BY <1>3 DEF X
<1>6. ASSUME NEW s \in SUBSET A
      PROVE  h[s] = IF s = {} THEN 0 ELSE w[One(s)] + h[s \ {One(s)}]
  <2>1. Cardinality(s) <= n
    BY <1>4, FS_Subset
  <2> QED BY <1>5, <2>1 DEF SumsUpTo
<1>7. Sums(h, w, A)
  BY <1>6 DEF Sums
<1> QED BY <1>7

\* A sum does not depend on the order: any element may come first.
AnyOrder(h, w, A) ==
  /\ h[{}] = 0
  /\ \A s \in SUBSET A : \A x \in s : h[s] = w[x] + h[s \ {x}]

\* The order in which the elements are taken does not matter.
LEMMA SumsAny ==
  ASSUME NEW A, IsFiniteSet(A), NEW w, \A x \in A : w[x] \in Nat,
         NEW h \in [SUBSET A -> Nat], Sums(h, w, A)
  PROVE  AnyOrder(h, w, A)
<1>1. ASSUME NEW s \in SUBSET A
      PROVE  h[s] = IF s = {} THEN 0 ELSE w[One(s)] + h[s \ {One(s)}]
  <2>1. PICK F : F = [t \in SUBSET A |-> IF t = {} THEN 0 ELSE w[One(t)] + h[t \ {One(t)}]]
    OBVIOUS
  <2>2. h = F
    BY <2>1 DEF Sums
  <2>3. F[s] = IF s = {} THEN 0 ELSE w[One(s)] + h[s \ {One(s)}]
    BY <2>1
  <2> QED BY <2>2, <2>3
<1>. DEFINE X == {n \in Nat : \A s \in SUBSET A : Cardinality(s) = n =>
                    \A x \in s : h[s] = w[x] + h[s \ {x}]}
<1>2. 0 \in X
  <2>1. \A s \in SUBSET A : Cardinality(s) = 0 => s = {}
    BY FewerElements
  <2> QED BY <2>1
<1>3. ASSUME NEW n \in Nat, n \in X PROVE n + 1 \in X
  <2> SUFFICES ASSUME NEW s \in SUBSET A, Cardinality(s) = n + 1, NEW x \in s
               PROVE  h[s] = w[x] + h[s \ {x}]
    OBVIOUS
  <2>1. PICK c \in s : c = One(s)
    BY OneIn
  <2>2. h[s] = w[c] + h[s \ {c}]
    BY <1>1, <2>1
  <2>3. CASE x = c
    BY <2>2, <2>3
  <2>4. CASE x # c
    <3>1. /\ Cardinality(s \ {c}) = n /\ Cardinality(s \ {x}) = n
      BY FewerElements
    <3>2. PICK p \in SUBSET A, q \in SUBSET A, r \in SUBSET A :
            p = s \ {c} /\ q = s \ {x} /\ r = (s \ {c}) \ {x}
      OBVIOUS
    <3>3. x \in p /\ c \in q /\ p \ {x} = r /\ q \ {c} = r
      BY <2>4, <3>2
    <3>4. h[p] = w[x] + h[r]
      <4>1. Cardinality(p) = n
        BY <3>1, <3>2
      <4>2. h[p] = w[x] + h[p \ {x}]
        BY <1>3, <3>3, <4>1
      <4> QED BY <3>3, <4>2
    <3>5. h[q] = w[c] + h[r]
      <4>1. Cardinality(q) = n
        BY <3>1, <3>2
      <4>2. h[q] = w[c] + h[q \ {c}]
        BY <1>3, <3>3, <4>1
      <4> QED BY <3>3, <4>2
    <3>6. w[x] \in Nat /\ w[c] \in Nat /\ h[r] \in Nat
      OBVIOUS
    <3>7. h[s] = w[c] + h[p]
      BY <2>2, <3>2
    <3>8. h[s] = w[x] + h[q]
      BY <3>4, <3>5, <3>6, <3>7
    <3> QED BY <3>2, <3>8
  <2> QED BY <2>3, <2>4
<1>. HIDE DEF X
<1>4. Nat \subseteq X
  BY <1>2, <1>3, SetInduction
<1>5. ASSUME NEW s \in SUBSET A, NEW x \in s PROVE h[s] = w[x] + h[s \ {x}]
  <2>1. Cardinality(s) \in Nat
    BY FewerElements
  <2>2. Cardinality(s) \in X
    BY <1>4, <2>1
  <2> QED BY <2>2 DEF X
<1>6. h[{}] = 0
  BY <1>1
<1> QED BY <1>5, <1>6 DEF AnyOrder

\* A sum does not depend on the set it is part of.
IsSum(h, w, A) ==
  h \in [SUBSET A -> Nat] /\ Sums(h, w, A) /\ \A x \in A : w[x] \in Nat

LEMMA SumsAgree ==
  ASSUME NEW A, IsFiniteSet(A), NEW B \in SUBSET A,
         NEW w, NEW g, IsSum(g, w, A), NEW h, IsSum(h, w, B)
  PROVE  g[B] = h[B]
<1>0. /\ g \in [SUBSET A -> Nat] /\ Sums(g, w, A)
      /\ h \in [SUBSET B -> Nat] /\ Sums(h, w, B)
      /\ \A x \in A : w[x] \in Nat
  BY DEF IsSum
<1>1. IsFiniteSet(B) /\ \A x \in B : w[x] \in Nat
  BY <1>0, FS_Subset
<1>2. AnyOrder(g, w, A)
  BY <1>0, SumsAny
<1>3. AnyOrder(h, w, B)
  BY <1>0, <1>1, SumsAny
<1>4. g[{}] = 0 /\ h[{}] = 0
  BY <1>2, <1>3 DEF AnyOrder
<1>. DEFINE X == {n \in Nat : \A s \in SUBSET B : Cardinality(s) = n => g[s] = h[s]}
<1>6. 0 \in X
  <2>1. \A s \in SUBSET B : Cardinality(s) = 0 => s = {}
    BY <1>1, FewerElements
  <2> QED BY <1>4, <2>1
<1>7. ASSUME NEW n \in Nat, n \in X PROVE n + 1 \in X
  <2> SUFFICES ASSUME NEW s \in SUBSET B, Cardinality(s) = n + 1 PROVE g[s] = h[s]
    OBVIOUS
  <2>1. s # {}
    <3>1. s = {} => Cardinality(s) = 0
      BY <1>1, FewerElements
    <3> QED BY <3>1
  <2>2. PICK x \in s : TRUE
    BY <2>1
  <2>3. PICK r \in SUBSET B : r = s \ {x}
    OBVIOUS
  <2>4. Cardinality(r) = n
    BY <1>1, <2>3, FewerElements
  <2>5. g[r] = h[r]
    BY <1>7, <2>4
  <2>6. g[s] = w[x] + g[s \ {x}]
    BY <1>2 DEF AnyOrder
  <2>7. h[s] = w[x] + h[s \ {x}]
    BY <1>3 DEF AnyOrder
  <2> QED BY <2>3, <2>5, <2>6, <2>7
<1>. HIDE DEF X
<1>8. Nat \subseteq X
  BY <1>6, <1>7, SetInduction
<1>9. Cardinality(B) \in X
  BY <1>1, <1>8, FS_CardinalityType
<1> QED BY <1>9 DEF X

\* There is one such function.
LEMMA SumsUnique ==
  ASSUME NEW A, IsFiniteSet(A), NEW w, NEW g, Sums(g, w, A), NEW h, Sums(h, w, A)
  PROVE  g[A] = h[A]
<1>1. ASSUME NEW f, Sums(f, w, A), NEW s \in SUBSET A
      PROVE  f[s] = IF s = {} THEN 0 ELSE w[One(s)] + f[s \ {One(s)}]
  <2>1. PICK F : F = [t \in SUBSET A |-> IF t = {} THEN 0 ELSE w[One(t)] + f[t \ {One(t)}]]
    OBVIOUS
  <2>2. f = F
    BY <1>1, <2>1 DEF Sums
  <2>3. F[s] = IF s = {} THEN 0 ELSE w[One(s)] + f[s \ {One(s)}]
    BY <2>1
  <2> QED BY <2>2, <2>3
<1>. DEFINE X == {n \in Nat : \A s \in SUBSET A : Cardinality(s) = n => g[s] = h[s]}
<1>2. 0 \in X
  <2>1. \A s \in SUBSET A : Cardinality(s) = 0 => s = {}
    BY FewerElements
  <2> QED BY <1>1, <2>1
<1>3. ASSUME NEW n \in Nat, n \in X PROVE n + 1 \in X
  <2> SUFFICES ASSUME NEW s \in SUBSET A, Cardinality(s) = n + 1 PROVE g[s] = h[s]
    OBVIOUS
  <2>1. s # {}
    <3>1. s = {} => Cardinality(s) = 0
      BY FewerElements
    <3> QED BY <3>1
  <2>2. PICK x \in s : x = One(s)
    BY <2>1, OneIn
  <2>3. PICK r \in SUBSET A : r = s \ {x}
    OBVIOUS
  <2>4. Cardinality(r) = n
    BY <2>3, FewerElements
  <2>5. g[r] = h[r]
    BY <1>3, <2>4
  <2>6. g[s] = w[x] + g[r]
    BY <1>1, <2>1, <2>2, <2>3
  <2>7. h[s] = w[x] + h[r]
    BY <1>1, <2>1, <2>2, <2>3
  <2> QED BY <2>5, <2>6, <2>7
<1>. HIDE DEF X
<1>4. Nat \subseteq X
  BY <1>2, <1>3, SetInduction
<1>5. Cardinality(A) \in X
  BY <1>4, FS_CardinalityType
<1> QED BY <1>5 DEF X

-----------------------------------------------------------------------------
(***************************************************************************)
(* Sorting, and what a flattened sequence has.                             *)
(***************************************************************************)

\* A finite set with a number for each element has one with the largest.
LEMMA LargestExists ==
  ASSUME NEW X, IsFiniteSet(X), X # {}, NEW key \in [X -> Int]
  PROVE  \E m \in X : \A x \in X : key[x] <= key[m]
<1>. DEFINE Y == {n \in Nat : \A A \in SUBSET X : Cardinality(A) = n /\ A # {}
                               => \E m \in A : \A x \in A : key[x] <= key[m]}
<1>1. 0 \in Y
  <2>1. \A A \in SUBSET X : Cardinality(A) = 0 => A = {}
    BY FewerElements
  <2> QED BY <2>1
<1>2. ASSUME NEW n \in Nat, n \in Y PROVE n + 1 \in Y
  <2> SUFFICES ASSUME NEW A \in SUBSET X, Cardinality(A) = n + 1, A # {}
               PROVE  \E m \in A : \A x \in A : key[x] <= key[m]
    OBVIOUS
  <2>1. PICK a \in A : TRUE
    OBVIOUS
  <2>2. CASE A = {a}
    BY <2>2
  <2>3. CASE A # {a}
    <3>1. Cardinality(A \ {a}) = n /\ A \ {a} # {} /\ A \ {a} \in SUBSET X
      BY <2>3, FewerElements
    <3>2. PICK m \in A \ {a} : \A x \in A \ {a} : key[x] <= key[m]
      BY <1>2, <3>1
    <3>3. key[a] \in Int /\ key[m] \in Int /\ \A x \in A : key[x] \in Int
      OBVIOUS
    <3>4. CASE key[a] <= key[m]
      BY <3>2, <3>4
    <3>5. CASE key[m] <= key[a]
      <4>1. \A x \in A : key[x] <= key[a]
        BY <3>2, <3>3, <3>5
      <4> QED BY <4>1
    <3> QED BY <3>3, <3>4, <3>5
  <2> QED BY <2>2, <2>3
<1>. HIDE DEF Y
<1>3. Nat \subseteq Y
  BY <1>1, <1>2, SetInduction
<1>4. Cardinality(X) \in Y
  BY <1>3, FS_CardinalityType
<1> QED BY <1>4 DEF Y

\* The elements of a finite set, in the order of their numbers.
LEMMA SortedExists ==
  ASSUME NEW X, IsFiniteSet(X), NEW key \in [X -> Int], \A x, y \in X : key[x] = key[y] => x = y
  PROVE  \E s \in [1..Cardinality(X) -> X] :
            \A i, j \in 1..Cardinality(X) : i < j => key[s[i]] < key[s[j]]
<1>. DEFINE Y == {n \in Nat : \A A \in SUBSET X : Cardinality(A) = n =>
                    \E s \in [1..n -> A] : \A i, j \in 1..n : i < j => key[s[i]] < key[s[j]]}
<1>1. 0 \in Y
  <2>1. ASSUME NEW A PROVE [i \in 1..0 |-> 0] \in [1..0 -> A] /\ 1..0 = {}
    OBVIOUS
  <2> QED BY <2>1
<1>2. ASSUME NEW n \in Nat, n \in Y PROVE n + 1 \in Y
  <2> SUFFICES ASSUME NEW A \in SUBSET X, Cardinality(A) = n + 1
               PROVE  \E s \in [1..(n + 1) -> A] :
                         \A i, j \in 1..(n + 1) : i < j => key[s[i]] < key[s[j]]
    OBVIOUS
  <2>1. IsFiniteSet(A) /\ A # {} /\ [x \in A |-> key[x]] \in [A -> Int]
    <3>1. IsFiniteSet(A) /\ (A = {} => Cardinality(A) = 0)
      BY FewerElements
    <3> QED BY <3>1
  <2>2. PICK m \in A : \A x \in A : [y \in A |-> key[y]][x] <= [y \in A |-> key[y]][m]
    <3>. DEFINE k == [y \in A |-> key[y]]
    <3>1. k \in [A -> Int]
      BY <2>1
    <3>. HIDE DEF k
    <3>2. \E m \in A : \A x \in A : k[x] <= k[m]
      BY <2>1, <3>1, LargestExists
    <3> QED BY <3>2 DEF k
  <2>3. \A x \in A \ {m} : key[x] < key[m]
    <3>1. \A x \in A : key[x] <= key[m] /\ key[x] \in Int
      BY <2>2
    <3>2. \A x \in A : key[x] = key[m] => x = m
      OBVIOUS
    <3> QED BY <3>1, <3>2
  <2>4. Cardinality(A \ {m}) = n /\ A \ {m} \in SUBSET X
    BY FewerElements
  <2>5. PICK s \in [1..n -> A \ {m}] : \A i, j \in 1..n : i < j => key[s[i]] < key[s[j]]
    BY <1>2, <2>4
  <2>. DEFINE t == [i \in 1..(n + 1) |-> IF i = n + 1 THEN m ELSE s[i]]
  <2>6. t \in [1..(n + 1) -> A]
    <3>1. \A i \in 1..(n + 1) : i # n + 1 => i \in 1..n
      OBVIOUS
    <3> QED BY <3>1
  <2>7. ASSUME NEW i \in 1..(n + 1), NEW j \in 1..(n + 1), i < j PROVE key[t[i]] < key[t[j]]
    <3>1. i \in 1..n /\ i # n + 1 /\ t[i] = s[i] /\ s[i] \in A \ {m}
      BY <2>7
    <3>2. CASE j = n + 1
      BY <2>3, <3>1, <3>2
    <3>3. CASE j # n + 1
      <4>1. j \in 1..n /\ t[j] = s[j]
        BY <3>3
      <4>. HIDE DEF t
      <4> QED BY <2>5, <2>7, <3>1, <4>1
    <3> QED BY <3>2, <3>3
  <2>. HIDE DEF t
  <2> QED BY <2>6, <2>7
<1>. HIDE DEF Y
<1>3. Nat \subseteq Y
  BY <1>1, <1>2, SetInduction
<1>4. Cardinality(X) \in Y
  BY <1>3, FS_CardinalityType
<1> QED BY <1>4 DEF Y

\* As many different elements as a finite set has are all of its elements.
LEMMA AllOfThem ==
  ASSUME NEW X, IsFiniteSet(X), NEW k \in Nat, NEW s \in [1..k -> X], Cardinality(X) <= k,
         \A i, j \in 1..k : s[i] = s[j] => i = j
  PROVE  Range(s) = X
<1> SUFFICES ASSUME NEW x \in X, x \notin Range(s) PROVE FALSE
  BY DEF Range
<1>1. IsFiniteSet(X \ {x}) /\ Cardinality(X \ {x}) = Cardinality(X) - 1 /\ Cardinality(X) \in Nat
  BY FS_RemoveElement, FS_CardinalityType
<1>2. IsFiniteSet(1..k) /\ Cardinality(1..k) = k
  BY FS_Interval
<1>3. s \in [1..k -> X \ {x}]
  BY DEF Range
<1>4. PICK i, j \in 1..k : i # j /\ s[i] = s[j]
  BY <1>1, <1>2, <1>3, FS_PigeonHole
<1> QED BY <1>4

\* The elements of sequences that are joined.
LEMMA FlattenElements ==
  ASSUME NEW S, NEW seqs \in Seq(Seq(S))
  PROVE  /\ FlattenSeq(seqs) \in Seq(S)
         /\ Range(FlattenSeq(seqs)) = UNION {Range(seqs[i]) : i \in 1..Len(seqs)}
<1>1. FlattenSeq(<<>>) = <<>> /\ FlattenSeq(seqs) \in Seq(S)
  BY FlattenFirst
<1>2. CASE seqs = <<>>
  <2>1. Len(seqs) = 0 /\ Range(<<>>) = {} /\ 1..0 = {}
    BY <1>2 DEF Range
  <2> QED BY <1>1, <1>2, <2>1
<1>3. CASE seqs # <<>>
  <2>. DEFINE N == Len(seqs)
  <2>1. N \in Nat /\ N # 0 /\ \A i \in 1..N : seqs[i] \in Seq(S)
    BY <1>3, EmptySeq, LenProperties, ElementOfSeq
  <2>2. PICK f \in [1..N -> Seq(S)] : Joins(f, seqs, N) /\ FlattenSeq(seqs) = f[N]
    BY <1>3, FlattenJoins
  <2>. HIDE DEF N
  <2>. DEFINE X == {n \in Nat : n \in 1..N => Range(f[n]) = UNION {Range(seqs[i]) : i \in 1..n}}
  <2>8. \A i \in 1..N : IF i = 1 THEN f[i] = seqs[1] ELSE f[i] = f[i-1] \o seqs[i]
    BY <2>1, <2>2, JoinsAt, Zenon
  <2>3. 0 \in X
    OBVIOUS
  <2>4. ASSUME NEW n \in Nat, n \in X, NEW m, m = n + 1, m \in 1..N
        PROVE  Range(f[m]) = UNION {Range(seqs[i]) : i \in 1..m}
    <3>1. IF m = 1 THEN f[m] = seqs[1] ELSE f[m] = f[m-1] \o seqs[m]
      BY <2>4, <2>8, Zenon
    <3>2. CASE n = 0
      <4>1. f[m] = seqs[1] /\ 1..m = {1}
        BY <2>4, <3>1, <3>2
      <4> QED BY <4>1
    <3>3. CASE n # 0
      <4>1. n \in 1..N /\ m # 1 /\ m - 1 = n
        BY <2>1, <2>4, <3>3
      <4>2. f[n] \in Seq(S) /\ seqs[m] \in Seq(S) /\ f[m] = f[n] \o seqs[m]
        BY <2>1, <2>2, <2>4, <3>1, <4>1
      <4>3. Range(f[m]) = Range(f[n]) \union Range(seqs[m])
        BY <4>2, RangeConcatenation
      <4>4. Range(f[n]) = UNION {Range(seqs[i]) : i \in 1..n}
        BY <2>4, <4>1
      <4>5. 1..m = (1..n) \union {m}
        BY <2>4
      <4> QED BY <4>3, <4>4, <4>5
    <3> QED BY <3>2, <3>3
  <2>5. ASSUME NEW n \in Nat, n \in X PROVE n + 1 \in X
    <3>1. n + 1 \in 1..N => Range(f[n + 1]) = UNION {Range(seqs[i]) : i \in 1..(n + 1)}
      <4>. HIDE DEF X
      <4> QED BY <2>4, <2>5
    <3> QED BY <3>1
  <2>. HIDE DEF X
  <2>6. Nat \subseteq X
    BY <2>3, <2>5, SetInduction
  <2>7. N \in X /\ N \in 1..N
    BY <2>1, <2>6
  <2> QED BY <1>1, <2>2, <2>7 DEF X, N
<1> QED BY <1>2, <1>3

\* The length of sequences of one length that are joined.
LEMMA FlattenLength ==
  ASSUME NEW S, NEW seqs \in Seq(Seq(S)), NEW D \in Nat, \A i \in 1..Len(seqs) : Len(seqs[i]) = D
  PROVE  Len(FlattenSeq(seqs)) = Len(seqs) * D
<1>1. FlattenSeq(<<>>) = <<>>
  BY FlattenFirst
<1>2. CASE seqs = <<>>
  BY <1>1, <1>2, EmptySeq
<1>3. CASE seqs # <<>>
  <2>. DEFINE N == Len(seqs)
  <2>1. N \in Nat /\ N # 0 /\ \A i \in 1..N : seqs[i] \in Seq(S) /\ Len(seqs[i]) = D
    BY <1>3, EmptySeq, LenProperties, ElementOfSeq
  <2>2. PICK f \in [1..N -> Seq(S)] : Joins(f, seqs, N) /\ FlattenSeq(seqs) = f[N]
    BY <1>3, FlattenJoins
  <2>. HIDE DEF N
  <2>. DEFINE X == {n \in Nat : n \in 1..N => Len(f[n]) = n * D}
  <2>3. \A i \in 1..N : IF i = 1 THEN f[i] = seqs[1] ELSE f[i] = f[i-1] \o seqs[i]
    BY <2>1, <2>2, JoinsAt, Zenon
  <2>4. 0 \in X
    OBVIOUS
  <2>5. ASSUME NEW n \in Nat, n \in X, NEW m, m = n + 1, m \in 1..N
        PROVE  Len(f[m]) = m * D
    <3>1. IF m = 1 THEN f[m] = seqs[1] ELSE f[m] = f[m-1] \o seqs[m]
      BY <2>5, <2>3, Zenon
    <3>2. CASE n = 0
      <4>1. f[m] = seqs[1] /\ m = 1 /\ 1 * D = D
        BY <2>5, <3>1, <3>2
      <4> QED BY <2>1, <2>5, <4>1
    <3>3. CASE n # 0
      <4>1. n \in 1..N /\ m # 1 /\ m - 1 = n
        BY <2>1, <2>5, <3>3
      <4>2. f[n] \in Seq(S) /\ seqs[m] \in Seq(S) /\ f[m] = f[n] \o seqs[m]
        BY <2>1, <2>2, <2>5, <3>1, <4>1
      <4>3. Len(f[m]) = Len(f[n]) + Len(seqs[m])
        BY <4>2, ConcatProperties
      <4>4. Len(f[n]) = n * D /\ Len(seqs[m]) = D
        BY <2>1, <2>5, <4>1
      <4>5. m * D = n * D + D
        BY <2>5
      <4> QED BY <4>3, <4>4, <4>5
    <3> QED BY <3>2, <3>3
  <2>6. ASSUME NEW n \in Nat, n \in X PROVE n + 1 \in X
    <3>1. n + 1 \in 1..N => Len(f[n + 1]) = (n + 1) * D
      <4>. HIDE DEF X
      <4> QED BY <2>5, <2>6
    <3> QED BY <3>1
  <2>. HIDE DEF X
  <2>7. Nat \subseteq X
    BY <2>4, <2>6, SetInduction
  <2>8. N \in X /\ N \in 1..N
    BY <2>1, <2>7
  <2> QED BY <2>2, <2>8 DEF X, N
<1> QED BY <1>2, <1>3
=============================================================================
