----------------------------- MODULE TraceProofs -----------------------------
(***************************************************************************)
(* No read of an experiment is free, its staging buffer is bounded and the *)
(* replayer's queue never overflows, for every geometry, model, prompt and *)
(* set of experiments; and what the tensor mapping below them guarantees.  *)
(*                                                                         *)
(* The proofs go along a trace. The tensor mapper: addresses and channels  *)
(* are the device's, and a stripe of a head is on channels of its own.     *)
(* Loops: what each loop of the storage code does, turn by turn. Storage:  *)
(* backend and prefetcher count what they do with whatever ids they are    *)
(* given, as long as the ids of one record are different (GoodStorage).    *)
(* Traces: every line that any of the three generators writes has such ids *)
(* (IsTrace). TraceInv puts them together.                                 *)
(* Logs: a trace of P1 is one write of every block and decode lines after  *)
(* them, a line is placed by its block id, and replayer and placement      *)
(* study count alike (LogInv). That the tiers and the places of a trace    *)
(* agree and that it is valid follows from the two.                        *)
(* The study: a report of any policy, channels and depth is followed       *)
(* record by record beside that of the conventional FTL (Alike), that of a *)
(* shorter queue (Deeper) and those of the four phases (PhasesSum).        *)
(***************************************************************************)
EXTENDS TracePipeline, SequenceLemmas

-----------------------------------------------------------------------------
(***************************************************************************)
(* The tensor mapper.                                                      *)
(***************************************************************************)

\* A remainder.
LEMMA ModRange == ASSUME NEW a \in Int, NEW n \in Nat \ {0}
                  PROVE  a % n \in 0..(n - 1)
BY Z3

\* A division with a remainder.
LEMMA DivMod == ASSUME NEW a \in Int, NEW n \in Nat \ {0}
                PROVE  a \div n \in Int /\ a = n * (a \div n) + (a % n)
BY Z3

\* Two numbers with one remainder.
LEMMA Difference ==
    ASSUME NEW n \in Nat \ {0}, NEW u \in Int, NEW v \in Int, NEW m \in Int,
           NEW x, NEW y, x = n * u + m, y = n * v + m
    PROVE  x - y = n * (u - v)
BY Z3

(* The channel is one of the device's, whatever the block                  *)
(* (tensor_mapping.py:166).                                                *)
THEOREM ChannelInRange ==
    ASSUME NEW layer \in Nat, NEW head \in Nat, NEW b \in Nat
    PROVE  StripedChannel(layer, head, b) \in 0..(Channels - 1)
<1>1. layer + head + b + b \div Channels \in Int
    BY DivMod, GeometryAssumption
<1> QED BY <1>1, ModRange, GeometryAssumption DEF StripedChannel

(* Two blocks of a head whose numbers have the same quotient by the number *)
(* of channels are on different channels (tensor_mapping.py:164-166).      *)
THEOREM StripeSpreads ==
    ASSUME NEW layer \in Nat, NEW head \in Nat, NEW b \in Nat, NEW c \in Nat,
           b \div Channels = c \div Channels,
           StripedChannel(layer, head, b) = StripedChannel(layer, head, c)
    PROVE  b = c
<1> DEFINE q == b \div Channels
           x == layer + head + b + q
           y == layer + head + c + q
           s == b % Channels
           t == c % Channels
<1>1. Channels \in Nat \ {0}
    BY GeometryAssumption
<1>2. q \in Int /\ x \in Int /\ y \in Int
    BY <1>1, DivMod
<1>3. b = Channels * q + s /\ c = Channels * q + t
    BY <1>1, DivMod
<1>4. s \in 0..(Channels - 1) /\ t \in 0..(Channels - 1)
    BY <1>1, ModRange
<1>5. x % Channels = y % Channels
    BY DEF StripedChannel
<1>6. x = Channels * (x \div Channels) + (x % Channels)
      /\ y = Channels * (y \div Channels) + (y % Channels)
      /\ x \div Channels \in Int /\ y \div Channels \in Int
    BY <1>1, <1>2, DivMod
<1>7. x - y = s - t
    <2> DEFINE p == Channels * q
    <2>1. p \in Int BY <1>1, <1>2
    <2>2. b = p + s /\ c = p + t BY <1>3
    <2> HIDE DEF p, q, s, t
    <2> QED BY <1>2, <1>4, <2>1, <2>2, GeometryAssumption
<1>8. s - t = Channels * ((x \div Channels) - (y \div Channels))
    <2> DEFINE u == x \div Channels
               v == y \div Channels
               m == x % Channels
    <2>1. u \in Int /\ v \in Int /\ m \in Int
        BY <1>1, <1>2, <1>6, ModRange
    <2>2. x = Channels * u + m /\ y = Channels * v + m
        BY <1>5, <1>6
    <2>3. x - y = Channels * (u - v)
        <3> HIDE DEF u, v, m, x, y
        <3> QED BY <1>1, <2>1, <2>2, Difference
    <2> QED BY <1>7, <2>3
<1>9. (x \div Channels) - (y \div Channels) = 0
    <2> DEFINE d == (x \div Channels) - (y \div Channels)
    <2>1. d \in Int BY <1>6
    <2>2. Channels * d < Channels /\ Channels * d > -Channels
        BY <1>1, <1>4, <1>8
    <2>3. d < 1 /\ d > -1
        BY <1>1, <2>1, <2>2, Z3
    <2> QED BY <2>1, <2>3
<1> QED BY <1>1, <1>3, <1>4, <1>8, <1>9

\* A digit and what follows it.
LEMMA ProductBound ==
    ASSUME NEW u \in Nat, NEW m \in Nat, NEW n \in Nat \ {0}, NEW o \in 0..(n - 1), u < m
    PROVE  u * n + o \in 0..(m * n - 1)
<1>1. u + 1 <= m
    OBVIOUS
<1>2. (u + 1) * n <= m * n /\ (u + 1) * n = u * n + n /\ u * n >= 0
    BY <1>1, Z3
<1>3. u * n \in Int /\ m * n \in Int
    OBVIOUS
<1> QED BY <1>2, <1>3

(* The address a coordinate is given lies on the device in both modes      *)
(* (tensor_mapping.py:121-135); that the device has a page for each unit   *)
(* is what makes a stripe unit positive.                                   *)
THEOREM LbaInRange ==
    ASSUME NEW mode, NEW layer \in Nat, NEW head \in Nat, NEW b \in Nat
    PROVE  Lba(mode, layer, head, b) \in 0..(DeviceBlocks - 1)
<1> DEFINE C == Channels * Dies
           R == Planes * BlocksPerPlane * PagesPerBlock
           h == HeadOffset(layer, head, b)
           k == StripedChannel(layer, head, b)
           d == StripedDie(layer, head, b)
<1>1. C \in Nat \ {0} /\ R \in Nat \ {0}
    <2>1. \A m, n \in Nat \ {0} : m * n \in Nat \ {0}
        BY Z3
    <2> QED BY <2>1, GeometryAssumption
<1>2. DeviceBlocks = C * R
    <2>1. \A u, v, w, y, z \in Nat : u * v * w * y * z = (u * v) * (w * y * z)
        BY Z3
    <2> QED BY <2>1, GeometryAssumption DEF DeviceBlocks
<1>3. DeviceBlocks \in Nat \ {0}
    <2>1. \A m, n \in Nat \ {0} : m * n \in Nat \ {0}
        BY Z3
    <2> QED BY <2>1, <1>1, <1>2
<1>4. StripeUnit = R
    <2>1. \A m, n \in Nat \ {0} : (m * n) \div m = n
        BY Z3
    <2> QED BY <2>1, <1>1, <1>2 DEF StripeUnit
<1>5. h \in Int
    BY GeometryAssumption DEF HeadOffset
<1>6. CASE mode = "conventional"
    BY <1>3, <1>5, <1>6, ModRange DEF Lba
<1>7. CASE mode # "conventional"
    <2>1. k \in 0..(Channels - 1)
        BY ChannelInRange
    <2>2. d \in 0..(Dies - 1)
        <3>1. layer + head \div Channels + b \div Channels \in Int
            BY DivMod, GeometryAssumption
        <3> QED BY <3>1, ModRange, GeometryAssumption DEF StripedDie
    <2>3. k * Dies + d \in 0..(C - 1)
        BY <2>1, <2>2, ProductBound, GeometryAssumption
    <2>4. h % R \in 0..(R - 1)
        BY <1>1, <1>5, ModRange
    <2>5. (k * Dies + d) * R + (h % R) \in 0..(C * R - 1)
        <3> HIDE DEF C, R, k, d, h
        <3> QED BY <1>1, <2>3, <2>4, ProductBound
    <2> QED BY <1>2, <1>4, <1>7, <2>5 DEF Lba
<1> QED BY <1>6, <1>7

-----------------------------------------------------------------------------
(***************************************************************************)
(* Totals of functions.                                                    *)
(***************************************************************************)

\* The total of a function.
Total(w) == FoldFunction(+, 0, w)

\* The total of a function is such a sum.
LEMMA TotalIs ==
  ASSUME NEW A, IsFiniteSet(A), NEW w, DOMAIN w = A, NEW h, Sums(h, w, A)
  PROVE  Total(w) = h[A]
<1>. DEFINE Eq(g) == g = [s \in SUBSET A |-> IF s = {} THEN 0 ELSE w[One(s)] + g[s \ {One(s)}]]
            it == CHOOSE g : Eq(g)
<1>1. Total(w) = it[A]
  BY DEF Total, FoldFunction, FoldFunctionOnSet, MapThenFoldSet, One
<1>2. \A g : Eq(g) <=> Sums(g, w, A)
  BY DEF Sums
<1>3. Sums(it, w, A)
  BY <1>2
<1>. HIDE DEF it
<1> QED BY <1>1, <1>3, SumsUnique

\* Every function to the naturals has its sums.
LEMMA SumGiven ==
  ASSUME NEW A, IsFiniteSet(A), NEW w, \A x \in A : w[x] \in Nat
  PROVE  \E h : IsSum(h, w, A)
BY SumsExist DEF IsSum

\* Functions that agree on a set have one sum over it.
AgreeOn(w, v, B) == \A x \in B : w[x] = v[x]

\* Such functions have the same total over the set.
LEMMA ApartAgree ==
  ASSUME NEW A, IsFiniteSet(A), NEW B \in SUBSET A,
         NEW w, NEW g, IsSum(g, w, A), NEW v, NEW h, IsSum(h, v, A), AgreeOn(w, v, B)
  PROVE  g[B] = h[B]
<1>1. IsFiniteSet(B) /\ (\A x \in B : w[x] \in Nat) /\ (\A x \in B : v[x] \in Nat)
  BY FS_Subset DEF IsSum
<1>2. PICK k : IsSum(k, w, B)
  BY <1>1, SumGiven
<1>3. IsSum(k, v, B)
  <2>1. \A s \in SUBSET B : s # {} => w[One(s)] = v[One(s)]
    BY OneIn DEF AgreeOn
  <2>2. [s \in SUBSET B |-> IF s = {} THEN 0 ELSE w[One(s)] + k[s \ {One(s)}]]
          = [s \in SUBSET B |-> IF s = {} THEN 0 ELSE v[One(s)] + k[s \ {One(s)}]]
    BY <2>1
  <2> QED BY <1>1, <1>2, <2>2 DEF IsSum, Sums
<1>4. g[B] = k[B]
  BY <1>2, SumsAgree
<1>5. h[B] = k[B]
  BY <1>3, SumsAgree
<1> QED BY <1>4, <1>5

\* A total of naturals is one, and grows by what one of them grows.
LEMMA TotalGrows ==
  ASSUME NEW A, IsFiniteSet(A), NEW w \in [A -> Nat], NEW v \in [A -> Nat], NEW c \in A,
         NEW p \in Nat, v[c] = w[c] + p, AgreeOn(w, v, A \ {c})
  PROVE  /\ Total(w) \in Nat
         /\ Total(v) = Total(w) + p
<1>1. (\A x \in A : w[x] \in Nat) /\ (\A x \in A : v[x] \in Nat)
  OBVIOUS
<1>2. PICK g : IsSum(g, w, A)
  BY <1>1, SumGiven
<1>3. PICK h : IsSum(h, v, A)
  BY <1>1, SumGiven
<1>4. AnyOrder(g, w, A) /\ g \in [SUBSET A -> Nat]
  BY <1>2, SumsAny DEF IsSum
<1>5. AnyOrder(h, v, A)
  BY <1>3, SumsAny DEF IsSum
<1>6. PICK B : B = A \ {c}
  OBVIOUS
<1>7. g[B] = h[B]
  <2>1. B \in SUBSET A /\ AgreeOn(w, v, B)
    BY <1>6
  <2> QED BY <1>2, <1>3, <2>1, ApartAgree
<1>8. g[A] = w[c] + g[B] /\ h[A] = v[c] + h[B]
  BY <1>4, <1>5, <1>6 DEF AnyOrder
<1>9. Total(w) = g[A] /\ Total(v) = h[A]
  <2>1. DOMAIN w = A /\ DOMAIN v = A
    OBVIOUS
  <2> QED BY <1>2, <1>3, <2>1, TotalIs DEF IsSum
<1>10. w[c] \in Nat /\ g[B] \in Nat /\ g[A] \in Nat
  BY <1>4, <1>6
<1> QED BY <1>7, <1>8, <1>9, <1>10

\* The total of zeros.
LEMMA TotalZero ==
  ASSUME NEW A, IsFiniteSet(A)
  PROVE  Total([x \in A |-> 0]) = 0
<1>1. PICK h : h = [s \in SUBSET A |-> 0]
  OBVIOUS
<1>2. PICK w : w = [x \in A |-> 0]
  OBVIOUS
<1>3. Sums(h, w, A)
  <2>1. \A s \in SUBSET A : s # {} => w[One(s)] = 0 /\ h[s \ {One(s)}] = 0
    BY <1>1, <1>2, OneIn
  <2>2. \A s \in SUBSET A : (IF s = {} THEN 0 ELSE w[One(s)] + h[s \ {One(s)}]) = 0
    BY <2>1
  <2>3. [s \in SUBSET A |-> 0] = [s \in SUBSET A |->
                                  IF s = {} THEN 0 ELSE w[One(s)] + h[s \ {One(s)}]]
    BY <2>2
  <2> QED BY <1>1, <2>3 DEF Sums
<1>4. h[A] = 0
  BY <1>1
<1> QED BY <1>2, <1>3, <1>4, TotalIs

-----------------------------------------------------------------------------
(***************************************************************************)
(* Loops.                                                                  *)
(***************************************************************************)

\* One turn of the loop of evaluate_policy_placement (phase3_real_trace_eval.py:91-141).
PlaceTurn(acc, rec, policy, channels, depth) ==
  LET ch == PolicyChannel(policy, rec, channels)
      s  == Account(acc, rec, ch)
      q  == IF IsWrite(rec) THEN s.queue ELSE Append(s.queue, ch)
  IN  IF Len(q) >= depth THEN Flush([s EXCEPT !.queue = q])
                         ELSE [s EXCEPT !.queue = q]

\* One turn of each loop of the code that is a fold in the model: v is what the loop has
\* made so far, x the element it is at and p what the loop is called with.
Turned(loop, p, v, x) ==
  CASE loop = "submit" -> ReadOne(v, x, p[1], p[2])
    [] loop = "choose" -> Choose(v, p, x)
    [] loop = "stage"  -> Stage(v, Entry(p[1], x, p[2]))
    [] loop = "access" -> Access(v, p, x)
    [] loop = "filter" -> IF x.storage_tier = p THEN Append(v, x) ELSE v
    [] loop = "phase"  -> IF x.operation = p THEN Append(v, x) ELSE v
    [] loop = "place"  -> PlaceTurn(v, x, p[1], p[2], p[3])
    [] loop = "bytes"  -> IF x.operation = p THEN v + x.byte_size ELSE v

\* What MapThenFoldSet computes, for every subset of the indices below n.
Iterates(h, loop, p, base, seq, n) ==
  h = [s \in SUBSET (1..n) |->
         IF s = {} THEN base ELSE Turned(loop, p, h[s \ {Max(s)}], seq[Max(s)])]

\* The loop, turn by turn.
Turns(f, loop, p, base, seq) ==
  /\ f[0] = base
  /\ \A i \in 1..Len(seq) : f[i] = Turned(loop, p, f[i - 1], seq[i])

\* Every loop has such a table.
LEMMA IteratesExist ==
  ASSUME NEW loop, NEW p, NEW base, NEW seq, NEW N \in Nat
  PROVE  \E h : Iterates(h, loop, p, base, seq, N)
<1>. DEFINE X == {n \in Nat : \E h : Iterates(h, loop, p, base, seq, n)}
<1>1. 0 \in X
  <2>1. Iterates([s \in SUBSET (1..0) |-> base], loop, p, base, seq, 0)
    <3>1. \A s \in SUBSET (1..0) : s = {}
      OBVIOUS
    <3> QED BY <3>1, Zenon DEF Iterates
  <2> QED BY <2>1
<1>2. ASSUME NEW n \in Nat, n \in X PROVE n + 1 \in X
  <2>1. PICK h : Iterates(h, loop, p, base, seq, n)
    BY <1>2
  <2>. DEFINE m == n + 1
              g == [s \in SUBSET (1..m) |->
                      IF s = {} THEN base
                      ELSE IF m \in s THEN Turned(loop, p, h[s \ {m}], seq[m])
                      ELSE h[s]]
  <2>2. /\ m \in Nat /\ \A s \in SUBSET (1..m) : s \subseteq Nat /\ \A x \in s : x <= m
        /\ \A s \in SUBSET (1..m) : m \notin s => s \in SUBSET (1..n)
        /\ \A s \in SUBSET (1..m) : s \ {m} \in SUBSET (1..n)
        /\ \A s \in SUBSET (1..n) : s \in SUBSET (1..m) /\ m \notin s
    OBVIOUS
  <2>. HIDE DEF m
  <2>3. \A s \in SUBSET (1..n) :
           h[s] = IF s = {} THEN base ELSE Turned(loop, p, h[s \ {Max(s)}], seq[Max(s)])
    BY <2>1, Zenon DEF Iterates
  <2>4. \A s \in SUBSET (1..n) : g[s] = h[s]
    <3>1. h[{}] = base
      BY <2>3
    <3> QED BY <2>2, <3>1
  <2>5. ASSUME NEW s \in SUBSET (1..m)
        PROVE  g[s] = IF s = {} THEN base ELSE Turned(loop, p, g[s \ {Max(s)}], seq[Max(s)])
    <3>1. CASE s = {}
      BY <3>1
    <3>2. CASE m \in s
      <4>1. Max(s) = m
        BY <2>2, <3>2, MaxIs
      <4>2. g[s \ {m}] = h[s \ {m}]
        BY <2>2, <2>4
      <4>3. g[s] = Turned(loop, p, h[s \ {m}], seq[m])
        BY <3>2
      <4>. HIDE DEF g
      <4> QED BY <3>2, <4>1, <4>2, <4>3
    <3>3. CASE s # {} /\ m \notin s
      <4>1. s \in SUBSET (1..n) /\ s \ {Max(s)} \in SUBSET (1..n)
        BY <2>2, <3>3
      <4>. HIDE DEF g
      <4> QED BY <2>3, <2>4, <3>3, <4>1
    <3> QED BY <3>1, <3>2, <3>3
  <2>6. Iterates(g, loop, p, base, seq, m)
    <3>1. g = [s \in SUBSET (1..m) |-> g[s]]
      BY Zenon
    <3>. HIDE DEF g
    <3> QED BY <2>5, <3>1, Zenon DEF Iterates
  <2> QED BY <2>6 DEF m
<1>3. Nat \subseteq X
  <2>. HIDE DEF X
  <2> QED BY <1>1, <1>2, SetInduction
<1> QED BY <1>3

\* The table gives the loop turn by turn.
LEMMA IteratesTurn ==
  ASSUME NEW loop, NEW p, NEW base, NEW S, NEW seq \in Seq(S), NEW h,
         Iterates(h, loop, p, base, seq, Len(seq))
  PROVE  Turns([i \in 0..Len(seq) |-> h[1..i]], loop, p, base, seq)
<1>. DEFINE N == Len(seq)
            f == [i \in 0..N |-> h[1..i]]
<1>1. N \in Nat
  BY LenProperties
<1>. HIDE DEF N
<1>2. \A s \in SUBSET (1..N) :
         h[s] = IF s = {} THEN base ELSE Turned(loop, p, h[s \ {Max(s)}], seq[Max(s)])
  BY Zenon DEF Iterates, N
<1>3. f[0] = base
  <2>1. 1..0 = {} /\ 0 \in 0..N
    BY <1>1
  <2> QED BY <1>2, <2>1
<1>4. ASSUME NEW i \in 1..N PROVE f[i] = Turned(loop, p, f[i - 1], seq[i])
  <2>1. /\ 1..i \in SUBSET (1..N) /\ i \in 1..i /\ 1..i \subseteq Nat /\ \A x \in 1..i : x <= i
        /\ (1..i) \ {i} = 1..(i - 1) /\ i \in 0..N /\ i - 1 \in 0..N
    BY <1>1
  <2>2. Max(1..i) = i
    BY <2>1, MaxIs
  <2>3. h[1..i] = Turned(loop, p, h[1..(i - 1)], seq[i])
    BY <1>2, <2>1, <2>2
  <2> QED BY <2>1, <2>3
<1> QED BY <1>3, <1>4 DEF Turns, N

\* The loop of submit_batch, turn by turn.
LEMMA SubmitTurns ==
  ASSUME NEW S, NEW seq \in Seq(S), NEW base, NEW layer, NEW pages
  PROVE  \E f : /\ Turns(f, "submit", <<layer, pages>>, base, seq)
                /\ SubmitBatch(base, seq, layer, pages) = f[Len(seq)]
<1>. DEFINE Eq(h) == h = [s \in SUBSET (1..Len(seq)) |->
                     IF s = {} THEN base ELSE ReadOne(h[s \ {Max(s)}], seq[Max(s)], layer, pages)]
            it == CHOOSE h : Eq(h)
<1>1. \A h : Eq(h) <=> Iterates(h, "submit", <<layer, pages>>, base, seq, Len(seq))
  BY DEF Iterates, Turned
<1>2. Len(seq) \in Nat /\ DOMAIN seq = 1..Len(seq)
  BY LenProperties
<1>3. Eq(it)
  BY <1>1, <1>2, IteratesExist
<1>4. SubmitBatch(base, seq, layer, pages) = it[1..Len(seq)]
  BY <1>2 DEF FoldLeft, MapThenFoldSet, SubmitBatch
<1>. HIDE DEF it
<1>5. Turns([i \in 0..Len(seq) |-> it[1..i]], "submit", <<layer, pages>>, base, seq)
  BY <1>1, <1>3, IteratesTurn
<1>6. [i \in 0..Len(seq) |-> it[1..i]][Len(seq)] = it[1..Len(seq)]
  BY <1>2
<1> QED BY <1>4, <1>5, <1>6

\* The first loop of prefetch_blocks, turn by turn.
LEMMA ChosenTurns ==
  ASSUME NEW S, NEW seq \in Seq(S), NEW pf, NEW layer, NEW base, base = [pf |-> pf, ids |-> <<>>]
  PROVE  \E f : /\ Turns(f, "choose", layer, base, seq)
                /\ Chosen(pf, seq, layer) = f[Len(seq)]
<1>. DEFINE Eq(h) == h = [s \in SUBSET (1..Len(seq)) |->
                     IF s = {} THEN base ELSE Choose(h[s \ {Max(s)}], layer, seq[Max(s)])]
            it == CHOOSE h : Eq(h)
<1>1. \A h : Eq(h) <=> Iterates(h, "choose", layer, base, seq, Len(seq))
  BY DEF Iterates, Turned
<1>2. Len(seq) \in Nat /\ DOMAIN seq = 1..Len(seq)
  BY LenProperties
<1>3. Eq(it)
  BY <1>1, <1>2, IteratesExist
<1>4. Chosen(pf, seq, layer) = it[1..Len(seq)]
  BY <1>2 DEF FoldLeft, MapThenFoldSet, Chosen
<1>. HIDE DEF it
<1>5. Turns([i \in 0..Len(seq) |-> it[1..i]], "choose", layer, base, seq)
  BY <1>1, <1>3, IteratesTurn
<1>6. [i \in 0..Len(seq) |-> it[1..i]][Len(seq)] = it[1..Len(seq)]
  BY <1>2
<1> QED BY <1>4, <1>5, <1>6

\* The second loop of prefetch_blocks, turn by turn.
LEMMA StageTurns ==
  ASSUME NEW S, NEW seq \in Seq(S), NEW base, NEW layer, NEW pages
  PROVE  \E f : /\ Turns(f, "stage", <<layer, pages>>, base, seq)
                /\ Inserted(base, seq, layer, pages) = f[Len(seq)]
<1>. DEFINE Eq(h) == h = [s \in SUBSET (1..Len(seq)) |->
                     IF s = {} THEN base
                     ELSE Stage(h[s \ {Max(s)}], Entry(layer, seq[Max(s)], pages))]
            it == CHOOSE h : Eq(h)
<1>1. \A h : Eq(h) <=> Iterates(h, "stage", <<layer, pages>>, base, seq, Len(seq))
  BY DEF Iterates, Turned
<1>2. Len(seq) \in Nat /\ DOMAIN seq = 1..Len(seq)
  BY LenProperties
<1>3. Eq(it)
  BY <1>1, <1>2, IteratesExist
<1>4. Inserted(base, seq, layer, pages) = it[1..Len(seq)]
  BY <1>2 DEF FoldLeft, MapThenFoldSet, Inserted
<1>. HIDE DEF it
<1>5. Turns([i \in 0..Len(seq) |-> it[1..i]], "stage", <<layer, pages>>, base, seq)
  BY <1>1, <1>3, IteratesTurn
<1>6. [i \in 0..Len(seq) |-> it[1..i]][Len(seq)] = it[1..Len(seq)]
  BY <1>2
<1> QED BY <1>4, <1>5, <1>6

\* The filter of the trace generator, turn by turn.
LEMMA FilterTurns ==
  ASSUME NEW S, NEW seq \in Seq(S), NEW tier, NEW base, base = <<>>
  PROVE  \E f : /\ Turns(f, "filter", tier, base, seq)
                /\ InTier(seq, tier) = f[Len(seq)]
<1>. DEFINE Eq(h) == h = [s \in SUBSET (1..Len(seq)) |->
                     IF s = {} THEN base
                     ELSE IF seq[Max(s)].storage_tier = tier
                          THEN Append(h[s \ {Max(s)}], seq[Max(s)]) ELSE h[s \ {Max(s)}]]
            it == CHOOSE h : Eq(h)
<1>1. \A h : Eq(h) <=> Iterates(h, "filter", tier, base, seq, Len(seq))
  BY DEF Iterates, Turned
<1>2. Len(seq) \in Nat /\ DOMAIN seq = 1..Len(seq)
  BY LenProperties
<1>3. Eq(it)
  BY <1>1, <1>2, IteratesExist
<1>4. InTier(seq, tier) = it[1..Len(seq)]
  BY <1>2 DEF FoldLeft, MapThenFoldSet, InTier
<1>5. Iterates(it, "filter", tier, base, seq, Len(seq))
  BY <1>1, <1>3
<1>. HIDE DEF it
<1>6. Turns([i \in 0..Len(seq) |-> it[1..i]], "filter", tier, base, seq)
  BY <1>5, IteratesTurn, Zenon
<1>7. [i \in 0..Len(seq) |-> it[1..i]][Len(seq)] = it[1..Len(seq)]
  BY <1>2
<1> QED BY <1>4, <1>6, <1>7

\* The loop of access_blocks, turn by turn.
LEMMA AccessTurns ==
  ASSUME NEW S, NEW seq \in Seq(S), NEW pf, NEW layer, NEW base, base = [pf |-> pf, missed |-> <<>>]
  PROVE  \E f : /\ Turns(f, "access", layer, base, seq)
                /\ Accessed(pf, seq, layer) = f[Len(seq)]
<1>. DEFINE Eq(h) == h = [s \in SUBSET (1..Len(seq)) |->
                     IF s = {} THEN base ELSE Access(h[s \ {Max(s)}], layer, seq[Max(s)])]
            it == CHOOSE h : Eq(h)
<1>1. \A h : Eq(h) <=> Iterates(h, "access", layer, base, seq, Len(seq))
  BY DEF Iterates, Turned
<1>2. Len(seq) \in Nat /\ DOMAIN seq = 1..Len(seq)
  BY LenProperties
<1>3. Eq(it)
  BY <1>1, <1>2, IteratesExist
<1>4. Accessed(pf, seq, layer) = it[1..Len(seq)]
  BY <1>2 DEF FoldLeft, MapThenFoldSet, Accessed
<1>. HIDE DEF it
<1>5. Turns([i \in 0..Len(seq) |-> it[1..i]], "access", layer, base, seq)
  BY <1>1, <1>3, IteratesTurn
<1>6. [i \in 0..Len(seq) |-> it[1..i]][Len(seq)] = it[1..Len(seq)]
  BY <1>2
<1> QED BY <1>4, <1>5, <1>6

-----------------------------------------------------------------------------
(***************************************************************************)
(* The storage backends.                                                   *)
(***************************************************************************)

\* What a backend that reads blocks of so many pages has counted.
BackendKinds == {"none", "mock", "conventional", "tensor_aware"}
BackendState ==
  [kind : BackendKinds, reads : Nat, pages : Nat, channels : [0..(Channels - 1) -> Nat],
   key : Nat, value : Nat, combined : Nat]

\* The pages of the reads, and where and what they are.
Tallied(be) ==
  /\ Total(be.channels) = be.pages
  /\ be.key + be.value = be.pages
  /\ be.combined = 2 * be.value

GoodBackend(be, pages) ==
  /\ be \in BackendState
  /\ be.pages = pages * be.reads
  /\ be.kind # "mock" => Tallied(be)

\* So many reads more.
ReadsMore(be, after, pages, n) ==
  GoodBackend(after, pages) /\ after.reads = be.reads + n /\ after.kind = be.kind

\* Products that the counters are.
LEMMA OneMore == ASSUME NEW p \in Nat, NEW r \in Nat PROVE p * (r + 1) = p * r + p /\ p * r \in Nat
BY Z3

\* Where a read goes (tensor_mapping.py:140-175).
LEMMA ResolveIs ==
  ASSUME NEW be, NEW block \in Nat, NEW layer \in Nat
  PROVE  Resolve(be, block, layer).channel \in 0..(Channels - 1)
<1>1. Channels \in Nat \ {0} /\ BlocksPerHead \in Nat \ {0}
  BY GeometryAssumption
<1>2. TokenBlockIdx(0, block) \in Nat
  BY <1>1, ModRange DEF TokenBlockIdx
<1>3. StripedChannel(layer, 0, TokenBlockIdx(0, block)) \in 0..(Channels - 1)
  BY <1>2, ChannelInRange
<1> QED BY <1>1, <1>3 DEF Resolve, NandPhysical

\* A new backend has counted nothing.
LEMMA BackendStarts ==
  ASSUME NEW kind \in BackendKinds, NEW pages \in Nat
  PROVE  GoodBackend(NewBackend(kind), pages)
<1>1. Channels \in Nat \ {0}
  BY GeometryAssumption
<1>2. IsFiniteSet(0..(Channels - 1))
  BY <1>1, FS_Interval
<1>3. Total(NoCounters) = 0 /\ NoCounters \in [0..(Channels - 1) -> Nat]
  BY <1>2, TotalZero DEF NoCounters
<1>4. PICK none : none = NoCounters
  OBVIOUS
<1>5. NewBackend(kind) \in BackendState
  BY <1>3 DEF NewBackend, BackendState
<1>6. pages * 0 = 0
  OBVIOUS
<1> QED BY <1>3, <1>5, <1>6 DEF NewBackend, GoodBackend, Tallied

\* A counter of a table that grows (tensor_mapping.py:140-175 gives the channel).
LEMMA CountGrows ==
  ASSUME NEW A, IsFiniteSet(A), NEW m, NEW w, NEW c, NEW p,
         m \in [A -> Nat], w \in [A -> Nat], c \in A, p \in Nat, w[c] = m[c] + p,
         AgreeOn(m, w, A \ {c})
  PROVE  Total(w) = Total(m) + p
BY TotalGrows

\* The counters that every read of the flash changes.
LEMMA ReadCounted ==
  ASSUME NEW be, NEW w, NEW d, NEW a, be \in BackendState,
         a = [be EXCEPT !.reads = @ + 1, !.pages = @ + d, !.channels = w]
  PROVE  a = [kind |-> be.kind, reads |-> be.reads + 1, pages |-> be.pages + d,
              channels |-> w, key |-> be.key, value |-> be.value, combined |-> be.combined]
<1>1. be = [kind |-> be.kind, reads |-> be.reads, pages |-> be.pages,
            channels |-> be.channels, key |-> be.key, value |-> be.value,
            combined |-> be.combined]
  BY DEF BackendState
<1> QED BY <1>1

\* A read of the flash is counted on one channel and in its sub-pages.
LEMMA AnalyticalKeeps ==
  ASSUME NEW pages \in Nat \ {0}, NEW be, GoodBackend(be, pages), be.kind # "mock",
         NEW block \in Nat, NEW layer \in Nat,
         NEW after, after = AnalyticalRead(be, block, layer, pages)
  PROVE  ReadsMore(be, after, pages, 1)
<1>1. PICK c \in 0..(Channels - 1) : c = Resolve(be, block, layer).channel
  BY ResolveIs
<1>2. /\ be \in BackendState /\ be.pages = pages * be.reads
      /\ Total(be.channels) = be.pages /\ be.key + be.value = be.pages
      /\ be.combined = 2 * be.value
  BY DEF GoodBackend, Tallied
<1>3. PICK m : m = be.channels
  OBVIOUS
<1>4. m \in [0..(Channels - 1) -> Nat]
  BY <1>2, <1>3 DEF BackendState
<1>5. PICK w : w = [m EXCEPT ![c] = @ + pages]
  OBVIOUS
<1>6. w \in [0..(Channels - 1) -> Nat] /\ w[c] = m[c] + pages
  BY <1>4, <1>5
<1>7. Total(w) = be.pages + pages
  <2>1. PICK A : A = 0..(Channels - 1)
    OBVIOUS
  <2>2. IsFiniteSet(A)
    <3>1. Channels - 1 \in Int
      BY GeometryAssumption
    <3> QED BY <2>1, <3>1, FS_Interval
  <2>3. AgreeOn(m, w, A \ {c})
    BY <1>4, <1>5, <2>1 DEF AgreeOn
  <2>4. m \in [A -> Nat] /\ w \in [A -> Nat] /\ c \in A
    BY <1>4, <1>6, <2>1
  <2>5. Total(w) = Total(m) + pages
    <3>1. PICK v, n, d, p : v = w /\ n = m /\ d = c /\ p = pages
      OBVIOUS
    <3>2. /\ n \in [A -> Nat] /\ v \in [A -> Nat] /\ d \in A /\ p \in Nat
          /\ v[d] = n[d] + p /\ AgreeOn(n, v, A \ {d})
      BY <1>6, <2>3, <2>4, <3>1
    <3>3. Total(v) = Total(n) + p
      BY <2>2, <3>2, CountGrows
    <3> QED BY <3>1, <3>3
  <2> QED BY <1>2, <1>3, <2>5
<1>8. PICK b : b = [be EXCEPT !.reads = @ + 1, !.pages = @ + pages, !.channels = w]
  OBVIOUS
<1>9. b = [kind |-> be.kind, reads |-> be.reads + 1, pages |-> be.pages + pages,
           channels |-> w, key |-> be.key, value |-> be.value, combined |-> be.combined]
  BY <1>2, <1>8, ReadCounted
<1>10. after = AccountSubpage(b, pages, IF pages = 2 THEN "BOTH" ELSE "KEY")
  BY <1>1, <1>3, <1>5, <1>8 DEF AnalyticalRead, BlockPages, CountOn
<1>11. /\ b.reads = be.reads + 1 /\ b.kind = be.kind /\ b.pages = be.pages + pages
       /\ be.key \in Nat /\ be.value \in Nat /\ be.combined \in Nat /\ be.reads \in Nat
       /\ be.pages \in Nat /\ be.kind \in BackendKinds
  BY <1>2, <1>9 DEF BackendState
<1>12. pages * (be.reads + 1) = be.pages + pages
  BY <1>2, <1>11, OneMore
<1>13. CASE pages = 2
  <2>1. pages \div 2 = 1
    BY <1>13
  <2>2. after = [b EXCEPT !.key = @ + 1, !.value = @ + 1, !.combined = @ + 2]
    BY <1>10, <1>13, <2>1 DEF AccountSubpage
  <2>3. after = [kind |-> be.kind, reads |-> be.reads + 1, pages |-> be.pages + pages,
                 channels |-> w, key |-> be.key + 1, value |-> be.value + 1,
                 combined |-> be.combined + 2]
    BY <1>9, <2>2
  <2>4. after \in BackendState
    <3>1. /\ be.key + 1 \in Nat /\ be.value + 1 \in Nat /\ be.combined + 2 \in Nat
          /\ be.reads + 1 \in Nat /\ be.pages + pages \in Nat
      BY <1>11
    <3> QED BY <1>6, <1>11, <2>3, <3>1 DEF BackendState
  <2>5. Tallied(after)
    BY <1>2, <1>7, <1>11, <1>13, <2>3 DEF Tallied
  <2> QED BY <1>12, <2>3, <2>4, <2>5 DEF GoodBackend, ReadsMore
<1>14. CASE pages # 2
  <2>1. after = [b EXCEPT !.key = @ + pages]
    BY <1>10, <1>14 DEF AccountSubpage
  <2>2. after = [kind |-> be.kind, reads |-> be.reads + 1, pages |-> be.pages + pages,
                 channels |-> w, key |-> be.key + pages, value |-> be.value,
                 combined |-> be.combined]
    BY <1>9, <2>1
  <2>3. after \in BackendState
    BY <1>6, <1>11, <2>2 DEF BackendState
  <2>4. Tallied(after)
    BY <1>2, <1>7, <1>11, <2>2 DEF Tallied
  <2> QED BY <1>12, <2>2, <2>3, <2>4 DEF GoodBackend, ReadsMore
<1> QED BY <1>13, <1>14

\* So is a read of the mock, but for channels and sub-pages.
LEMMA ReadKeeps ==
  ASSUME NEW pages \in Nat \ {0}, NEW be, GoodBackend(be, pages),
         NEW block \in Nat, NEW layer \in Nat,
         NEW after, after = ReadOne(be, block, layer, pages)
  PROVE  ReadsMore(be, after, pages, 1)
<1>1. CASE be.kind = "mock"
  <2>1. be \in BackendState /\ be.pages = pages * be.reads
    BY DEF GoodBackend
  <2>2. after = [be EXCEPT !.reads = @ + 1, !.pages = @ + pages]
    BY <1>1 DEF ReadOne, MockRead
  <2>3. pages * (be.reads + 1) = be.pages + pages
    BY <2>1, OneMore DEF BackendState
  <2>4. /\ be.reads \in Nat /\ be.pages \in Nat
        /\ be = [kind |-> be.kind, reads |-> be.reads, pages |-> be.pages,
                 channels |-> be.channels, key |-> be.key, value |-> be.value,
                 combined |-> be.combined]
    BY <2>1 DEF BackendState
  <2>5. after = [kind |-> be.kind, reads |-> be.reads + 1, pages |-> be.pages + pages,
                 channels |-> be.channels, key |-> be.key, value |-> be.value,
                 combined |-> be.combined]
    BY <2>2, <2>4
  <2>6. after \in BackendState
    BY <2>1, <2>5 DEF BackendState
  <2> QED BY <1>1, <2>3, <2>5, <2>6 DEF GoodBackend, ReadsMore
<1>2. CASE be.kind # "mock"
  <2>1. after = AnalyticalRead(be, block, layer, pages)
    BY <1>2 DEF ReadOne
  <2> QED BY <1>2, <2>1, AnalyticalKeeps
<1> QED BY <1>1, <1>2

\* A batch reads each of its blocks once.
LEMMA SubmitKeeps ==
  ASSUME NEW pages \in Nat \ {0}, NEW be, GoodBackend(be, pages),
         NEW ids \in Seq(Nat), NEW layer \in Nat,
         NEW after, after = SubmitBatch(be, ids, layer, pages)
  PROVE  ReadsMore(be, after, pages, Len(ids))
<1>1. PICK f : Turns(f, "submit", <<layer, pages>>, be, ids) /\ after = f[Len(ids)]
  BY SubmitTurns
<1>2. Len(ids) \in Nat
  BY LenProperties
<1>. DEFINE X == {i \in Nat : i <= Len(ids) =>
                    ReadsMore(be, f[i], pages, i)}
<1>3. 0 \in X
  <2>1. f[0] = be /\ be.reads \in Nat
    BY <1>1 DEF Turns, GoodBackend, BackendState
  <2> QED BY <2>1 DEF ReadsMore
<1>4. ASSUME NEW i \in Nat, i \in X PROVE i + 1 \in X
  <2> SUFFICES ASSUME i + 1 <= Len(ids)
               PROVE  ReadsMore(be, f[i + 1], pages, i + 1)
    OBVIOUS
  <2>1. ReadsMore(be, f[i], pages, i)
    BY <1>2, <1>4
  <2>2. i + 1 \in 1..Len(ids) /\ ids[i + 1] \in Nat /\ (i + 1) - 1 = i
    BY <1>2, ElementOfSeq
  <2>3. f[i + 1] = ReadOne(f[i], ids[i + 1], layer, pages)
    <3>1. f[i + 1] = Turned("submit", <<layer, pages>>, f[(i + 1) - 1], ids[i + 1])
      BY <1>1, <2>2 DEF Turns
    <3> QED BY <2>2, <3>1 DEF Turned
  <2>4. ReadsMore(f[i], f[i + 1], pages, 1)
    <3>1. PICK b, x, r : b = f[i] /\ x = ids[i + 1] /\ r = f[i + 1]
      OBVIOUS
    <3>2. GoodBackend(b, pages) /\ x \in Nat /\ r = ReadOne(b, x, layer, pages)
      BY <2>1, <2>2, <2>3, <3>1 DEF ReadsMore
    <3>3. ReadsMore(b, r, pages, 1)
      BY <3>2, ReadKeeps
    <3> QED BY <3>1, <3>3
  <2>5. be.reads \in Nat
    BY DEF GoodBackend, BackendState
  <2> QED BY <2>1, <2>4, <2>5 DEF ReadsMore
<1>5. Nat \subseteq X
  <2>. HIDE DEF X
  <2> QED BY <1>3, <1>4, SetInduction
<1> QED BY <1>1, <1>2, <1>5

-----------------------------------------------------------------------------
(***************************************************************************)
(* The staging buffer.                                                     *)
(***************************************************************************)

\* The staging buffer: entries of blocks that are all different, each read from the storage as
\* so many pages, and the keys of those that no access has hit.
Places == (0..(ConfigLayers - 1)) \X Nat
Staged == [key : Places, pages : Nat, useful : BOOLEAN]
Distinct(s) == \A i, j \in 1..Len(s) : s[i].key = s[j].key => i = j
KeysAt(s, I) == {s[i].key : i \in I}
UnreadKeys(s) == KeysAt(s, Unread(s))
Buffer(s, pages) ==
  /\ s \in Seq(Staged) /\ Distinct(s)
  /\ \A i \in 1..Len(s) : s[i].pages = pages

\* s without its element at at.
Without(s, r, at) ==
  /\ Len(r) = Len(s) - 1
  /\ \A i \in 1..Len(r) : r[i] = s[IF i < at THEN i ELSE i + 1]

\* As many keys as entries.
LEMMA KeysCounted ==
  ASSUME NEW s, s \in Seq(Staged), Distinct(s), NEW I \in SUBSET (1..Len(s))
  PROVE  /\ IsFiniteSet(KeysAt(s, I))
         /\ Cardinality(KeysAt(s, I)) = Cardinality(I) /\ Cardinality(I) \in Nat
<1>1. Len(s) \in Nat
  BY LenProperties
<1>2. IsFiniteSet(I) /\ Cardinality(I) \in Nat
  <2>1. IsFiniteSet(1..Len(s))
    BY <1>1, FS_Interval
  <2>2. IsFiniteSet(I)
    BY <2>1, FS_Subset
  <2> QED BY <2>2, FS_CardinalityType
<1>3. PICK T : T = KeysAt(s, I)
  OBVIOUS
<1>4. [i \in I |-> s[i].key] \in Bijection(I, T)
  BY <1>3 DEF Bijection, Injection, Surjection, KeysAt, Distinct, IsInjective
<1>5. ExistsBijection(I, T)
  BY <1>4 DEF ExistsBijection
<1> QED BY <1>2, <1>3, <1>5, FS_Bijection

\* What is counted by entry may be counted by key.
LEMMA BufferCounted ==
  ASSUME NEW s, NEW pages, Buffer(s, pages)
  PROVE  /\ Cardinality(Keys(s)) = Len(s) /\ Len(s) \in Nat
         /\ IsFiniteSet(UnreadKeys(s)) /\ Cardinality(UnreadKeys(s)) \in Nat
         /\ Cardinality(Unread(s)) = Cardinality(UnreadKeys(s))
<1>1. s \in Seq(Staged) /\ Distinct(s) /\ Len(s) \in Nat
  BY LenProperties DEF Buffer
<1>2. Keys(s) = KeysAt(s, 1..Len(s))
  BY DEF Keys, KeysAt
<1>3. Cardinality(1..Len(s)) = Len(s)
  <2>1. PICK n \in Nat : n = Len(s)
    BY <1>1
  <2>2. Cardinality(1..n) = IF 1 > n THEN 0 ELSE n - 1 + 1
    BY FS_Interval
  <2>3. Cardinality(1..n) = n
    BY <2>2
  <2> QED BY <2>1, <2>3
<1>4. (1..Len(s)) \in SUBSET (1..Len(s)) /\ Unread(s) \in SUBSET (1..Len(s))
  BY DEF Unread
<1>5. Cardinality(Keys(s)) = Len(s)
  BY <1>1, <1>2, <1>3, <1>4, KeysCounted
<1> QED BY <1>1, <1>4, <1>5, KeysCounted DEF UnreadKeys

\* An entry and its key.
LEMMA KeyOf ==
  ASSUME NEW s, NEW k
  PROVE  /\ k \in Keys(s) <=> \E i \in 1..Len(s) : k = s[i].key
         /\ k \in UnreadKeys(s) <=> \E i \in 1..Len(s) : ~s[i].useful /\ k = s[i].key
BY DEF Keys, UnreadKeys, KeysAt, Unread

\* An entry leaves the buffer.
LEMMA WithoutKeeps ==
  ASSUME NEW s, NEW pages, Buffer(s, pages), NEW at, at \in 1..Len(s),
         NEW r, r \in Seq(Staged), Without(s, r, at)
  PROVE  /\ Buffer(r, pages)
         /\ Keys(r) = Keys(s) \ {s[at].key}
         /\ UnreadKeys(r) = UnreadKeys(s) \ {s[at].key}
<1>1. /\ Len(s) \in Nat /\ Len(r) = Len(s) - 1 /\ Len(r) \in Nat /\ at \in Nat
      /\ at >= 1 /\ at <= Len(s) /\ Distinct(s)
  BY LenProperties DEF Buffer, Without
<1>2. \A i \in 1..Len(r) :
         /\ (IF i < at THEN i ELSE i + 1) \in 1..Len(s)
         /\ (IF i < at THEN i ELSE i + 1) # at
         /\ r[i] = s[IF i < at THEN i ELSE i + 1]
  BY <1>1 DEF Without
<1>3. \A j \in 1..Len(s) : j # at => \E i \in 1..Len(r) : r[i] = s[j]
  <2> TAKE j \in 1..Len(s)
  <2> HAVE j # at
  <2>1. CASE j < at
    <3>1. j \in 1..Len(r) /\ r[j] = s[j]
      BY <1>1, <1>2, <2>1
    <3> QED BY <3>1
  <2>2. CASE j > at
    <3>1. j - 1 \in 1..Len(r) /\ ~(j - 1 < at) /\ (j - 1) + 1 = j
      BY <1>1, <2>2
    <3>2. r[j - 1] = s[j]
      BY <1>2, <3>1
    <3> QED BY <3>1, <3>2
  <2> QED BY <1>1, <2>1, <2>2
<1>4. Distinct(r)
  <2> SUFFICES ASSUME NEW i \in 1..Len(r), NEW j \in 1..Len(r), r[i].key = r[j].key
               PROVE  i = j
    BY DEF Distinct
  <2>1. (IF i < at THEN i ELSE i + 1) = (IF j < at THEN j ELSE j + 1)
    BY <1>1, <1>2 DEF Distinct
  <2> QED BY <1>1, <2>1
<1>5. \A i \in 1..Len(r) : r[i].pages = pages
  BY <1>2 DEF Buffer
<1>6. \A j \in 1..Len(s) : s[j].key = s[at].key => j = at
  BY <1>1 DEF Distinct
<1>7. ASSUME NEW k PROVE k \in Keys(r) <=> k \in Keys(s) \ {s[at].key}
  <2>1. k \in Keys(r) <=> \E i \in 1..Len(r) : k = r[i].key
    BY KeyOf
  <2>2. k \in Keys(s) <=> \E i \in 1..Len(s) : k = s[i].key
    BY KeyOf
  <2>3. ASSUME NEW i \in 1..Len(r), k = r[i].key PROVE k \in Keys(s) /\ k # s[at].key
    BY <1>2, <1>6, <2>2, <2>3
  <2>4. ASSUME NEW j \in 1..Len(s), k = s[j].key, k # s[at].key PROVE k \in Keys(r)
    BY <1>3, <2>1, <2>4
  <2> QED BY <2>1, <2>2, <2>3, <2>4
<1>8. ASSUME NEW k PROVE k \in UnreadKeys(r) <=> k \in UnreadKeys(s) \ {s[at].key}
  <2>1. k \in UnreadKeys(r) <=> \E i \in 1..Len(r) : ~r[i].useful /\ k = r[i].key
    BY KeyOf
  <2>2. k \in UnreadKeys(s) <=> \E i \in 1..Len(s) : ~s[i].useful /\ k = s[i].key
    BY KeyOf
  <2>3. ASSUME NEW i \in 1..Len(r), ~r[i].useful, k = r[i].key
        PROVE  k \in UnreadKeys(s) /\ k # s[at].key
    BY <1>2, <1>6, <2>2, <2>3
  <2>4. ASSUME NEW j \in 1..Len(s), ~s[j].useful, k = s[j].key, k # s[at].key
        PROVE  k \in UnreadKeys(r)
    BY <1>3, <2>1, <2>4
  <2> QED BY <2>1, <2>2, <2>3, <2>4
<1> QED BY <1>4, <1>5, <1>7, <1>8 DEF Buffer

\* An entry is inserted at the young end.
LEMMA AppendKeeps ==
  ASSUME NEW s, NEW pages, Buffer(s, pages), NEW e, e \in Staged, e.pages = pages,
         e.key \notin Keys(s), NEW r, r = Append(s, e)
  PROVE  /\ Buffer(r, pages) /\ Len(r) = Len(s) + 1
         /\ Keys(r) = Keys(s) \cup {e.key}
         /\ UnreadKeys(r) = IF e.useful THEN UnreadKeys(s) ELSE UnreadKeys(s) \cup {e.key}
<1>1. /\ s \in Seq(Staged) /\ Len(s) \in Nat /\ Distinct(s)
      /\ \A i \in 1..Len(s) : s[i].pages = pages
  BY LenProperties DEF Buffer
<1>2. /\ r \in Seq(Staged) /\ Len(r) = Len(s) + 1
      /\ \A i \in 1..Len(s) : r[i] = s[i]
      /\ r[Len(s) + 1] = e
  BY <1>1, AppendProperties
<1>3. \A i \in 1..Len(r) : i \in 1..Len(s) \/ i = Len(s) + 1
  BY <1>1, <1>2
<1>4. \A i \in 1..Len(s) : i \in 1..Len(r) /\ s[i].key # e.key
  BY <1>1, <1>2, KeyOf
<1>5. Len(s) + 1 \in 1..Len(r)
  BY <1>1, <1>2
<1>6. Distinct(r)
  BY <1>1, <1>2, <1>3, <1>4 DEF Distinct
<1>7. \A i \in 1..Len(r) : r[i].pages = pages
  BY <1>1, <1>2, <1>3
<1>8. ASSUME NEW k PROVE k \in Keys(r) <=> k \in Keys(s) \cup {e.key}
  <2>1. k \in Keys(r) <=> \E i \in 1..Len(r) : k = r[i].key
    BY DEF Keys, UnreadKeys, KeysAt, Unread
  <2>2. k \in Keys(s) <=> \E i \in 1..Len(s) : k = s[i].key
    BY KeyOf
  <2>3. ASSUME NEW i \in 1..Len(r), k = r[i].key PROVE k \in Keys(s) \cup {e.key}
    BY <1>2, <1>3, <2>2, <2>3
  <2>4. ASSUME NEW j \in 1..Len(s), k = s[j].key PROVE k \in Keys(r)
    BY <1>2, <1>4, <2>1, <2>4
  <2>5. e.key \in Keys(r)
    BY <1>2, <1>5, KeyOf
  <2> QED BY <2>1, <2>2, <2>3, <2>4, <2>5
<1>9. ASSUME NEW k
      PROVE  k \in UnreadKeys(r) <=> (k \in UnreadKeys(s) \/ (~e.useful /\ k = e.key))
  <2>1. k \in UnreadKeys(r) <=> \E i \in 1..Len(r) : ~r[i].useful /\ k = r[i].key
    BY DEF Keys, UnreadKeys, KeysAt, Unread
  <2>2. k \in UnreadKeys(s) <=> \E i \in 1..Len(s) : ~s[i].useful /\ k = s[i].key
    BY KeyOf
  <2>3. ASSUME NEW i \in 1..Len(r), ~r[i].useful, k = r[i].key
        PROVE  k \in UnreadKeys(s) \/ (~e.useful /\ k = e.key)
    BY <1>2, <1>3, <2>2, <2>3
  <2>4. ASSUME NEW j \in 1..Len(s), ~s[j].useful, k = s[j].key PROVE k \in UnreadKeys(r)
    BY <1>2, <1>4, <2>1, <2>4
  <2>5. ~e.useful /\ k = e.key => k \in UnreadKeys(r)
    BY <1>2, <1>5, <2>1
  <2> QED BY <2>1, <2>2, <2>3, <2>4, <2>5
<1>10. Keys(r) = Keys(s) \cup {e.key}
  BY <1>8
<1>11. UnreadKeys(r) = IF e.useful THEN UnreadKeys(s) ELSE UnreadKeys(s) \cup {e.key}
  BY <1>9
<1> QED BY <1>2, <1>6, <1>7, <1>10, <1>11 DEF Buffer

-----------------------------------------------------------------------------
(***************************************************************************)
(* The prefetcher.                                                         *)
(***************************************************************************)

\* The prefetcher of an experiment with blocks of so many pages: what it asked for was useful,
\* was counted useless, or waits.
PrefetcherState ==
  [staged : Seq(Staged), requests : Nat, useful : Nat, useless : Nat, hits : Nat,
   misses : Nat, extra : Nat, peak : Nat]

GoodPrefetcher(pf, pages) ==
  /\ pf \in PrefetcherState /\ Buffer(pf.staged, pages)
  /\ pf.requests = pf.useful + pf.useless + Cardinality(UnreadKeys(pf.staged))
  /\ pf.extra = pages * pf.useless

\* The fields of the prefetcher.
LEMMA PrefetcherIs ==
  ASSUME NEW pf, pf \in PrefetcherState
  PROVE  /\ pf = [staged |-> pf.staged, requests |-> pf.requests, useful |-> pf.useful,
                  useless |-> pf.useless, hits |-> pf.hits, misses |-> pf.misses,
                  extra |-> pf.extra, peak |-> pf.peak]
         /\ pf.staged \in Seq(Staged) /\ pf.requests \in Nat /\ pf.useful \in Nat
         /\ pf.useless \in Nat /\ pf.hits \in Nat /\ pf.misses \in Nat /\ pf.extra \in Nat
         /\ pf.peak \in Nat
BY DEF PrefetcherState

\* A new prefetcher has an empty buffer.
LEMMA PrefetcherStarts ==
  ASSUME NEW pages \in Nat
  PROVE  GoodPrefetcher(NewPrefetcher, pages)
<1>1. <<>> \in Seq(Staged) /\ Len(<<>>) = 0
  BY Tuples, EmptySeq
<1>2. UnreadKeys(<<>>) = {}
  BY <1>1 DEF UnreadKeys, KeysAt, Unread
<1>3. Buffer(<<>>, pages)
  BY <1>1 DEF Buffer, Distinct
<1>4. Cardinality({}) = 0 /\ pages * 0 = 0
  BY FS_EmptySet
<1>5. NewPrefetcher \in PrefetcherState
  BY <1>1 DEF NewPrefetcher, PrefetcherState
<1>6. PICK e, pf : e = <<>> /\ pf = NewPrefetcher
  OBVIOUS
<1>7. /\ pf.staged = e /\ pf.requests = 0 /\ pf.useful = 0 /\ pf.useless = 0 /\ pf.extra = 0
      /\ pf \in PrefetcherState
  BY <1>5, <1>6 DEF NewPrefetcher
<1>8. Buffer(e, pages) /\ Cardinality(UnreadKeys(e)) = 0
  BY <1>2, <1>3, <1>4, <1>6
<1> QED BY <1>4, <1>6, <1>7, <1>8 DEF GoodPrefetcher

\* The keys that are left when one goes.
LEMMA OneLess ==
  ASSUME NEW T, IsFiniteSet(T), NEW k
  PROVE  /\ k \in T => Cardinality(T) = Cardinality(T \ {k}) + 1
         /\ k \notin T => Cardinality(T \ {k}) = Cardinality(T)
         /\ Cardinality(T \ {k}) \in Nat /\ Cardinality(T) \in Nat
<1>1. IsFiniteSet(T \ {k})
  BY FS_RemoveElement
<1>2. Cardinality(T \ {k}) \in Nat /\ Cardinality(T) \in Nat
  BY <1>1, FS_CardinalityType
<1>3. Cardinality(T \ {k}) = IF k \in T THEN Cardinality(T)-1 ELSE Cardinality(T)
  BY FS_RemoveElement
<1> QED BY <1>2, <1>3

\* Whether an entry waits is what its key says.
LEMMA WaitingKey ==
  ASSUME NEW s, NEW pages, Buffer(s, pages), NEW at, at \in 1..Len(s)
  PROVE  s[at].key \in UnreadKeys(s) <=> ~s[at].useful
<1>1. Distinct(s)
  BY DEF Buffer
<1>2. s[at].key \in UnreadKeys(s) <=> \E i \in 1..Len(s) : ~s[i].useful /\ s[at].key = s[i].key
  BY KeyOf
<1> QED BY <1>1, <1>2 DEF Distinct

\* The oldest entry goes, and is counted when nothing hit it.
LEMMA TailGoes ==
  ASSUME NEW s, s \in Seq(Staged), s # <<>>
  PROVE  /\ 1 \in 1..Len(s) /\ Head(s) = s[1]
         /\ Tail(s) \in Seq(Staged) /\ Without(s, Tail(s), 1)
<1>1. /\ Len(s) \in Nat /\ Len(s) # 0
      /\ Tail(s) \in Seq(Staged) /\ Len(Tail(s)) = Len(s) - 1
      /\ \A i \in 1..Len(Tail(s)) : Tail(s)[i] = s[i+1]
  BY LenProperties, HeadTailProperties, EmptySeq
<1>2. \A i \in 1..Len(Tail(s)) : ~(i < 1)
  BY <1>1
<1>3. Head(s) = s[1] /\ 1 \in 1..Len(s)
  BY <1>1, HeadTailProperties
<1> QED BY <1>1, <1>2, <1>3 DEF Without

\* What making room does to the prefetcher (v2_prefetcher.py:85-90).
RoomMade(pf, after) ==
  /\ after.requests = pf.requests /\ after.misses = pf.misses
  /\ Keys(after.staged) \subseteq Keys(pf.staged)
  /\ \/ Len(after.staged) <= Capacity - 1 /\ Len(after.staged) = Len(pf.staged)
     \/ Len(after.staged) + 1 = Len(pf.staged)

\* Making room drops one entry, counted if nobody read it (v2_prefetcher.py:85-90).
LEMMA RoomKeeps ==
  ASSUME NEW pages \in Nat, NEW pf, GoodPrefetcher(pf, pages), NEW after, after = MakeRoom(pf)
  PROVE  GoodPrefetcher(after, pages) /\ RoomMade(pf, after)
<1>1. /\ pf \in PrefetcherState /\ Buffer(pf.staged, pages)
      /\ pf.requests = pf.useful + pf.useless + Cardinality(UnreadKeys(pf.staged))
      /\ pf.extra = pages * pf.useless
  BY DEF GoodPrefetcher
<1>2. Len(pf.staged) \in Nat /\ Capacity \in Nat \ {0} /\ pf.staged \in Seq(Staged)
  BY <1>1, BufferCounted, CapacityAssumption DEF Buffer
<1>3. CASE Len(pf.staged) < Capacity
  <2>1. after = pf
    BY <1>3 DEF MakeRoom
  <2>2. Len(pf.staged) <= Capacity - 1
    BY <1>2, <1>3
  <2> QED BY <2>1, <2>2 DEF RoomMade
<1>4. CASE ~(Len(pf.staged) < Capacity)
  <2>1. PICK s, old, t : s = pf.staged /\ old = Head(s) /\ t = Tail(s)
    OBVIOUS
  <2>2. s # <<>>
    BY <1>2, <1>4, <2>1, EmptySeq
  <2>3. /\ 1 \in 1..Len(s) /\ old = s[1] /\ t \in Seq(Staged) /\ Without(s, t, 1)
    BY <1>2, <2>1, <2>2, TailGoes
  <2>4. /\ Buffer(t, pages) /\ Keys(t) = Keys(s) \ {old.key}
        /\ UnreadKeys(t) = UnreadKeys(s) \ {old.key}
    <3>1. PICK i : i = 1
      OBVIOUS
    <3>2. i \in 1..Len(s) /\ Without(s, t, i) /\ old = s[i] /\ Buffer(s, pages)
      BY <1>1, <2>1, <2>3, <3>1
    <3>3. /\ Buffer(t, pages) /\ Keys(t) = Keys(s) \ {s[i].key}
          /\ UnreadKeys(t) = UnreadKeys(s) \ {s[i].key}
      BY <2>3, <3>2, WithoutKeeps
    <3> QED BY <3>2, <3>3
  <2>5. /\ old.pages = pages /\ Len(t) + 1 = Len(s)
        /\ old.key \in UnreadKeys(s) <=> ~old.useful
    <3>1. old.pages = pages
      BY <1>1, <2>1, <2>3 DEF Buffer
    <3>2. Len(t) = Len(s) - 1
      BY <2>3 DEF Without
    <3> QED BY <1>1, <1>2, <2>1, <2>3, <3>1, <3>2, WaitingKey
  <2>6. PICK n, p : n = (IF old.useful THEN 0 ELSE 1) /\ p = (IF old.useful THEN 0 ELSE pages)
    OBVIOUS
  <2>7. after = [pf EXCEPT !.staged = t, !.useless = @ + n, !.extra = @ + p]
    BY <1>4, <2>1, <2>5, <2>6 DEF MakeRoom
  <2>8. after = [staged |-> t, requests |-> pf.requests, useful |-> pf.useful,
                 useless |-> pf.useless + n, hits |-> pf.hits, misses |-> pf.misses,
                 extra |-> pf.extra + p, peak |-> pf.peak]
    BY <1>1, <2>7, PrefetcherIs
  <2>9. n \in Nat /\ p \in Nat
    BY <2>6
  <2>10. after \in PrefetcherState
    <3>1. PICK u, e, x, y : u = pf.useless + n /\ e = pf.extra + p /\ x = pf.useless /\ y = pf.extra
      OBVIOUS
    <3>2. x \in Nat /\ y \in Nat
      BY <1>1, <3>1, PrefetcherIs
    <3>3. u \in Nat /\ e \in Nat
      BY <2>9, <3>1, <3>2
    <3>4. after = [staged |-> t, requests |-> pf.requests, useful |-> pf.useful,
                   useless |-> u, hits |-> pf.hits, misses |-> pf.misses,
                   extra |-> e, peak |-> pf.peak]
      BY <2>8, <3>1
    <3>5. /\ t \in Seq(Staged) /\ pf.requests \in Nat /\ pf.useful \in Nat
          /\ pf.hits \in Nat /\ pf.misses \in Nat /\ pf.peak \in Nat
      BY <1>1, <2>3, PrefetcherIs
    <3> QED BY <3>3, <3>4, <3>5 DEF PrefetcherState
  <2>11. IsFiniteSet(UnreadKeys(s))
    BY <1>1, <2>1, BufferCounted
  <2>12. Cardinality(UnreadKeys(s)) = Cardinality(UnreadKeys(t)) + n
         /\ Cardinality(UnreadKeys(t)) \in Nat
    BY <2>4, <2>5, <2>6, <2>11, OneLess
  <2>13. pf.requests = pf.useful + (pf.useless + n) + Cardinality(UnreadKeys(t))
    <3>1. pf.useful \in Nat /\ pf.useless \in Nat /\ pf.requests \in Nat
      BY <1>1, PrefetcherIs
    <3> QED BY <1>1, <2>1, <2>9, <2>12, <3>1
  <2>14. pf.extra + p = pages * (pf.useless + n)
    <3>1. pf.useless \in Nat
      BY <1>1, PrefetcherIs
    <3>2. pages * (pf.useless + 1) = pages * pf.useless + pages /\ pages * pf.useless \in Nat
      BY <3>1, OneMore
    <3> QED BY <1>1, <2>6, <3>1, <3>2
  <2>15. GoodPrefetcher(after, pages)
    BY <2>4, <2>8, <2>10, <2>13, <2>14 DEF GoodPrefetcher
  <2> QED BY <2>1, <2>4, <2>5, <2>8, <2>15 DEF RoomMade
<1> QED BY <1>3, <1>4

\* A sequence without one of its elements.
LEMMA RemovedIs ==
  ASSUME NEW S, NEW s, s \in Seq(S), NEW at, at \in 1..Len(s)
  PROVE  RemoveAt(s, at) \in Seq(S) /\ Without(s, RemoveAt(s, at), at)
BY RemoveAtIs DEF Without

\* What a hit does to the prefetcher (v2_prefetcher.py:138-147).
HitMade(pf, after) ==
  /\ after.requests = pf.requests /\ after.misses = pf.misses
  /\ Len(after.staged) = Len(pf.staged)

\* A hit moves one entry to the young end, useful from now on (v2_prefetcher.py:138-147).
LEMMA HitKeeps ==
  ASSUME NEW pages \in Nat, NEW pf, GoodPrefetcher(pf, pages),
         NEW key, key \in Keys(pf.staged), NEW after, after = Hit(pf, key)
  PROVE  GoodPrefetcher(after, pages) /\ HitMade(pf, after)
<1>1. /\ pf \in PrefetcherState /\ Buffer(pf.staged, pages)
      /\ pf.requests = pf.useful + pf.useless + Cardinality(UnreadKeys(pf.staged))
      /\ pf.extra = pages * pf.useless
  BY DEF GoodPrefetcher
<1>2. PICK s, at, r : /\ s = pf.staged
                      /\ at = CHOOSE i \in 1..Len(pf.staged) : pf.staged[i].key = key
                      /\ r = RemoveAt(pf.staged, at)
  OBVIOUS
<1>3. at \in 1..Len(s) /\ s[at].key = key
  <2>1. \E i \in 1..Len(s) : s[i].key = key
    BY <1>2, KeyOf
  <2> QED BY <1>2, <2>1
<1>4. PICK old, new : old = s[at] /\ new = [old EXCEPT !.useful = TRUE]
  OBVIOUS
<1>5. s \in Seq(Staged) /\ Buffer(s, pages)
  BY <1>1, <1>2 DEF Buffer
<1>6. old \in Staged /\ old.pages = pages /\ old.key = key
  BY <1>3, <1>4, <1>5, ElementOfSeq DEF Buffer
<1>7. new \in Staged /\ new.pages = pages /\ new.key = key /\ new.useful = TRUE
  BY <1>4, <1>6 DEF Staged
<1>8. r \in Seq(Staged) /\ Without(s, r, at)
  BY <1>2, <1>3, <1>5, RemovedIs
<1>9. /\ Buffer(r, pages) /\ Keys(r) = Keys(s) \ {key}
      /\ UnreadKeys(r) = UnreadKeys(s) \ {key}
  <2>1. /\ Buffer(r, pages) /\ Keys(r) = Keys(s) \ {s[at].key}
        /\ UnreadKeys(r) = UnreadKeys(s) \ {s[at].key}
    BY <1>3, <1>5, <1>8, WithoutKeeps
  <2> QED BY <1>3, <2>1
<1>10. PICK t : t = Append(r, new)
  OBVIOUS
<1>11. /\ Buffer(t, pages) /\ Len(t) = Len(r) + 1
       /\ UnreadKeys(t) = UnreadKeys(s) \ {key}
  <2>1. new.key \notin Keys(r)
    BY <1>7, <1>9
  <2>2. /\ Buffer(t, pages) /\ Len(t) = Len(r) + 1
        /\ UnreadKeys(t) = IF new.useful THEN UnreadKeys(r) ELSE UnreadKeys(r) \cup {new.key}
    BY <1>7, <1>9, <1>10, <2>1, AppendKeeps
  <2> QED BY <1>7, <1>9, <2>2
<1>12. Len(t) = Len(s)
  <2>1. Len(s) \in Nat /\ Len(r) = Len(s) - 1
    BY <1>5, <1>8, LenProperties DEF Without
  <2> QED BY <1>11, <2>1
<1>13. PICK n : n = (IF old.useful THEN 0 ELSE 1)
  OBVIOUS
<1>14. after = [pf EXCEPT !.staged = t, !.useful = @ + n, !.hits = @ + 1]
  BY <1>2, <1>4, <1>10, <1>13 DEF Hit
<1>15. after = [staged |-> t, requests |-> pf.requests, useful |-> pf.useful + n,
                useless |-> pf.useless, hits |-> pf.hits + 1, misses |-> pf.misses,
                extra |-> pf.extra, peak |-> pf.peak]
  BY <1>1, <1>14, PrefetcherIs
<1>16. n \in Nat /\ t \in Seq(Staged)
  BY <1>11, <1>13 DEF Buffer
<1>17. after \in PrefetcherState
  BY <1>1, <1>15, <1>16 DEF PrefetcherState
<1>18. key \in UnreadKeys(s) <=> ~old.useful
  BY <1>3, <1>4, <1>5, WaitingKey
<1>19. IsFiniteSet(UnreadKeys(s))
  BY <1>5, BufferCounted
<1>20. Cardinality(UnreadKeys(s)) = Cardinality(UnreadKeys(t)) + n
       /\ Cardinality(UnreadKeys(t)) \in Nat
  BY <1>11, <1>13, <1>18, <1>19, OneLess
<1>21. pf.requests = (pf.useful + n) + pf.useless + Cardinality(UnreadKeys(t))
  <2>1. pf.useful \in Nat /\ pf.useless \in Nat /\ pf.requests \in Nat
    BY <1>1, PrefetcherIs
  <2> QED BY <1>1, <1>2, <1>16, <1>20, <2>1
<1>22. GoodPrefetcher(after, pages)
  <2>1. /\ after.staged = t /\ after.requests = pf.requests /\ after.useful = pf.useful + n
        /\ after.useless = pf.useless /\ after.extra = pf.extra
    BY <1>15
  <2> QED BY <1>1, <1>11, <1>17, <1>21, <2>1 DEF GoodPrefetcher
<1> QED BY <1>2, <1>12, <1>15, <1>22 DEF HitMade

-----------------------------------------------------------------------------
(***************************************************************************)
(* What a prefetch asks for.                                               *)
(***************************************************************************)

Differ(ids) == \A i, j \in 1..Len(ids) : ids[i] = ids[j] => i = j

\* What prefetch_blocks has chosen after i of the ids (v2_prefetcher.py:80-100): ids of the
\* batch, each once, that are not in the buffer; and for each there is room, or as much less in
\* the buffer.
ChoiceMade(pf, acc, layer, ids, i, pages) ==
  /\ GoodPrefetcher(acc.pf, pages)
  /\ acc.pf.requests = pf.requests /\ acc.pf.misses = pf.misses
  /\ acc.ids \in Seq(Nat) /\ Differ(acc.ids) /\ Len(acc.ids) <= i
  /\ \A k \in 1..Len(acc.ids) : /\ \E j \in 1..i : acc.ids[k] = ids[j]
                                /\ <<layer, acc.ids[k]>> \notin Keys(acc.pf.staged)
  /\ \/ Len(acc.pf.staged) <= Capacity - 1
     \/ Len(acc.pf.staged) + Len(acc.ids) <= Len(pf.staged)

\* There is room for one entry more, or the buffer has one less than it can hold.
LEMMA RoomFor ==
  ASSUME NEW x \in Nat, NEW y \in Nat, NEW n \in Nat, NEW o \in Nat, NEW c \in Nat,
         (x <= c - 1 /\ x = y) \/ x + 1 = y, y <= c - 1 \/ y + n <= o
  PROVE  x <= c - 1 \/ x + (n + 1) <= o
OBVIOUS

\* One turn of the loop that chooses (v2_prefetcher.py:80-100).
LEMMA ChooseKeeps ==
  ASSUME NEW pages \in Nat, NEW layer, NEW ids, ids \in Seq(Nat), Differ(ids), NEW pf,
         NEW i \in Nat, i + 1 \in 1..Len(ids), NEW acc, ChoiceMade(pf, acc, layer, ids, i, pages),
         NEW id, id = ids[i + 1], NEW after, after = Choose(acc, layer, id),
         Len(pf.staged) \in Nat
  PROVE  ChoiceMade(pf, after, layer, ids, i + 1, pages)
<1>1. /\ GoodPrefetcher(acc.pf, pages)
      /\ acc.pf.requests = pf.requests /\ acc.pf.misses = pf.misses
      /\ acc.ids \in Seq(Nat) /\ Differ(acc.ids) /\ Len(acc.ids) <= i
      /\ \A k \in 1..Len(acc.ids) : /\ \E j \in 1..i : acc.ids[k] = ids[j]
                                    /\ <<layer, acc.ids[k]>> \notin Keys(acc.pf.staged)
      /\ \/ Len(acc.pf.staged) <= Capacity - 1
         \/ Len(acc.pf.staged) + Len(acc.ids) <= Len(pf.staged)
  BY DEF ChoiceMade
<1>2. /\ Len(acc.ids) \in Nat /\ id \in Nat /\ \A j \in 1..i : j \in 1..Len(ids) /\ j \in 1..(i + 1)
      /\ i + 1 \in 1..(i + 1) /\ Len(ids) \in Nat
  BY <1>1, LenProperties, ElementOfSeq
<1>3. CASE <<layer, id>> \in Keys(acc.pf.staged)
  <2>1. after = acc
    BY <1>3 DEF Choose
  <2>2. \A k \in 1..Len(acc.ids) : \E j \in 1..(i + 1) : acc.ids[k] = ids[j]
    BY <1>1, <1>2
  <2>3. Len(acc.ids) <= i + 1
    BY <1>1, <1>2
  <2> QED BY <1>1, <2>1, <2>2, <2>3 DEF ChoiceMade
<1>4. CASE <<layer, id>> \notin Keys(acc.pf.staged)
  <2>1. PICK b, a, c, d : b = acc.pf /\ a = MakeRoom(acc.pf) /\ c = acc.ids
                          /\ d = Append(acc.ids, id)
    OBVIOUS
  <2>2. after = [pf |-> a, ids |-> d]
    BY <1>4, <2>1 DEF Choose
  <2>3. GoodPrefetcher(a, pages) /\ RoomMade(b, a)
    BY <1>1, <2>1, RoomKeeps
  <2>4. /\ d \in Seq(Nat) /\ Len(d) = Len(c) + 1
        /\ \A k \in 1..Len(c) : d[k] = c[k]
        /\ d[Len(c) + 1] = id
    BY <1>1, <1>2, <2>1, AppendProperties
  <2>5. \A k \in 1..Len(d) : k \in 1..Len(c) \/ k = Len(c) + 1
    BY <1>2, <2>1, <2>4
  <2>6. ASSUME NEW k \in 1..Len(c) PROVE c[k] # id
    <3>1. PICK j \in 1..i : c[k] = ids[j]
      BY <1>1, <2>1
    <3>2. j \in 1..Len(ids) /\ j # i + 1
      BY <1>2
    <3> QED BY <3>1, <3>2 DEF Differ
  <2>7. Differ(d)
    <3> SUFFICES ASSUME NEW k \in 1..Len(d), NEW m \in 1..Len(d), d[k] = d[m]
                 PROVE  k = m
      BY DEF Differ
    <3>1. CASE k \in 1..Len(c) /\ m \in 1..Len(c)
      BY <1>1, <2>1, <2>4, <3>1 DEF Differ
    <3> QED BY <2>4, <2>5, <2>6, <3>1
  <2>8. ASSUME NEW k \in 1..Len(d)
        PROVE  /\ \E j \in 1..(i + 1) : d[k] = ids[j]
               /\ <<layer, d[k]>> \notin Keys(a.staged)
    <3>1. Keys(a.staged) \subseteq Keys(b.staged)
      BY <2>3 DEF RoomMade
    <3>2. CASE k \in 1..Len(c)
      <4>1. d[k] = c[k] /\ (\E j \in 1..i : c[k] = ids[j])
            /\ <<layer, c[k]>> \notin Keys(b.staged)
        BY <1>1, <2>1, <2>4, <3>2
      <4> QED BY <1>2, <3>1, <4>1
    <3>3. CASE k = Len(c) + 1
      <4>1. d[k] = id
        BY <2>4, <3>3
      <4> QED BY <1>2, <1>4, <2>1, <3>1, <4>1
    <3> QED BY <2>5, <3>2, <3>3
  <2>9. \/ Len(a.staged) <= Capacity - 1
        \/ Len(a.staged) + Len(d) <= Len(pf.staged)
    <3>1. Len(a.staged) \in Nat /\ Len(b.staged) \in Nat /\ Capacity \in Nat
      BY <1>1, <2>1, <2>3, BufferCounted, CapacityAssumption DEF GoodPrefetcher
    <3>2. \/ Len(a.staged) <= Capacity - 1 /\ Len(a.staged) = Len(b.staged)
          \/ Len(a.staged) + 1 = Len(b.staged)
      BY <2>3 DEF RoomMade
    <3>3. \/ Len(b.staged) <= Capacity - 1
          \/ Len(b.staged) + Len(c) <= Len(pf.staged)
      BY <1>1, <2>1
    <3>4. PICK x, y, n, o, e : /\ x = Len(a.staged) /\ y = Len(b.staged) /\ n = Len(c)
                               /\ o = Len(pf.staged) /\ e = Capacity
      OBVIOUS
    <3>5. /\ x \in Nat /\ y \in Nat /\ n \in Nat /\ o \in Nat /\ e \in Nat
          /\ (x <= e - 1 /\ x = y) \/ x + 1 = y
          /\ y <= e - 1 \/ y + n <= o
      BY <1>2, <2>1, <3>1, <3>2, <3>3, <3>4
    <3>6. x <= e - 1 \/ x + (n + 1) <= o
      BY <3>5, RoomFor
    <3>7. Len(d) = n + 1
      BY <2>4, <3>4
    <3> QED BY <3>4, <3>6, <3>7
  <2>10. a.requests = pf.requests /\ a.misses = pf.misses
    BY <1>1, <2>1, <2>3 DEF RoomMade
  <2>11. Len(d) <= i + 1
    BY <1>1, <1>2, <2>1, <2>4
  <2>12. after.pf = a /\ after.ids = d
    BY <2>2
  <2> QED BY <2>3, <2>4, <2>7, <2>8, <2>9, <2>10, <2>11, <2>12 DEF ChoiceMade
<1> QED BY <1>3, <1>4

\* All the turns of that loop.
LEMMA ChosenKeeps ==
  ASSUME NEW pages \in Nat, NEW layer, NEW ids, ids \in Seq(Nat), Differ(ids), NEW pf,
         GoodPrefetcher(pf, pages), NEW acc, acc = Chosen(pf, ids, layer)
  PROVE  ChoiceMade(pf, acc, layer, ids, Len(ids), pages)
<1>1. PICK base : base = [pf |-> pf, ids |-> <<>>]
  OBVIOUS
<1>2. PICK f : Turns(f, "choose", layer, base, ids) /\ acc = f[Len(ids)]
  <2>1. \E f : Turns(f, "choose", layer, base, ids) /\ Chosen(pf, ids, layer) = f[Len(ids)]
    BY <1>1, ChosenTurns
  <2> QED BY <2>1
<1>3. Len(ids) \in Nat
  BY LenProperties
<1>4. Len(pf.staged) \in Nat
  BY BufferCounted DEF GoodPrefetcher
<1>. DEFINE X == {i \in Nat : i <= Len(ids) => ChoiceMade(pf, f[i], layer, ids, i, pages)}
<1>5. 0 \in X
  <2>1. f[0] = base
    BY <1>2 DEF Turns
  <2>2. <<>> \in Seq(Nat) /\ Len(<<>>) = 0
    BY EmptySeq
  <2>3. base.pf = pf /\ base.ids = <<>>
    BY <1>1
  <2>4. Differ(<<>>)
    BY <2>2 DEF Differ
  <2>5. ChoiceMade(pf, base, layer, ids, 0, pages)
    BY <1>4, <2>2, <2>3, <2>4 DEF ChoiceMade
  <2> QED BY <2>1, <2>5
<1>6. ASSUME NEW i \in Nat, i \in X PROVE i + 1 \in X
  <2> SUFFICES ASSUME i + 1 <= Len(ids)
               PROVE  ChoiceMade(pf, f[i + 1], layer, ids, i + 1, pages)
    OBVIOUS
  <2>1. ChoiceMade(pf, f[i], layer, ids, i, pages)
    BY <1>3, <1>6
  <2>2. i + 1 \in 1..Len(ids) /\ (i + 1) - 1 = i
    BY <1>3
  <2>3. f[i + 1] = Turned("choose", layer, f[(i + 1) - 1], ids[i + 1])
    BY <1>2, <2>2 DEF Turns
  <2>4. f[i + 1] = Choose(f[i], layer, ids[i + 1])
    BY <2>2, <2>3 DEF Turned
  <2>5. PICK b, a : b = f[i] /\ a = f[i + 1]
    OBVIOUS
  <2> QED BY <1>4, <2>1, <2>2, <2>4, <2>5, ChooseKeeps
<1>7. Nat \subseteq X
  <2>. HIDE DEF X
  <2> QED BY <1>5, <1>6, SetInduction
<1> QED BY <1>2, <1>3, <1>7

-----------------------------------------------------------------------------
(***************************************************************************)
(* What a prefetch inserts.                                                *)
(***************************************************************************)

\* What the buffer holds when j of the chosen blocks are inserted (v2_prefetcher.py:105-116).
InsertsMade(old, s, layer, ids, j, pages) ==
  /\ Buffer(s, pages) /\ Len(s) = Len(old) + j
  /\ \A x \in Keys(s) : x \in Keys(old) \/ \E k \in 1..j : x = <<layer, ids[k]>>
  /\ Cardinality(UnreadKeys(s)) = Cardinality(UnreadKeys(old)) + j

\* What waits for an access is staged.
LEMMA WaitingAreKeys == ASSUME NEW s PROVE UnreadKeys(s) \subseteq Keys(s)
BY DEF UnreadKeys, KeysAt, Unread, Keys

\* Two pairs with one first element.
LEMMA PairsDiffer ==
  ASSUME NEW a, NEW b, NEW c, <<a, b>> = <<a, c>>
  PROVE  b = c
OBVIOUS

\* One chosen block more is inserted (v2_prefetcher.py:105-116).
LEMMA InsertKeeps ==
  ASSUME NEW pages \in Nat, NEW layer \in 0..(ConfigLayers - 1), NEW ids, ids \in Seq(Nat),
         Differ(ids), NEW old, Buffer(old, pages),
         \A k \in 1..Len(ids) : <<layer, ids[k]>> \notin Keys(old),
         NEW j \in Nat, j + 1 \in 1..Len(ids), NEW s,
         InsertsMade(old, s, layer, ids, j, pages),
         NEW after, after = Stage(s, Entry(layer, ids[j + 1], pages))
  PROVE  InsertsMade(old, after, layer, ids, j + 1, pages)
<1>1. /\ Buffer(s, pages) /\ Len(s) = Len(old) + j
      /\ \A x \in Keys(s) : x \in Keys(old) \/ \E k \in 1..j : x = <<layer, ids[k]>>
      /\ Cardinality(UnreadKeys(s)) = Cardinality(UnreadKeys(old)) + j
  BY DEF InsertsMade
<1>2. /\ Len(ids) \in Nat /\ ids[j + 1] \in Nat
      /\ \A k \in 1..j : k \in 1..Len(ids) /\ k # j + 1 /\ k \in 1..(j + 1)
      /\ j + 1 \in 1..(j + 1)
  BY LenProperties, ElementOfSeq
<1>3. PICK e, key : e = Entry(layer, ids[j + 1], pages) /\ key = <<layer, ids[j + 1]>>
  OBVIOUS
<1>4. e \in Staged /\ e.pages = pages /\ e.key = key /\ e.useful = FALSE
  BY <1>2, <1>3 DEF Entry, Staged, Places
<1>5. key \notin Keys(s)
  <2> SUFFICES ASSUME key \in Keys(s) PROVE FALSE
    OBVIOUS
  <2>1. key \notin Keys(old)
    BY <1>3
  <2>2. PICK k \in 1..j : key = <<layer, ids[k]>>
    BY <1>1, <2>1
  <2>3. ids[k] = ids[j + 1]
    BY <1>3, <2>2, PairsDiffer
  <2> QED BY <1>2, <2>3 DEF Differ
<1>6. after = Append(s, e)
  BY <1>3, <1>4, <1>5 DEF Stage
<1>7. /\ Buffer(after, pages) /\ Len(after) = Len(s) + 1
      /\ Keys(after) = Keys(s) \cup {e.key}
      /\ UnreadKeys(after) = IF e.useful THEN UnreadKeys(s) ELSE UnreadKeys(s) \cup {e.key}
  <2>1. Buffer(s, pages) /\ e \in Staged /\ e.pages = pages /\ e.key \notin Keys(s)
    BY <1>1, <1>4, <1>5
  <2>2. PICK r : r = Append(s, e)
    OBVIOUS
  <2>3. /\ Buffer(r, pages) /\ Len(r) = Len(s) + 1 /\ Keys(r) = Keys(s) \cup {e.key}
        /\ UnreadKeys(r) = IF e.useful THEN UnreadKeys(s) ELSE UnreadKeys(s) \cup {e.key}
    BY <2>1, <2>2, AppendKeeps
  <2> QED BY <1>6, <2>2, <2>3
<1>8. UnreadKeys(after) = UnreadKeys(s) \cup {key} /\ key \notin UnreadKeys(s)
  BY <1>4, <1>5, <1>7, WaitingAreKeys
<1>9. IsFiniteSet(UnreadKeys(s)) /\ Cardinality(UnreadKeys(s)) \in Nat
  BY <1>1, BufferCounted
<1>10. Cardinality(UnreadKeys(after)) = Cardinality(UnreadKeys(s)) + 1
  <2>1. PICK T : T = UnreadKeys(s)
    OBVIOUS
  <2>2. Cardinality(T \cup {key}) = Cardinality(T) + 1
    BY <1>8, <1>9, <2>1, FS_AddElement
  <2> QED BY <1>8, <2>1, <2>2
<1>11. \A x \in Keys(after) : x \in Keys(old) \/ \E k \in 1..(j + 1) : x = <<layer, ids[k]>>
  <2> TAKE x \in Keys(after)
  <2>1. CASE x = key
    BY <1>2, <1>3, <2>1
  <2>2. CASE x \in Keys(s)
    BY <1>1, <1>2, <2>2
  <2> QED BY <1>4, <1>7, <2>1, <2>2
<1>12. Len(after) = Len(old) + (j + 1)
       /\ Cardinality(UnreadKeys(after)) = Cardinality(UnreadKeys(old)) + (j + 1)
  <2>1. Len(old) \in Nat /\ Cardinality(UnreadKeys(old)) \in Nat
    BY BufferCounted
  <2> QED BY <1>1, <1>7, <1>10, <2>1
<1> QED BY <1>7, <1>11, <1>12 DEF InsertsMade

\* All the chosen blocks are inserted.
LEMMA InsertsKeep ==
  ASSUME NEW pages \in Nat, NEW layer \in 0..(ConfigLayers - 1), NEW ids, ids \in Seq(Nat),
         Differ(ids), NEW old, Buffer(old, pages),
         \A k \in 1..Len(ids) : <<layer, ids[k]>> \notin Keys(old), NEW new,
         new = Inserted(old, ids, layer, pages)
  PROVE  InsertsMade(old, new, layer, ids, Len(ids), pages)
<1>1. PICK f : Turns(f, "stage", <<layer, pages>>, old, ids) /\ new = f[Len(ids)]
  BY StageTurns
<1>2. Len(ids) \in Nat /\ Len(old) \in Nat /\ Cardinality(UnreadKeys(old)) \in Nat
  BY LenProperties, BufferCounted
<1>. DEFINE X == {i \in Nat : i <= Len(ids) => InsertsMade(old, f[i], layer, ids, i, pages)}
<1>3. 0 \in X
  <2>1. f[0] = old
    BY <1>1 DEF Turns
  <2>2. InsertsMade(old, old, layer, ids, 0, pages)
    BY <1>2 DEF InsertsMade
  <2> QED BY <2>1, <2>2
<1>4. ASSUME NEW i \in Nat, i \in X PROVE i + 1 \in X
  <2> SUFFICES ASSUME i + 1 <= Len(ids)
               PROVE  InsertsMade(old, f[i + 1], layer, ids, i + 1, pages)
    OBVIOUS
  <2>1. InsertsMade(old, f[i], layer, ids, i, pages)
    BY <1>2, <1>4
  <2>2. i + 1 \in 1..Len(ids) /\ (i + 1) - 1 = i
    BY <1>2
  <2>3. f[i + 1] = Turned("stage", <<layer, pages>>, f[(i + 1) - 1], ids[i + 1])
    BY <1>1, <2>2 DEF Turns
  <2>4. f[i + 1] = Stage(f[i], Entry(layer, ids[i + 1], pages))
    BY <2>2, <2>3 DEF Turned
  <2>5. PICK b, a : b = f[i] /\ a = f[i + 1]
    OBVIOUS
  <2> QED BY <2>1, <2>2, <2>4, <2>5, InsertKeeps
<1>5. Nat \subseteq X
  <2>. HIDE DEF X
  <2> QED BY <1>3, <1>4, SetInduction
<1> QED BY <1>1, <1>2, <1>5

\* The larger of two numbers.
LEMMA MaxOfTwo ==
  ASSUME NEW a \in Nat, NEW b \in Nat
  PROVE  Max({a, b}) \in Nat /\ Max({a, b}) >= a /\ Max({a, b}) >= b
<1>1. CASE a <= b
  BY <1>1, MaxIs
<1>2. CASE b <= a
  BY <1>2, MaxIs
<1> QED BY <1>1, <1>2

\* What prefetch_blocks does (v2_prefetcher.py:69-120): n more blocks are read, and each is
\* asked for once.
Prefetched(sr, after, ids, pages, n) ==
  /\ GoodPrefetcher(after.pf, pages) /\ ReadsMore(sr.be, after.be, pages, n)
  /\ after.pf.requests = sr.pf.requests + n /\ after.pf.misses = sr.pf.misses
  /\ \/ Len(after.pf.staged) <= Capacity - 1 + Len(ids)
     \/ Len(after.pf.staged) <= Len(sr.pf.staged)

\* prefetch_blocks reads n blocks and counts n requests (v2_prefetcher.py:69-120).
LEMMA PrefetchKeeps ==
  ASSUME NEW pages \in Nat \ {0}, NEW layer \in 0..(ConfigLayers - 1), NEW ids, ids \in Seq(Nat),
         Differ(ids), NEW sr, GoodPrefetcher(sr.pf, pages), GoodBackend(sr.be, pages),
         NEW after, after = PrefetchBlocks(sr, ids, layer, pages)
  PROVE  \E n \in Nat : Prefetched(sr, after, ids, pages, n)
<1>0. pages \in Nat /\ layer \in Nat
  BY TraceAssumption
<1>1. PICK pf, acc, new, be, a : /\ pf = sr.pf /\ acc = Chosen(sr.pf, ids, layer)
        /\ new = Inserted(acc.pf.staged, acc.ids, layer, pages)
        /\ be = SubmitBatch(sr.be, acc.ids, layer, pages) /\ a = after.pf
  OBVIOUS
<1>2. ChoiceMade(pf, acc, layer, ids, Len(ids), pages)
  BY <1>0, <1>1, ChosenKeeps
<1>3. PICK c, got, n : c = acc.pf /\ got = acc.ids /\ n = Len(acc.ids)
  OBVIOUS
<1>4. /\ GoodPrefetcher(c, pages) /\ c.requests = pf.requests /\ c.misses = pf.misses
      /\ got \in Seq(Nat) /\ Differ(got) /\ n <= Len(ids) /\ n = Len(got)
      /\ \A k \in 1..Len(got) : <<layer, got[k]>> \notin Keys(c.staged)
      /\ Len(c.staged) <= Capacity - 1 \/ Len(c.staged) + n <= Len(pf.staged)
  BY <1>2, <1>3 DEF ChoiceMade
<1>5. n \in Nat /\ Len(ids) \in Nat /\ Capacity \in Nat
  BY <1>4, LenProperties, CapacityAssumption
<1>6. ReadsMore(sr.be, be, pages, n)
  BY <1>0, <1>1, <1>3, <1>4, SubmitKeeps
<1>7. Buffer(c.staged, pages) /\ Len(c.staged) \in Nat /\ Len(pf.staged) \in Nat
      /\ Cardinality(UnreadKeys(c.staged)) \in Nat
  BY <1>1, <1>4, BufferCounted DEF GoodPrefetcher
<1>8. InsertsMade(c.staged, new, layer, got, n, pages)
  <2>1. PICK old : old = c.staged
    OBVIOUS
  <2>2. new = Inserted(old, got, layer, pages)
    BY <1>1, <1>3, <2>1
  <2> QED BY <1>0, <1>4, <1>7, <2>1, <2>2, InsertsKeep
<1>9. after.be = be /\ a = IF got = <<>> THEN c
                           ELSE [c EXCEPT !.staged = new, !.requests = @ + Len(got),
                                          !.peak = Max({@, Len(new)})]
  BY <1>1, <1>3 DEF PrefetchBlocks
<1>10. CASE got = <<>>
  <2>1. n = 0 /\ a = c
    BY <1>4, <1>9, <1>10, EmptySeq
  <2>2. a.requests = pf.requests + n
    <3>1. pf.requests \in Nat
      BY <1>1, PrefetcherIs DEF GoodPrefetcher
    <3> QED BY <1>4, <2>1, <3>1
  <2>3. Len(a.staged) <= Capacity - 1 + Len(ids) \/ Len(a.staged) <= Len(pf.staged)
    BY <1>4, <1>5, <1>7, <2>1
  <2>4. GoodPrefetcher(a, pages) /\ a.misses = pf.misses
    BY <1>4, <2>1
  <2> QED BY <1>1, <1>5, <1>6, <1>9, <2>2, <2>3, <2>4 DEF Prefetched
<1>11. CASE got # <<>>
  <2>1. PICK p : p = Max({c.peak, Len(new)})
    OBVIOUS
  <2>2. c \in PrefetcherState
    BY <1>4 DEF GoodPrefetcher
  <2>3. /\ Buffer(new, pages) /\ Len(new) = Len(c.staged) + n /\ new \in Seq(Staged)
        /\ Cardinality(UnreadKeys(new)) = Cardinality(UnreadKeys(c.staged)) + n
    BY <1>8 DEF InsertsMade, Buffer
  <2>4. p \in Nat
    <3>1. c.peak \in Nat /\ Len(new) \in Nat
      BY <1>5, <1>7, <2>2, <2>3, PrefetcherIs
    <3> QED BY <2>1, <3>1, MaxOfTwo
  <2>5. a = [c EXCEPT !.staged = new, !.requests = @ + n, !.peak = p]
    BY <1>4, <1>9, <1>11, <2>1
  <2>6. a = [staged |-> new, requests |-> c.requests + n, useful |-> c.useful,
             useless |-> c.useless, hits |-> c.hits, misses |-> c.misses,
             extra |-> c.extra, peak |-> p]
    <3>1. c = [staged |-> c.staged, requests |-> c.requests, useful |-> c.useful,
               useless |-> c.useless, hits |-> c.hits, misses |-> c.misses,
               extra |-> c.extra, peak |-> c.peak]
      BY <2>2, PrefetcherIs
    <3> QED BY <2>5, <3>1
  <2>7. a \in PrefetcherState
    BY <1>5, <2>2, <2>3, <2>4, <2>6 DEF PrefetcherState
  <2>8. /\ a.staged = new /\ a.requests = c.requests + n /\ a.useful = c.useful
        /\ a.useless = c.useless /\ a.extra = c.extra /\ a.misses = c.misses
    BY <2>6
  <2>9. a.requests = a.useful + a.useless + Cardinality(UnreadKeys(a.staged))
    <3>1. c.requests = c.useful + c.useless + Cardinality(UnreadKeys(c.staged))
      BY <1>4 DEF GoodPrefetcher
    <3>2. c.requests \in Nat /\ c.useful \in Nat /\ c.useless \in Nat
      BY <2>2, PrefetcherIs
    <3> QED BY <1>5, <1>7, <2>3, <2>8, <3>1, <3>2
  <2>10. GoodPrefetcher(a, pages)
    <3>1. c.extra = pages * c.useless
      BY <1>4 DEF GoodPrefetcher
    <3> QED BY <2>3, <2>7, <2>8, <2>9, <3>1 DEF GoodPrefetcher
  <2>11. Len(a.staged) <= Capacity - 1 + Len(ids) \/ Len(a.staged) <= Len(pf.staged)
    BY <1>4, <1>5, <1>7, <2>3, <2>8
  <2>12. a.requests = pf.requests + n /\ a.misses = pf.misses
    BY <1>4, <2>8
  <2> QED BY <1>1, <1>5, <1>6, <1>9, <2>10, <2>11, <2>12 DEF Prefetched
<1> QED BY <1>10, <1>11

-----------------------------------------------------------------------------
(***************************************************************************)
(* Accesses, and whole records of an experiment.                           *)
(***************************************************************************)

\* What access_blocks has done (v2_prefetcher.py:136-156) when it has missed these blocks.
AccessMade(pf, acc, pages) ==
  /\ acc = [pf |-> acc.pf, missed |-> acc.missed]
  /\ GoodPrefetcher(acc.pf, pages) /\ acc.missed \in Seq(Nat)
  /\ acc.pf.requests = pf.requests /\ acc.pf.misses = pf.misses + Len(acc.missed)
  /\ Len(acc.pf.staged) = Len(pf.staged)

\* One turn of that loop: a hit or a miss.
LEMMA AccessKeeps ==
  ASSUME NEW pages \in Nat, NEW layer, NEW id \in Nat, NEW pf, pf.misses \in Nat,
         NEW acc, AccessMade(pf, acc, pages), NEW after, after = Access(acc, layer, id)
  PROVE  AccessMade(pf, after, pages)
<1>1. PICK c, missed : c = acc.pf /\ missed = acc.missed
  OBVIOUS
<1>2. /\ acc = [pf |-> c, missed |-> missed]
      /\ GoodPrefetcher(c, pages) /\ missed \in Seq(Nat)
      /\ c.requests = pf.requests /\ c.misses = pf.misses + Len(missed)
      /\ Len(c.staged) = Len(pf.staged) /\ c \in PrefetcherState
  BY <1>1 DEF AccessMade, GoodPrefetcher
<1>3. Len(missed) \in Nat
  BY <1>2, LenProperties
<1>4. CASE <<layer, id>> \in Keys(c.staged)
  <2>1. PICK h : h = Hit(c, <<layer, id>>)
    OBVIOUS
  <2>2. GoodPrefetcher(h, pages) /\ HitMade(c, h)
    <3>1. PICK key : key = <<layer, id>>
      OBVIOUS
    <3> QED BY <1>2, <1>4, <2>1, <3>1, HitKeeps
  <2>3. after = [acc EXCEPT !.pf = h]
    BY <1>1, <1>4, <2>1 DEF Access
  <2>4. after = [pf |-> h, missed |-> missed]
    BY <1>2, <2>3
  <2>5. after.pf = h /\ after.missed = missed
    BY <2>4
  <2> QED BY <1>2, <2>2, <2>4, <2>5 DEF AccessMade, HitMade
<1>5. CASE <<layer, id>> \notin Keys(c.staged)
  <2>1. PICK h, m : h = [c EXCEPT !.misses = @ + 1] /\ m = Append(missed, id)
    OBVIOUS
  <2>2. after = [pf |-> h, missed |-> m]
    BY <1>1, <1>5, <2>1 DEF Access
  <2>3. m \in Seq(Nat) /\ Len(m) = Len(missed) + 1
    BY <1>2, <2>1, AppendProperties
  <2>4. h = [staged |-> c.staged, requests |-> c.requests, useful |-> c.useful,
             useless |-> c.useless, hits |-> c.hits, misses |-> c.misses + 1,
             extra |-> c.extra, peak |-> c.peak]
    <3>1. c = [staged |-> c.staged, requests |-> c.requests, useful |-> c.useful,
               useless |-> c.useless, hits |-> c.hits, misses |-> c.misses,
               extra |-> c.extra, peak |-> c.peak]
      BY <1>2, PrefetcherIs
    <3> QED BY <2>1, <3>1
  <2>5. h \in PrefetcherState
    BY <1>2, <2>4, SMTT(30) DEF PrefetcherState
  <2>6. /\ h.staged = c.staged /\ h.requests = c.requests /\ h.useful = c.useful
        /\ h.useless = c.useless /\ h.misses = c.misses + 1 /\ h.extra = c.extra
    BY <2>4
  <2>7. GoodPrefetcher(h, pages)
    BY <1>2, <2>5, <2>6 DEF GoodPrefetcher
  <2>8. h.misses = pf.misses + Len(m)
    <3>1. PICK a, b, e, k, n : /\ a = h.misses /\ b = c.misses /\ e = Len(m)
                               /\ k = pf.misses /\ n = Len(missed)
      OBVIOUS
    <3>2. k \in Nat /\ n \in Nat /\ a = b + 1 /\ b = k + n /\ e = n + 1
      BY <1>2, <1>3, <2>3, <2>6, <3>1
    <3>3. a = k + e
      BY <3>2
    <3> QED BY <3>1, <3>3
  <2>9. after.pf = h /\ after.missed = m
    BY <2>2
  <2> QED BY <1>2, <2>2, <2>3, <2>6, <2>7, <2>8, <2>9 DEF AccessMade
<1> QED BY <1>1, <1>4, <1>5

\* All the turns of that loop.
LEMMA AccessedKeeps ==
  ASSUME NEW pages \in Nat, NEW layer, NEW ids, ids \in Seq(Nat), NEW pf,
         GoodPrefetcher(pf, pages), NEW acc, acc = Accessed(pf, ids, layer)
  PROVE  AccessMade(pf, acc, pages)
<1>1. PICK base : base = [pf |-> pf, missed |-> <<>>]
  OBVIOUS
<1>2. PICK f : Turns(f, "access", layer, base, ids) /\ acc = f[Len(ids)]
  <2>1. \E f : Turns(f, "access", layer, base, ids) /\ Accessed(pf, ids, layer) = f[Len(ids)]
    BY <1>1, AccessTurns
  <2> QED BY <2>1
<1>3. Len(ids) \in Nat /\ pf.misses \in Nat
  BY LenProperties, PrefetcherIs DEF GoodPrefetcher
<1>. DEFINE X == {i \in Nat : i <= Len(ids) => AccessMade(pf, f[i], pages)}
<1>5. 0 \in X
  <2>1. f[0] = base
    BY <1>2 DEF Turns
  <2>2. <<>> \in Seq(Nat) /\ Len(<<>>) = 0
    BY EmptySeq
  <2>3. base.pf = pf /\ base.missed = <<>>
    BY <1>1
  <2>4. AccessMade(pf, base, pages)
    BY <1>1, <1>3, <2>2, <2>3 DEF AccessMade
  <2> QED BY <2>1, <2>4
<1>6. ASSUME NEW i \in Nat, i \in X PROVE i + 1 \in X
  <2> SUFFICES ASSUME i + 1 <= Len(ids)
               PROVE  AccessMade(pf, f[i + 1], pages)
    OBVIOUS
  <2>1. AccessMade(pf, f[i], pages)
    BY <1>3, <1>6
  <2>2. i + 1 \in 1..Len(ids) /\ (i + 1) - 1 = i /\ ids[i + 1] \in Nat
    BY <1>3, ElementOfSeq
  <2>3. f[i + 1] = Turned("access", layer, f[(i + 1) - 1], ids[i + 1])
    BY <1>2, <2>2 DEF Turns
  <2>4. f[i + 1] = Access(f[i], layer, ids[i + 1])
    BY <2>2, <2>3 DEF Turned
  <2>5. PICK b, a, x : b = f[i] /\ a = f[i + 1] /\ x = ids[i + 1]
    OBVIOUS
  <2> QED BY <1>3, <2>1, <2>2, <2>4, <2>5, AccessKeeps
<1>7. Nat \subseteq X
  <2>. HIDE DEF X
  <2> QED BY <1>5, <1>6, SetInduction
<1> QED BY <1>2, <1>3, <1>7

\* What an experiment may say of the storage it ran on (v2_prefetcher.py:5).
GoodStorage(sr, config) ==
  /\ sr = [be |-> sr.be, pf |-> sr.pf]
  /\ GoodPrefetcher(sr.pf, config.pages) /\ GoodBackend(sr.be, config.pages)
  /\ config.prefetch => sr.be.reads = sr.pf.requests + sr.pf.misses

\* The buffer grows by no more than the blocks of a record above one less than its capacity.
Grows(sr, after, n) ==
  \/ Len(after.pf.staged) <= Capacity - 1 + n
  \/ Len(after.pf.staged) <= Len(sr.pf.staged)

\* Two batches of reads.
LEMMA ReadsAdd ==
  ASSUME NEW b0, NEW b1, NEW b2, NEW pages, NEW n \in Nat, NEW m \in Nat, b0.reads \in Nat,
         ReadsMore(b0, b1, pages, n), ReadsMore(b1, b2, pages, m)
  PROVE  GoodBackend(b2, pages) /\ b2.reads = b0.reads + n + m
BY DEF ReadsMore

\* A record of an experiment with a prefetcher (runner.py:148-155).
LEMMA PrefetchingKeeps ==
  ASSUME NEW config, config.pages \in Nat \ {0}, NEW sr, GoodStorage(sr, config),
         NEW ids, ids \in Seq(Nat), Differ(ids), NEW layer \in Nat,
         NEW next \in 0..(ConfigLayers - 1), config.prefetch, NEW after,
         after = AccessBlocks(PrefetchBlocks(sr, ids, next, config.pages), ids, layer,
                              config.pages)
  PROVE  GoodStorage(after, config) /\ Grows(sr, after, Len(ids))
<1>1. PICK pages : pages = config.pages
  OBVIOUS
<1>2. /\ pages \in Nat \ {0} /\ pages \in Nat
      /\ GoodPrefetcher(sr.pf, pages) /\ GoodBackend(sr.be, pages)
      /\ sr.be.reads = sr.pf.requests + sr.pf.misses
  BY <1>1 DEF GoodStorage
<1>3. PICK mid : mid = PrefetchBlocks(sr, ids, next, pages)
  OBVIOUS
<1>4. PICK n \in Nat : Prefetched(sr, mid, ids, pages, n)
  BY <1>2, <1>3, PrefetchKeeps
<1>5. /\ GoodPrefetcher(mid.pf, pages) /\ ReadsMore(sr.be, mid.be, pages, n)
      /\ mid.pf.requests = sr.pf.requests + n /\ mid.pf.misses = sr.pf.misses
      /\ Grows(sr, mid, Len(ids))
  BY <1>4 DEF Prefetched, Grows
<1>6. PICK acc, c, missed, be : /\ acc = Accessed(mid.pf, ids, layer) /\ c = acc.pf
                                /\ missed = acc.missed
                                /\ be = SubmitBatch(mid.be, acc.missed, layer, pages)
  OBVIOUS
<1>7. AccessMade(mid.pf, acc, pages)
  <2>1. PICK p : p = mid.pf
    OBVIOUS
  <2> QED BY <1>2, <1>5, <1>6, <2>1, AccessedKeeps
<1>8. /\ GoodPrefetcher(c, pages) /\ missed \in Seq(Nat)
      /\ c.requests = mid.pf.requests /\ c.misses = mid.pf.misses + Len(missed)
      /\ Len(c.staged) = Len(mid.pf.staged)
  BY <1>6, <1>7 DEF AccessMade
<1>9. GoodBackend(mid.be, pages)
  BY <1>5 DEF ReadsMore
<1>10. ReadsMore(mid.be, be, pages, Len(missed))
  <2>1. PICK b : b = mid.be
    OBVIOUS
  <2> QED BY <1>2, <1>6, <1>8, <1>9, <2>1, SubmitKeeps
<1>11. after = [pf |-> c, be |-> be]
  BY <1>1, <1>3, <1>6 DEF AccessBlocks
<1>12. Len(missed) \in Nat /\ sr.be.reads \in Nat /\ sr.pf.requests \in Nat /\ sr.pf.misses \in Nat
  <2>1. sr.pf \in PrefetcherState /\ sr.be \in BackendState
    BY <1>2 DEF GoodPrefetcher, GoodBackend
  <2>2. sr.pf.requests \in Nat /\ sr.pf.misses \in Nat
    BY <2>1, PrefetcherIs
  <2> QED BY <1>8, <2>1, <2>2, LenProperties DEF BackendState
<1>13. GoodBackend(be, pages) /\ be.reads = sr.be.reads + n + Len(missed)
  <2>1. PICK b0, b1, k : b0 = sr.be /\ b1 = mid.be /\ k = Len(missed)
    OBVIOUS
  <2>2. /\ b0.reads \in Nat /\ k \in Nat
        /\ ReadsMore(b0, b1, pages, n) /\ ReadsMore(b1, be, pages, k)
    BY <1>5, <1>10, <1>12, <2>1
  <2>3. GoodBackend(be, pages) /\ be.reads = b0.reads + n + k
    BY <2>2, ReadsAdd
  <2> QED BY <2>1, <2>3
<1>14. be.reads = c.requests + c.misses
  <2>1. PICK x, y, z, k : /\ x = sr.be.reads /\ y = sr.pf.requests /\ z = sr.pf.misses
                          /\ k = Len(missed)
    OBVIOUS
  <2>2. x \in Nat /\ y \in Nat /\ z \in Nat /\ k \in Nat /\ x = y + z
    BY <1>2, <1>12, <2>1
  <2>3. be.reads = x + n + k /\ c.requests = y + n /\ c.misses = z + k
    BY <1>5, <1>8, <1>13, <2>1
  <2> QED BY <2>2, <2>3
<1>15. after.pf = c /\ after.be = be /\ after = [be |-> after.be, pf |-> after.pf]
  BY <1>11
<1>16. Grows(sr, after, Len(ids))
  BY <1>5, <1>8, <1>15 DEF Grows
<1> QED BY <1>1, <1>8, <1>13, <1>14, <1>15, <1>16 DEF GoodStorage

\* A record of an experiment without one.
LEMMA ReadingKeeps ==
  ASSUME NEW config, config.pages \in Nat \ {0}, NEW sr, GoodStorage(sr, config),
         NEW ids, ids \in Seq(Nat), NEW layer \in Nat, ~config.prefetch, NEW after,
         after = [sr EXCEPT !.be = SubmitBatch(@, ids, layer, config.pages)]
  PROVE  GoodStorage(after, config) /\ Grows(sr, after, Len(ids))
<1>1. PICK pages, b, p, be : /\ pages = config.pages /\ b = sr.be /\ p = sr.pf
                             /\ be = SubmitBatch(sr.be, ids, layer, config.pages)
  OBVIOUS
<1>2. /\ sr = [be |-> b, pf |-> p] /\ pages \in Nat \ {0}
      /\ GoodPrefetcher(p, pages) /\ GoodBackend(b, pages)
  BY <1>1 DEF GoodStorage
<1>3. ReadsMore(b, be, pages, Len(ids))
  BY <1>1, <1>2, SubmitKeeps
<1>4. after = [sr EXCEPT !.be = be]
  BY <1>1
<1>5. after = [be |-> be, pf |-> p]
  BY <1>2, <1>4
<1>6. after.be = be /\ after.pf = p /\ after = [be |-> after.be, pf |-> after.pf]
  <2>1. after.be = be /\ after.pf = p
    BY <1>5
  <2> QED BY <1>5, <2>1, Zenon
<1>7. GoodBackend(be, pages)
  BY <1>3 DEF ReadsMore
<1>8. Len(p.staged) \in Nat
  BY <1>2, BufferCounted DEF GoodPrefetcher
<1>9. Grows(sr, after, Len(ids))
  BY <1>1, <1>6, <1>8 DEF Grows
<1> QED BY <1>1, <1>2, <1>6, <1>7, <1>9 DEF GoodStorage

-----------------------------------------------------------------------------
(***************************************************************************)
(* The lines of a trace.                                                   *)
(***************************************************************************)

\* The ids a reader may use of one line: some, all different.
IdLists == {w \in Seq(Nat) : Differ(w) /\ w # <<>>}

\* A line of a trace that both readers find numbers in.
Readable(e) == FromDict(e).layer_id \in Nat /\ BlockIds(FromDict(e)) \in IdLists
Replayable(e) ==
  /\ ValidatedRecord(e).layer_id \in Nat /\ ValidatedRecord(e).head_id \in Nat
  /\ ValidatedRecord(e).token_start \in Nat /\ ValidatedRecord(e).block_id \in Nat
Line(e) == Readable(e) /\ (e.operation \in ValidOperations => Replayable(e))

\* A key that numbering leaves alone.
LEMMA NumberedKey ==
  ASSUME NEW e, NEW n, NEW r, e = WithId(r, n), NEW key, key \in DOMAIN r,
         key # "event_id"
  PROVE  e[key] = r[key]
BY DEF WithId

\* The keys of a numbered line.
LEMMA NumberedKeys ==
  ASSUME NEW e, NEW n, NEW r, e = WithId(r, n)
  PROVE  DOMAIN e = {"event_id"} \cup DOMAIN r
BY DEF WithId

\* The lines of P1 (trace_generator.py:68-199).
Events ==
  [step : Nat, layer_id : Nat, head_id : Nat, operation : ValidOperations, block_id : Nat,
   token_start : Nat, token_end : Nat, sub_page : {"KEY", "VALUE", "BOTH"}, byte_size : Nat,
   tier : {"DRAM", "SSD"}, candidate_blocks : Seq(Nat), selected_blocks : IdLists]

\* A line of P1 is one both readers find numbers in.
LEMMA EventLine ==
  ASSUME NEW e, NEW n, NEW r, r \in Events, e = WithId(r, n)
  PROVE  Line(e)
<1>1. DOMAIN r = {"step", "layer_id", "head_id", "operation", "block_id", "token_start",
                  "token_end", "sub_page", "byte_size", "tier", "candidate_blocks",
                  "selected_blocks"}
  BY DEF Events
<1>0. DOMAIN e = {"event_id"} \cup DOMAIN r
  BY NumberedKeys
<1>2. \A key \in DOMAIN r : e[key] = r[key] /\ key \in DOMAIN e
  <2> TAKE key \in DOMAIN r
  <2>1. key # "event_id"
    BY <1>1
  <2> QED BY <2>1, <1>0, NumberedKey
<1>3. /\ Has(e, "block_id") /\ Has(e, "layer_id") /\ Has(e, "selected_blocks")
      /\ Has(e, "token_start") /\ Has(e, "head_id")
  BY <1>1, <1>2 DEF Has
<1>4. /\ e["block_id"] = r["block_id"] /\ e["layer_id"] = r["layer_id"]
      /\ e["selected_blocks"] = r["selected_blocks"] /\ e["token_start"] = r["token_start"]
      /\ e["head_id"] = r["head_id"]
  BY <1>1, <1>2
<1>5. /\ r["block_id"] \in Nat /\ r["layer_id"] \in Nat /\ r["head_id"] \in Nat
      /\ r["token_start"] \in Nat /\ r["selected_blocks"] \in IdLists
  BY DEF Events
<1>6. FromDict(e).layer_id = r["layer_id"] /\ FromDict(e).selected_blocks = r["selected_blocks"]
  BY <1>3, <1>4 DEF FromDict, Get
<1>7. BlockIds(FromDict(e)) \in IdLists
  BY <1>5, <1>6 DEF BlockIds, IdLists
<1>8. /\ ValidatedRecord(e).layer_id = r["layer_id"] /\ ValidatedRecord(e).head_id = r["head_id"]
      /\ ValidatedRecord(e).token_start = r["token_start"]
      /\ ValidatedRecord(e).block_id = r["block_id"]
  BY <1>3, <1>4 DEF ValidatedRecord, Get
<1> QED BY <1>5, <1>6, <1>7, <1>8 DEF Line, Readable, Replayable

\* The lines that P2 synthesises (replayer.py:165-205).
SynthEvents ==
  [operation : ValidOperations, layer_id : Nat, head_id : Nat, token_start : Nat,
   block_id : Nat, byte_size : Nat, sub_page : {"BOTH"}]

\* A list of one id.
LEMMA OneId == ASSUME NEW b \in Nat PROVE <<b>> \in IdLists
<1>1. <<b>> \in Seq(Nat) /\ Len(<<b>>) = 1 /\ <<b>>[1] = b /\ Len(<<>>) = 0
  BY Tuples
<1> QED BY <1>1 DEF IdLists, Differ

\* So is a line of P2's synthetic trace.
LEMMA SynthLine ==
  ASSUME NEW e, NEW n, NEW r, r \in SynthEvents, e = WithId(r, n)
  PROVE  Line(e)
<1>1. DOMAIN r = {"operation", "layer_id", "head_id", "token_start", "block_id", "byte_size",
                  "sub_page"}
  BY DEF SynthEvents
<1>0. DOMAIN e = {"event_id"} \cup DOMAIN r
  BY NumberedKeys
<1>2. \A key \in DOMAIN r : e[key] = r[key] /\ key \in DOMAIN e
  <2> TAKE key \in DOMAIN r
  <2>1. key # "event_id"
    BY <1>1
  <2> QED BY <2>1, <1>0, NumberedKey
<1>3. /\ Has(e, "block_id") /\ Has(e, "layer_id") /\ ~Has(e, "selected_blocks")
      /\ Has(e, "token_start") /\ Has(e, "head_id") /\ ~Has(e, "candidate_blocks")
  BY <1>0, <1>1, <1>2 DEF Has
<1>4. /\ e["block_id"] = r["block_id"] /\ e["layer_id"] = r["layer_id"]
      /\ e["token_start"] = r["token_start"] /\ e["head_id"] = r["head_id"]
  BY <1>1, <1>2
<1>5. /\ r["block_id"] \in Nat /\ r["layer_id"] \in Nat /\ r["head_id"] \in Nat
      /\ r["token_start"] \in Nat
  BY DEF SynthEvents
<1>6. /\ FromDict(e).layer_id = r["layer_id"] /\ FromDict(e).selected_blocks = <<>>
      /\ FromDict(e).candidate_blocks = <<>> /\ FromDict(e).block_id = r["block_id"]
  BY <1>3, <1>4 DEF FromDict, Get
<1>7. BlockIds(FromDict(e)) \in IdLists
  BY <1>5, <1>6, OneId DEF BlockIds
<1>8. /\ ValidatedRecord(e).layer_id = r["layer_id"] /\ ValidatedRecord(e).head_id = r["head_id"]
      /\ ValidatedRecord(e).token_start = r["token_start"]
      /\ ValidatedRecord(e).block_id = r["block_id"]
  BY <1>3, <1>4 DEF ValidatedRecord, Get
<1> QED BY <1>5, <1>6, <1>7, <1>8 DEF Line, Readable, Replayable

\* The lines of P3 (synthetic_generator.py:85-97); the replayer refuses them.
KvEvents(e) ==
  /\ DOMAIN e = {"seq_id", "step_id", "layer_id", "head_id", "operation", "block_ids",
                 "byte_offset", "byte_length"}
  /\ e.layer_id \in Nat /\ e.operation = "KV_TOPK"
  /\ e.block_ids # <<>> => e.block_ids[1] \in Nat

\* A line of P3's synthetic trace names its candidates, and no head of P2's.
LEMMA KvLine ==
  ASSUME NEW e, KvEvents(e)
  PROVE  Line(e)
<1>1. /\ ~Has(e, "block_id") /\ Has(e, "layer_id") /\ ~Has(e, "selected_blocks")
      /\ Has(e, "block_ids") /\ ~Has(e, "candidate_blocks")
  BY DEF KvEvents, Has
<1>2. /\ FromDict(e).layer_id = e.layer_id /\ FromDict(e).selected_blocks = <<>>
      /\ FromDict(e).candidate_blocks = <<>>
      /\ FromDict(e).block_id = IF e.block_ids # <<>> THEN e.block_ids[1] ELSE 0
  BY <1>1 DEF FromDict, Get
<1>3. FromDict(e).block_id \in Nat
  BY <1>2 DEF KvEvents
<1>4. BlockIds(FromDict(e)) \in IdLists
  BY <1>2, <1>3, OneId DEF BlockIds
<1>5. e.operation \notin ValidOperations /\ e.layer_id \in Nat
  BY DEF KvEvents, ValidOperations
<1> QED BY <1>2, <1>4, <1>5 DEF Line, Readable

-----------------------------------------------------------------------------
(***************************************************************************)
(* Traces.                                                                 *)
(***************************************************************************)

\* A trace is a sequence of such lines.
IsTrace(t) == t \in Seq(Range(t)) /\ \A i \in 1..Len(t) : Line(t[i])

\* Lines one by one make a trace.
LEMMA TraceFrom ==
  ASSUME NEW S, NEW t, t \in Seq(S), \A i \in 1..Len(t) : Line(t[i])
  PROVE  IsTrace(t)
<1>1. t \in [1..Len(t) -> S] /\ DOMAIN t = 1..Len(t) /\ Len(t) \in Nat
  BY LenProperties
<1>2. \A i \in 1..Len(t) : t[i] \in Range(t)
  BY <1>1 DEF Range
<1>3. t \in [1..Len(t) -> Range(t)]
  BY <1>1, <1>2
<1>4. t \in Seq(Range(t))
  BY <1>1, <1>3, SeqDef
<1> QED BY <1>4 DEF IsTrace

\* A trace goes on with another.
LEMMA TracesJoin ==
  ASSUME NEW t, IsTrace(t), NEW u, IsTrace(u)
  PROVE  IsTrace(t \o u)
<1>1. PICK S : S = Range(t) \cup Range(u)
  OBVIOUS
<1>2. t \in Seq(S) /\ u \in Seq(S)
  <2>1. t \in Seq(Range(t)) /\ u \in Seq(Range(u))
    BY DEF IsTrace
  <2>2. Range(t) \subseteq S /\ Range(u) \subseteq S
    BY <1>1
  <2> QED BY <2>1, <2>2, SeqMonotonic
<1>3. Len(t) \in Nat /\ Len(u) \in Nat
  BY <1>2, LenProperties
<1>4. PICK r : r = t \o u
  OBVIOUS
<1>5. /\ r \in Seq(S) /\ Len(r) = Len(t) + Len(u)
      /\ \A i \in 1..(Len(t) + Len(u)) : r[i] = IF i <= Len(t) THEN t[i] ELSE u[i - Len(t)]
  BY <1>2, <1>4, ConcatProperties
<1>6. ASSUME NEW i \in 1..Len(r) PROVE Line(r[i])
  <2>1. r[i] = IF i <= Len(t) THEN t[i] ELSE u[i - Len(t)]
    BY <1>5
  <2>2. CASE i <= Len(t)
    BY <1>3, <1>5, <2>1, <2>2 DEF IsTrace
  <2>3. CASE ~(i <= Len(t))
    <3>1. i - Len(t) \in 1..Len(u)
      BY <1>3, <1>5, <2>3
    <3> QED BY <2>1, <2>3, <3>1 DEF IsTrace
  <2> QED BY <2>2, <2>3
<1> QED BY <1>4, <1>5, <1>6, TraceFrom

\* A function on the first naturals is a sequence.
LEMMA IsSeq ==
  ASSUME NEW S, NEW n, n \in Nat, NEW f, f \in [1..n -> S]
  PROVE  f \in Seq(S) /\ Len(f) = n
<1>1. f \in Seq(S)
  BY SeqDef
<1>2. DOMAIN f = 1..n
  OBVIOUS
<1> QED BY <1>1, <1>2, LenProperties

\* Numbering the lines keeps them readable.
LEMMA NumberedEvents ==
  ASSUME NEW lines, NEW from \in Nat, lines \in Seq(Events) \/ lines \in Seq(SynthEvents)
  PROVE  IsTrace(Numbered(lines, from))
<1>1. Len(lines) \in Nat
  BY LenProperties
<1>2. PICK t : t = Numbered(lines, from)
  OBVIOUS
<1>3. PICK S : S = {WithId(lines[i], from + i - 1) : i \in 1..Len(lines)}
  OBVIOUS
<1>4. t \in [1..Len(lines) -> S] /\ \A i \in 1..Len(lines) : t[i] = WithId(lines[i], from + i - 1)
  BY <1>2, <1>3 DEF Numbered
<1>5. t \in Seq(S) /\ Len(t) = Len(lines)
  BY <1>1, <1>4, IsSeq
<1>6. ASSUME NEW i \in 1..Len(t) PROVE Line(t[i])
  <2>1. PICK r, n, e : r = lines[i] /\ n = from + i - 1 /\ e = t[i]
    OBVIOUS
  <2>2. r \in Events \/ r \in SynthEvents
    BY <1>5, <2>1, ElementOfSeq
  <2>3. e = WithId(r, n)
    BY <1>4, <1>5, <2>1
  <2> QED BY <2>1, <2>2, <2>3, EventLine, SynthLine
<1> QED BY <1>2, <1>5, <1>6, TraceFrom

\* The blocks of a context (block_adapter.py:74-156).
Blocks(layer) ==
  [block_id : Nat, layer_id : {layer}, kv_head_start : Nat, token_start : Nat,
   token_count : Nat, storage_tier : {"DRAM", "SSD"}]

\* A context has a block at least.
LEMMA BlocksPositive ==
  ASSUME NEW length, length \in Nat \ {0}
  PROVE  BlocksOf(length) \in Nat \ {0}
<1>1. PICK n, t : n = length /\ t = TokensPerBlock
  OBVIOUS
<1>2. n \in Nat \ {0} /\ t \in Nat \ {0}
  BY <1>1, GeometryAssumption
<1>3. (n + t - 1) \div t \in Nat \ {0}
  BY <1>2, Z3
<1> QED BY <1>1, <1>3 DEF BlocksOf

\* Quotient and remainder.
LEMMA QuotientIs ==
  ASSUME NEW n \in Nat, NEW d \in Nat \ {0}
  PROVE  n \div d \in Nat /\ n % d \in Nat
BY Z3

\* A product of naturals.
LEMMA ProductIs == ASSUME NEW m \in Nat, NEW n \in Nat PROVE m * n \in Nat
OBVIOUS

\* The blocks of a layer (block_adapter.py:158-171).
LEMMA BlocksIs ==
  ASSUME NEW layer \in Nat, NEW length, length \in Nat \ {0}
  PROVE  LayerBlocks(layer, length) \in Seq(Blocks(layer))
<1>1. PICK B, N, offset, t : /\ B = BlocksOf(length) /\ N = Heads * BlocksOf(length)
                             /\ offset = layer * Heads * BlocksOf(length)
                             /\ t = LayerBlocks(layer, length)
  OBVIOUS
<1>2. /\ B \in Nat \ {0} /\ B \in Nat /\ Heads \in Nat /\ TokensPerBlock \in Nat
  BY <1>1, BlocksPositive, TraceAssumption, GeometryAssumption
<1>3. N \in Nat /\ offset \in Nat
  <2>1. layer * Heads \in Nat
    BY <1>2, ProductIs
  <2> QED BY <1>1, <1>2, <2>1, ProductIs
<1>4. ASSUME NEW i \in 1..N
      PROVE  [block_id |-> offset + i - 1, layer_id |-> layer,
              kv_head_start |-> (i - 1) \div B,
              token_start |-> ((i - 1) % B) * TokensPerBlock, token_count |-> TokensPerBlock,
              storage_tier |-> Tier(((i - 1) % B) * TokensPerBlock,
                 Min({((i - 1) % B) * TokensPerBlock + TokensPerBlock, length}), length)]
                \in Blocks(layer)
  <2>1. i - 1 \in Nat
    BY <1>3
  <2>2. (i - 1) \div B \in Nat /\ (i - 1) % B \in Nat
    BY <1>2, <2>1, QuotientIs
  <2>3. ((i - 1) % B) * TokensPerBlock \in Nat
    BY <1>2, <2>2, ProductIs
  <2>4. offset + i - 1 \in Nat
    BY <1>3
  <2>5. PICK tier : tier = Tier(((i - 1) % B) * TokensPerBlock,
                 Min({((i - 1) % B) * TokensPerBlock + TokensPerBlock, length}), length)
    OBVIOUS
  <2>6. tier \in {"DRAM", "SSD"}
    BY <2>5 DEF Tier
  <2> QED BY <1>2, <2>2, <2>3, <2>4, <2>5, <2>6 DEF Blocks
<1>5. t = [i \in 1..N |->
             [block_id |-> offset + i - 1, layer_id |-> layer,
              kv_head_start |-> (i - 1) \div B,
              token_start |-> ((i - 1) % B) * TokensPerBlock, token_count |-> TokensPerBlock,
              storage_tier |-> Tier(((i - 1) % B) * TokensPerBlock,
                 Min({((i - 1) % B) * TokensPerBlock + TokensPerBlock, length}), length)]]
  BY <1>1 DEF LayerBlocks, BlockizeLayer
<1>6. t \in [1..N -> Blocks(layer)]
  BY <1>4, <1>5
<1> QED BY <1>1, <1>3, <1>6, IsSeq

\* Those of one tier are some of them.
LEMMA TierIs ==
  ASSUME NEW S, NEW blocks, blocks \in Seq(S), NEW tier
  PROVE  InTier(blocks, tier) \in Seq(S)
<1>1. PICK base : base = <<>>
  OBVIOUS
<1>2. PICK f : Turns(f, "filter", tier, base, blocks) /\ InTier(blocks, tier) = f[Len(blocks)]
  BY <1>1, FilterTurns
<1>3. Len(blocks) \in Nat
  BY LenProperties
<1>. DEFINE X == {i \in Nat : i <= Len(blocks) => f[i] \in Seq(S)}
<1>4. 0 \in X
  <2>1. f[0] = <<>>
    BY <1>1, <1>2 DEF Turns
  <2> QED BY <2>1, EmptySeq
<1>5. ASSUME NEW i \in Nat, i \in X PROVE i + 1 \in X
  <2> SUFFICES ASSUME i + 1 <= Len(blocks)
               PROVE  f[i + 1] \in Seq(S)
    OBVIOUS
  <2>1. f[i] \in Seq(S)
    BY <1>3, <1>5
  <2>2. i + 1 \in 1..Len(blocks) /\ (i + 1) - 1 = i /\ blocks[i + 1] \in S
    BY <1>3, ElementOfSeq
  <2>3. f[i + 1] = Turned("filter", tier, f[(i + 1) - 1], blocks[i + 1])
    BY <1>2, <2>2 DEF Turns
  <2>4. PICK v, x : v = f[i] /\ x = blocks[i + 1]
    OBVIOUS
  <2>5. f[i + 1] = IF x.storage_tier = tier THEN Append(v, x) ELSE v
    BY <2>2, <2>3, <2>4 DEF Turned
  <2>6. v \in Seq(S) /\ x \in S
    BY <2>1, <2>2, <2>4
  <2>7. Append(v, x) \in Seq(S)
    BY <2>6, AppendProperties
  <2> QED BY <2>5, <2>6, <2>7
<1>6. Nat \subseteq X
  <2>. HIDE DEF X
  <2> QED BY <1>4, <1>5, SetInduction
<1> QED BY <1>2, <1>3, <1>6

-----------------------------------------------------------------------------
(***************************************************************************)
(* P1's trace.                                                             *)
(***************************************************************************)

\* A line about one block.
LEMMA BlockEventIs ==
  ASSUME NEW layer \in Nat, NEW b, b \in Blocks(layer), NEW op, op \in ValidOperations,
         NEW step \in Nat, NEW sub, sub \in {"KEY", "VALUE", "BOTH"}, NEW pages \in Nat,
         NEW cands, cands \in Seq(Nat), NEW ids, ids \in IdLists
  PROVE  BlockEvent(b, op, step, sub, pages, cands, ids) \in Events
<1>1. /\ b.block_id \in Nat /\ b.layer_id = layer /\ b.kv_head_start \in Nat
      /\ b.token_start \in Nat /\ b.token_count \in Nat /\ b.storage_tier \in {"DRAM", "SSD"}
  BY DEF Blocks
<1>2. b.token_start + b.token_count \in Nat
  BY <1>1
<1> QED BY <1>1, <1>2 DEF BlockEvent, Events

\* The ids of blocks.
LEMMA IdsAre ==
  ASSUME NEW layer, NEW blocks, blocks \in Seq(Blocks(layer))
  PROVE  IdsOf(blocks) \in Seq(Nat) /\ Len(IdsOf(blocks)) = Len(blocks)
<1>1. Len(blocks) \in Nat
  BY LenProperties
<1>2. \A i \in 1..Len(blocks) : blocks[i].block_id \in Nat
  <2> TAKE i \in 1..Len(blocks)
  <2>1. blocks[i] \in Blocks(layer)
    BY ElementOfSeq
  <2> QED BY <2>1 DEF Blocks
<1>3. PICK n, t : n = Len(blocks) /\ t = IdsOf(blocks)
  OBVIOUS
<1>4. t \in [1..n -> Nat] /\ n \in Nat
  BY <1>1, <1>2, <1>3 DEF IdsOf
<1>5. t \in Seq(Nat) /\ Len(t) = n
  BY <1>4, IsSeq
<1> QED BY <1>3, <1>5

\* What one layer of the prefill writes (trace_generator.py:68-91).
WritesOf(blocks) ==
  [i \in 1..Len(blocks) |->
     BlockEvent(blocks[i], "PREFILL_WRITE", 0, "BOTH", BlockPages, <<>>,
                <<blocks[i].block_id>>)]

\* The prefill writes of some blocks (trace_generator.py:68-91).
LEMMA WritesAre ==
  ASSUME NEW layer \in Nat, NEW blocks, blocks \in Seq(Blocks(layer))
  PROVE  WritesOf(blocks) \in Seq(Events)
<1>1. Len(blocks) \in Nat
  BY LenProperties
<1>2. ASSUME NEW i \in 1..Len(blocks)
      PROVE  BlockEvent(blocks[i], "PREFILL_WRITE", 0, "BOTH", BlockPages, <<>>,
                        <<blocks[i].block_id>>) \in Events
  <2>1. PICK b : b = blocks[i]
    OBVIOUS
  <2>2. b \in Blocks(layer)
    BY <2>1, ElementOfSeq
  <2>3. b.block_id \in Nat
    BY <2>2 DEF Blocks
  <2>4. PICK ids, none : ids = <<b.block_id>> /\ none = <<>>
    OBVIOUS
  <2>5. ids \in IdLists /\ none \in Seq(Nat)
    BY <2>3, <2>4, OneId, EmptySeq
  <2>6. "PREFILL_WRITE" \in ValidOperations /\ 0 \in Nat /\ BlockPages \in Nat
    BY DEF ValidOperations, BlockPages
  <2>7. BlockEvent(b, "PREFILL_WRITE", 0, "BOTH", BlockPages, none, ids) \in Events
    BY <2>2, <2>5, <2>6, BlockEventIs
  <2> QED BY <2>1, <2>4, <2>7
<1>3. WritesOf(blocks) \in [1..Len(blocks) -> Events]
  BY <1>2 DEF WritesOf
<1> QED BY <1>1, <1>3, IsSeq

\* The prefill writes every block of every layer.
LEMMA PrefillIs ==
  ASSUME NEW length, length \in Nat \ {0}
  PROVE  PrefillEvents(length) \in Seq(Events)
<1>1. Layers \in Nat \ {0}
  BY TraceAssumption
<1>2. PICK seqs : seqs = [l \in 1..Layers |-> WritesOf(LayerBlocks(l - 1, length))]
  OBVIOUS
<1>3. \A l \in 1..Layers : WritesOf(LayerBlocks(l - 1, length)) \in Seq(Events)
  <2> TAKE l \in 1..Layers
  <2>1. PICK layer, blocks : layer = l - 1 /\ blocks = LayerBlocks(l - 1, length)
    OBVIOUS
  <2>2. layer \in Nat
    BY <1>1, <2>1
  <2>3. blocks \in Seq(Blocks(layer))
    BY <2>1, <2>2, BlocksIs
  <2>4. WritesOf(blocks) \in Seq(Events)
    BY <2>2, <2>3, WritesAre
  <2> QED BY <2>1, <2>4
<1>4. seqs \in [1..Layers -> Seq(Events)]
  BY <1>2, <1>3
<1>5. seqs \in Seq(Seq(Events))
  BY <1>1, <1>4, IsSeq
<1>6. PrefillEvents(length) = FlattenSeq(seqs)
  BY <1>2 DEF PrefillEvents, WritesOf
<1> QED BY <1>5, <1>6, FlattenFirst

\* The blocks that win are some of the candidates, each once.
LEMMA WinnersAre ==
  ASSUME NEW ids, ids \in Seq(Nat), ids # <<>>, NEW w, w \in Winners(ids, TopkCount(Len(ids)))
  PROVE  /\ w \in IdLists
         /\ \A i \in 1..Len(w) : \E j \in 1..Len(ids) : w[i] = ids[j]
<1>1. Len(ids) \in Nat /\ Len(ids) # 0 /\ DOMAIN ids = 1..Len(ids)
  BY LenProperties, EmptySeq
<1>2. PICK k : k = TopkCount(Len(ids))
  OBVIOUS
<1>3. k \in Nat /\ k >= 1
  <2>1. Share(Len(ids), TopkPercent) \in Nat
    <3>1. Len(ids) * TopkPercent \in Nat
      BY <1>1, ProductIs, TraceAssumption
    <3> QED BY <3>1, QuotientIs DEF Share
  <2>2. PICK s : s = Share(Len(ids), TopkPercent)
    OBVIOUS
  <2>3. Max({1, s}) \in Nat /\ Max({1, s}) >= 1
    BY <2>1, <2>2, MaxOfTwo
  <2> QED BY <1>1, <1>2, <2>2, <2>3 DEF TopkCount
<1>4. w \in [1..k -> Range(ids)] /\ \A i, j \in 1..k : w[i] = w[j] => i = j
  BY <1>2 DEF Winners
<1>5. \A x \in Range(ids) : \E j \in 1..Len(ids) : x = ids[j]
  BY <1>1 DEF Range
<1>6. Range(ids) \subseteq Nat
  BY <1>5, ElementOfSeq
<1>7. w \in [1..k -> Nat]
  BY <1>4, <1>6
<1>8. w \in Seq(Nat) /\ Len(w) = k
  BY <1>3, <1>7, IsSeq
<1>9. w # <<>> /\ Differ(w)
  BY <1>3, <1>4, <1>8, EmptySeq DEF Differ
<1>10. \A i \in 1..Len(w) : \E j \in 1..Len(ids) : w[i] = ids[j]
  BY <1>4, <1>5, <1>8
<1> QED BY <1>8, <1>9, <1>10 DEF IdLists

\* What one layer of a decode step logs (trace_generator.py:93-199).
ReadsOf(dram, step) ==
  [i \in 1..Len(dram) |->
     BlockEvent(dram[i], "DECODE_READ", step, "BOTH", BlockPages, <<>>, <<dram[i].block_id>>)]

\* The hits in DRAM of a decode step.
LEMMA ReadsAre ==
  ASSUME NEW layer \in Nat, NEW blocks, blocks \in Seq(Blocks(layer)), NEW step \in Nat
  PROVE  ReadsOf(blocks, step) \in Seq(Events)
<1>1. Len(blocks) \in Nat
  BY LenProperties
<1>2. ASSUME NEW i \in 1..Len(blocks)
      PROVE  BlockEvent(blocks[i], "DECODE_READ", step, "BOTH", BlockPages, <<>>,
                        <<blocks[i].block_id>>) \in Events
  <2>1. PICK b : b = blocks[i]
    OBVIOUS
  <2>2. b \in Blocks(layer)
    BY <2>1, ElementOfSeq
  <2>3. b.block_id \in Nat
    BY <2>2 DEF Blocks
  <2>4. PICK ids, none : ids = <<b.block_id>> /\ none = <<>>
    OBVIOUS
  <2>5. ids \in IdLists /\ none \in Seq(Nat)
    BY <2>3, <2>4, OneId, EmptySeq
  <2>6. "DECODE_READ" \in ValidOperations /\ BlockPages \in Nat
    BY DEF ValidOperations, BlockPages
  <2>7. BlockEvent(b, "DECODE_READ", step, "BOTH", BlockPages, none, ids) \in Events
    BY <2>2, <2>5, <2>6, BlockEventIs
  <2> QED BY <2>1, <2>4, <2>7
<1>3. ReadsOf(blocks, step) \in [1..Len(blocks) -> Events]
  BY <1>2 DEF ReadsOf
<1> QED BY <1>1, <1>3, IsSeq

\* The fetches of the winners.
LEMMA FetchesAre ==
  ASSUME NEW layer \in Nat, NEW ssd, ssd \in Seq(Blocks(layer)), NEW step \in Nat,
         NEW w, w \in IdLists, \A i \in 1..Len(w) : \E j \in 1..Len(ssd) : w[i] = IdsOf(ssd)[j]
  PROVE  FetchEvents(layer, step, ssd, w) \in Seq(Events)
<1>1. w \in Seq(Nat) /\ Len(w) \in Nat
  BY LenProperties DEF IdLists
<1>2. PICK cands : cands = IdsOf(ssd)
  OBVIOUS
<1>3. cands \in Seq(Nat)
  BY <1>2, IdsAre
<1>4. ASSUME NEW i \in 1..Len(w)
      PROVE  BlockEvent(CHOOSE b \in Range(ssd) : b.block_id = w[i], "TOPK_FETCH", step,
                        "VALUE", KeyPages, cands, w) \in Events
  <2>1. PICK j \in 1..Len(ssd) : w[i] = IdsOf(ssd)[j]
    OBVIOUS
  <2>2. w[i] = ssd[j].block_id
    BY <2>1 DEF IdsOf
  <2>3. DOMAIN ssd = 1..Len(ssd)
    BY LenProperties
  <2>4. ssd[j] \in Range(ssd) /\ \A x \in Range(ssd) : x \in Blocks(layer)
    BY <2>3, ElementOfSeq DEF Range
  <2>5. PICK c : c = CHOOSE b \in Range(ssd) : b.block_id = w[i]
    OBVIOUS
  <2>6. c \in Range(ssd)
    BY <2>2, <2>4, <2>5
  <2>7. c \in Blocks(layer)
    BY <2>4, <2>6
  <2>8. "TOPK_FETCH" \in ValidOperations /\ KeyPages \in Nat
    BY DEF ValidOperations, KeyPages
  <2>9. BlockEvent(c, "TOPK_FETCH", step, "VALUE", KeyPages, cands, w) \in Events
    BY <1>3, <2>7, <2>8, BlockEventIs
  <2> QED BY <2>5, <2>9
<1>5. FetchEvents(layer, step, ssd, w) \in [1..Len(w) -> Events]
  BY <1>2, <1>4 DEF FetchEvents
<1> QED BY <1>1, <1>5, IsSeq

\* The scan of the candidates.
LEMMA FilterIs ==
  ASSUME NEW layer \in Nat, NEW step \in Nat, NEW cands, cands \in Seq(Nat), cands # <<>>,
         NEW w, w \in IdLists
  PROVE  FilterEvent(layer, step, cands, w) \in Events
<1>1. Len(cands) \in Nat /\ Len(cands) # 0
  BY LenProperties, EmptySeq
<1>2. cands[1] \in Nat
  BY <1>1, ElementOfSeq
<1>3. Len(cands) * KeyPages \in Nat /\ "TOPK_FILTER" \in ValidOperations
  BY <1>1 DEF KeyPages, ValidOperations
<1> QED BY <1>2, <1>3 DEF FilterEvent, Events

\* What one layer logs in one decode step (trace_generator.py:93-199).
LEMMA DecodeIs ==
  ASSUME NEW layer \in Nat, NEW step \in Nat, NEW length, length \in Nat \ {0}, NEW ids,
         ids = IdsOf(InTier(LayerBlocks(layer, length), "SSD")),
         NEW w, w \in Winners(ids, TopkCount(Len(ids)))
  PROVE  DecodeEvents(layer, step, length, w) \in Seq(Events)
<1>1. PICK blocks, dram, ssd : /\ blocks = LayerBlocks(layer, length)
        /\ dram = InTier(LayerBlocks(layer, length), "DRAM")
        /\ ssd = InTier(LayerBlocks(layer, length), "SSD")
  OBVIOUS
<1>2. blocks \in Seq(Blocks(layer))
  BY <1>1, BlocksIs
<1>3. dram \in Seq(Blocks(layer)) /\ ssd \in Seq(Blocks(layer))
  BY <1>1, <1>2, TierIs
<1>4. ids \in Seq(Nat) /\ Len(ids) = Len(ssd) /\ ids = IdsOf(ssd)
  BY <1>1, <1>3, IdsAre
<1>5. PICK reads : reads = ReadsOf(dram, step)
  OBVIOUS
<1>6. reads \in Seq(Events)
  BY <1>3, <1>5, ReadsAre
<1>7. DecodeEvents(layer, step, length, w)
        = reads \o (IF ssd = <<>> THEN <<>>
                    ELSE <<FilterEvent(layer, step, ids, w)>> \o FetchEvents(layer, step, ssd, w))
  BY <1>1, <1>5 DEF DecodeEvents, ReadsOf
<1>8. CASE ssd = <<>>
  <2>1. <<>> \in Seq(Events)
    BY EmptySeq
  <2> QED BY <1>6, <1>7, <1>8, <2>1, ConcatProperties
<1>9. CASE ssd # <<>>
  <2>1. Len(ssd) # 0
    BY <1>3, <1>9, EmptySeq
  <2>2. ids # <<>>
    BY <1>4, <2>1, EmptySeq
  <2>3. w \in IdLists /\ \A i \in 1..Len(w) : \E j \in 1..Len(ids) : w[i] = ids[j]
    BY <1>4, <2>2, WinnersAre
  <2>4. PICK e, fetches : e = FilterEvent(layer, step, ids, w)
                          /\ fetches = FetchEvents(layer, step, ssd, w)
    OBVIOUS
  <2>5. e \in Events
    BY <1>4, <2>2, <2>3, <2>4, FilterIs
  <2>6. fetches \in Seq(Events)
    <3>1. \A i \in 1..Len(w) : \E j \in 1..Len(ssd) : w[i] = IdsOf(ssd)[j]
      BY <1>4, <2>3
    <3> QED BY <1>3, <2>3, <2>4, <3>1, FetchesAre
  <2>7. <<e>> \in Seq(Events)
    BY <2>5, Tuples
  <2>8. <<e>> \o fetches \in Seq(Events)
    BY <2>6, <2>7, ConcatProperties
  <2> QED BY <1>6, <1>7, <1>9, <2>4, <2>8, ConcatProperties
<1> QED BY <1>8, <1>9

-----------------------------------------------------------------------------
(***************************************************************************)
(* The synthetic traces.                                                   *)
(***************************************************************************)

\* What P2 synthesises are such lines (replayer.py:165-205).
LEMMA SynthEventIs ==
  ASSUME NEW op, op \in ValidOperations, NEW layer, layer \in Nat, NEW head, head \in Nat,
         NEW token, token \in Nat, NEW block, block \in Nat
  PROVE  [operation |-> op, layer_id |-> layer, head_id |-> head, token_start |-> token,
          block_id |-> block, byte_size |-> BlockPages, sub_page |-> "BOTH"] \in SynthEvents
BY DEF SynthEvents, BlockPages

\* P2's synthetic writes.
LEMMA SynthWritesAre ==
  ASSUME NEW length, length \in Nat \ {0}
  PROVE  SynthesizeWrites(length) \in Seq(SynthEvents)
<1>1. PICK B, N, D, t : /\ B = BlocksOf(length) /\ N = Layers * Heads * BlocksOf(length)
                        /\ D = Heads * BlocksOf(length) /\ t = SynthesizeWrites(length)
  OBVIOUS
<1>2. /\ B \in Nat \ {0} /\ B \in Nat /\ Heads \in Nat \ {0} /\ Heads \in Nat /\ Layers \in Nat
      /\ TokensPerBlock \in Nat
  BY <1>1, BlocksPositive, TraceAssumption, GeometryAssumption
<1>3. N \in Nat
  <2>1. Layers * Heads \in Nat
    BY <1>2, ProductIs
  <2> QED BY <1>1, <1>2, <2>1, ProductIs
<1>4. D \in Nat \ {0}
  <2>1. \A m, n \in Nat \ {0} : m * n \in Nat \ {0}
    BY Z3
  <2> QED BY <1>1, <1>2, <2>1
<1>5. ASSUME NEW i \in 1..N
      PROVE  [operation |-> "PREFILL_WRITE", layer_id |-> (i - 1) \div D,
              head_id |-> ((i - 1) \div B) % Heads,
              token_start |-> ((i - 1) % B) * TokensPerBlock,
              block_id |-> i - 1, byte_size |-> BlockPages, sub_page |-> "BOTH"]
                \in SynthEvents
  <2>1. i - 1 \in Nat
    BY <1>3
  <2>2. (i - 1) \div D \in Nat /\ (i - 1) \div B \in Nat /\ (i - 1) % B \in Nat
    BY <1>2, <1>4, <2>1, QuotientIs
  <2>3. ((i - 1) \div B) % Heads \in Nat
    BY <1>2, <2>2, QuotientIs
  <2>4. ((i - 1) % B) * TokensPerBlock \in Nat
    BY <1>2, <2>2, ProductIs
  <2>5. "PREFILL_WRITE" \in ValidOperations
    BY DEF ValidOperations
  <2> QED BY <2>1, <2>2, <2>3, <2>4, <2>5, SynthEventIs
<1>6. t = [i \in 1..N |->
             [operation |-> "PREFILL_WRITE", layer_id |-> (i - 1) \div D,
              head_id |-> ((i - 1) \div B) % Heads,
              token_start |-> ((i - 1) % B) * TokensPerBlock,
              block_id |-> i - 1, byte_size |-> BlockPages, sub_page |-> "BOTH"]]
  BY <1>1 DEF SynthesizeWrites
<1>7. t \in [1..N -> SynthEvents]
  BY <1>5, <1>6
<1> QED BY <1>1, <1>3, <1>7, IsSeq

\* P2's synthetic reads.
LEMMA SynthReadsAre ==
  ASSUME NEW length, length \in Nat \ {0}, NEW steps \in Nat
  PROVE  SynthesizeReads(length, steps) \in Seq(SynthEvents)
<1>1. PICK N, D, t, T : /\ N = steps * Layers * Heads /\ D = Layers * Heads
                        /\ t = SynthesizeReads(length, steps) /\ T = TokensPerBlock
  OBVIOUS
<1>2. /\ Heads \in Nat \ {0} /\ Heads \in Nat /\ Layers \in Nat \ {0} /\ Layers \in Nat
      /\ T \in Nat \ {0} /\ T \in Nat /\ BlocksPerHead \in Nat
  BY <1>1, TraceAssumption, GeometryAssumption
<1>3. N \in Nat
  <2>1. steps * Layers \in Nat
    BY <1>2, ProductIs
  <2> QED BY <1>1, <1>2, <2>1, ProductIs
<1>4. D \in Nat \ {0}
  <2>1. \A m, n \in Nat \ {0} : m * n \in Nat \ {0}
    BY Z3
  <2> QED BY <1>1, <1>2, <2>1
<1>. DEFINE step(i)  == (i - 1) \div D
            layer(i) == ((i - 1) \div Heads) % Layers
            head(i)  == (i - 1) % Heads
            token(i) == (step(i) * T + head(i) * 2 * T) % length
            Read(i) == [operation |-> "DECODE_READ", layer_id |-> layer(i), head_id |-> head(i),
                        token_start |-> token(i),
                        block_id |-> (layer(i) * Heads + head(i)) * BlocksPerHead
                                        + token(i) \div T,
                        byte_size |-> BlockPages, sub_page |-> "BOTH"]
<1>5. ASSUME NEW i \in 1..N PROVE Read(i) \in SynthEvents
  <2>1. i - 1 \in Nat
    BY <1>3
  <2>2. step(i) \in Nat /\ (i - 1) \div Heads \in Nat /\ head(i) \in Nat
    BY <1>2, <1>4, <2>1, QuotientIs
  <2>3. layer(i) \in Nat
    BY <1>2, <2>2, QuotientIs
  <2>4. token(i) \in Nat
    <3>1. PICK a, b : a = step(i) /\ b = head(i)
      OBVIOUS
    <3>2. a * T \in Nat /\ b * 2 \in Nat
      BY <1>2, <2>2, <3>1, ProductIs
    <3>3. b * 2 * T \in Nat
      BY <1>2, <3>2, ProductIs
    <3>4. a * T + b * 2 * T \in Nat
      BY <3>2, <3>3
    <3> HIDE DEF step, head
    <3> QED BY <3>1, <3>4, QuotientIs
  <2>5. (layer(i) * Heads + head(i)) * BlocksPerHead + token(i) \div T \in Nat
    <3>1. PICK a, b, c, q : a = layer(i) /\ b = head(i) /\ c = token(i) /\ q = token(i) \div T
      OBVIOUS
    <3>2. a \in Nat /\ b \in Nat /\ c \in Nat
      BY <2>2, <2>3, <2>4, <3>1
    <3> HIDE DEF layer, head, token
    <3>3. q \in Nat
      BY <1>2, <3>1, <3>2, QuotientIs
    <3>4. a * Heads \in Nat
      BY <1>2, <3>2, ProductIs
    <3>5. a * Heads + b \in Nat
      BY <3>2, <3>4
    <3>6. (a * Heads + b) * BlocksPerHead \in Nat
      BY <1>2, <3>5, ProductIs
    <3> QED BY <3>1, <3>3, <3>6
  <2>6. "DECODE_READ" \in ValidOperations
    BY DEF ValidOperations
  <2>. HIDE DEF step, layer, head, token
  <2> QED BY <2>2, <2>3, <2>4, <2>5, <2>6, SynthEventIs
<1>6. t = [i \in 1..N |-> Read(i)]
  BY <1>1 DEF SynthesizeReads
<1>. HIDE DEF Read
<1>7. t \in [1..N -> SynthEvents]
  BY <1>5, <1>6
<1> QED BY <1>1, <1>3, <1>7, IsSeq

\* P2's synthetic trace.
LEMMA SynthIs ==
  ASSUME NEW length, length \in Nat \ {0}, NEW steps \in Nat
  PROVE  IsTrace(SynthesizeTrace(length, steps))
<1>1. SynthesizeWrites(length) \o SynthesizeReads(length, steps) \in Seq(SynthEvents)
  BY SynthWritesAre, SynthReadsAre, ConcatProperties
<1> QED BY <1>1, NumberedEvents DEF SynthesizeTrace

\* The least of some numbers.
LEMMA LeastIs ==
  ASSUME NEW S, S \subseteq Nat, S # {}, IsFiniteSet(S)
  PROVE  Ascending(S)[1] \in Nat
<1>1. \E x \in S : \A y \in S : x <= y
  <2>1. PICK z : z \in S
    OBVIOUS
  <2>. DEFINE X == {n \in Nat : n \in S => \E x \in S : \A y \in S : x <= y}
              W == {n \in Nat : (\E m \in S : m <= n) => \E x \in S : \A y \in S : x <= y}
  <2>2. 0 \in W
    BY DEF W
  <2>3. ASSUME NEW n \in Nat, n \in W PROVE n + 1 \in W
    <3> SUFFICES ASSUME NEW m \in S, m <= n + 1 PROVE \E x \in S : \A y \in S : x <= y
      OBVIOUS
    <3>1. CASE \E k \in S : k <= n
      BY <2>3, <3>1
    <3>2. CASE \A k \in S : ~(k <= n)
      <4>1. \A k \in S : n + 1 <= k
        BY <3>2
      <4>2. \A k \in S : m <= k
        BY <4>1
      <4> QED BY <4>2
    <3> QED BY <3>1, <3>2
  <2>4. Nat \subseteq W
    <3>. HIDE DEF W
    <3> QED BY <2>2, <2>3, SetInduction
  <2> QED BY <2>1, <2>4
<1>2. PICK x \in S : \A y \in S : x <= y
  BY <1>1
<1>3. {y \in S : y < x} = {}
  <2>1. ASSUME NEW y \in S PROVE ~(y < x)
    <3>1. x \in Nat /\ y \in Nat /\ x <= y
      BY <1>2
    <3> QED BY <3>1
  <2> QED BY <2>1, Zenon
<1>4. Cardinality({y \in S : y < x}) = 0
  BY <1>3, FS_EmptySet
<1>5. PICK c : c = CHOOSE v \in S : Cardinality({y \in S : y < v}) = 1 - 1
  OBVIOUS
<1>6. c \in S
  <2>1. 1 - 1 = 0
    OBVIOUS
  <2>2. \E v \in S : Cardinality({y \in S : y < v}) = 1 - 1
    BY <1>4, <2>1
  <2> QED BY <1>5, <2>2
<1>7. 1 \in 1..Cardinality(S)
  <2>1. Cardinality(S) \in Nat
    BY FS_CardinalityType
  <2>2. Cardinality(S) # 0
    BY FS_EmptySet
  <2> QED BY <2>1, <2>2
<1>8. Ascending(S)[1] = c
  BY <1>5, <1>7 DEF Ascending
<1> QED BY <1>6, <1>8

\* The smaller of two numbers.
LEMMA MinOfTwo ==
  ASSUME NEW a \in Int, NEW b \in Int
  PROVE  Min({a, b}) \in Int
<1>1. \E x \in {a, b} : \A y \in {a, b} : x <= y
  OBVIOUS
<1> QED BY <1>1 DEF Min

\* The larger of 0 and a number.
LEMMA MaxNotNegative ==
  ASSUME NEW b \in Int
  PROVE  Max({0, b}) \in Nat
<1>1. \E x \in {0, b} : \A y \in {0, b} : x >= y
  OBVIOUS
<1>2. PICK m : m = Max({0, b})
  OBVIOUS
<1>3. m \in {0, b} /\ \A y \in {0, b} : m >= y
  BY <1>1, <1>2 DEF Max
<1> QED BY <1>2, <1>3

\* The candidates of a synthetic line (synthetic_generator.py:58-83).
LEMMA CandidatesAre ==
  ASSUME NEW step \in Nat, NEW layer \in Nat, NEW total \in Nat, NEW ids,
         ids = SyntheticCandidates(step, layer, total), ids # <<>>
  PROVE  ids[1] \in Nat
<1>1. /\ Synth.sinks \in Nat /\ Synth.middle \in Nat /\ Synth.window \in Nat
      /\ Synth.grow \in Nat /\ Synth.base \in Nat
  BY TraceAssumption
<1>2. PICK blocks : blocks = Min({total, (step + 1) * Synth.grow + Synth.base})
  OBVIOUS
<1>3. blocks \in Int
  <2>1. (step + 1) * Synth.grow \in Nat
    BY <1>1, ProductIs
  <2>2. PICK n : n = (step + 1) * Synth.grow + Synth.base
    OBVIOUS
  <2>3. n \in Int
    BY <1>1, <2>1, <2>2
  <2> QED BY <1>2, <2>2, <2>3, MinOfTwo
<1>4. PICK recent : recent = Max({0, blocks - Synth.window})
  OBVIOUS
<1>5. recent \in Nat
  <2>1. PICK n : n = blocks - Synth.window
    OBVIOUS
  <2>2. n \in Int
    BY <1>1, <1>3, <2>1
  <2> QED BY <1>4, <2>1, <2>2, MaxNotNegative
<1>6. PICK sinks : sinks = Synth.sinks
  OBVIOUS
<1>7. PICK offset : offset = IF recent > sinks THEN (layer * 3) % (recent - sinks) ELSE 0
  OBVIOUS
<1>8. offset \in Nat
  <2>1. CASE recent > sinks
    <3>1. recent - sinks \in Nat \ {0}
      BY <1>1, <1>5, <1>6, <2>1
    <3>2. layer * 3 \in Nat
      OBVIOUS
    <3>3. (layer * 3) % (recent - sinks) \in Nat
      BY <3>1, <3>2, QuotientIs
    <3> QED BY <1>7, <2>1, <3>3
  <2>2. CASE ~(recent > sinks)
    BY <1>7, <2>2
  <2> QED BY <2>1, <2>2
<1>9. PICK p, q : p = Min({sinks, total}) /\ q = Min({recent, sinks + offset + Synth.middle})
  OBVIOUS
<1>10. p \in Int /\ q \in Int
  <2>1. sinks \in Int /\ total \in Int /\ recent \in Int
    BY <1>1, <1>5, <1>6
  <2>2. PICK n : n = sinks + offset + Synth.middle
    OBVIOUS
  <2>3. n \in Int
    BY <1>1, <1>6, <1>8, <2>2
  <2> QED BY <1>9, <2>1, <2>2, <2>3, MinOfTwo
<1>11. PICK A, B, C : A = 0..(p - 1) /\ B = (sinks + offset)..(q - 1) /\ C = recent..(blocks - 1)
  OBVIOUS
<1>12. A \subseteq Nat /\ B \subseteq Nat /\ C \subseteq Nat
  BY <1>1, <1>3, <1>5, <1>6, <1>8, <1>10, <1>11
<1>13. IsFiniteSet(A) /\ IsFiniteSet(B) /\ IsFiniteSet(C)
  <2>1. p - 1 \in Int /\ q - 1 \in Int /\ blocks - 1 \in Int /\ sinks + offset \in Int
        /\ recent \in Int
    BY <1>1, <1>3, <1>5, <1>6, <1>8, <1>10
  <2>2. IsFiniteSet(A)
    BY <1>11, <2>1, FS_Interval
  <2>3. IsFiniteSet(B)
    BY <1>11, <2>1, FS_Interval
  <2>4. IsFiniteSet(C)
    BY <1>11, <2>1, FS_Interval
  <2> QED BY <2>2, <2>3, <2>4
<1>14. PICK S : S = A \cup B \cup C
  OBVIOUS
<1>15. S \subseteq Nat /\ IsFiniteSet(S)
  <2>1. IsFiniteSet(A \cup B)
    BY <1>13, FS_Union
  <2>2. IsFiniteSet((A \cup B) \cup C)
    BY <1>13, <2>1, FS_Union
  <2> QED BY <1>12, <1>14, <2>2
<1>16. ids = Ascending(S)
  BY <1>2, <1>4, <1>6, <1>7, <1>9, <1>11, <1>14 DEF SyntheticCandidates
<1>17. CASE S = {}
  <2>1. Cardinality(S) = 0
    BY <1>17, FS_EmptySet
  <2>2. ids = [i \in 1..0 |-> CHOOSE x \in S : Cardinality({y \in S : y < x}) = i - 1]
    BY <1>16, <2>1 DEF Ascending
  <2>3. ids \in [1..0 -> Nat]
    <3>1. \A i \in 1..0 : FALSE
      OBVIOUS
    <3> QED BY <2>2, <3>1
  <2>4. ids \in Seq(Nat) /\ Len(ids) = 0
    BY <2>3, IsSeq
  <2> QED BY <2>4, EmptySeq
<1>18. CASE S # {}
  BY <1>15, <1>16, <1>18, LeastIs
<1> QED BY <1>17, <1>18

\* P3's synthetic trace (synthetic_generator.py:45-100).
LEMMA KvIs ==
  ASSUME NEW length, length \in Nat \ {0}, NEW steps \in Nat
  PROVE  IsTrace(SyntheticTrace(length, steps))
<1>1. PICK N, t : N = steps * ConfigLayers /\ t = SyntheticTrace(length, steps)
  OBVIOUS
<1>2. /\ ConfigLayers \in Nat \ {0} /\ ConfigLayers \in Nat
      /\ TokensPerBlock \in Nat \ {0}
  BY TraceAssumption, GeometryAssumption
<1>3. N \in Nat
  BY <1>1, <1>2, ProductIs
<1>. DEFINE ids(i) == SyntheticCandidates((i - 1) \div ConfigLayers, (i - 1) % ConfigLayers,
                                          length \div TokensPerBlock)
            e(i) == [seq_id |-> i - 1, step_id |-> (i - 1) \div ConfigLayers,
                     layer_id |-> (i - 1) % ConfigLayers, head_id |-> 0,
                     operation |-> "KV_TOPK",
                     block_ids |-> ids(i), byte_offset |-> 0, byte_length |-> Len(ids(i))]
<1>4. ASSUME NEW i \in 1..N PROVE Line(e(i))
  <2>1. i - 1 \in Nat
    BY <1>3
  <2>2. (i - 1) \div ConfigLayers \in Nat /\ (i - 1) % ConfigLayers \in Nat
    BY <1>2, <2>1, QuotientIs
  <2>3. length \div TokensPerBlock \in Nat
    BY <1>2, QuotientIs
  <2>4. PICK w : w = ids(i)
    OBVIOUS
  <2>5. w # <<>> => w[1] \in Nat
    BY <2>2, <2>3, <2>4, CandidatesAre
  <2>6. PICK r : r = e(i)
    OBVIOUS
  <2>. HIDE DEF ids
  <2>7. KvEvents(r)
    BY <2>2, <2>4, <2>5, <2>6 DEF KvEvents
  <2>. HIDE DEF e
  <2> QED BY <2>6, <2>7, KvLine
<1>5. t = [i \in 1..N |-> e(i)]
  BY <1>1 DEF SyntheticTrace
<1>. HIDE DEF e, ids
<1>6. PICK S : S = {e(i) : i \in 1..N}
  OBVIOUS
<1>7. t \in [1..N -> S]
  BY <1>5, <1>6
<1>8. t \in Seq(S) /\ Len(t) = N
  BY <1>3, <1>7, IsSeq
<1>9. \A i \in 1..Len(t) : Line(t[i])
  BY <1>4, <1>5, <1>8
<1> QED BY <1>1, <1>8, <1>9, TraceFrom

-----------------------------------------------------------------------------
(***************************************************************************)
(* What the readers make of a trace.                                       *)
(***************************************************************************)

\* A new storage has nothing staged and nothing counted.
LEMMA StorageStarts ==
  ASSUME NEW kind, kind \in BackendKinds, NEW config, config.pages \in Nat \ {0}, NEW sr,
         sr = NewStorage(kind)
  PROVE  GoodStorage(sr, config)
<1>1. sr = [be |-> NewBackend(kind), pf |-> NewPrefetcher]
  BY DEF NewStorage
<1>2. sr.be = NewBackend(kind) /\ sr.pf = NewPrefetcher
  BY <1>1
<1>3. PICK pages : pages = config.pages
  OBVIOUS
<1>4. pages \in Nat
  BY <1>3
<1>5. GoodPrefetcher(NewPrefetcher, pages) /\ GoodBackend(NewBackend(kind), pages)
  BY <1>4, PrefetcherStarts, BackendStarts
<1>6. NewBackend(kind).reads = 0 /\ NewPrefetcher.requests = 0 /\ NewPrefetcher.misses = 0
  BY DEF NewBackend, NewPrefetcher
<1>7. sr = [be |-> sr.be, pf |-> sr.pf]
  BY <1>1, <1>2, Zenon
<1>8. sr.be.reads = sr.pf.requests + sr.pf.misses
  BY <1>2, <1>6
<1> QED BY <1>2, <1>3, <1>5, <1>7, <1>8 DEF GoodStorage

\* A new storage has nothing staged.
LEMMA NothingStaged ==
  ASSUME NEW kind
  PROVE  NewStorage(kind).pf.staged = <<>>
BY DEF NewStorage, NewPrefetcher

\* The entries of the buffer, whatever experiment staged them.
Entries(s) == s \in Seq(Staged) /\ Distinct(s)

\* An empty buffer.
LEMMA EmptyEntries == Entries(<<>>) /\ Len(<<>>) = 0
<1>1. <<>> \in Seq(Staged) /\ Len(<<>>) = 0
  BY EmptySeq
<1> QED BY <1>1 DEF Entries, Distinct

\* What TypeOK says of the buffer.
LEMMA EntriesTyped ==
  ASSUME NEW s, Entries(s)
  PROVE  /\ \A e \in Range(s) : e.key \in (0..(ConfigLayers - 1)) \X Nat
         /\ Cardinality(Keys(s)) = Len(s)
<1>1. s \in Seq(Staged) /\ Distinct(s) /\ Len(s) \in Nat /\ DOMAIN s = 1..Len(s)
  BY LenProperties DEF Entries
<1>2. ASSUME NEW e \in Range(s) PROVE e.key \in (0..(ConfigLayers - 1)) \X Nat
  <2>1. PICK i \in 1..Len(s) : e = s[i]
    BY <1>1 DEF Range
  <2>2. s[i] \in Staged
    BY <1>1, ElementOfSeq
  <2> QED BY <2>1, <2>2 DEF Staged, Places
<1>3. Keys(s) = KeysAt(s, 1..Len(s))
  BY DEF Keys, KeysAt
<1>4. Cardinality(1..Len(s)) = Len(s)
  BY <1>1, FS_Interval
<1>5. (1..Len(s)) \in SUBSET (1..Len(s))
  OBVIOUS
<1> QED BY <1>1, <1>2, <1>3, <1>4, <1>5, KeysCounted

\* The largest batch of a trace.
BatchOf(t) == Max({0} \cup {Len(BlockIds(FromDict(t[i]))) : i \in 1..Len(t)})

\* The largest of some numbers and 0.
LEMMA MaxOfMany ==
  ASSUME NEW f, NEW N \in Nat, \A i \in 1..N : f[i] \in Nat
  PROVE  LET S == {0} \cup {f[i] : i \in 1..N}
         IN  /\ Max(S) \in Nat /\ \A i \in 1..N : f[i] <= Max(S)
<1>. DEFINE X == {n \in Nat : n <= N => \E m \in {0} \cup {f[i] : i \in 1..n} :
                                /\ m \in Nat /\ \A i \in 1..n : f[i] <= m}
<1>1. 0 \in X
  OBVIOUS
<1>2. ASSUME NEW n \in Nat, n \in X PROVE n + 1 \in X
  <2> SUFFICES ASSUME n + 1 <= N
               PROVE  \E m \in {0} \cup {f[i] : i \in 1..(n + 1)} :
                        /\ m \in Nat /\ \A i \in 1..(n + 1) : f[i] <= m
    OBVIOUS
  <2>1. PICK m \in {0} \cup {f[i] : i \in 1..n} : m \in Nat /\ \A i \in 1..n : f[i] <= m
    BY <1>2
  <2>2. /\ n + 1 \in 1..N /\ \A i \in 1..(n + 1) : i \in 1..n \/ i = n + 1
        /\ n + 1 \in 1..(n + 1) /\ \A i \in 1..n : i \in 1..(n + 1) /\ i \in 1..N
    OBVIOUS
  <2>3. PICK k : k = f[n + 1]
    OBVIOUS
  <2>4. k \in Nat /\ k \in {0} \cup {f[i] : i \in 1..(n + 1)}
    BY <2>2, <2>3
  <2>5. m \in {0} \cup {f[i] : i \in 1..(n + 1)}
    BY <2>1, <2>2
  <2>6. CASE k <= m
    <3>1. \A i \in 1..(n + 1) : f[i] <= m
      BY <2>1, <2>2, <2>3, <2>6
    <3> QED BY <2>1, <2>5, <3>1
  <2>7. CASE m <= k
    <3>1. ASSUME NEW i \in 1..(n + 1) PROVE f[i] <= k
      <4>1. CASE i \in 1..n
        <5>1. f[i] \in Nat /\ f[i] <= m
          BY <2>1, <2>2, <4>1
        <5> QED BY <2>1, <2>4, <2>7, <5>1
      <4>2. CASE i = n + 1
        BY <2>3, <2>4, <4>2
      <4> QED BY <2>2, <4>1, <4>2
    <3> QED BY <2>4, <3>1
  <2> QED BY <2>1, <2>4, <2>6, <2>7
<1>3. N \in X
  <2>1. Nat \subseteq X
    <3>. HIDE DEF X
    <3> QED BY <1>1, <1>2, SetInduction
  <2> QED BY <2>1
<1>4. PICK S : S = {0} \cup {f[i] : i \in 1..N}
  OBVIOUS
<1>5. PICK m \in S : m \in Nat /\ \A i \in 1..N : f[i] <= m
  BY <1>3, <1>4
<1>6. S \subseteq Nat /\ \A x \in S : x <= m
  BY <1>4, <1>5
<1>7. Max(S) = m
  BY <1>5, <1>6, MaxIs
<1> QED BY <1>4, <1>5, <1>7

\* No line of a trace has more ids than its largest batch.
LEMMA BatchIs ==
  ASSUME NEW t, IsTrace(t)
  PROVE  /\ BatchOf(t) \in Nat
         /\ \A i \in 1..Len(t) : Len(BlockIds(FromDict(t[i]))) <= BatchOf(t)
<1>1. PICK N : N = Len(t)
  OBVIOUS
<1>2. N \in Nat
  BY <1>1, LenProperties DEF IsTrace
<1>3. PICK f : f = [i \in 1..N |-> Len(BlockIds(FromDict(t[i])))]
  OBVIOUS
<1>4. \A i \in 1..N : f[i] \in Nat /\ f[i] = Len(BlockIds(FromDict(t[i])))
  <2> TAKE i \in 1..N
  <2>1. Line(t[i])
    BY <1>1 DEF IsTrace
  <2>2. PICK w : w = BlockIds(FromDict(t[i]))
    OBVIOUS
  <2>3. w \in Seq(Nat)
    BY <2>1, <2>2 DEF Line, Readable, IdLists
  <2>4. Len(w) \in Nat
    BY <2>3, LenProperties
  <2> QED BY <1>3, <2>2, <2>4
<1>5. {0} \cup {f[i] : i \in 1..N} = {0} \cup {Len(BlockIds(FromDict(t[i]))) : i \in 1..N}
  BY <1>4
<1>6. PICK m : m = BatchOf(t)
  OBVIOUS
<1>7. m = Max({0} \cup {f[i] : i \in 1..N})
  BY <1>1, <1>5, <1>6, Zenon DEF BatchOf
<1>8. m \in Nat /\ \A i \in 1..N : f[i] <= m
  BY <1>2, <1>4, <1>7, MaxOfMany
<1> QED BY <1>1, <1>4, <1>6, <1>8

\* What an experiment uses of a record (runner.py:140-144).
LEMMA ShareIs ==
  ASSUME NEW n \in Nat, NEW p \in Nat, p < 100
  PROVE  (n * p) \div 100 \in Nat /\ (n * p) \div 100 <= n
<1>1. n * p <= n * 100 /\ n * p \in Nat
  BY Z3
<1>2. PICK q : q = n * p
  OBVIOUS
<1>3. q \in Nat /\ q <= n * 100
  BY <1>1, <1>2
<1>4. q \div 100 \in Nat /\ q \div 100 <= n
  BY <1>3
<1> QED BY <1>2, <1>4

\* The ids an experiment uses of a record are some of its ids, all different.
LEMMA NeededIs ==
  ASSUME NEW ids, ids \in IdLists, NEW percent, percent \in Nat, NEW got,
         got = Needed(ids, percent)
  PROVE  got \in Seq(Nat) /\ Differ(got) /\ Len(got) <= Len(ids)
<1>1. ids \in Seq(Nat) /\ Differ(ids) /\ Len(ids) \in Nat /\ Len(ids) # 0
  BY LenProperties, EmptySeq DEF IdLists
<1>2. CASE percent >= 100
  BY <1>1, <1>2 DEF Needed
<1>3. CASE ~(percent >= 100)
  <2>1. PICK n, p, m : n = Len(ids) /\ p = percent /\ m = Max({1, Share(Len(ids), percent)})
    OBVIOUS
  <2>2. n \in Nat /\ n >= 1 /\ p \in Nat /\ p < 100
    BY <1>1, <1>3, <2>1
  <2>3. PICK s : s = Share(n, p)
    OBVIOUS
  <2>4. s \in Nat /\ s <= n
    BY <2>2, <2>3, ShareIs DEF Share
  <2>5. m \in Nat /\ m <= n
    <3>1. m = Max({1, s})
      BY <2>1, <2>3
    <3>2. CASE s <= 1
      <4>1. Max({1, s}) = 1
        BY <2>4, <3>2, MaxIs
      <4> QED BY <2>2, <3>1, <4>1
    <3>3. CASE 1 <= s
      <4>1. Max({1, s}) = s
        BY <2>4, <3>3, MaxIs
      <4> QED BY <2>4, <3>1, <4>1
    <3> QED BY <2>4, <3>2, <3>3
  <2>6. got = SubSeq(ids, 1, m)
    BY <1>3, <2>1 DEF Needed
  <2>7. \A i \in 1..m : i \in 1..n /\ ids[i] \in Nat
    BY <1>1, <2>1, <2>5, ElementOfSeq
  <2>8. /\ got \in Seq(Nat) /\ Len(got) = IF 1 <= m THEN m - 1 + 1 ELSE 0
        /\ \A i \in 1..(m - 1 + 1) : got[i] = ids[1 + i - 1]
    BY <2>5, <2>6, <2>7, SubSeqProperties
  <2>9. Len(got) = m /\ \A i \in 1..m : got[i] = ids[i]
    BY <2>5, <2>8
  <2>10. Differ(got)
    <3> SUFFICES ASSUME NEW i \in 1..Len(got), NEW j \in 1..Len(got), got[i] = got[j]
                 PROVE  i = j
      BY DEF Differ
    <3>1. i \in 1..Len(ids) /\ j \in 1..Len(ids) /\ ids[i] = ids[j]
      BY <2>1, <2>7, <2>9
    <3> QED BY <1>1, <3>1 DEF Differ
  <2> QED BY <2>1, <2>5, <2>8, <2>9, <2>10
<1> QED BY <1>2, <1>3

\* The replayer's queue (replayer.py:293-314).
QueueOK(r) ==
  /\ "queue" \in DOMAIN r /\ r.queue \in Seq(0..(Channels - 1)) /\ Len(r.queue) < QueueDepth

\* A new replay has an empty queue.
LEMMA NewQueue == QueueOK(NewReplay)
<1>1. <<>> \in Seq(0..(Channels - 1)) /\ Len(<<>>) = 0
  BY EmptySeq
<1>2. NewReplay.queue = <<>> /\ "queue" \in DOMAIN NewReplay
  BY DEF NewReplay
<1> QED BY <1>1, <1>2, PipelineAssumption DEF QueueOK

\* A batch that is sent leaves the queue empty.
LEMMA FlushKeeps ==
  ASSUME NEW r, "queue" \in DOMAIN r, NEW after, after = Flush(r)
  PROVE  QueueOK(after)
<1>1. <<>> \in Seq(0..(Channels - 1)) /\ Len(<<>>) = 0
  BY EmptySeq
<1>2. "queue" \in DOMAIN after /\ after.queue = <<>>
  BY DEF Flush
<1> QED BY <1>1, <1>2, PipelineAssumption DEF QueueOK

\* Accounting leaves the queue alone.
LEMMA AccountKeeps ==
  ASSUME NEW r, QueueOK(r), NEW rec, NEW ch, NEW after, after = Account(r, rec, ch)
  PROVE  QueueOK(after)
<1>1. "queue" \in DOMAIN after /\ after.queue = r.queue
  BY DEF QueueOK, Account
<1> QED BY <1>1 DEF QueueOK

\* A read that makes the queue as long as its depth sends the batch.
LEMMA EnqueueKeeps ==
  ASSUME NEW r, QueueOK(r), NEW rec, NEW ch, ch \in 0..(Channels - 1), NEW after,
         after = Enqueue(r, rec, ch)
  PROVE  QueueOK(after)
<1>1. PICK s : s = IF IsWrite(rec) THEN r ELSE [r EXCEPT !.queue = Append(@, ch)]
  OBVIOUS
<1>2. "queue" \in DOMAIN s /\ s.queue \in Seq(0..(Channels - 1))
  <2>1. CASE IsWrite(rec)
    BY <1>1, <2>1 DEF QueueOK
  <2>2. CASE ~IsWrite(rec)
    <3>1. PICK q : q = Append(r.queue, ch)
      OBVIOUS
    <3>2. q \in Seq(0..(Channels - 1))
      BY <3>1, AppendProperties DEF QueueOK
    <3>3. "queue" \in DOMAIN s /\ s.queue = q
      BY <1>1, <2>2, <3>1 DEF QueueOK
    <3> QED BY <3>2, <3>3
  <2> QED BY <2>1, <2>2
<1>3. after = IF Len(s.queue) >= QueueDepth THEN Flush(s) ELSE s
  BY <1>1 DEF Enqueue
<1>4. Len(s.queue) \in Nat /\ QueueDepth \in Nat
  BY <1>2, LenProperties, PipelineAssumption
<1>5. CASE Len(s.queue) >= QueueDepth
  BY <1>2, <1>3, <1>5, FlushKeeps
<1>6. CASE ~(Len(s.queue) >= QueueDepth)
  BY <1>2, <1>3, <1>4, <1>6 DEF QueueOK
<1> QED BY <1>5, <1>6

\* A record is sent to a channel of the device.
LEMMA PlaceIs ==
  ASSUME NEW rec, rec.layer_id \in Nat, rec.head_id \in Nat, rec.token_start \in Nat,
         rec.block_id \in Nat, NEW mode, NEW loads
  PROVE  PlaceOf(rec, mode, loads).channel \in 0..(Channels - 1)
<1>1. Channels \in Nat \ {0} /\ BlocksPerHead \in Nat \ {0} /\ TokensPerBlock \in Nat \ {0}
  BY GeometryAssumption
<1>2. PICK token, block, layer, head, b : /\ token = rec.token_start /\ block = rec.block_id
        /\ layer = rec.layer_id /\ head = rec.head_id
        /\ b = TokenBlockIdx(rec.token_start, rec.block_id)
  OBVIOUS
<1>3. token \in Nat /\ block \in Nat /\ layer \in Nat /\ head \in Nat
  BY <1>2
<1>4. b \in Nat
  <2>1. token \div TokensPerBlock \in Nat /\ block % BlocksPerHead \in Nat
    BY <1>1, <1>3, QuotientIs
  <2> QED BY <1>2, <2>1 DEF TokenBlockIdx
<1>5. StripedChannel(layer, head, b) \in 0..(Channels - 1)
  BY <1>3, <1>4, ChannelInRange
<1>6. 0 \in 0..(Channels - 1)
  BY <1>1
<1>7. PlaceOf(rec, mode, loads).channel
        = IF mode = "conventional" THEN 0 ELSE StripedChannel(layer, head, b)
  BY <1>2 DEF PlaceOf, NandPhysical
<1> QED BY <1>5, <1>6, <1>7

-----------------------------------------------------------------------------
(***************************************************************************)
(* The invariant.                                                          *)
(***************************************************************************)

\* The buffer holds no more than one less than its capacity and a whole batch.
Bounded(s, t) == Len(s.pf.staged) <= Capacity - 1 + Max({1, BatchOf(t)})
Waiting(s, t) == Entries(s.pf.staged) /\ Bounded(s, t)
AllReplayable(t) == \A i \in 1..Len(t) : Replayable(t[i])

\* The state of the job on the trace.
Running == stage = "running" => job \in Experiments /\ GoodStorage(st, job)
Replaying == stage = "replaying" => job \in Replays /\ AllReplayable(trace)
Unstarted == stage \in {"prefill", "decode"} => st.pf.staged = <<>> /\ cursor = 0

TraceInv ==
  /\ source \in {"p1", "p2", "p3"} /\ tokens \in Nat \ {0}
  /\ stage \in {"prefill", "decode", "written", "running", "replaying", "rejected"}
  /\ job \in Experiments \cup Replays \cup {NoJob}
  /\ turn \in 0..(Steps * Layers) /\ cursor \in 0..Len(trace)
  /\ IsTrace(trace) /\ QueueOK(replay) /\ Waiting(st, trace)
  /\ Unstarted /\ Running /\ Replaying

\* What the buffer may hold above its capacity is a number no smaller than a batch.
LEMMA BoundIs ==
  ASSUME NEW t, IsTrace(t)
  PROVE  /\ Max({1, BatchOf(t)}) \in Nat /\ Max({1, BatchOf(t)}) >= 1
         /\ Max({1, BatchOf(t)}) >= BatchOf(t)
<1>1. PICK b : b = BatchOf(t)
  OBVIOUS
<1>2. b \in Nat
  BY <1>1, BatchIs
<1>3. CASE b <= 1
  <2>1. Max({1, b}) = 1
    BY <1>2, <1>3, MaxIs
  <2> QED BY <1>1, <1>3, <2>1
<1>4. CASE 1 <= b
  <2>1. Max({1, b}) = b
    BY <1>2, <1>4, MaxIs
  <2> QED BY <1>1, <1>2, <1>4, <2>1
<1> QED BY <1>2, <1>3, <1>4

\* An empty buffer waits for any trace.
LEMMA EmptyWaits ==
  ASSUME NEW t, IsTrace(t), NEW s, s.pf.staged = <<>>
  PROVE  Waiting(s, t)
<1>1. PICK m : m = Max({1, BatchOf(t)})
  OBVIOUS
<1>2. m \in Nat /\ m >= 1
  BY <1>1, BoundIs
<1>3. Len(s.pf.staged) = 0 /\ Entries(s.pf.staged)
  BY EmptyEntries
<1>4. Capacity \in Nat \ {0}
  BY CapacityAssumption
<1>5. 0 <= Capacity - 1 + m
  BY <1>2, <1>4
<1> QED BY <1>1, <1>3, <1>5 DEF Waiting, Bounded

\* A record leaves the buffer bounded.
LEMMA GrowsBounded ==
  ASSUME NEW t, IsTrace(t), NEW s, Bounded(s, t), NEW n \in Nat, n <= BatchOf(t),
         NEW after, Grows(s, after, n), Len(after.pf.staged) \in Nat, Len(s.pf.staged) \in Nat
  PROVE  Bounded(after, t)
<1>1. PICK m, b, x, y : /\ m = Max({1, BatchOf(t)}) /\ b = BatchOf(t)
                        /\ x = Len(after.pf.staged) /\ y = Len(s.pf.staged)
  OBVIOUS
<1>2. m \in Nat /\ m >= b /\ b \in Nat
  BY <1>1, BoundIs, BatchIs
<1>3. x \in Nat /\ y \in Nat /\ n <= b
  BY <1>1
<1>4. Capacity \in Nat \ {0}
  BY CapacityAssumption
<1>5. CASE x <= Capacity - 1 + n
  <2>1. x <= Capacity - 1 + m
    BY <1>2, <1>3, <1>4, <1>5
  <2> QED BY <1>1, <2>1 DEF Bounded
<1>6. CASE x <= y
  <2>1. y <= Capacity - 1 + m
    BY <1>1 DEF Bounded
  <2>2. x <= Capacity - 1 + m
    BY <1>2, <1>3, <1>4, <1>6, <2>1
  <2> QED BY <1>1, <2>2 DEF Bounded
<1> QED BY <1>1, <1>5, <1>6 DEF Grows

\* The buffer of such a storage.
LEMMA StorageEntries ==
  ASSUME NEW s, NEW config, GoodStorage(s, config)
  PROVE  Entries(s.pf.staged) /\ Len(s.pf.staged) \in Nat
<1>1. Buffer(s.pf.staged, config.pages)
  BY DEF GoodStorage, GoodPrefetcher
<1> QED BY <1>1, LenProperties DEF Buffer, Entries

\* What an experiment is run with (config.py:11-27).
LEMMA ExperimentIs ==
  ASSUME NEW config \in Experiments
  PROVE  /\ config.pages \in Nat \ {0} /\ config.percent \in Nat /\ config.prefetch \in BOOLEAN
         /\ config.backend \in BackendKinds
BY ExperimentAssumption DEF BackendKinds

\* The ids of a record that an experiment uses.
LEMMA RecordIs ==
  ASSUME NEW t, IsTrace(t), NEW i \in 1..Len(t), NEW percent, percent \in Nat, NEW rec,
         rec = FromDict(t[i]), NEW ids, ids = Needed(BlockIds(rec), percent)
  PROVE  /\ ids \in Seq(Nat) /\ Differ(ids) /\ Len(ids) \in Nat /\ Len(ids) <= BatchOf(t)
         /\ rec.layer_id \in Nat /\ (rec.layer_id + 1) % ConfigLayers \in 0..(ConfigLayers - 1)
<1>1. PICK all, layer : all = BlockIds(rec) /\ layer = rec.layer_id
  OBVIOUS
<1>2. all \in IdLists /\ layer \in Nat
  BY <1>1 DEF IsTrace, Line, Readable
<1>3. ids \in Seq(Nat) /\ Differ(ids) /\ Len(ids) <= Len(all)
  BY <1>1, <1>2, NeededIs
<1>4. PICK n, m, b : n = Len(ids) /\ m = Len(all) /\ b = BatchOf(t)
  OBVIOUS
<1>5. n \in Nat /\ m \in Nat /\ b \in Nat
  BY <1>2, <1>3, <1>4, LenProperties, BatchIs DEF IdLists
<1>6. m <= b
  BY <1>1, <1>4, BatchIs
<1>7. n <= b
  BY <1>3, <1>4, <1>5, <1>6
<1>8. ConfigLayers \in Nat \ {0}
  BY TraceAssumption
<1>9. (layer + 1) % ConfigLayers \in 0..(ConfigLayers - 1)
  <2>1. PICK k : k = layer + 1
    OBVIOUS
  <2>2. k \in Nat
    BY <1>2, <2>1
  <2>3. k % ConfigLayers \in 0..(ConfigLayers - 1)
    BY <1>8, <2>2
  <2> QED BY <2>1, <2>3
<1> QED BY <1>1, <1>2, <1>3, <1>4, <1>5, <1>7, <1>9

\* What a record does to the storage of an experiment (runner.py:138-166).
Used(s, rec, config) ==
  LET ids  == Needed(BlockIds(rec), config.percent)
      next == (rec.layer_id + 1) % ConfigLayers
  IN  IF config.prefetch
      THEN AccessBlocks(PrefetchBlocks(s, ids, next, config.pages),
                        ids, rec.layer_id, config.pages)
      ELSE [s EXCEPT !.be = SubmitBatch(@, ids, rec.layer_id, config.pages)]

\* A record keeps what an experiment may say and bounds the buffer.
LEMMA UsedKeeps ==
  ASSUME NEW config \in Experiments, NEW s, GoodStorage(s, config), NEW t, IsTrace(t),
         Bounded(s, t), NEW i \in 1..Len(t), NEW after, after = Used(s, FromDict(t[i]), config)
  PROVE  GoodStorage(after, config) /\ Waiting(after, t)
<1>1. config.pages \in Nat \ {0} /\ config.percent \in Nat /\ config.prefetch \in BOOLEAN
  BY ExperimentIs
<1>2. PICK rec, ids, layer, next, percent :
        /\ rec = FromDict(t[i]) /\ percent = config.percent /\ layer = rec.layer_id
        /\ ids = Needed(BlockIds(rec), percent) /\ next = (rec.layer_id + 1) % ConfigLayers
  OBVIOUS
<1>3. /\ ids \in Seq(Nat) /\ Differ(ids) /\ Len(ids) \in Nat /\ Len(ids) <= BatchOf(t)
      /\ layer \in Nat /\ next \in 0..(ConfigLayers - 1)
  <2>1. percent \in Nat
    BY <1>1, <1>2
  <2>2. /\ ids \in Seq(Nat) /\ Differ(ids) /\ Len(ids) \in Nat /\ Len(ids) <= BatchOf(t)
        /\ rec.layer_id \in Nat /\ (rec.layer_id + 1) % ConfigLayers \in 0..(ConfigLayers - 1)
    BY <1>2, <2>1, RecordIs
  <2> QED BY <1>2, <2>2
<1>4. GoodStorage(after, config) /\ Grows(s, after, Len(ids))
  <2>1. CASE config.prefetch
    <3>1. after = AccessBlocks(PrefetchBlocks(s, ids, next, config.pages), ids, layer,
                               config.pages)
      BY <1>2, <2>1 DEF Used
    <3> QED BY <1>1, <1>3, <2>1, <3>1, PrefetchingKeeps
  <2>2. CASE ~config.prefetch
    <3>1. after = [s EXCEPT !.be = SubmitBatch(@, ids, layer, config.pages)]
      BY <1>2, <2>2 DEF Used
    <3> QED BY <1>1, <1>3, <2>2, <3>1, ReadingKeeps
  <2> QED BY <2>1, <2>2
<1>5. /\ Entries(after.pf.staged) /\ Len(after.pf.staged) \in Nat
      /\ Len(s.pf.staged) \in Nat
  BY <1>4, StorageEntries
<1>6. Bounded(after, t)
  <2>1. PICK n : n = Len(ids)
    OBVIOUS
  <2>2. n \in Nat /\ n <= BatchOf(t) /\ Grows(s, after, n)
    BY <1>3, <1>4, <2>1
  <2> QED BY <1>5, <2>2, GrowsBounded
<1> QED BY <1>4, <1>5, <1>6 DEF Waiting

\* A record keeps the replayer's queue below its depth (replayer.py:293-314).
LEMMA ReplayKeeps ==
  ASSUME NEW r, QueueOK(r), NEW e, Replayable(e), NEW mode, NEW rec,
         rec = ValidatedRecord(e), NEW ch, ch = PlaceOf(rec, mode, r.loads).channel, NEW after,
         after = Enqueue(Account(r, rec, ch), rec, ch)
  PROVE  QueueOK(after)
<1>1. ch \in 0..(Channels - 1)
  <2>1. /\ rec.layer_id \in Nat /\ rec.head_id \in Nat /\ rec.token_start \in Nat
        /\ rec.block_id \in Nat
    BY DEF Replayable
  <2>2. PICK loads : loads = r.loads
    OBVIOUS
  <2> QED BY <2>1, <2>2, PlaceIs
<1>2. PICK mid : mid = Account(r, rec, ch)
  OBVIOUS
<1>3. QueueOK(mid)
  BY <1>2, AccountKeeps
<1> QED BY <1>1, <1>2, <1>3, EnqueueKeeps

\* What StorageTraceReplayer.load_trace accepts it can place (replayer.py:150-163).
LEMMA AcceptedReplayable ==
  ASSUME NEW t, IsTrace(t), \A i \in 1..Len(t) : ReplayerAccepts(t[i])
  PROVE  AllReplayable(t)
BY DEF AllReplayable, IsTrace, Line, ReplayerAccepts

-----------------------------------------------------------------------------
(***************************************************************************)
(* The steps, and what follows.                                            *)
(***************************************************************************)

\* The invariant holds before anything is written.
LEMMA TraceInvInit == Init => TraceInv
<1> SUFFICES ASSUME Init PROVE TraceInv
  OBVIOUS
<1>1. tokens \in Nat \ {0}
  <2>1. PICK p \in Prompts : tokens = p + Steps - 1
    BY DEF Init, CachedTokens
  <2> QED BY <2>1, PipelineAssumption
<1>2. IsTrace(trace) /\ Len(trace) = 0
  BY EmptySeq DEF Init, IsTrace
<1>3. st.pf.staged = <<>>
  BY NothingStaged DEF Init
<1>4. Waiting(st, trace)
  BY <1>2, <1>3, EmptyWaits
<1>5. QueueOK(replay)
  BY NewQueue DEF Init
<1>6. 0 \in 0..(Steps * Layers) /\ 0 \in 0..Len(trace)
  <2>1. Steps \in Nat /\ Layers \in Nat
    BY PipelineAssumption, TraceAssumption
  <2>2. Steps * Layers \in Nat
    BY <2>1, ProductIs
  <2> QED BY <1>2, <2>2
<1>7. Unstarted /\ Running /\ Replaying
  BY <1>3 DEF Init, Unstarted, Running, Replaying
<1> QED BY <1>1, <1>2, <1>4, <1>5, <1>6, <1>7 DEF Init, TraceInv

\* A step that writes lines before the trace is read.
LEMMA WritingKeeps ==
  ASSUME TraceInv, stage \in {"prefill", "decode"}, IsTrace(trace'), Idle,
         stage' \in {"prefill", "decode", "written"}, turn' \in 0..(Steps * Layers)
  PROVE  TraceInv'
<1>1. st' = st /\ job' = job /\ cursor' = cursor /\ tokens' = tokens /\ source' = source
      /\ replay' = replay
  BY DEF Idle
<1>2. st.pf.staged = <<>> /\ cursor = 0
  BY DEF TraceInv, Unstarted
<1>3. Waiting(st', trace')
  BY <1>1, <1>2, EmptyWaits
<1>4. Len(trace') \in Nat
  BY LenProperties DEF IsTrace
<1>5. cursor' \in 0..Len(trace')
  BY <1>1, <1>2, <1>4
<1>6. Unstarted' /\ Running' /\ Replaying'
  BY <1>1, <1>2 DEF Unstarted, Running, Replaying
<1>7. QueueOK(replay')
  BY <1>1 DEF TraceInv
<1> QED BY <1>1, <1>3, <1>5, <1>6, <1>7 DEF TraceInv

\* The trace with some more lines.
LEMMA WrittenIs ==
  ASSUME TraceInv, NEW lines, lines \in Seq(Events), Written(lines)
  PROVE  IsTrace(trace')
<1>1. PICK t, n, more : t = trace /\ n = Len(trace) /\ more = Numbered(lines, Len(trace))
  OBVIOUS
<1>2. IsTrace(t) /\ n \in Nat
  BY <1>1, LenProperties DEF TraceInv, IsTrace
<1>3. IsTrace(more)
  BY <1>1, <1>2, NumberedEvents
<1>4. trace' = t \o more
  BY <1>1 DEF Written
<1> QED BY <1>2, <1>3, <1>4, TracesJoin

\* A step that starts a job, on a storage with nothing staged.
LEMMA StartingKeeps ==
  ASSUME TraceInv, UNCHANGED <<source, tokens, trace, turn>>,
         stage' \in {"running", "replaying", "rejected"},
         job' \in Experiments \cup Replays \cup {NoJob}, cursor' \in 0..Len(trace),
         replay' = NewReplay, NEW kind, st' = NewStorage(kind), Running', Replaying'
  PROVE  TraceInv'
<1>1. IsTrace(trace')
  BY DEF TraceInv
<1>2. Waiting(st', trace')
  <2>1. st'.pf.staged = <<>>
    BY NothingStaged
  <2> QED BY <1>1, <2>1, EmptyWaits
<1>3. QueueOK(replay')
  BY NewQueue
<1>4. Unstarted'
  BY DEF Unstarted
<1> QED BY <1>1, <1>2, <1>3, <1>4 DEF TraceInv

\* A step that ends a job.
LEMMA FinishKeeps ==
  ASSUME TraceInv, Finish, QueueOK(replay')
  PROVE  TraceInv'
<1>1. /\ stage' = "written" /\ job' = NoJob /\ source' = source /\ tokens' = tokens
      /\ trace' = trace /\ turn' = turn /\ cursor' = cursor /\ st' = st
  BY DEF Finish
<1>2. Waiting(st', trace')
  BY <1>1 DEF TraceInv
<1>3. Unstarted' /\ Running' /\ Replaying'
  BY <1>1 DEF Unstarted, Running, Replaying
<1> QED BY <1>1, <1>2, <1>3 DEF TraceInv

\* Every action of the three programs keeps it.
LEMMA TraceInvNext ==
  ASSUME TraceInv, [Next]_vars
  PROVE  TraceInv'
<1>0. /\ tokens \in Nat \ {0} /\ IsTrace(trace) /\ Waiting(st, trace) /\ QueueOK(replay)
      /\ Steps \in Nat /\ Layers \in Nat \ {0} /\ turn \in 0..(Steps * Layers)
      /\ Steps * Layers \in Nat /\ Len(trace) \in Nat /\ cursor \in 0..Len(trace)
  <2>1. Steps \in Nat /\ Layers \in Nat \ {0}
    BY PipelineAssumption, TraceAssumption
  <2>2. Steps * Layers \in Nat
    BY <2>1, ProductIs
  <2>3. Len(trace) \in Nat
    BY LenProperties DEF TraceInv, IsTrace
  <2> QED BY <2>1, <2>2, <2>3 DEF TraceInv
<1>1. CASE Prefill
  <2>1. IsTrace(trace')
    BY <1>0, <1>1, PrefillIs, WrittenIs DEF Prefill
  <2> QED BY <1>0, <1>1, <2>1, WritingKeeps DEF Prefill
<1>2. CASE DecodeLayer
  <2>1. PICK layer, step, ids, t :
          /\ layer = turn % Layers /\ step = turn \div Layers + 1 /\ t = tokens
          /\ ids = IdsOf(InTier(LayerBlocks(turn % Layers, tokens), "SSD"))
    OBVIOUS
  <2>2. PICK w \in Winners(ids, TopkCount(Len(ids))) :
          Written(DecodeEvents(layer, step, t, w))
    BY <1>2, <2>1 DEF DecodeLayer
  <2>3. layer \in Nat /\ step \in Nat /\ t \in Nat \ {0}
    <3>1. PICK n : n = turn
      OBVIOUS
    <3>2. n \in Nat
      BY <1>0, <3>1
    <3>3. n \div Layers \in Nat /\ n % Layers \in Nat
      BY <1>0, <3>2, QuotientIs
    <3> QED BY <1>0, <2>1, <3>1, <3>3
  <2>4. ids = IdsOf(InTier(LayerBlocks(layer, t), "SSD"))
    BY <2>1
  <2>5. DecodeEvents(layer, step, t, w) \in Seq(Events)
    BY <2>2, <2>3, <2>4, DecodeIs
  <2>6. IsTrace(trace')
    BY <2>2, <2>5, WrittenIs
  <2>7. turn' \in 0..(Steps * Layers)
    <3>1. turn' = turn + 1 /\ turn < Steps * Layers
      BY <1>2 DEF DecodeLayer
    <3> QED BY <1>0, <3>1
  <2>8. Idle /\ stage = "decode" /\ stage' = stage
    BY <1>2 DEF DecodeLayer
  <2> QED BY <2>6, <2>7, <2>8, WritingKeeps
<1>3. CASE Serialize
  <2>1. /\ Idle /\ stage = "decode" /\ stage' = "written" /\ trace' = trace /\ turn' = turn
    BY <1>3 DEF Serialize
  <2> QED BY <1>0, <2>1, WritingKeeps
<1>4. CASE Synthesize
  <2>1. IsTrace(trace')
    BY <1>0, <1>4, SynthIs, KvIs DEF Synthesize
  <2>2. /\ Idle /\ stage = "prefill" /\ stage' = "written" /\ turn' = turn
    BY <1>4 DEF Synthesize
  <2> QED BY <1>0, <2>1, <2>2, WritingKeeps
<1>5. ASSUME NEW config \in Experiments, StartBaseline(config) PROVE TraceInv'
  <2>1. /\ UNCHANGED <<source, tokens, trace, turn>> /\ stage' = "running" /\ job' = config
        /\ cursor' = Len(trace) /\ replay' = NewReplay /\ st' = NewStorage("none")
    BY <1>5 DEF StartBaseline
  <2>2. GoodStorage(st', config)
    BY <2>1, ExperimentIs, StorageStarts DEF BackendKinds
  <2>3. Running' /\ Replaying'
    BY <2>1, <2>2 DEF Running, Replaying
  <2> QED BY <1>0, <2>1, <2>3, StartingKeeps
<1>6. ASSUME NEW config \in Experiments, StartExperiment(config) PROVE TraceInv'
  <2>1. /\ UNCHANGED <<source, tokens, trace, turn>> /\ stage' \in {"running", "rejected"}
        /\ job' = config /\ cursor' = 0 /\ replay' = NewReplay
        /\ st' = NewStorage(config.backend)
    BY <1>6 DEF StartExperiment
  <2>2. GoodStorage(st', config)
    BY <2>1, ExperimentIs, StorageStarts
  <2>3. Running' /\ Replaying'
    BY <2>1, <2>2 DEF Running, Replaying
  <2> QED BY <1>0, <2>1, <2>3, StartingKeeps
<1>7. ASSUME NEW config \in Replays, StartReplay(config) PROVE TraceInv'
  <2>1. /\ UNCHANGED <<source, tokens, trace, turn>> /\ stage' \in {"replaying", "rejected"}
        /\ job' = config /\ cursor' = 0 /\ replay' = NewReplay /\ st' = NewStorage("mock")
        /\ stage' = "replaying" => \A i \in 1..Len(trace) : ReplayerAccepts(trace[i])
    BY <1>7 DEF StartReplay
  <2>2. Replaying'
    <3>1. stage' = "replaying" => AllReplayable(trace)
      BY <1>0, <2>1, AcceptedReplayable
    <3> QED BY <2>1, <3>1 DEF Replaying
  <2>3. Running'
    BY <2>1 DEF Running
  <2> QED BY <1>0, <2>1, <2>2, <2>3, StartingKeeps
<1>8. CASE ExperimentRecord
  <2>1. /\ stage = "running" /\ stage' = stage /\ cursor < Len(trace) /\ cursor' = cursor + 1
        /\ st' = Used(st, FromDict(trace[cursor + 1]), job)
        /\ UNCHANGED <<source, tokens, trace, turn, job, replay>>
    BY <1>8 DEF ExperimentRecord, Used
  <2>2. job \in Experiments /\ GoodStorage(st, job) /\ Bounded(st, trace)
    BY <1>0, <2>1 DEF TraceInv, Running, Waiting
  <2>3. cursor + 1 \in 1..Len(trace) /\ cursor + 1 \in 0..Len(trace)
    BY <1>0, <2>1
  <2>4. GoodStorage(st', job) /\ Waiting(st', trace)
    <3>1. PICK s, t, i, config, after :
            s = st /\ t = trace /\ i = cursor + 1 /\ config = job /\ after = st'
      OBVIOUS
    <3>2. /\ config \in Experiments /\ GoodStorage(s, config) /\ IsTrace(t) /\ Bounded(s, t)
          /\ i \in 1..Len(t) /\ after = Used(s, FromDict(t[i]), config)
      BY <1>0, <2>1, <2>2, <2>3, <3>1
    <3>3. GoodStorage(after, config) /\ Waiting(after, t)
      BY <3>2, UsedKeeps
    <3> QED BY <3>1, <3>3
  <2>5. Unstarted' /\ Running' /\ Replaying'
    BY <2>1, <2>2, <2>4 DEF Unstarted, Running, Replaying
  <2> QED BY <2>1, <2>3, <2>4, <2>5 DEF TraceInv
<1>9. CASE ReportExperiment
  BY <1>0, <1>9, FinishKeeps DEF ReportExperiment
<1>10. CASE ReplayRecord
  <2>1. /\ stage = "replaying" /\ stage' = stage /\ cursor < Len(trace) /\ cursor' = cursor + 1
        /\ UNCHANGED <<source, tokens, trace, turn, job, st>>
    BY <1>10 DEF ReplayRecord
  <2>2. AllReplayable(trace)
    BY <2>1 DEF TraceInv, Replaying
  <2>3. cursor + 1 \in 1..Len(trace) /\ cursor + 1 \in 0..Len(trace)
    BY <1>0, <2>1
  <2>4. QueueOK(replay')
    <3>1. PICK r, e, mode, rec, ch, after :
            /\ r = replay /\ e = trace[cursor + 1] /\ mode = job.mode
            /\ rec = ValidatedRecord(e) /\ ch = PlaceOf(rec, mode, r.loads).channel
            /\ after = Enqueue(Account(r, rec, ch), rec, ch)
      OBVIOUS
    <3>2. replay' = after
      BY <1>10, <3>1 DEF ReplayRecord
    <3>3. QueueOK(r) /\ Replayable(e)
      BY <1>0, <2>2, <2>3, <3>1 DEF AllReplayable
    <3>4. QueueOK(after)
      BY <3>1, <3>3, ReplayKeeps
    <3> QED BY <3>2, <3>4
  <2>5. Unstarted' /\ Running' /\ Replaying'
    BY <2>1 DEF TraceInv, Unstarted, Running, Replaying
  <2>6. Waiting(st', trace')
    BY <1>0, <2>1
  <2> QED BY <2>1, <2>3, <2>4, <2>5, <2>6 DEF TraceInv
<1>11. CASE ReportReplay
  <2>1. QueueOK(replay')
    <3>1. PICK r, after : r = replay /\ after = Flush(r)
      OBVIOUS
    <3>2. QueueOK(after)
      BY <1>0, <3>1, FlushKeeps DEF QueueOK
    <3>3. replay' \in {r, after}
      BY <1>11, <3>1 DEF ReportReplay
    <3> QED BY <1>0, <3>1, <3>2, <3>3
  <2> QED BY <1>11, <2>1, FinishKeeps DEF ReportReplay
<1>12. CASE Reject
  BY <1>0, <1>12, FinishKeeps DEF Reject
<1>13. CASE UNCHANGED vars
  <2>1. UNCHANGED <<source, tokens, trace, turn, stage, job, cursor, st, replay>>
    BY <1>13 DEF vars
  <2>2. Unstarted' /\ Running' /\ Replaying'
    BY <2>1 DEF TraceInv, Unstarted, Running, Replaying
  <2> QED BY <1>0, <2>1, <2>2 DEF TraceInv
<1> QED BY <1>1, <1>2, <1>3, <1>4, <1>5, <1>6, <1>7, <1>8, <1>9, <1>10, <1>11, <1>12, <1>13
        DEF Next

\* It always holds.
LEMMA TraceInvAlways == Spec => []TraceInv
<1>1. Init => TraceInv
  BY TraceInvInit
<1>2. TraceInv /\ [Next]_vars => TraceInv'
  BY TraceInvNext
<1> QED BY <1>1, <1>2, PTL DEF Spec

\* Every variable keeps its type. The replayer never holds as many reads as its queue is deep
\* (replayer.py:309-314), and the prefetcher stages blocks under keys that are all different
\* (v2_prefetcher.py:105-116).
THEOREM TraceTypesHold == Spec => []TypeOK
<1>1. TraceInv => TypeOK
  <2> SUFFICES ASSUME TraceInv PROVE TypeOK
    OBVIOUS
  <2>1. Range(replay.queue) \subseteq 0..(Channels - 1)
    <3>1. PICK q : q = replay.queue
      OBVIOUS
    <3>2. q \in Seq(0..(Channels - 1)) /\ DOMAIN q = 1..Len(q)
      BY <3>1, LenProperties DEF TraceInv, QueueOK
    <3>3. \A i \in 1..Len(q) : q[i] \in 0..(Channels - 1)
      BY <3>2, ElementOfSeq
    <3> QED BY <3>1, <3>2, <3>3 DEF Range
  <2>2. /\ \A e \in Range(st.pf.staged) : e.key \in (0..(ConfigLayers - 1)) \X Nat
        /\ Cardinality(Keys(st.pf.staged)) = Len(st.pf.staged)
    BY EntriesTyped DEF TraceInv, Waiting
  <2> QED BY <2>1, <2>2 DEF TraceInv, TypeOK, QueueOK
<1> QED BY <1>1, TraceInvAlways, PTL

\* The counters of such a storage and prefetcher agree (v2_prefetcher.py:182-207).
LEMMA CountersAgree ==
  ASSUME NEW config \in Experiments, NEW s, GoodStorage(s, config)
  PROVE  /\ config.prefetch => s.be.reads = s.pf.requests + s.pf.misses
         /\ s.pf.requests = s.pf.useful + UselessPrefetches(s.pf)
         /\ s.pf.extra = config.pages * s.pf.useless
         /\ s.be.pages = config.pages * s.be.reads
         /\ s.be.kind # "mock" => /\ PagesOn(s.be.channels) = s.be.pages
                                  /\ s.be.key + s.be.value = s.be.pages
                                  /\ s.be.combined = 2 * s.be.value
<1>1. GoodPrefetcher(s.pf, config.pages) /\ GoodBackend(s.be, config.pages)
  BY DEF GoodStorage
<1>2. config.prefetch => s.be.reads = s.pf.requests + s.pf.misses
  BY DEF GoodStorage
<1>3. s.pf.requests = s.pf.useful + UselessPrefetches(s.pf)
  <2>1. PICK pf, u : pf = s.pf /\ u = Cardinality(UnreadKeys(s.pf.staged))
    OBVIOUS
  <2>2. GoodPrefetcher(pf, config.pages)
    BY <1>1, <2>1
  <2>3. pf \in PrefetcherState /\ Buffer(pf.staged, config.pages)
        /\ pf.requests = pf.useful + pf.useless + u
    BY <2>1, <2>2 DEF GoodPrefetcher
  <2>4. Cardinality(Unread(pf.staged)) = u /\ u \in Nat
    BY <2>1, <2>3, BufferCounted
  <2>5. UselessPrefetches(pf) = pf.useless + u
    BY <2>4 DEF UselessPrefetches
  <2>6. pf.useful \in Nat /\ pf.useless \in Nat
    BY <2>3, PrefetcherIs
  <2>7. PICK x, y, z, v : x = pf.useful /\ y = pf.useless /\ z = pf.requests
                          /\ v = UselessPrefetches(pf)
    OBVIOUS
  <2>8. z = x + v
    BY <2>3, <2>4, <2>5, <2>6, <2>7
  <2> QED BY <2>1, <2>7, <2>8
<1>4. s.pf.extra = config.pages * s.pf.useless
  BY <1>1 DEF GoodPrefetcher
<1>5. s.be.pages = config.pages * s.be.reads
  BY <1>1 DEF GoodBackend
<1>6. s.be.kind # "mock" => /\ PagesOn(s.be.channels) = s.be.pages
                            /\ s.be.key + s.be.value = s.be.pages
                            /\ s.be.combined = 2 * s.be.value
  BY <1>1 DEF GoodBackend, Tallied, PagesOn, Total
<1> QED BY <1>2, <1>3, <1>4, <1>5, <1>6

\* No free reads (v2_prefetcher.py:5): the storage counts every block an experiment uses once,
\* as a prefetch or as a miss, every prefetch is useful or counted useless, and the pages
\* reported are those read, on their channels and in their sub-pages.
THEOREM NoReadIsFree == Spec => []NoFreeReads
<1>1. TraceInv => NoFreeReads
  BY CountersAgree DEF TraceInv, Running, NoFreeReads
<1> QED BY <1>1, TraceInvAlways, PTL

\* Room is made block by block before the batch is inserted (v2_prefetcher.py:80-116): the
\* staging buffer may pass its capacity, by the rest of the largest batch of the trace only.
THEOREM BufferPassesByBatch == Spec => []StagedBound
<1>1. TraceInv => StagedBound
  <2> SUFFICES ASSUME TraceInv PROVE StagedBound
    OBVIOUS
  <2>1. Bounded(st, trace)
    BY DEF TraceInv, Waiting
  <2>2. LargestBatch = BatchOf(trace)
    BY DEF LargestBatch, BatchOf
  <2> QED BY <2>1, <2>2 DEF Bounded, StagedBound
<1> QED BY <1>1, TraceInvAlways, PTL

-----------------------------------------------------------------------------
(***************************************************************************)
(* The placement study.  Its loop counts record by record what the replayer*)
(* counts, when the trace has been read as far.                            *)
(***************************************************************************)

\* The records of the first c lines.
Records(t, c) == [i \in 1..c |-> ValidatedRecord(t[i])]

\* The counters that the loop starts with.
NewTallies(n) == [NewReplay EXCEPT !.loads = [ch \in 0..(n - 1) |-> 0]]

\* The loop of evaluate_policy_placement, turn by turn.
LEMMA PlaceTurns ==
  ASSUME NEW S, NEW seq \in Seq(S), NEW policy, NEW channels, NEW depth, NEW base,
         base = NewTallies(channels)
  PROVE  \E f : /\ Turns(f, "place", <<policy, channels, depth>>, base, seq)
                /\ PlaceRecords(seq, policy, channels, depth) = f[Len(seq)]
<1>. DEFINE Place(acc, rec) ==
              LET ch == PolicyChannel(policy, rec, channels)
                  s  == Account(acc, rec, ch)
                  q  == IF IsWrite(rec) THEN s.queue ELSE Append(s.queue, ch)
              IN  IF Len(q) >= depth THEN Flush([s EXCEPT !.queue = q])
                                     ELSE [s EXCEPT !.queue = q]
            Eq(h) == h = [s \in SUBSET (1..Len(seq)) |->
                     IF s = {} THEN base ELSE Place(h[s \ {Max(s)}], seq[Max(s)])]
            it == CHOOSE h : Eq(h)
<1>0. PICK p : p = <<policy, channels, depth>>
  OBVIOUS
<1>1. \A h : Eq(h) <=> Iterates(h, "place", p, base, seq, Len(seq))
  BY <1>0 DEF Iterates, Turned, PlaceTurn
<1>2. Len(seq) \in Nat /\ DOMAIN seq = 1..Len(seq)
  BY LenProperties
<1>3. Eq(it)
  BY <1>1, <1>2, IteratesExist
<1>4. PlaceRecords(seq, policy, channels, depth) = it[1..Len(seq)]
  BY <1>2 DEF FoldLeft, MapThenFoldSet, PlaceRecords, NewTallies
<1>5. Iterates(it, "place", p, base, seq, Len(seq))
  BY <1>1, <1>3
<1>. HIDE DEF it
<1>6. Turns([i \in 0..Len(seq) |-> it[1..i]], "place", p, base, seq)
  BY <1>5, IteratesTurn, Zenon
<1>7. [i \in 0..Len(seq) |-> it[1..i]][Len(seq)] = it[1..Len(seq)]
  BY <1>2
<1> QED BY <1>0, <1>4, <1>6, <1>7

\* A loop over a longer sequence does what it does over the shorter one first.
LEMMA TurnsPrefix ==
  ASSUME NEW f, NEW g, NEW loop, NEW p, NEW base, NEW S, NEW seq \in Seq(S),
         NEW more \in Seq(S), Len(seq) <= Len(more), \A i \in 1..Len(seq) : more[i] = seq[i],
         Turns(f, loop, p, base, seq), Turns(g, loop, p, base, more)
  PROVE  g[Len(seq)] = f[Len(seq)]
<1>1. Len(seq) \in Nat /\ Len(more) \in Nat
  BY LenProperties
<1>. DEFINE X == {i \in Nat : i <= Len(seq) => g[i] = f[i]}
<1>2. 0 \in X
  BY DEF Turns
<1>3. ASSUME NEW i \in Nat, i \in X PROVE i + 1 \in X
  <2> SUFFICES ASSUME i + 1 <= Len(seq)
               PROVE  g[i + 1] = f[i + 1]
    OBVIOUS
  <2>1. g[i] = f[i]
    BY <1>1, <1>3
  <2>2. i + 1 \in 1..Len(seq) /\ i + 1 \in 1..Len(more) /\ (i + 1) - 1 = i
    BY <1>1
  <2>3. f[i + 1] = Turned(loop, p, f[i], seq[i + 1])
    BY <2>2 DEF Turns
  <2>4. g[i + 1] = Turned(loop, p, g[i], more[i + 1])
    BY <2>2 DEF Turns
  <2>5. more[i + 1] = seq[i + 1]
    BY <2>2
  <2> QED BY <2>1, <2>3, <2>4, <2>5
<1>4. Nat \subseteq X
  <2>. HIDE DEF X
  <2> QED BY <1>2, <1>3, SetInduction
<1> QED BY <1>1, <1>4

\* A loop over one element more does one turn more.
LEMMA TurnsOne ==
  ASSUME NEW f, NEW g, NEW loop, NEW p, NEW base, NEW S, NEW seq \in Seq(S),
         NEW more \in Seq(S), Len(more) = Len(seq) + 1, \A i \in 1..Len(seq) : more[i] = seq[i],
         Turns(f, loop, p, base, seq), Turns(g, loop, p, base, more)
  PROVE  g[Len(more)] = Turned(loop, p, f[Len(seq)], more[Len(more)])
<1>1. Len(seq) \in Nat /\ Len(more) \in 1..Len(more) /\ Len(more) - 1 = Len(seq)
      /\ Len(seq) <= Len(more)
  BY LenProperties
<1>2. g[Len(seq)] = f[Len(seq)]
  BY <1>1, TurnsPrefix
<1>3. g[Len(more)] = Turned(loop, p, g[Len(more) - 1], more[Len(more)])
  BY <1>1 DEF Turns
<1> QED BY <1>1, <1>2, <1>3

\* A sequence with one element more.
WithOneMore(S, seq, x, more) ==
  /\ more \in Seq(S) /\ Len(more) = Len(seq) + 1
  /\ \A i \in 1..Len(seq) : more[i] = seq[i]
  /\ more[Len(more)] = x

LEMMA OneLonger ==
  ASSUME NEW S, NEW seq \in Seq(S), NEW x \in S
  PROVE  WithOneMore(S, seq, x, Append(seq, x))
BY AppendProperties DEF WithOneMore

\* The study of no record, and of one more.
LEMMA PlaceNone ==
  ASSUME NEW policy, NEW n, NEW d
  PROVE  PlaceRecords(<<>>, policy, n, d) = NewTallies(n)
<1>1. PICK base, seq : base = NewTallies(n) /\ seq = <<>>
  OBVIOUS
<1>2. seq \in Seq({}) /\ Len(seq) = 0
  BY <1>1, EmptySeq
<1>3. PICK f : /\ Turns(f, "place", <<policy, n, d>>, base, seq)
               /\ PlaceRecords(seq, policy, n, d) = f[Len(seq)]
  BY <1>1, <1>2, PlaceTurns, ZenonT(30)
<1> QED BY <1>1, <1>2, <1>3 DEF Turns

LEMMA PlaceAppend ==
  ASSUME NEW S, NEW seq \in Seq(S), NEW x \in S, NEW policy, NEW n, NEW d
  PROVE  PlaceRecords(Append(seq, x), policy, n, d)
           = PlaceTurn(PlaceRecords(seq, policy, n, d), x, policy, n, d)
<1>1. PICK base, more, p :
        base = NewTallies(n) /\ more = Append(seq, x) /\ p = <<policy, n, d>>
  OBVIOUS
<1>0. WithOneMore(S, seq, x, more)
  BY <1>1, OneLonger
<1>2. /\ more \in Seq(S) /\ Len(more) = Len(seq) + 1
      /\ \A i \in 1..Len(seq) : more[i] = seq[i]
      /\ more[Len(more)] = x
  BY <1>0 DEF WithOneMore
<1>3. PICK f : Turns(f, "place", p, base, seq) /\ PlaceRecords(seq, policy, n, d) = f[Len(seq)]
  BY <1>1, PlaceTurns
<1>4. PICK g : Turns(g, "place", p, base, more) /\ PlaceRecords(more, policy, n, d) = g[Len(more)]
  BY <1>1, <1>2, PlaceTurns
<1>5. g[Len(more)] = Turned("place", p, f[Len(seq)], more[Len(more)])
  BY <1>2, <1>3, <1>4, TurnsOne
<1>6. PICK v : v = f[Len(seq)]
  OBVIOUS
<1>7. Turned("place", p, v, x) = PlaceTurn(v, x, policy, n, d)
  BY <1>1 DEF Turned
<1> QED BY <1>1, <1>2, <1>3, <1>4, <1>5, <1>6, <1>7

\* The records read so far.
LEMMA RecordsAre ==
  ASSUME NEW t, NEW c \in Nat, NEW S, S = {ValidatedRecord(t[i]) : i \in 1..(c + 1)}
  PROVE  /\ Records(t, c) \in Seq(S) /\ Len(Records(t, c)) = c
         /\ ValidatedRecord(t[c + 1]) \in S
         /\ Records(t, c + 1) = Append(Records(t, c), ValidatedRecord(t[c + 1]))
<1>1. PICK a, b, x : a = Records(t, c) /\ b = Records(t, c + 1) /\ x = ValidatedRecord(t[c + 1])
  OBVIOUS
<1>2. a \in [1..c -> S] /\ b \in [1..(c + 1) -> S] /\ c + 1 \in Nat /\ x \in S
  BY <1>1 DEF Records
<1>3. a \in Seq(S) /\ Len(a) = c /\ b \in Seq(S) /\ Len(b) = c + 1
  BY <1>2, IsSeq
<1>4. (\A i \in 1..c : b[i] = a[i]) /\ b[c + 1] = x
  BY <1>1 DEF Records
<1>5. PICK more : more = Append(a, x)
  OBVIOUS
<1>6. /\ more \in Seq(S) /\ Len(more) = c + 1 /\ more[c + 1] = x
      /\ \A i \in 1..c : more[i] = a[i]
  <2>1. WithOneMore(S, a, x, more)
    BY <1>2, <1>3, <1>5, OneLonger
  <2> QED BY <1>3, <2>1 DEF WithOneMore
<1>7. \A i \in 1..(c + 1) : b[i] = more[i]
  BY <1>4, <1>6
<1>8. b = more
  BY <1>3, <1>6, <1>7, SeqEqual
<1> QED BY <1>1, <1>2, <1>3, <1>5, <1>8

\* No record has been read.
LEMMA RecordsNone == ASSUME NEW t PROVE Records(t, 0) = <<>>
<1>1. Records(t, 0) \in [1..0 -> {}]
  BY DEF Records
<1>2. Records(t, 0) \in Seq({}) /\ Len(Records(t, 0)) = 0
  BY <1>1, IsSeq
<1> QED BY <1>2, EmptySeq

\* The replayer and the study take a record to one channel (replayer.py:293-303).
LEMMA OneChannel ==
  ASSUME NEW rec, NEW config \in Replays, NEW loads
  PROVE  PolicyChannel(config.mode, rec, Channels) = PlaceOf(rec, config.mode, loads).channel
<1>1. PICK mode, token, block, b : /\ mode = config.mode /\ token = rec.token_start
        /\ block = rec.block_id /\ b = TokenBlockIdx(rec.token_start, rec.block_id)
  OBVIOUS
<1>2. mode \in {"conventional", "tensor_aware"}
  BY <1>1 DEF Replays
<1>3. b = IF token > 0 THEN token \div TokensPerBlock ELSE block % BlocksPerHead
  BY <1>1 DEF TokenBlockIdx
<1>4. PlaceOf(rec, mode, loads).channel
        = IF mode = "conventional" THEN 0 ELSE StripedChannel(rec.layer_id, rec.head_id, b)
  BY <1>1 DEF PlaceOf, NandPhysical
<1>5. PolicyChannel(mode, rec, Channels)
        = CASE mode = "conventional"   -> 0
            [] mode = "naive_block_rr" -> block % Channels
            [] mode = "head_only"      -> rec.head_id % Channels
            [] mode = "tensor_aware"   ->
                 (rec.layer_id + rec.head_id + b + b \div Channels) % Channels
  BY <1>1, <1>3, Zenon DEF PolicyChannel
<1>6. CASE mode = "conventional"
  BY <1>1, <1>4, <1>5, <1>6
<1>7. CASE mode = "tensor_aware"
  BY <1>1, <1>4, <1>5, <1>7 DEF StripedChannel
<1> QED BY <1>2, <1>6, <1>7

\* One record more in the study is one record more in the replayer.
LEMMA OneRecord ==
  ASSUME NEW r, "queue" \in DOMAIN r, NEW rec, NEW ch, NEW policy,
         ch = PolicyChannel(policy, rec, Channels)
  PROVE  PlaceTurn(r, rec, policy, Channels, QueueDepth) = Enqueue(Account(r, rec, ch), rec, ch)
<1>1. PICK s : s = Account(r, rec, ch)
  OBVIOUS
<1>2. s = [k \in DOMAIN s |-> s[k]] /\ "queue" \in DOMAIN s
  BY <1>1 DEF Account
<1>3. PICK q : q = IF IsWrite(rec) THEN s.queue ELSE Append(s.queue, ch)
  OBVIOUS
<1>4. PICK u : u = [s EXCEPT !.queue = q]
  OBVIOUS
<1>5. u = IF IsWrite(rec) THEN s ELSE [s EXCEPT !.queue = Append(@, ch)]
  <2>1. CASE IsWrite(rec)
    <3>1. q = s.queue
      BY <1>3, <2>1
    <3>2. [s EXCEPT !.queue = s.queue] = s
      BY <1>2
    <3> QED BY <1>4, <2>1, <3>1, <3>2
  <2>2. CASE ~IsWrite(rec)
    BY <1>3, <1>4, <2>2
  <2> QED BY <2>1, <2>2
<1>6. u.queue = q
  BY <1>2, <1>4
<1>7. Enqueue(s, rec, ch) = IF Len(u.queue) >= QueueDepth THEN Flush(u) ELSE u
  BY <1>5 DEF Enqueue
<1>8. PlaceTurn(r, rec, policy, Channels, QueueDepth)
        = IF Len(q) >= QueueDepth THEN Flush(u) ELSE u
  BY <1>1, <1>3, <1>4 DEF PlaceTurn
<1> QED BY <1>1, <1>6, <1>7, <1>8

\* The study over no record.
LEMMA NoRecords ==
  ASSUME NEW t, NEW policy, NEW depth
  PROVE  PlaceRecords(Records(t, 0), policy, Channels, depth) = NewReplay
<1>1. PICK base : base = NewTallies(Channels)
  OBVIOUS
<1>2. base = [NewReplay EXCEPT !.loads = [ch \in 0..(Channels - 1) |-> 0]]
  BY <1>1 DEF NewTallies
<1>3. base = NewReplay
  BY <1>2 DEF NewReplay, NoCounters
<1> QED BY <1>1, <1>3, PlaceNone, RecordsNone

\* The study over one record more.
LEMMA OneRecordMore ==
  ASSUME NEW t, NEW c \in Nat, NEW policy, NEW n, NEW d
  PROVE  PlaceRecords(Records(t, c + 1), policy, n, d)
           = PlaceTurn(PlaceRecords(Records(t, c), policy, n, d), ValidatedRecord(t[c + 1]),
                       policy, n, d)
<1>1. PICK S, seq, x : /\ S = {ValidatedRecord(t[i]) : i \in 1..(c + 1)}
                       /\ seq = Records(t, c) /\ x = ValidatedRecord(t[c + 1])
  OBVIOUS
<1>2. S = {ValidatedRecord(t[i]) : i \in 1..(c + 1)}
  BY <1>1
<1>3. /\ Records(t, c) \in Seq(S)
      /\ ValidatedRecord(t[c + 1]) \in S
      /\ Records(t, c + 1) = Append(Records(t, c), ValidatedRecord(t[c + 1]))
  BY <1>2, RecordsAre
<1>4. seq \in Seq(S) /\ x \in S /\ Records(t, c + 1) = Append(seq, x)
  BY <1>1, <1>3
<1>5. PlaceRecords(Append(seq, x), policy, n, d)
        = PlaceTurn(PlaceRecords(seq, policy, n, d), x, policy, n, d)
  BY <1>4, PlaceAppend
<1> QED BY <1>1, <1>4, <1>5

\* The study over the records so far is what the replayer has counted.
LEMMA ReplayAgrees ==
  ASSUME NEW t, NEW c \in Nat, NEW config \in Replays, NEW r, "queue" \in DOMAIN r,
         PlaceRecords(Records(t, c), config.mode, Channels, QueueDepth) = r,
         NEW rec, rec = ValidatedRecord(t[c + 1]), NEW ch,
         ch = PlaceOf(rec, config.mode, r.loads).channel
  PROVE  PlaceRecords(Records(t, c + 1), config.mode, Channels, QueueDepth)
           = Enqueue(Account(r, rec, ch), rec, ch)
<1>1. PICK mode : mode = config.mode
  OBVIOUS
<1>2. ch = PolicyChannel(mode, rec, Channels)
  BY <1>1, OneChannel
<1>3. PlaceTurn(r, rec, mode, Channels, QueueDepth) = Enqueue(Account(r, rec, ch), rec, ch)
  BY <1>2, OneRecord
<1> QED BY <1>1, <1>3, OneRecordMore

-----------------------------------------------------------------------------
(***************************************************************************)
(* The blocks of P1: where each stands in its layer, and in which tier.    *)
(***************************************************************************)

\* Block b of a head of a layer, as the adapter of P1 makes it for a prompt of n tokens.
BlockOf(l, h, b, n) ==
  [block_id |-> (l * Heads + h) * BlocksOf(n) + b, layer_id |-> l, kv_head_start |-> h,
   token_start |-> b * TokensPerBlock, token_count |-> TokensPerBlock,
   storage_tier |-> Tier(b * TokensPerBlock, Min({b * TokensPerBlock + TokensPerBlock, n}), n)]

\* The blocks of a layer, those in one tier, and the candidates of its scan.
BlocksIn(l, n) == {BlockOf(l, h, b, n) : h \in 0..(Heads - 1), b \in 0..(BlocksOf(n) - 1)}
On(l, n, tier) == {b \in BlocksIn(l, n) : b.storage_tier = tier}
Cands(l, n) == IdsOf(InTier(LayerBlocks(l, n), "SSD"))

\* A multiple and a remainder that make one number are the same.
LEMMA OneDivision ==
  ASSUME NEW B \in Nat \ {0}, NEW a \in Int, NEW c \in Int, NEW b \in 0..(B - 1),
         NEW d \in 0..(B - 1), a * B + b = c * B + d
  PROVE  a = c /\ b = d
<1>1. (a - c) * B = d - b
  OBVIOUS
<1>2. PICK k : k = a - c
  OBVIOUS
<1>3. k \in Int /\ k * B = d - b /\ d - b < B /\ -B < d - b
  BY <1>1, <1>2
<1>4. ~(k >= 1)
  <2> SUFFICES ASSUME k >= 1 PROVE FALSE
    OBVIOUS
  <2>1. PICK m \in Nat : k = m + 1
    <3>1. k - 1 \in Nat /\ k = (k - 1) + 1
      BY <1>3
    <3> QED BY <3>1
  <2>2. k * B = m * B + B /\ m * B \in Nat
    BY <2>1
  <2> QED BY <1>3, <2>2
<1>5. ~(k <= -1)
  <2> SUFFICES ASSUME k <= -1 PROVE FALSE
    OBVIOUS
  <2>1. PICK m \in Nat : k = -(m + 1)
    <3>1. -k - 1 \in Nat /\ k = -((-k - 1) + 1)
      BY <1>3
    <3> QED BY <3>1
  <2>2. k * B = -(m * B + B) /\ m * B \in Nat
    BY <2>1
  <2> QED BY <1>3, <2>2
<1>6. k = 0
  BY <1>3, <1>4, <1>5
<1> QED BY <1>2, <1>3, <1>6

\* What a multiple and a remainder are divided into.
LEMMA DividesInto ==
  ASSUME NEW B \in Nat \ {0}, NEW a \in Int, NEW b \in 0..(B - 1)
  PROVE  (a * B + b) \div B = a /\ (a * B + b) % B = b
<1>1. PICK x : x = a * B + b
  OBVIOUS
<1>2. x \in Int
  BY <1>1
<1>3. PICK q, r : q = x \div B /\ r = x % B
  OBVIOUS
<1>4. q \in Int /\ x = B * q + r /\ r \in 0..(B - 1)
  BY <1>2, <1>3, DivMod, ModRange
<1>5. q * B + r = a * B + b
  BY <1>1, <1>4
<1> QED BY <1>1, <1>3, <1>4, <1>5, OneDivision

\* A number below a product has a quotient below the one and a remainder below the other.
LEMMA ShareOut ==
  ASSUME NEW A \in Nat, NEW B \in Nat \ {0}, NEW x \in 0..(A * B - 1)
  PROVE  /\ x \div B \in 0..(A - 1) /\ x % B \in 0..(B - 1)
         /\ x = (x \div B) * B + (x % B)
<1>1. PICK q, r : q = x \div B /\ r = x % B
  OBVIOUS
<1>0. x \in Nat /\ x \in Int
  <2>1. A * B \in Nat
    BY ProductIs
  <2> QED BY <2>1
<1>2. q \in Int /\ x = B * q + r /\ r \in 0..(B - 1) /\ q \in Nat
  BY <1>0, <1>1, DivMod, ModRange, QuotientIs
<1>3. q < A
  <2> SUFFICES ASSUME A <= q PROVE FALSE
    BY <1>2
  <2>1. PICK m \in Nat : q = A + m
    <3>1. q - A \in Nat /\ q = A + (q - A)
      BY <1>2
    <3> QED BY <3>1
  <2>2. q * B = A * B + m * B /\ m * B \in Nat
    BY <2>1
  <2>3. x < A * B
    OBVIOUS
  <2> QED BY <1>2, <2>2, <2>3
<1> QED BY <1>1, <1>2, <1>3

\* The same number put together again.
LEMMA PutTogether ==
  ASSUME NEW A \in Nat, NEW B \in Nat \ {0}, NEW a \in 0..(A - 1), NEW b \in 0..(B - 1)
  PROVE  a * B + b \in 0..(A * B - 1)
<1>1. a * B \in Nat
  BY ProductIs
<1>2. PICK m \in Nat : A = a + 1 + m
  <2>1. A - a - 1 \in Nat /\ A = a + 1 + (A - a - 1)
    OBVIOUS
  <2> QED BY <2>1
<1>3. A * B = a * B + B + m * B /\ m * B \in Nat
  BY <1>2
<1> QED BY <1>1, <1>3

\* The i-th block of a layer.
LEMMA LayerElement ==
  ASSUME NEW l \in Nat, NEW n, n \in Nat \ {0}, NEW B, B = BlocksOf(n)
  PROVE  /\ B \in Nat \ {0} /\ Heads * B \in Nat
         /\ LayerBlocks(l, n) \in Seq(BlocksIn(l, n)) /\ Len(LayerBlocks(l, n)) = Heads * B
         /\ \A i \in 1..(Heads * B) :
              /\ (i - 1) \div B \in 0..(Heads - 1) /\ (i - 1) % B \in 0..(B - 1)
              /\ i - 1 = ((i - 1) \div B) * B + ((i - 1) % B)
              /\ LayerBlocks(l, n)[i] = BlockOf(l, (i - 1) \div B, (i - 1) % B, n)
<1>1. B \in Nat \ {0} /\ B \in Nat /\ Heads \in Nat
  BY BlocksPositive, TraceAssumption
<1>2. Heads * B \in Nat /\ l * Heads \in Nat
  BY <1>1, ProductIs
<1>3. PICK N, t : N = Heads * B /\ t = LayerBlocks(l, n)
  OBVIOUS
<1>4. ASSUME NEW i \in 1..N
      PROVE  /\ (i - 1) \div B \in 0..(Heads - 1) /\ (i - 1) % B \in 0..(B - 1)
             /\ i - 1 = ((i - 1) \div B) * B + ((i - 1) % B)
  <2>1. PICK x : x = i - 1
    OBVIOUS
  <2>2. x \in 0..(Heads * B - 1)
    BY <1>2, <1>3, <2>1
  <2> QED BY <1>1, <2>1, <2>2, ShareOut
<1>5. ASSUME NEW i \in 1..N
      PROVE  t[i] = BlockOf(l, (i - 1) \div B, (i - 1) % B, n)
  <2>1. PICK h, b : h = (i - 1) \div B /\ b = (i - 1) % B
    OBVIOUS
  <2>2. h \in Nat /\ b \in Nat /\ i - 1 = h * B + b
    BY <1>4, <2>1
  <2>3. t[i] = [block_id |-> l * Heads * B + i - 1, layer_id |-> l, kv_head_start |-> h,
                token_start |-> b * TokensPerBlock, token_count |-> TokensPerBlock,
                storage_tier |-> Tier(b * TokensPerBlock,
                   Min({b * TokensPerBlock + TokensPerBlock, n}), n)]
    BY <1>3, <2>1 DEF LayerBlocks, BlockizeLayer
  <2>4. l * Heads * B + i - 1 = (l * Heads + h) * B + b
    <3>1. PICK m : m = l * Heads
      OBVIOUS
    <3>2. m \in Nat /\ m * B \in Nat /\ h * B \in Nat
      BY <1>1, <1>2, <2>2, <3>1, ProductIs
    <3>3. (m + h) * B = m * B + h * B
      BY <1>1, <2>2, <3>2
    <3>4. i \in Nat
      BY <1>2, <1>3
    <3> QED BY <2>2, <3>1, <3>2, <3>3, <3>4
  <2>5. t[i] = BlockOf(l, h, b, n)
    BY <2>3, <2>4 DEF BlockOf
  <2> QED BY <2>1, <2>5
<1>6. t \in [1..N -> BlocksIn(l, n)]
  <2>1. DOMAIN t = 1..N /\ t = [i \in 1..N |-> t[i]]
    BY <1>3 DEF LayerBlocks, BlockizeLayer
  <2>2. \A i \in 1..N : t[i] \in BlocksIn(l, n)
    BY <1>4, <1>5 DEF BlocksIn
  <2> QED BY <2>1, <2>2
<1>7. t \in Seq(BlocksIn(l, n)) /\ Len(t) = N
  BY <1>2, <1>3, <1>6, IsSeq
<1> QED BY <1>1, <1>2, <1>3, <1>4, <1>5, <1>7

\* Every block of a layer has a place in it.
LEMMA BlockPlaced ==
  ASSUME NEW l \in Nat, NEW n, n \in Nat \ {0}, NEW block, block \in BlocksIn(l, n)
  PROVE  \E i \in 1..Len(LayerBlocks(l, n)) : LayerBlocks(l, n)[i] = block
<1>1. PICK B : B = BlocksOf(n)
  OBVIOUS
<1>2. PICK h \in 0..(Heads - 1), b \in 0..(B - 1) : block = BlockOf(l, h, b, n)
  BY <1>1 DEF BlocksIn
<1>3. B \in Nat \ {0} /\ Heads \in Nat /\ Heads * B \in Nat /\ Len(LayerBlocks(l, n)) = Heads * B
  BY <1>1, LayerElement, TraceAssumption
<1>4. PICK i : i = h * B + b + 1
  OBVIOUS
<1>5. h * B \in Nat
  BY <1>3, ProductIs
<1>6. h * B + b \in 0..(Heads * B - 1)
  BY <1>3, PutTogether
<1>7. i \in 1..(Heads * B) /\ i - 1 = h * B + b
  BY <1>3, <1>4, <1>5, <1>6
<1>8. (i - 1) \div B = h /\ (i - 1) % B = b
  BY <1>3, <1>7, DividesInto
<1>9. LayerBlocks(l, n)[i] = BlockOf(l, h, b, n)
  BY <1>1, <1>7, <1>8, LayerElement
<1> QED BY <1>2, <1>3, <1>7, <1>9

\* All the blocks of a tier, and the first of them first.
AllOf(blocks, tier, some) ==
  \A j \in 1..Len(blocks) :
    blocks[j].storage_tier = tier => \E m \in 1..Len(some) : some[m] = blocks[j]
FirstOf(blocks, tier, some) ==
  some # <<>> => \E k \in 1..Len(blocks) :
                    /\ some[1] = blocks[k] /\ blocks[k].storage_tier = tier
                    /\ \A j \in 1..(k - 1) : blocks[j].storage_tier # tier

\* The filter by tier keeps all of them in their order.
LEMMA TierElements ==
  ASSUME NEW S, NEW blocks, blocks \in Seq(S), NEW tier, NEW some, some = InTier(blocks, tier)
  PROVE  /\ some \in Seq({x \in S : x.storage_tier = tier})
         /\ AllOf(blocks, tier, some) /\ FirstOf(blocks, tier, some)
<1>. DEFINE T == {x \in S : x.storage_tier = tier}
            All(v, i) == \A j \in 1..i : blocks[j].storage_tier = tier
                                           => \E m \in 1..Len(v) : v[m] = blocks[j]
            First(v, i) == v # <<>> => \E k \in 1..i :
                              /\ v[1] = blocks[k] /\ blocks[k].storage_tier = tier
                              /\ \A j \in 1..(k - 1) : blocks[j].storage_tier # tier
<1>1. PICK base : base = <<>>
  OBVIOUS
<1>2. PICK f : Turns(f, "filter", tier, base, blocks) /\ some = f[Len(blocks)]
  BY <1>1, FilterTurns
<1>3. Len(blocks) \in Nat
  BY LenProperties
<1>. DEFINE X == {i \in Nat : i <= Len(blocks) => /\ f[i] \in Seq(T)
                                                 /\ All(f[i], i) /\ First(f[i], i)}
<1>4. 0 \in X
  <2>1. f[0] = <<>>
    BY <1>1, <1>2 DEF Turns
  <2>2. f[0] \in Seq(T)
    BY <2>1, EmptySeq
  <2>3. All(f[0], 0) /\ First(f[0], 0)
    BY <2>1
  <2> QED BY <2>2, <2>3
<1>5. ASSUME NEW i \in Nat, i \in X PROVE i + 1 \in X
  <2> SUFFICES ASSUME i + 1 <= Len(blocks)
               PROVE  f[i + 1] \in Seq(T) /\ All(f[i + 1], i + 1) /\ First(f[i + 1], i + 1)
    OBVIOUS
  <2>1. f[i] \in Seq(T) /\ All(f[i], i) /\ First(f[i], i)
    <3>. HIDE DEF T, All, First
    <3>1. i <= Len(blocks)
      BY <1>3
    <3> QED BY <1>5, <3>1
  <2>2. /\ i + 1 \in 1..Len(blocks) /\ (i + 1) - 1 = i /\ blocks[i + 1] \in S
        /\ 1..(i + 1) = (1..i) \cup {i + 1}
    BY <1>3, ElementOfSeq
  <2>3. f[i + 1] = Turned("filter", tier, f[(i + 1) - 1], blocks[i + 1])
    BY <1>2, <2>2 DEF Turns
  <2>4. PICK v, x : v = f[i] /\ x = blocks[i + 1]
    OBVIOUS
  <2>5. f[i + 1] = IF x.storage_tier = tier THEN Append(v, x) ELSE v
    BY <2>2, <2>3, <2>4 DEF Turned
  <2>6. v \in Seq(T) /\ All(v, i) /\ First(v, i) /\ x \in S
    BY <2>1, <2>2, <2>4
  <2>7. CASE x.storage_tier # tier
    <3>1. f[i + 1] = v
      BY <2>5, <2>7
    <3>2. All(v, i + 1)
      BY <2>2, <2>4, <2>6, <2>7
    <3>3. First(v, i + 1)
      BY <2>2, <2>6
    <3> QED BY <2>6, <3>1, <3>2, <3>3
  <2>8. CASE x.storage_tier = tier
    <3>1. PICK w : w = Append(v, x)
      OBVIOUS
    <3>2. x \in T
      BY <2>6, <2>8
    <3>3. /\ w \in Seq(T) /\ Len(w) = Len(v) + 1 /\ Len(v) \in Nat
          /\ \A j \in 1..Len(v) : w[j] = v[j]
          /\ w[Len(v) + 1] = x
      <4>. HIDE DEF T, All, First
      <4> QED BY <2>6, <3>1, <3>2, AppendProperties, LenProperties
    <3>4. All(w, i + 1)
      <4> SUFFICES ASSUME NEW j \in 1..(i + 1), blocks[j].storage_tier = tier
                   PROVE  \E m \in 1..Len(w) : w[m] = blocks[j]
        OBVIOUS
      <4>1. CASE j = i + 1
        <5>1. Len(v) + 1 \in 1..Len(w) /\ w[Len(v) + 1] = blocks[j]
          BY <2>4, <3>3, <4>1
        <5> QED BY <5>1
      <4>2. CASE j \in 1..i
        <5>1. PICK m \in 1..Len(v) : v[m] = blocks[j]
          BY <2>6, <4>2
        <5>2. m \in 1..Len(w) /\ w[m] = blocks[j]
          BY <3>3, <5>1
        <5> QED BY <5>2
      <4> QED BY <2>2, <4>1, <4>2
    <3>5. First(w, i + 1)
      <4>1. CASE v = <<>>
        <5>1. Len(v) = 0
          BY <4>1, EmptySeq
        <5>2. w[1] = x
          BY <3>3, <5>1
        <5>3. \A j \in 1..i : blocks[j].storage_tier # tier
          BY <2>6, <5>1
        <5>4. i + 1 \in 1..(i + 1)
          OBVIOUS
        <5> QED BY <2>2, <2>4, <2>8, <5>2, <5>3, <5>4
      <4>2. CASE v # <<>>
        <5>1. Len(v) # 0
          BY <2>6, <4>2, EmptySeq
        <5>2. w[1] = v[1]
          BY <3>3, <5>1
        <5>3. PICK k \in 1..i : /\ v[1] = blocks[k] /\ blocks[k].storage_tier = tier
                                /\ \A j \in 1..(k - 1) : blocks[j].storage_tier # tier
          BY <2>6, <4>2
        <5>4. k \in 1..(i + 1) /\ w[1] = blocks[k]
          BY <2>2, <5>2, <5>3
        <5> QED BY <5>3, <5>4
      <4> QED BY <4>1, <4>2
    <3> QED BY <2>5, <2>8, <3>1, <3>3, <3>4, <3>5
  <2> QED BY <2>7, <2>8
<1>6. Nat \subseteq X
  <2>. HIDE DEF X
  <2> QED BY <1>4, <1>5, SetInduction
<1>7. some \in Seq(T) /\ All(some, Len(blocks)) /\ First(some, Len(blocks))
  <2>. HIDE DEF T, All, First
  <2>1. Len(blocks) \in X
    <3>. HIDE DEF X
    <3> QED BY <1>3, <1>6
  <2> QED BY <1>2, <1>3, <2>1
<1> QED BY <1>7 DEF AllOf, FirstOf

\* The candidates of a layer are the ids of its blocks on the SSD, and the first of them is
\* one of head 0 (trace_generator.py:118-127).
LEMMA CandsAre ==
  ASSUME NEW l \in Nat, NEW n, n \in Nat \ {0}
  PROVE  /\ InTier(LayerBlocks(l, n), "DRAM") \in Seq(On(l, n, "DRAM"))
         /\ InTier(LayerBlocks(l, n), "SSD") \in Seq(On(l, n, "SSD"))
         /\ Len(Cands(l, n)) = Len(InTier(LayerBlocks(l, n), "SSD"))
         /\ Range(Cands(l, n)) = {b.block_id : b \in On(l, n, "SSD")}
         /\ Cands(l, n) # <<>> => \E b \in 0..(BlocksOf(n) - 1) :
                                     Cands(l, n)[1] = (l * Heads) * BlocksOf(n) + b
<1>1. PICK B, blocks, dram, ssd, ids, D, W, N :
        /\ B = BlocksOf(n) /\ blocks = LayerBlocks(l, n)
        /\ dram = InTier(LayerBlocks(l, n), "DRAM") /\ ssd = InTier(LayerBlocks(l, n), "SSD")
        /\ ids = Cands(l, n) /\ D = BlocksIn(l, n) /\ W = On(l, n, "SSD") /\ N = Heads * B
  OBVIOUS
<1>2. /\ B \in Nat \ {0} /\ N \in Nat /\ blocks \in Seq(D) /\ Len(blocks) = N /\ Heads \in Nat \ {0}
      /\ \A i \in 1..N :
           /\ (i - 1) \div B \in 0..(Heads - 1) /\ (i - 1) % B \in 0..(B - 1)
           /\ i - 1 = ((i - 1) \div B) * B + ((i - 1) % B)
           /\ blocks[i] = BlockOf(l, (i - 1) \div B, (i - 1) % B, n)
  BY <1>1, LayerElement, TraceAssumption
<1>3. dram \in Seq(On(l, n, "DRAM")) /\ ssd \in Seq(W)
  <2>1. dram = InTier(blocks, "DRAM") /\ ssd = InTier(blocks, "SSD")
    BY <1>1
  <2>2. blocks \in Seq(D)
    BY <1>2
  <2>3. dram \in Seq({x \in D : x.storage_tier = "DRAM"})
    BY <2>1, <2>2, TierElements
  <2>4. ssd \in Seq({x \in D : x.storage_tier = "SSD"})
    BY <2>1, <2>2, TierElements
  <2> QED BY <1>1, <2>3, <2>4 DEF On
<1>0. blocks \in Seq(D) /\ ssd = InTier(blocks, "SSD") /\ Len(blocks) = N
  BY <1>1, <1>2
<1>4. /\ \A j \in 1..N :
           blocks[j].storage_tier = "SSD" => \E m \in 1..Len(ssd) : ssd[m] = blocks[j]
      /\ ssd # <<>> => \E k \in 1..N :
                         /\ ssd[1] = blocks[k] /\ blocks[k].storage_tier = "SSD"
                         /\ \A j \in 1..(k - 1) : blocks[j].storage_tier # "SSD"
  <2>1. AllOf(blocks, "SSD", ssd) /\ FirstOf(blocks, "SSD", ssd)
    BY <1>0, TierElements
  <2> QED BY <1>0, <2>1 DEF AllOf, FirstOf
<1>5. Len(ssd) \in Nat /\ \A m \in 1..Len(ssd) : ssd[m] \in W
  BY <1>3, LenProperties, ElementOfSeq
<1>6. ids = [i \in 1..Len(ssd) |-> ssd[i].block_id]
  BY <1>1 DEF Cands, IdsOf
<1>7. PICK U : U = {ssd[i].block_id : i \in 1..Len(ssd)}
  OBVIOUS
<1>8. ids \in Seq(U) /\ Len(ids) = Len(ssd)
  <2>1. ids \in [1..Len(ssd) -> U]
    BY <1>6, <1>7
  <2> QED BY <1>5, <2>1, IsSeq
<1>9. Range(ids) = {b.block_id : b \in W}
  <2>1. Range(ids) = U
    <3>1. DOMAIN ids = 1..Len(ssd) /\ \A i \in 1..Len(ssd) : ids[i] = ssd[i].block_id
      BY <1>6
    <3> QED BY <1>7, <3>1 DEF Range
  <2>2. U \subseteq {b.block_id : b \in W}
    BY <1>5, <1>7
  <2>3. ASSUME NEW b \in W PROVE b.block_id \in U
    <3>1. b \in BlocksIn(l, n) /\ b.storage_tier = "SSD"
      BY <1>1 DEF On
    <3>2. PICK j \in 1..N : blocks[j] = b
      <4>1. \E j \in 1..Len(LayerBlocks(l, n)) : LayerBlocks(l, n)[j] = b
        BY <3>1, BlockPlaced
      <4>2. blocks = LayerBlocks(l, n) /\ Len(blocks) = N
        BY <1>0, <1>1
      <4> QED BY <4>1, <4>2
    <3>3. PICK m \in 1..Len(ssd) : ssd[m] = b
      BY <1>4, <3>1, <3>2
    <3> QED BY <1>7, <3>3
  <2> QED BY <2>1, <2>2, <2>3
<1>10. ASSUME ids # <<>> PROVE \E b \in 0..(B - 1) : ids[1] = (l * Heads) * B + b
  <2>1. Len(ids) # 0
    BY <1>8, <1>10, EmptySeq
  <2>2. ssd # <<>> /\ 1 \in 1..Len(ssd)
    BY <1>5, <1>8, <2>1, EmptySeq
  <2>3. PICK k \in 1..N : /\ ssd[1] = blocks[k] /\ blocks[k].storage_tier = "SSD"
                          /\ \A j \in 1..(k - 1) : blocks[j].storage_tier # "SSD"
    BY <1>4, <2>2
  <2>4. PICK h, b : h = (k - 1) \div B /\ b = (k - 1) % B
    OBVIOUS
  <2>5. h \in 0..(Heads - 1) /\ b \in 0..(B - 1) /\ k - 1 = h * B + b /\ blocks[k] = BlockOf(l, h, b, n)
    BY <1>2, <2>4
  <2>6. h = 0
    <3> SUFFICES ASSUME h # 0 PROVE FALSE
      OBVIOUS
    <3>1. PICK m \in Nat : h = m + 1
      <4>1. h - 1 \in Nat /\ h = (h - 1) + 1
        BY <2>5
      <4> QED BY <4>1
    <3>2. h * B = m * B + B /\ m * B \in Nat
      BY <1>2, <3>1
    <3>3. PICK j : j = k - B
      OBVIOUS
    <3>4. j \in 1..(k - 1) /\ j \in 1..N /\ j - 1 = m * B + b
      <4>1. PICK p \in Nat : p = m * B
        BY <3>2
      <4>2. k - 1 = p + B + b /\ b \in Nat /\ B \in Nat \ {0} /\ k \in 1..N /\ N \in Nat
        BY <1>2, <2>5, <3>2, <4>1
      <4>3. j - 1 = p + b /\ j \in 1..(k - 1) /\ j \in 1..N
        BY <3>3, <4>2
      <4> QED BY <4>1, <4>3
    <3>5. (j - 1) % B = b
      <4>1. m \in Int /\ b \in 0..(B - 1) /\ B \in Nat \ {0}
        BY <1>2, <2>5, <3>1
      <4>2. (m * B + b) % B = b
        BY <4>1, DividesInto
      <4> QED BY <3>4, <4>2
    <3>6. blocks[j] = BlockOf(l, (j - 1) \div B, b, n)
      BY <1>2, <3>4, <3>5
    <3>7. blocks[j].storage_tier = blocks[k].storage_tier
      BY <2>5, <3>6 DEF BlockOf
    <3> QED BY <2>3, <3>4, <3>7
  <2>7. ids[1] = ssd[1].block_id
    BY <1>6, <2>2
  <2>8. ids[1] = (l * Heads + h) * B + b
    BY <1>1, <2>3, <2>5, <2>7 DEF BlockOf
  <2>9. l * Heads + h = l * Heads
    <3>1. l * Heads \in Nat
      BY <1>2, ProductIs
    <3> QED BY <2>6, <3>1
  <2> QED BY <2>5, <2>8, <2>9
<1> QED BY <1>1, <1>3, <1>8, <1>9, <1>10

-----------------------------------------------------------------------------
(***************************************************************************)
(* The lines of P1.                                                        *)
(***************************************************************************)

\* The lines of P1: a block that is written, one that is read, one that is fetched.
WriteEvent(b) == BlockEvent(b, "PREFILL_WRITE", 0, "BOTH", BlockPages, <<>>, <<b.block_id>>)
ReadEvent(b, step) ==
  BlockEvent(b, "DECODE_READ", step, "BOTH", BlockPages, <<>>, <<b.block_id>>)
FetchEvent(b, step, l, n, w) ==
  BlockEvent(b, "TOPK_FETCH", step, "VALUE", KeyPages, Cands(l, n), w)

\* What wins a scan: candidates, each once.
Won(l, n, w) == Cands(l, n) # <<>> /\ w \in IdLists /\ Range(w) \subseteq Range(Cands(l, n))

\* The lines of the prefill and of one layer of one decode step, but for their numbers.
AllBlocks(n) == UNION {BlocksIn(l, n) : l \in 0..(Layers - 1)}
WriteLines(n) == {WriteEvent(b) : b \in AllBlocks(n)}

\* What a step of decoding writes for a layer.
ReadLine(r, step, l, n) == \E b \in On(l, n, "DRAM") : r = ReadEvent(b, step)
ScanLine(r, step, l, n) == \E w : Won(l, n, w) /\ r = FilterEvent(l, step, Cands(l, n), w)
FetchLine(r, step, l, n) ==
  \E w, b : /\ Won(l, n, w) /\ b \in On(l, n, "SSD") /\ b.block_id \in Range(w)
            /\ r = FetchEvent(b, step, l, n, w)
DecodeLine(r, step, l, n) ==
  ReadLine(r, step, l, n) \/ ScanLine(r, step, l, n) \/ FetchLine(r, step, l, n)
DecodeLines(step, l, n) == {r \in Events : DecodeLine(r, step, l, n)}

\* How many lines the prefill writes.
Writes(n) == Layers * (Heads * BlocksOf(n))

\* The prefill writes every block, and nothing else.
LEMMA PrefillLines ==
  ASSUME NEW n, n \in Nat \ {0}
  PROVE  /\ PrefillEvents(n) \in Seq(WriteLines(n)) /\ Len(PrefillEvents(n)) = Writes(n)
         /\ Range(PrefillEvents(n)) = WriteLines(n) /\ Writes(n) \in Nat
<1>1. Layers \in Nat \ {0} /\ Layers \in Nat
  BY TraceAssumption
<1>2. PICK seqs, S, D, B : /\ seqs = [l \in 1..Layers |-> WritesOf(LayerBlocks(l - 1, n))]
                           /\ S = WriteLines(n) /\ B = BlocksOf(n) /\ D = Heads * B
  OBVIOUS
<1>3. ASSUME NEW l \in 1..Layers
      PROVE  /\ seqs[l] \in Seq(S) /\ Len(seqs[l]) = D
             /\ Range(seqs[l]) = {WriteEvent(b) : b \in BlocksIn(l - 1, n)}
  <2>1. PICK layer, blocks : layer = l - 1 /\ blocks = LayerBlocks(l - 1, n)
    OBVIOUS
  <2>2. layer \in Nat /\ layer \in 0..(Layers - 1)
    BY <1>1, <2>1
  <2>3. D \in Nat /\ blocks \in Seq(BlocksIn(layer, n)) /\ Len(blocks) = D
    BY <1>2, <2>1, <2>2, LayerElement
  <2>4. seqs[l] = [i \in 1..D |-> WriteEvent(blocks[i])]
    BY <1>2, <2>1, <2>3 DEF WritesOf, WriteEvent
  <2>5. \A i \in 1..D : blocks[i] \in BlocksIn(layer, n)
    BY <2>3, ElementOfSeq
  <2>6. \A b \in BlocksIn(layer, n) : \E i \in 1..D : blocks[i] = b
    BY <2>1, <2>2, <2>3, BlockPlaced
  <2>7. BlocksIn(layer, n) \subseteq AllBlocks(n)
    BY <2>2 DEF AllBlocks
  <2>8. seqs[l] \in [1..D -> S]
    BY <1>2, <2>4, <2>5, <2>7 DEF WriteLines
  <2>9. seqs[l] \in Seq(S) /\ Len(seqs[l]) = D
    BY <2>3, <2>8, IsSeq
  <2>10. DOMAIN seqs[l] = 1..D /\ \A i \in 1..D : seqs[l][i] = WriteEvent(blocks[i])
    BY <2>4
  <2>11. Range(seqs[l]) = {WriteEvent(b) : b \in BlocksIn(layer, n)}
    <3>1. PICK u : u = seqs[l]
      OBVIOUS
    <3>2. Range(u) = {u[i] : i \in 1..D}
      BY <2>10, <3>1 DEF Range
    <3>3. \A i \in 1..D : u[i] = WriteEvent(blocks[i])
      BY <2>10, <3>1
    <3> QED BY <2>5, <2>6, <3>1, <3>2, <3>3
  <2> QED BY <2>1, <2>9, <2>11
<1>4. seqs \in Seq(Seq(S)) /\ Len(seqs) = Layers
  <2>1. seqs \in [1..Layers -> Seq(S)]
    BY <1>2, <1>3
  <2> QED BY <1>1, <2>1, IsSeq
<1>5. PrefillEvents(n) = FlattenSeq(seqs)
  BY <1>2 DEF PrefillEvents, WritesOf
<1>6. D \in Nat
  BY <1>2, LayerElement
<1>7. Len(PrefillEvents(n)) = Layers * D
  BY <1>3, <1>4, <1>5, <1>6, FlattenLength
<1>8. /\ PrefillEvents(n) \in Seq(S)
      /\ Range(PrefillEvents(n)) = UNION {Range(seqs[i]) : i \in 1..Layers}
  BY <1>4, <1>5, FlattenElements
<1>9. UNION {Range(seqs[i]) : i \in 1..Layers} = S
  <2>1. ASSUME NEW i \in 1..Layers, NEW x \in Range(seqs[i]) PROVE x \in S
    <3>1. PICK b \in BlocksIn(i - 1, n) : x = WriteEvent(b)
      BY <1>3, <2>1
    <3>2. i - 1 \in 0..(Layers - 1)
      BY <1>1
    <3>3. b \in AllBlocks(n)
      BY <3>2 DEF AllBlocks
    <3> QED BY <1>2, <3>1, <3>3 DEF WriteLines
  <2>2. ASSUME NEW x \in S PROVE \E i \in 1..Layers : x \in Range(seqs[i])
    <3>1. PICK b \in AllBlocks(n) : x = WriteEvent(b)
      BY <1>2 DEF WriteLines
    <3>2. PICK l \in 0..(Layers - 1) : b \in BlocksIn(l, n)
      BY DEF AllBlocks
    <3>3. l + 1 \in 1..Layers /\ (l + 1) - 1 = l
      BY <1>1
    <3>4. x \in Range(seqs[l + 1])
      BY <1>3, <3>1, <3>2, <3>3
    <3> QED BY <3>3, <3>4
  <2> QED BY <2>1, <2>2
<1>10. Layers * D \in Nat
  BY <1>1, <1>6, ProductIs
<1> QED BY <1>2, <1>7, <1>8, <1>9, <1>10 DEF Writes

\* Blocks of a layer are blocks.
LEMMA BlocksAre ==
  ASSUME NEW l \in Nat, NEW n, n \in Nat \ {0}
  PROVE  BlocksIn(l, n) \subseteq Blocks(l)
<1>1. ASSUME NEW b, b \in BlocksIn(l, n) PROVE b \in Blocks(l)
  <2>1. PICK i \in 1..Len(LayerBlocks(l, n)) : LayerBlocks(l, n)[i] = b
    BY <1>1, BlockPlaced
  <2>2. LayerBlocks(l, n) \in Seq(Blocks(l))
    BY BlocksIs
  <2> QED BY <2>1, <2>2, ElementOfSeq
<1> QED BY <1>1

\* What one layer of a decode step logs: reads of its DRAM blocks, then, if it has any on the
\* SSD, their scan and the fetch of those that win.
LEMMA DecodeLinesAre ==
  ASSUME NEW l \in 0..(Layers - 1), NEW step \in Nat, NEW n, n \in Nat \ {0}, NEW w,
         w \in Winners(Cands(l, n), TopkCount(Len(Cands(l, n))))
  PROVE  /\ DecodeEvents(l, step, n, w) \in Seq(DecodeLines(step, l, n))
         /\ Len(DecodeEvents(l, step, n, w)) # 0
<1>0. l \in Nat
  BY TraceAssumption
<1>1. PICK blocks, dram, ssd, ids, B, S : /\ blocks = LayerBlocks(l, n)
        /\ dram = InTier(LayerBlocks(l, n), "DRAM") /\ ssd = InTier(LayerBlocks(l, n), "SSD")
        /\ ids = Cands(l, n) /\ B = BlocksOf(n) /\ S = DecodeLines(step, l, n)
  OBVIOUS
<1>2. /\ dram \in Seq(On(l, n, "DRAM")) /\ ssd \in Seq(On(l, n, "SSD"))
      /\ Len(ids) = Len(ssd) /\ Range(ids) = {b.block_id : b \in On(l, n, "SSD")}
      /\ ids = IdsOf(ssd)
  BY <1>0, <1>1, CandsAre DEF Cands
<1>3. DecodeEvents(l, step, n, w) \in Seq(Events)
  BY <1>0, <1>1, DecodeIs DEF Cands
<1>4. PICK reads : reads = ReadsOf(dram, step)
  OBVIOUS
<1>5. DecodeEvents(l, step, n, w)
        = reads \o (IF ssd = <<>> THEN <<>>
                    ELSE <<FilterEvent(l, step, ids, w)>> \o FetchEvents(l, step, ssd, w))
  BY <1>1, <1>2, <1>4 DEF DecodeEvents, ReadsOf
<1>6. Len(dram) \in Nat /\ Len(ssd) \in Nat
  BY <1>2, LenProperties
<1>7. reads \in Seq(S) /\ Len(reads) = Len(dram)
  <2>1. ASSUME NEW i \in 1..Len(dram) PROVE reads[i] \in S
    <3>1. PICK b : b = dram[i]
      OBVIOUS
    <3>2. b \in On(l, n, "DRAM")
      BY <1>2, <3>1, ElementOfSeq
    <3>3. reads[i] = ReadEvent(b, step)
      BY <1>4, <3>1 DEF ReadsOf, ReadEvent
    <3>4. dram \in Seq(Blocks(l))
      <4>1. On(l, n, "DRAM") \subseteq Blocks(l)
        BY <1>0, BlocksAre DEF On
      <4> QED BY <1>2, <4>1, SeqMonotonic
    <3>5. reads \in Seq(Events) /\ DOMAIN reads = 1..Len(dram)
      BY <1>0, <1>4, <3>4, ReadsAre DEF ReadsOf
    <3>6. Len(reads) = Len(dram)
      BY <1>6, <3>5, LenProperties
    <3>7. reads[i] \in Events
      BY <3>5, <3>6, ElementOfSeq
    <3> QED BY <1>1, <3>2, <3>3, <3>7 DEF DecodeLines, DecodeLine, ReadLine
  <2>2. reads \in [1..Len(dram) -> S]
    <3>1. DOMAIN reads = 1..Len(dram) /\ reads = [i \in 1..Len(dram) |-> reads[i]]
      BY <1>4 DEF ReadsOf
    <3> QED BY <2>1, <3>1
  <2> QED BY <1>6, <2>2, IsSeq
<1>8. CASE ssd = <<>>
  <2>1. DecodeEvents(l, step, n, w) = reads
    <3>1. reads \o <<>> = reads
      BY <1>7, ConcatEmptySeq
    <3> QED BY <1>5, <1>8, <3>1
  <2>2. Len(dram) # 0
    <3>1. /\ blocks \in Seq(BlocksIn(l, n)) /\ Len(blocks) = Heads * B
          /\ B \in Nat \ {0} /\ Heads * B \in Nat
      BY <1>0, <1>1, LayerElement
    <3>2. 1 \in 1..Len(blocks)
      <4>1. Heads \in Nat \ {0}
        BY TraceAssumption
      <4>2. \A a, b \in Nat \ {0} : a * b \in Nat \ {0}
        BY Z3
      <4>3. Heads * B \in Nat \ {0}
        BY <3>1, <4>1, <4>2
      <4> QED BY <3>1, <4>3
    <3>3. AllOf(blocks, "DRAM", dram) /\ AllOf(blocks, "SSD", ssd)
      <4>1. dram = InTier(blocks, "DRAM") /\ ssd = InTier(blocks, "SSD")
        BY <1>1
      <4> QED BY <3>1, <4>1, TierElements
    <3>4. blocks[1].storage_tier \in {"DRAM", "SSD"}
      <4>1. blocks[1] \in Blocks(l)
        BY <1>0, <3>1, <3>2, ElementOfSeq, BlocksAre
      <4> QED BY <4>1 DEF Blocks
    <3>5. Len(ssd) = 0
      BY <1>8, EmptySeq
    <3>6. blocks[1].storage_tier = "DRAM"
      BY <3>2, <3>3, <3>4, <3>5 DEF AllOf
    <3> QED BY <3>2, <3>3, <3>6 DEF AllOf
  <2> QED BY <1>1, <1>7, <2>1, <2>2
<1>9. CASE ssd # <<>>
  <2>1. Len(ssd) # 0
    BY <1>2, <1>9, EmptySeq
  <2>2. ids \in Seq(Nat) /\ ids # <<>> /\ DOMAIN ids = 1..Len(ids)
    <3>1. ssd \in Seq(Blocks(l))
      <4>1. On(l, n, "SSD") \subseteq Blocks(l)
        BY <1>0, BlocksAre DEF On
      <4> QED BY <1>2, <4>1, SeqMonotonic
    <3>2. ids \in Seq(Nat)
      BY <1>0, <1>2, <3>1, IdsAre
    <3> QED BY <1>2, <2>1, <3>2, EmptySeq, LenProperties
  <2>3. w \in IdLists /\ \A i \in 1..Len(w) : \E j \in 1..Len(ids) : w[i] = ids[j]
    BY <1>1, <2>2, WinnersAre
  <2>4. w \in Seq(Nat) /\ Len(w) \in Nat /\ DOMAIN w = 1..Len(w)
    BY <2>3, LenProperties DEF IdLists
  <2>5. Won(l, n, w)
    <3>1. Range(w) \subseteq Range(ids)
      BY <2>2, <2>3, <2>4 DEF Range
    <3> QED BY <1>1, <2>2, <2>3, <3>1 DEF Won
  <2>6. PICK e, fetches : e = FilterEvent(l, step, ids, w) /\ fetches = FetchEvents(l, step, ssd, w)
    OBVIOUS
  <2>7. e \in S
    <3>1. e \in Events
      BY <1>0, <2>2, <2>3, <2>6, FilterIs
    <3> QED BY <1>1, <2>5, <2>6, <3>1 DEF DecodeLines, DecodeLine, ScanLine
  <2>8. fetches \in Seq(S) /\ Len(fetches) = Len(w)
    <3>1. fetches \in Seq(Events) /\ DOMAIN fetches = 1..Len(w)
      <4>1. ssd \in Seq(Blocks(l))
        <5>1. On(l, n, "SSD") \subseteq Blocks(l)
          BY <1>0, BlocksAre DEF On
        <5> QED BY <1>2, <5>1, SeqMonotonic
      <4>2. \A i \in 1..Len(w) : \E j \in 1..Len(ssd) : w[i] = IdsOf(ssd)[j]
        BY <1>2, <2>3
      <4> QED BY <1>0, <2>3, <2>6, <4>1, <4>2, FetchesAre DEF FetchEvents
    <3>2. Len(fetches) = Len(w)
      BY <2>4, <3>1, LenProperties
    <3>3. ASSUME NEW i \in 1..Len(w) PROVE fetches[i] \in S
      <4>1. fetches[i] \in Events
        BY <3>1, <3>2, ElementOfSeq
      <4>2. PICK c : c = CHOOSE b \in Range(ssd) : b.block_id = w[i]
        OBVIOUS
      <4>3. DOMAIN ssd = 1..Len(ssd) /\ Range(ssd) \subseteq On(l, n, "SSD")
        <5>1. DOMAIN ssd = 1..Len(ssd) /\ \A j \in 1..Len(ssd) : ssd[j] \in On(l, n, "SSD")
          BY <1>2, LenProperties, ElementOfSeq
        <5> QED BY <5>1 DEF Range
      <4>4. \E b \in Range(ssd) : b.block_id = w[i]
        <5>1. PICK j \in 1..Len(ids) : w[i] = ids[j]
          BY <2>3
        <5>2. ids[j] = ssd[j].block_id /\ ssd[j] \in Range(ssd)
          BY <1>2, <4>3, <5>1 DEF IdsOf, Range
        <5> QED BY <5>1, <5>2
      <4>5. c \in Range(ssd) /\ c.block_id = w[i]
        BY <4>2, <4>4
      <4>6. c \in On(l, n, "SSD") /\ c.block_id \in Range(w)
        BY <2>4, <4>3, <4>5 DEF Range
      <4>7. fetches[i] = FetchEvent(c, step, l, n, w)
        BY <1>1, <1>2, <2>6, <4>2 DEF FetchEvents, FetchEvent
      <4> QED BY <1>1, <2>5, <4>1, <4>6, <4>7 DEF DecodeLines, DecodeLine, FetchLine
    <3>4. fetches \in [1..Len(w) -> S]
      <4>1. fetches = [i \in 1..Len(w) |-> fetches[i]]
        BY <2>6 DEF FetchEvents
      <4> QED BY <3>3, <4>1
    <3> QED BY <2>4, <3>4, IsSeq
  <2>9. <<e>> \in Seq(S) /\ Len(<<e>>) = 1
    BY <2>7, Tuples
  <2>10. PICK rest : rest = <<e>> \o fetches
    OBVIOUS
  <2>11. rest \in Seq(S) /\ Len(rest) = 1 + Len(w)
    BY <2>8, <2>9, <2>10, ConcatProperties
  <2>12. DecodeEvents(l, step, n, w) = reads \o rest
    BY <1>5, <1>9, <2>6, <2>10
  <2>13. reads \o rest \in Seq(S) /\ Len(reads \o rest) = Len(dram) + (1 + Len(w))
    <3>1. reads \o rest \in Seq(S) /\ Len(reads \o rest) = Len(reads) + Len(rest)
      <4>1. reads \in Seq(S) /\ rest \in Seq(S)
        BY <1>7, <2>11
      <4> QED BY <4>1, ConcatProperties
    <3> QED BY <1>7, <2>11, <3>1
  <2> QED BY <1>1, <1>6, <2>4, <2>12, <2>13
<1> QED BY <1>8, <1>9

-----------------------------------------------------------------------------
(***************************************************************************)
(* Where a block is at home: the place of a line follows from its id.      *)
(***************************************************************************)

\* Where a line says its block is: place of the head and of the block in the context follow
\* from the id.
Sits(l, h, id, token, B) ==
  /\ h \in 0..(Heads - 1)
  /\ \E b \in 0..(B - 1) : /\ id = (l * Heads + h) * B + b
                           /\ token > 0 => token \div TokensPerBlock = b
HomeLine(r, B) == Sits(r.layer_id, r.head_id, r.block_id, r.token_start, B)
Home(e, B) == HomeLine(ValidatedRecord(e), B)
AtHome(t, B) == \A i \in 1..Len(t) : t[i].operation \in ValidOperations => Home(t[i], B)

\* What the replayer keeps of a numbered line.
LEMMA RecordOf ==
  ASSUME NEW e, NEW n, NEW r, r \in Events \/ r \in SynthEvents, e = WithId(r, n)
  PROVE  /\ ValidatedRecord(e).layer_id = r.layer_id /\ ValidatedRecord(e).head_id = r.head_id
         /\ ValidatedRecord(e).token_start = r.token_start
         /\ ValidatedRecord(e).block_id = r.block_id
         /\ ValidatedRecord(e).operation = r.operation /\ e.operation = r.operation
<1>1. {"operation", "layer_id", "head_id", "token_start", "block_id"} \subseteq DOMAIN r
  BY DEF Events, SynthEvents
<1>2. /\ e["operation"] = r["operation"] /\ e["layer_id"] = r["layer_id"]
      /\ e["head_id"] = r["head_id"] /\ e["token_start"] = r["token_start"]
      /\ e["block_id"] = r["block_id"]
  BY <1>1, NumberedKey
<1>3. DOMAIN e = {"event_id"} \cup DOMAIN r
  BY NumberedKeys
<1>4. Has(e, "token_start") /\ Has(e, "block_id")
  BY <1>1, <1>3 DEF Has
<1> QED BY <1>2, <1>4 DEF ValidatedRecord, Get

\* So a numbered line is at home when it is without its number.
LEMMA NumberedHome ==
  ASSUME NEW e, NEW n, NEW r, r \in Events \/ r \in SynthEvents, e = WithId(r, n), NEW B,
         HomeLine(r, B)
  PROVE  Home(e, B)
BY RecordOf DEF Home, HomeLine

\* A block is at home.
LEMMA BlockSits ==
  ASSUME NEW l \in Nat, NEW n, n \in Nat \ {0}, NEW block, block \in BlocksIn(l, n)
  PROVE  Sits(block.layer_id, block.kv_head_start, block.block_id, block.token_start, BlocksOf(n))
<1>1. PICK h \in 0..(Heads - 1), b \in 0..(BlocksOf(n) - 1) : block = BlockOf(l, h, b, n)
  BY DEF BlocksIn
<1>2. /\ block.layer_id = l /\ block.kv_head_start = h
      /\ block.block_id = (l * Heads + h) * BlocksOf(n) + b
      /\ block.token_start = b * TokensPerBlock
  BY <1>1 DEF BlockOf
<1>3. (b * TokensPerBlock) \div TokensPerBlock = b
  <2>1. TokensPerBlock \in Nat \ {0} /\ 0 \in 0..(TokensPerBlock - 1)
    BY GeometryAssumption
  <2>2. BlocksOf(n) \in Nat \ {0}
    BY BlocksPositive
  <2>3. b \in Int /\ b * TokensPerBlock \in Nat
    BY <2>1, <2>2, ProductIs
  <2>4. (b * TokensPerBlock + 0) \div TokensPerBlock = b
    BY <2>1, <2>3, DividesInto
  <2>5. b * TokensPerBlock + 0 = b * TokensPerBlock
    BY <2>3
  <2> QED BY <2>4, <2>5
<1> QED BY <1>1, <1>2, <1>3 DEF Sits

\* So are the lines of P1, the scan for the first candidate's head.
LEMMA WriteHome ==
  ASSUME NEW n, n \in Nat \ {0}, NEW r, r \in WriteLines(n)
  PROVE  HomeLine(r, BlocksOf(n))
<1>1. PICK b \in AllBlocks(n) : r = WriteEvent(b)
  BY DEF WriteLines
<1>2. PICK l \in 0..(Layers - 1) : b \in BlocksIn(l, n)
  BY DEF AllBlocks
<1>3. l \in Nat
  BY TraceAssumption
<1>4. /\ r.layer_id = b.layer_id /\ r.head_id = b.kv_head_start /\ r.block_id = b.block_id
      /\ r.token_start = b.token_start
  BY <1>1 DEF WriteEvent, BlockEvent
<1> QED BY <1>2, <1>3, <1>4, BlockSits DEF HomeLine

\* A line of decoding is at home: its blocks were written.
LEMMA DecodeHome ==
  ASSUME NEW n, n \in Nat \ {0}, NEW l \in Nat, NEW step, NEW r, DecodeLine(r, step, l, n)
  PROVE  HomeLine(r, BlocksOf(n))
<1>1. CASE ReadLine(r, step, l, n)
  <2>1. PICK b \in On(l, n, "DRAM") : r = ReadEvent(b, step)
    BY <1>1 DEF ReadLine
  <2>2. /\ r.layer_id = b.layer_id /\ r.head_id = b.kv_head_start /\ r.block_id = b.block_id
        /\ r.token_start = b.token_start
    BY <2>1 DEF ReadEvent, BlockEvent
  <2>3. b \in BlocksIn(l, n)
    BY DEF On
  <2> QED BY <2>2, <2>3, BlockSits DEF HomeLine
<1>2. CASE FetchLine(r, step, l, n)
  <2>1. PICK w, b : b \in On(l, n, "SSD") /\ r = FetchEvent(b, step, l, n, w)
    BY <1>2 DEF FetchLine
  <2>2. /\ r.layer_id = b.layer_id /\ r.head_id = b.kv_head_start /\ r.block_id = b.block_id
        /\ r.token_start = b.token_start
    BY <2>1 DEF FetchEvent, BlockEvent
  <2>3. b \in BlocksIn(l, n)
    BY <2>1 DEF On
  <2> QED BY <2>2, <2>3, BlockSits DEF HomeLine
<1>3. CASE ScanLine(r, step, l, n)
  <2>1. PICK w : Won(l, n, w) /\ r = FilterEvent(l, step, Cands(l, n), w)
    BY <1>3 DEF ScanLine
  <2>2. PICK b \in 0..(BlocksOf(n) - 1) : Cands(l, n)[1] = (l * Heads) * BlocksOf(n) + b
    BY <2>1, CandsAre DEF Won
  <2>3. r.layer_id = l /\ r.head_id = 0 /\ r.block_id = Cands(l, n)[1] /\ r.token_start = 0
    BY <2>1 DEF FilterEvent
  <2>4. Heads \in Nat \ {0}
    BY TraceAssumption
  <2>5. 0 \in 0..(Heads - 1) /\ l * Heads + 0 = l * Heads
    BY <2>4, ProductIs
  <2> QED BY <2>2, <2>3, <2>5 DEF HomeLine, Sits
<1> QED BY <1>1, <1>2, <1>3 DEF DecodeLine

\* A token of the context is in one of its blocks.
LEMMA BlockBelow ==
  ASSUME NEW n, n \in Nat \ {0}, NEW token \in 0..(n - 1)
  PROVE  token \div TokensPerBlock \in 0..(BlocksOf(n) - 1)
<1>1. PICK T, B, q : T = TokensPerBlock /\ B = BlocksOf(n) /\ q = token \div TokensPerBlock
  OBVIOUS
<1>2. T \in Nat \ {0} /\ B \in Nat \ {0}
  BY <1>1, GeometryAssumption, BlocksPositive
<1>3. q \in Nat /\ token = T * q + (token % T) /\ token % T \in 0..(T - 1)
  <2>1. token \in Nat /\ token \in Int
    OBVIOUS
  <2>2. q = token \div T
    BY <1>1
  <2> QED BY <1>2, <2>1, <2>2, DivMod, ModRange, QuotientIs
<1>4. n + T - 1 = T * B + ((n + T - 1) % T) /\ (n + T - 1) % T \in 0..(T - 1)
  <2>1. n + T - 1 \in Int /\ B = (n + T - 1) \div T
    BY <1>1, <1>2 DEF BlocksOf
  <2> QED BY <1>2, <2>1, DivMod, ModRange
<1>5. q < B
  <2> SUFFICES ASSUME B <= q PROVE FALSE
    BY <1>2, <1>3
  <2>1. PICK m \in Nat : q = B + m
    <3>1. q - B \in Nat /\ q = B + (q - B)
      BY <1>2, <1>3
    <3> QED BY <3>1
  <2>2. T * q = T * B + T * m /\ T * m \in Nat /\ T * B \in Nat
    BY <1>2, <2>1
  <2>3. PICK x, y, r, s : x = T * B /\ y = T * m /\ r = token % T /\ s = (n + T - 1) % T
    OBVIOUS
  <2>4. token = x + y + r /\ n + T - 1 = x + s /\ r \in Nat /\ s < T /\ x \in Nat /\ y \in Nat
        /\ s \in Nat
    BY <1>2, <1>3, <1>4, <2>2, <2>3
  <2> QED BY <1>2, <2>4
<1> QED BY <1>1, <1>2, <1>3, <1>5

\* A block that P2 writes is at home.
LEMMA SynthWriteHome ==
  ASSUME NEW n, n \in Nat \ {0}, NEW i \in 1..Len(SynthesizeWrites(n))
  PROVE  HomeLine(SynthesizeWrites(n)[i], BlocksOf(n))
<1>1. PICK B, H, D, N, x : /\ B = BlocksOf(n) /\ H = Heads /\ D = Heads * BlocksOf(n) /\ x = i - 1
                           /\ N = Layers * Heads * BlocksOf(n)
  OBVIOUS
<1>2. /\ B \in Nat \ {0} /\ B \in Nat /\ H \in Nat \ {0} /\ H \in Nat /\ Layers \in Nat
      /\ TokensPerBlock \in Nat \ {0}
  BY <1>1, BlocksPositive, TraceAssumption, GeometryAssumption
<1>3. N \in Nat /\ D \in Nat \ {0}
  <2>1. Layers * Heads \in Nat
    BY <1>1, <1>2, ProductIs
  <2>2. \A a, b \in Nat \ {0} : a * b \in Nat \ {0}
    BY Z3
  <2> QED BY <1>1, <1>2, <2>1, <2>2, ProductIs
<1>4. i \in 1..N
  <2>1. DOMAIN SynthesizeWrites(n) = 1..N
    BY <1>1 DEF SynthesizeWrites
  <2>2. SynthesizeWrites(n) \in Seq(SynthEvents)
    BY SynthWritesAre
  <2> QED BY <1>3, <2>1, <2>2, LenProperties
<1>5. x \in Nat
  BY <1>1, <1>3, <1>4
<1>6. PICK q, b, g, h : q = x \div B /\ b = x % B /\ g = q \div H /\ h = q % H
  OBVIOUS
<1>0. \A y, d \in Nat : d # 0 => /\ y \div d \in Nat /\ y = d * (y \div d) + (y % d)
                                /\ y % d \in 0..(d - 1)
  <2> TAKE y, d \in Nat
  <2> HAVE d # 0
  <2>1. y \in Int /\ d \in Nat \ {0}
    OBVIOUS
  <2> QED BY <2>1, DivMod, ModRange, QuotientIs
<1>7. q \in Nat /\ x = B * q + b /\ b \in 0..(B - 1)
  BY <1>0, <1>2, <1>5, <1>6
<1>8. g \in Nat /\ q = H * g + h /\ h \in 0..(H - 1)
  BY <1>0, <1>2, <1>6, <1>7
<1>9. x = (g * H + h) * B + b
  <2>1. q = g * H + h
    BY <1>2, <1>8
  <2> QED BY <1>2, <1>7, <2>1
<1>10. h * B + b \in 0..(H * B - 1)
  BY <1>2, <1>7, <1>8, PutTogether
<1>11. x = g * D + (h * B + b)
  <2>1. (g * H + h) * B = (g * H) * B + h * B
    BY <1>2, <1>8
  <2>2. (g * H) * B = g * (H * B)
    BY <1>2, <1>8
  <2>3. PICK u, v : u = g * (H * B) /\ v = h * B
    OBVIOUS
  <2>4. u \in Nat /\ v \in Nat /\ b \in Nat
    <3>1. H * B \in Nat /\ h \in Nat /\ b \in Nat
      BY <1>2, <1>7, <1>8, ProductIs
    <3> QED BY <1>2, <1>8, <2>3, <3>1, ProductIs
  <2>5. x = (u + v) + b
    BY <1>9, <2>1, <2>2, <2>3
  <2>6. D = H * B
    BY <1>1
  <2> QED BY <2>3, <2>4, <2>5, <2>6
<1>12. x \div D = g
  <2>1. g \in Int /\ h * B + b \in 0..(D - 1)
    BY <1>1, <1>8, <1>10
  <2>2. PICK y : y = h * B + b
    OBVIOUS
  <2>3. (g * D + y) \div D = g
    BY <1>3, <2>1, <2>2, DividesInto
  <2> QED BY <1>11, <2>2, <2>3
<1>13. PICK r : r = SynthesizeWrites(n)[i]
  OBVIOUS
<1>14. /\ r.layer_id = x \div D /\ r.head_id = q % H /\ r.token_start = b * TokensPerBlock
       /\ r.block_id = x
  BY <1>1, <1>4, <1>6, <1>13 DEF SynthesizeWrites
<1>15. (b * TokensPerBlock) \div TokensPerBlock = b
  <2>1. 0 \in 0..(TokensPerBlock - 1) /\ b \in Int /\ b \in Nat
    BY <1>2, <1>7
  <2>2. (b * TokensPerBlock + 0) \div TokensPerBlock = b
    BY <1>2, <2>1, DividesInto
  <2>3. b * TokensPerBlock \in Nat
    BY <1>2, <2>1, ProductIs
  <2>4. b * TokensPerBlock + 0 = b * TokensPerBlock
    BY <2>3
  <2> QED BY <2>2, <2>4
<1>16. Sits(g, h, x, b * TokensPerBlock, B)
  BY <1>1, <1>7, <1>8, <1>9, <1>15 DEF Sits
<1> QED BY <1>1, <1>6, <1>12, <1>13, <1>14, <1>16 DEF HomeLine

\* So is one that P2 reads, in contexts of BlocksPerHead blocks a head.
LEMMA SynthReadHome ==
  ASSUME NEW n, n \in Nat \ {0}, BlocksOf(n) = BlocksPerHead, NEW steps \in Nat,
         NEW i \in 1..Len(SynthesizeReads(n, steps))
  PROVE  HomeLine(SynthesizeReads(n, steps)[i], BlocksOf(n))
<1>1. PICK N, D, T : N = steps * Layers * Heads /\ D = Layers * Heads /\ T = TokensPerBlock
  OBVIOUS
<1>2. /\ Heads \in Nat \ {0} /\ Heads \in Nat /\ Layers \in Nat \ {0} /\ Layers \in Nat
      /\ T \in Nat \ {0} /\ T \in Nat
  BY <1>1, TraceAssumption, GeometryAssumption
<1>3. N \in Nat /\ D \in Nat \ {0}
  <2>1. steps * Layers \in Nat
    BY <1>2, ProductIs
  <2>2. \A a, b \in Nat \ {0} : a * b \in Nat \ {0}
    BY Z3
  <2> QED BY <1>1, <1>2, <2>1, <2>2, ProductIs
<1>4. i \in 1..N
  <2>1. DOMAIN SynthesizeReads(n, steps) = 1..N
    BY <1>1 DEF SynthesizeReads
  <2>2. SynthesizeReads(n, steps) \in Seq(SynthEvents)
    BY SynthReadsAre
  <2> QED BY <1>3, <2>1, <2>2, LenProperties
<1>5. PICK r, s, h, token, b :
        /\ r = SynthesizeReads(n, steps)[i] /\ s = (i - 1) \div D /\ h = (i - 1) % Heads
        /\ token = (s * T + h * 2 * T) % n /\ b = token \div T
  OBVIOUS
<1>6. /\ r.head_id = h /\ r.token_start = token
      /\ r.block_id = (r.layer_id * Heads + h) * BlocksPerHead + b
  BY <1>1, <1>4, <1>5 DEF SynthesizeReads
<1>7. i - 1 \in Nat
  BY <1>3, <1>4
<1>8. h \in 0..(Heads - 1) /\ s \in Nat /\ h \in Nat
  <2>1. i - 1 \in Int
    BY <1>7
  <2>2. h \in 0..(Heads - 1)
    BY <1>2, <1>5, <2>1, ModRange
  <2>3. s \in Nat /\ h \in Nat
    BY <1>2, <1>3, <1>5, <1>7, QuotientIs
  <2> QED BY <2>2, <2>3
<1>9. token \in 0..(n - 1)
  <2>1. s * T \in Nat /\ h * 2 \in Nat
    BY <1>2, <1>8, ProductIs
  <2>2. h * 2 * T \in Nat
    BY <1>2, <2>1, ProductIs
  <2>3. s * T + h * 2 * T \in Int
    BY <2>1, <2>2
  <2> QED BY <1>5, <2>3, ModRange
<1>10. b \in 0..(BlocksOf(n) - 1)
  BY <1>1, <1>5, <1>9, BlockBelow
<1>11. Sits(r.layer_id, h, r.block_id, token, BlocksOf(n))
  BY <1>1, <1>5, <1>6, <1>8, <1>10 DEF Sits
<1> QED BY <1>5, <1>6, <1>11 DEF HomeLine

\* Two records of one block are sent to one place (replayer.py:293-303).
LEMMA SamePlace ==
  ASSUME NEW r, NEW s, r.layer_id \in Nat, s.layer_id \in Nat, r.token_start \in Nat,
         s.token_start \in Nat, HomeLine(r, BlocksPerHead), HomeLine(s, BlocksPerHead),
         r.block_id = s.block_id, NEW mode, NEW loads
  PROVE  PlaceOf(r, mode, loads) = PlaceOf(s, mode, loads)
<1>1. PICK B, H, l, m : B = BlocksPerHead /\ H = Heads /\ l = r.layer_id /\ m = s.layer_id
  OBVIOUS
<1>2. B \in Nat \ {0} /\ H \in Nat \ {0} /\ l \in Nat /\ m \in Nat
  BY <1>1, GeometryAssumption, TraceAssumption
<1>3. PICK h, b : /\ h = r.head_id /\ h \in 0..(H - 1) /\ b \in 0..(B - 1)
                  /\ r.block_id = (l * H + h) * B + b
                  /\ r.token_start > 0 => r.token_start \div TokensPerBlock = b
  BY <1>1 DEF HomeLine, Sits
<1>4. PICK k, c : /\ k = s.head_id /\ k \in 0..(H - 1) /\ c \in 0..(B - 1)
                  /\ s.block_id = (m * H + k) * B + c
                  /\ s.token_start > 0 => s.token_start \div TokensPerBlock = c
  BY <1>1 DEF HomeLine, Sits
<1>5. l * H \in Nat /\ m * H \in Nat
  BY <1>2, ProductIs
<1>6. l * H + h \in Int /\ m * H + k \in Int
  BY <1>2, <1>3, <1>4, <1>5
<1>7. l * H + h = m * H + k /\ b = c
  <2>1. PICK u, v : u = l * H + h /\ v = m * H + k
    OBVIOUS
  <2>2. u \in Int /\ v \in Int /\ u * B + b = v * B + c
    BY <1>3, <1>4, <1>6, <2>1
  <2>3. u = v /\ b = c
    BY <1>2, <1>3, <1>4, <2>2, OneDivision
  <2> QED BY <2>1, <2>3
<1>8. l = m /\ h = k
  <2>1. l \in Int /\ m \in Int /\ H \in Nat \ {0} /\ h \in 0..(H - 1) /\ k \in 0..(H - 1)
    BY <1>2, <1>3, <1>4
  <2> QED BY <1>7, <2>1, OneDivision
<1>9. TokenBlockIdx(r.token_start, r.block_id) = b
  <2>1. CASE r.token_start > 0
    BY <1>3, <2>1 DEF TokenBlockIdx
  <2>2. CASE ~(r.token_start > 0)
    <3>1. r.block_id % B = b
      <4>1. PICK u \in Int : u = l * H + h
        BY <1>6
      <4>2. r.block_id = u * B + b /\ b \in 0..(B - 1) /\ B \in Nat \ {0}
        BY <1>2, <1>3, <4>1
      <4>3. (u * B + b) % B = b
        BY <4>2, DividesInto
      <4> QED BY <4>2, <4>3
    <3> QED BY <1>1, <2>2, <3>1 DEF TokenBlockIdx
  <2> QED BY <2>1, <2>2
<1>10. TokenBlockIdx(s.token_start, s.block_id) = c
  <2>1. CASE s.token_start > 0
    BY <1>4, <2>1 DEF TokenBlockIdx
  <2>2. CASE ~(s.token_start > 0)
    <3>1. s.block_id % B = c
      <4>1. PICK u \in Int : u = m * H + k
        BY <1>6
      <4>2. s.block_id = u * B + c /\ c \in 0..(B - 1) /\ B \in Nat \ {0}
        BY <1>2, <1>4, <4>1
      <4>3. (u * B + c) % B = c
        BY <4>2, DividesInto
      <4> QED BY <4>2, <4>3
    <3> QED BY <1>1, <2>2, <3>1 DEF TokenBlockIdx
  <2> QED BY <2>1, <2>2
<1> QED BY <1>1, <1>3, <1>4, <1>7, <1>8, <1>9, <1>10 DEF PlaceOf

-----------------------------------------------------------------------------
(***************************************************************************)
(* The log of P1: every block is written before anything is decoded.       *)
(***************************************************************************)

\* A trace of P1: its first lines write every block, the others decode.
Log(t, n) ==
  /\ Writes(n) <= Len(t)
  /\ \A i \in 1..Writes(n) : \E r \in WriteLines(n) : t[i] = WithId(r, i - 1)
  /\ \A r \in WriteLines(n) : \E i \in 1..Writes(n) : t[i] = WithId(r, i - 1)
  /\ \A i \in (Writes(n) + 1)..Len(t) :
       \E l \in 0..(Layers - 1), step \in 1..Steps : \E r \in DecodeLines(step, l, n) :
         t[i] = WithId(r, i - 1)

\* Every step whose layers have all had their turn has left a line.
Stepped(t, turns) ==
  \A s \in 1..Steps : s * Layers <= turns => \E i \in 1..Len(t) : t[i].step = s

\* The lines with their numbers.
LEMMA NumberedAt ==
  ASSUME NEW S, NEW lines \in Seq(S), NEW from \in Nat, NEW more, more = Numbered(lines, from)
  PROVE  /\ more \in Seq(Range(more)) /\ Len(more) = Len(lines)
         /\ \A i \in 1..Len(lines) : more[i] = WithId(lines[i], from + i - 1)
<1>1. Len(lines) \in Nat
  BY LenProperties
<1>2. /\ DOMAIN more = 1..Len(lines) /\ more = [i \in 1..Len(lines) |-> more[i]]
      /\ \A i \in 1..Len(lines) : more[i] = WithId(lines[i], from + i - 1)
  BY DEF Numbered
<1>3. \A i \in 1..Len(lines) : more[i] \in Range(more)
  BY <1>2 DEF Range
<1>4. more \in [1..Len(lines) -> Range(more)]
  BY <1>2, <1>3
<1>5. more \in Seq(Range(more)) /\ Len(more) = Len(lines)
  BY <1>1, <1>4, IsSeq
<1> QED BY <1>2, <1>5

\* A trace with more lines at its end.
GoesOn(t, lines, u) ==
  /\ Len(t) \in Nat /\ Len(lines) \in Nat /\ Len(u) = Len(t) + Len(lines)
  /\ \A i \in 1..Len(t) : u[i] = t[i]
  /\ \A i \in 1..Len(lines) : u[Len(t) + i] = WithId(lines[i], (Len(t) + i) - 1)

\* It is one that numbered lines are joined to.
LEMMA Longer ==
  ASSUME NEW t, IsTrace(t), NEW S, NEW lines \in Seq(S), NEW u,
         u = t \o Numbered(lines, Len(t))
  PROVE  GoesOn(t, lines, u)
<1>1. PICK n, m, more : n = Len(t) /\ m = Len(lines) /\ more = Numbered(lines, Len(t))
  OBVIOUS
<1>2. n \in Nat /\ m \in Nat
  BY <1>1, LenProperties DEF IsTrace
<1>3. /\ more \in Seq(Range(more)) /\ Len(more) = m
      /\ \A i \in 1..m : more[i] = WithId(lines[i], n + i - 1)
  BY <1>1, <1>2, NumberedAt
<1>4. PICK V : V = Range(t) \cup Range(more)
  OBVIOUS
<1>5. t \in Seq(V) /\ more \in Seq(V)
  <2>1. Range(t) \subseteq V /\ Range(more) \subseteq V
    BY <1>4
  <2> QED BY <1>3, <2>1, SeqMonotonic DEF IsTrace
<1>6. /\ Len(u) = n + m
      /\ \A i \in 1..(n + m) : u[i] = IF i <= n THEN t[i] ELSE more[i - n]
  <2>1. u = t \o more
    BY <1>1
  <2>2. /\ Len(t \o more) = Len(t) + Len(more)
        /\ \A i \in 1..(Len(t) + Len(more)) :
             (t \o more)[i] = IF i <= Len(t) THEN t[i] ELSE more[i - Len(t)]
    BY <1>5, ConcatProperties
  <2>3. Len(t) = n /\ Len(more) = m
    BY <1>1, <1>3
  <2> QED BY <2>1, <2>2, <2>3
<1>7. \A i \in 1..n : u[i] = t[i]
  BY <1>2, <1>6
<1>8. ASSUME NEW i \in 1..m PROVE u[n + i] = WithId(lines[i], (n + i) - 1)
  <2>1. n + i \in 1..(n + m) /\ ~(n + i <= n) /\ (n + i) - n = i
    BY <1>2
  <2>2. u[n + i] = more[i]
    BY <1>6, <2>1
  <2>3. more[i] = WithId(lines[i], n + i - 1)
    BY <1>3
  <2>4. n + i - 1 = (n + i) - 1
    BY <1>2
  <2> QED BY <2>2, <2>3, <2>4
<1> QED BY <1>1, <1>2, <1>6, <1>7, <1>8 DEF GoesOn

\* The prefill starts a log.
LEMMA LogStarts ==
  ASSUME NEW n, n \in Nat \ {0}, NEW u, u = <<>> \o Numbered(PrefillEvents(n), Len(<<>>))
  PROVE  Log(u, n)
<1>1. PICK lines, S : lines = PrefillEvents(n) /\ S = WriteLines(n)
  OBVIOUS
<1>2. lines \in Seq(S) /\ Len(lines) = Writes(n) /\ Range(lines) = S /\ Writes(n) \in Nat
      /\ DOMAIN lines = 1..Len(lines)
  BY <1>1, PrefillLines, LenProperties
<1>3. PICK none : none = <<>>
  OBVIOUS
<1>4. IsTrace(none) /\ Len(none) = 0
  BY <1>3, EmptySeq DEF IsTrace
<1>5. /\ Len(u) = 0 + Len(lines)
      /\ \A i \in 1..Len(lines) : u[0 + i] = WithId(lines[i], (0 + i) - 1)
  <2>1. u = none \o Numbered(lines, Len(none))
    BY <1>1, <1>3
  <2>2. lines \in Seq(S)
    BY <1>2
  <2>3. GoesOn(none, lines, u)
    BY <1>4, <2>1, <2>2, Longer
  <2>4. /\ Len(u) = Len(none) + Len(lines)
        /\ \A i \in 1..Len(lines) : u[Len(none) + i] = WithId(lines[i], (Len(none) + i) - 1)
    BY <2>3 DEF GoesOn
  <2> QED BY <1>4, <2>4
<1>6. Len(u) = Writes(n) /\ \A i \in 1..Writes(n) : u[i] = WithId(lines[i], i - 1)
  BY <1>2, <1>5
<1>7. \A i \in 1..Writes(n) : lines[i] \in S
  BY <1>2, ElementOfSeq
<1>8. \A r \in S : \E i \in 1..Writes(n) : lines[i] = r
  BY <1>2 DEF Range
<1>9. \A i \in 1..Writes(n) : \E r \in S : u[i] = WithId(r, i - 1)
  BY <1>6, <1>7
<1>10. \A r \in S : \E i \in 1..Writes(n) : u[i] = WithId(r, i - 1)
  <2> TAKE r \in S
  <2>1. PICK i \in 1..Writes(n) : lines[i] = r
    BY <1>8
  <2>2. u[i] = WithId(r, i - 1)
    BY <1>6, <2>1
  <2> QED BY <2>2
<1>11. Writes(n) <= Len(u) /\ (Writes(n) + 1)..Len(u) = {}
  BY <1>2, <1>6
<1> QED BY <1>1, <1>9, <1>10, <1>11 DEF Log

\* Each layer of each step goes on with it.
LEMMA LogGoesOn ==
  ASSUME NEW n, n \in Nat \ {0}, NEW t, IsTrace(t), Log(t, n), NEW l \in 0..(Layers - 1),
         NEW step \in 1..Steps, NEW lines \in Seq(DecodeLines(step, l, n)), NEW u,
         u = t \o Numbered(lines, Len(t))
  PROVE  Log(u, n)
<1>1. PICK W, N, M, S : W = Writes(n) /\ N = Len(t) /\ M = Len(lines) /\ S = DecodeLines(step, l, n)
  OBVIOUS
<1>2. /\ N \in Nat /\ M \in Nat /\ Len(u) = N + M /\ \A i \in 1..N : u[i] = t[i]
      /\ \A i \in 1..M : u[N + i] = WithId(lines[i], (N + i) - 1)
  <2>1. /\ Len(t) \in Nat /\ Len(lines) \in Nat /\ Len(u) = Len(t) + Len(lines)
        /\ \A i \in 1..Len(t) : u[i] = t[i]
        /\ \A i \in 1..Len(lines) : u[Len(t) + i] = WithId(lines[i], (Len(t) + i) - 1)
    <3>1. GoesOn(t, lines, u)
      BY Longer
    <3> QED BY <3>1 DEF GoesOn
  <2> QED BY <1>1, <2>1
<1>3. W \in Nat /\ W <= N
  BY <1>1, PrefillLines DEF Log
<1>4. \A i \in 1..W : u[i] = t[i]
  <2>1. 1..W \subseteq 1..N
    BY <1>2, <1>3
  <2> QED BY <1>2, <2>1
<1>5. ASSUME NEW i \in (W + 1)..(N + M)
      PROVE  \E k \in 0..(Layers - 1), s \in 1..Steps : \E r \in DecodeLines(s, k, n) :
               u[i] = WithId(r, i - 1)
  <2>1. CASE i <= N
    <3>1. i \in (W + 1)..Len(t) /\ u[i] = t[i]
      BY <1>1, <1>2, <1>3, <2>1
    <3> QED BY <1>1, <3>1 DEF Log
  <2>2. CASE ~(i <= N)
    <3>1. PICK j \in 1..M : i = N + j
      <4>1. i - N \in 1..M /\ i = N + (i - N)
        BY <1>2, <1>3, <2>2
      <4> QED BY <4>1
    <3>2. lines[j] \in S /\ u[i] = WithId(lines[j], i - 1)
      BY <1>1, <1>2, <3>1, ElementOfSeq
    <3> QED BY <1>1, <3>2
  <2> QED BY <2>1, <2>2
<1>6. W <= Len(u) /\ Len(u) = N + M
  BY <1>2, <1>3
<1>7. /\ \A i \in 1..W : \E r \in WriteLines(n) : t[i] = WithId(r, i - 1)
      /\ \A r \in WriteLines(n) : \E i \in 1..W : t[i] = WithId(r, i - 1)
  BY <1>1 DEF Log
<1>8. /\ \A i \in 1..W : \E r \in WriteLines(n) : u[i] = WithId(r, i - 1)
      /\ \A r \in WriteLines(n) : \E i \in 1..W : u[i] = WithId(r, i - 1)
  BY <1>4, <1>7
<1> QED BY <1>1, <1>5, <1>6, <1>8 DEF Log

\* The step of a decode line is its own.
LEMMA StepOf ==
  ASSUME NEW step, NEW l, NEW n, NEW r, r \in DecodeLines(step, l, n), NEW e, NEW id,
         e = WithId(r, id)
  PROVE  e.step = step
<1>1. r.step = step
  BY DEF DecodeLines, DecodeLine, ReadLine, ScanLine, FetchLine, ReadEvent, FetchEvent, BlockEvent,
         FilterEvent
<1>2. "step" \in DOMAIN r
  BY DEF DecodeLines, Events
<1>3. e["step"] = r["step"]
  BY <1>2, NumberedKey
<1> QED BY <1>1, <1>3

\* So no step is without a line when its last layer has had its turn.
LEMMA SteppedOn ==
  ASSUME NEW n, n \in Nat \ {0}, NEW t, IsTrace(t), NEW turns \in Nat, Stepped(t, turns), NEW l,
         NEW step, step = turns \div Layers + 1,
         NEW lines \in Seq(DecodeLines(step, l, n)), Len(lines) # 0, NEW u,
         u = t \o Numbered(lines, Len(t))
  PROVE  Stepped(u, turns + 1)
<1>1. PICK N, M : N = Len(t) /\ M = Len(lines)
  OBVIOUS
<1>2. /\ N \in Nat /\ M \in Nat /\ Len(u) = N + M /\ \A i \in 1..N : u[i] = t[i]
      /\ \A i \in 1..M : u[N + i] = WithId(lines[i], (N + i) - 1)
  <2>1. /\ Len(t) \in Nat /\ Len(lines) \in Nat /\ Len(u) = Len(t) + Len(lines)
        /\ \A i \in 1..Len(t) : u[i] = t[i]
        /\ \A i \in 1..Len(lines) : u[Len(t) + i] = WithId(lines[i], (Len(t) + i) - 1)
    <3>1. GoesOn(t, lines, u)
      BY Longer
    <3> QED BY <3>1 DEF GoesOn
  <2> QED BY <1>1, <2>1
<1> SUFFICES ASSUME NEW s \in 1..Steps, s * Layers <= turns + 1
             PROVE  \E i \in 1..Len(u) : u[i].step = s
  BY DEF Stepped
<1>3. PICK L : L = Layers /\ L \in Nat \ {0}
  BY TraceAssumption
<1>4. CASE s * L <= turns
  <2>1. PICK i \in 1..N : t[i].step = s
    BY <1>1, <1>3, <1>4 DEF Stepped
  <2>2. i \in 1..Len(u) /\ u[i] = t[i]
    BY <1>2, <2>1
  <2> QED BY <2>1, <2>2
<1>5. CASE ~(s * L <= turns)
  <2>1. s * L = turns + 1
    <3>1. s * L \in Nat
      BY <1>3, ProductIs, PipelineAssumption
    <3> QED BY <1>3, <1>5, <3>1
  <2>2. PICK m \in Nat : s = m + 1
    <3>1. s - 1 \in Nat /\ s = (s - 1) + 1
      BY PipelineAssumption
    <3> QED BY <3>1
  <2>3. turns = m * L + (L - 1) /\ m * L \in Nat
    <3>1. s * L = m * L + L /\ m * L \in Nat
      BY <1>3, <2>2
    <3> QED BY <1>3, <2>1, <3>1
  <2>4. turns \div L = m
    <3>1. L - 1 \in 0..(L - 1) /\ m \in Int
      BY <1>3
    <3>2. (m * L + (L - 1)) \div L = m
      BY <1>3, <3>1, DividesInto
    <3> QED BY <2>3, <3>2
  <2>5. step = s
    BY <1>3, <2>2, <2>4
  <2>6. 1 \in 1..M /\ lines[1] \in DecodeLines(step, l, n)
    BY <1>1, <1>2, ElementOfSeq
  <2>7. u[N + 1] = WithId(lines[1], (N + 1) - 1) /\ N + 1 \in 1..Len(u)
    BY <1>2, <2>6
  <2>8. u[N + 1].step = step
    BY <2>6, <2>7, StepOf
  <2> QED BY <2>5, <2>7, <2>8
<1> QED BY <1>3, <1>4, <1>5

\* Lines that write or decode are lines of P1.
LEMMA WriteIsEvent ==
  ASSUME NEW n, n \in Nat \ {0}, NEW r, r \in WriteLines(n)
  PROVE  r \in Events
<1>0. PICK b \in AllBlocks(n) : r = WriteEvent(b)
  BY DEF WriteLines
<1>1. PICK l \in 0..(Layers - 1) : b \in BlocksIn(l, n)
  BY DEF AllBlocks
<1>2. l \in Nat
  BY TraceAssumption
<1>3. b \in Blocks(l)
  BY <1>1, <1>2, BlocksAre
<1>4. b.block_id \in Nat
  BY <1>3 DEF Blocks
<1>5. PICK ids, none : ids = <<b.block_id>> /\ none = <<>>
  OBVIOUS
<1>6. ids \in IdLists /\ none \in Seq(Nat)
  BY <1>4, <1>5, OneId, EmptySeq
<1>7. "PREFILL_WRITE" \in ValidOperations /\ 0 \in Nat /\ BlockPages \in Nat
  BY DEF ValidOperations, BlockPages
<1>8. BlockEvent(b, "PREFILL_WRITE", 0, "BOTH", BlockPages, none, ids) \in Events
  BY <1>2, <1>3, <1>6, <1>7, BlockEventIs
<1> QED BY <1>0, <1>5, <1>8 DEF WriteEvent

\* A trace of P1 is at home.
LEMMA LogHome ==
  ASSUME NEW n, n \in Nat \ {0}, NEW t, IsTrace(t), Log(t, n)
  PROVE  AtHome(t, BlocksOf(n))
<1>0. Len(t) \in Nat /\ Writes(n) \in Nat
  BY LenProperties, PrefillLines DEF IsTrace
<1>1. ASSUME NEW i \in 1..Len(t) PROVE Home(t[i], BlocksOf(n))
  <2>1. CASE i <= Writes(n)
    <3>1. i \in 1..Writes(n)
      BY <1>0, <2>1
    <3>2. PICK r \in WriteLines(n) : t[i] = WithId(r, i - 1)
      BY <3>1 DEF Log
    <3> QED BY <3>2, WriteIsEvent, WriteHome, NumberedHome
  <2>2. CASE ~(i <= Writes(n))
    <3>1. i \in (Writes(n) + 1)..Len(t)
      BY <1>0, <2>2
    <3>2. PICK l, step, r : /\ l \in 0..(Layers - 1) /\ step \in 1..Steps
                            /\ r \in DecodeLines(step, l, n) /\ t[i] = WithId(r, i - 1)
      BY <3>1 DEF Log
    <3>3. l \in Nat /\ r \in Events /\ DecodeLine(r, step, l, n)
      BY <3>2, TraceAssumption DEF DecodeLines
    <3>4. HomeLine(r, BlocksOf(n))
      BY <3>3, DecodeHome
    <3> QED BY <3>2, <3>3, <3>4, NumberedHome
  <2> QED BY <2>1, <2>2
<1> QED BY <1>1 DEF AtHome

\* So is P2's synthetic one, of contexts of BlocksPerHead blocks a head.
LEMMA SynthHome ==
  ASSUME NEW n, n \in Nat \ {0}, BlocksOf(n) = BlocksPerHead, NEW steps \in Nat, NEW t,
         t = SynthesizeTrace(n, steps)
  PROVE  AtHome(t, BlocksPerHead)
<1>1. PICK w, r, lines : /\ w = SynthesizeWrites(n) /\ r = SynthesizeReads(n, steps)
                         /\ lines = SynthesizeWrites(n) \o SynthesizeReads(n, steps)
  OBVIOUS
<1>2. w \in Seq(SynthEvents) /\ r \in Seq(SynthEvents)
  BY <1>1, SynthWritesAre, SynthReadsAre
<1>3. /\ lines \in Seq(SynthEvents) /\ Len(lines) = Len(w) + Len(r)
      /\ Len(w) \in Nat /\ Len(r) \in Nat
      /\ \A i \in 1..(Len(w) + Len(r)) : lines[i] = IF i <= Len(w) THEN w[i] ELSE r[i - Len(w)]
  BY <1>1, <1>2, ConcatProperties, LenProperties
<1>4. Len(t) = Len(lines) /\ \A i \in 1..Len(lines) : t[i] = WithId(lines[i], 0 + i - 1)
  <2>1. t = Numbered(lines, 0)
    BY <1>1 DEF SynthesizeTrace
  <2>2. t = Numbered(lines, 0) /\ lines \in Seq(SynthEvents) /\ 0 \in Nat
    BY <1>3, <2>1
  <2> QED BY <2>2, NumberedAt
<1>5. ASSUME NEW i \in 1..Len(t) PROVE Home(t[i], BlocksPerHead)
  <2>1. lines[i] \in SynthEvents /\ t[i] = WithId(lines[i], 0 + i - 1)
    BY <1>3, <1>4, ElementOfSeq
  <2>2. HomeLine(lines[i], BlocksOf(n))
    <3>1. CASE i <= Len(w)
      <4>1. i \in 1..Len(SynthesizeWrites(n)) /\ lines[i] = SynthesizeWrites(n)[i]
        BY <1>1, <1>3, <1>4, <3>1
      <4> QED BY <4>1, SynthWriteHome
    <3>2. CASE ~(i <= Len(w))
      <4>1. PICK j : j = i - Len(w)
        OBVIOUS
      <4>2. j \in 1..Len(r) /\ lines[i] = r[j]
        BY <1>3, <1>4, <3>2, <4>1
      <4>3. HomeLine(SynthesizeReads(n, steps)[j], BlocksOf(n))
        BY <1>1, <4>2, SynthReadHome
      <4> QED BY <1>1, <4>2, <4>3
    <3> QED BY <3>1, <3>2
  <2> QED BY <2>1, <2>2, NumberedHome
<1> QED BY <1>5 DEF AtHome

\* The replayer accepts no line of P3.
LEMMA KvRefused ==
  ASSUME NEW n, NEW steps, NEW t, t = SyntheticTrace(n, steps), n \in Nat \ {0}, steps \in Nat,
         NEW B
  PROVE  AtHome(t, B)
<1>1. PICK N : N = steps * ConfigLayers
  OBVIOUS
<1>2. N \in Nat
  BY <1>1, ProductIs, TraceAssumption
<1>3. DOMAIN t = 1..N /\ \A i \in 1..N : t[i].operation = "KV_TOPK"
  BY <1>1 DEF SyntheticTrace
<1>4. t \in Seq(Range(t))
  BY KvIs DEF IsTrace
<1>5. Len(t) = N
  BY <1>2, <1>3, <1>4, LenProperties
<1> QED BY <1>3, <1>5 DEF AtHome, ValidOperations

-----------------------------------------------------------------------------
(***************************************************************************)
(* What every reachable state knows of its trace.                          *)
(***************************************************************************)

\* The trace, from its first line on.
Begun == stage = "prefill" => trace = <<>> /\ turn = 0
Logs == source = "p1" /\ stage # "prefill" => Log(trace, tokens) /\ Stepped(trace, turn)
Complete == source = "p1" /\ stage \notin {"prefill", "decode"} => turn = Steps * Layers
Homes == source # "p1" /\ BlocksOf(tokens) = BlocksPerHead => AtHome(trace, BlocksPerHead)

\* What the replayer has counted is what the study counts.
Counted ==
  stage = "replaying" =>
    /\ PlaceRecords(Records(trace, cursor), job.mode, Channels, QueueDepth) = replay
    /\ \A i \in 1..Len(trace) : trace[i].operation \in ValidOperations

\* With TraceInv, it is inductive.
LogInv == Begun /\ Logs /\ Complete /\ Homes /\ Counted

\* It holds before anything is written.
LEMMA LogInvInit == Init => LogInv
<1> SUFFICES ASSUME Init PROVE LogInv
  OBVIOUS
<1>1. trace = <<>> /\ turn = 0 /\ stage = "prefill"
  BY DEF Init
<1>2. Len(trace) = 0
  BY <1>1, EmptySeq
<1>3. AtHome(trace, BlocksPerHead)
  BY <1>2 DEF AtHome
<1> QED BY <1>1, <1>3 DEF LogInv, Begun, Logs, Complete, Homes, Counted

\* A step that leaves the finished trace alone.
LEMMA ReadingOn ==
  ASSUME LogInv, UNCHANGED <<source, tokens, trace, turn>>, stage \notin {"prefill", "decode"},
         stage' \notin {"prefill", "decode"}, Counted'
  PROVE  LogInv'
<1>1. source' = source /\ tokens' = tokens /\ trace' = trace /\ turn' = turn
  OBVIOUS
<1>2. Begun'
  BY DEF Begun
<1>3. Logs'
  BY <1>1 DEF LogInv, Logs
<1>4. Complete'
  BY <1>1 DEF LogInv, Complete
<1>5. Homes'
  BY <1>1 DEF LogInv, Homes
<1> QED BY <1>2, <1>3, <1>4, <1>5 DEF LogInv

\* P1 starts its trace.
LEMMA PrefillLogs ==
  ASSUME TraceInv, LogInv, Prefill
  PROVE  LogInv'
<1>1. /\ source = "p1" /\ stage = "prefill" /\ Written(PrefillEvents(tokens))
      /\ stage' = "decode" /\ source' = source /\ tokens' = tokens /\ turn' = turn
  BY DEF Prefill, Idle
<1>2. trace = <<>> /\ turn = 0
  BY <1>1 DEF LogInv, Begun
<1>3. PICK n, u : n = tokens /\ u = trace'
  OBVIOUS
<1>4. n \in Nat \ {0}
  BY <1>3 DEF TraceInv
<1>5. u = <<>> \o Numbered(PrefillEvents(n), Len(<<>>))
  BY <1>1, <1>2, <1>3 DEF Written
<1>6. Log(u, n)
  BY <1>4, <1>5, LogStarts
<1>7. Stepped(u, 0)
  <2> SUFFICES ASSUME NEW s \in 1..Steps, s * Layers <= 0
               PROVE  FALSE
    BY DEF Stepped
  <2>1. s \in Nat \ {0} /\ Layers \in Nat \ {0}
    BY PipelineAssumption, TraceAssumption
  <2>2. \A a, b \in Nat \ {0} : a * b \in Nat \ {0}
    BY Z3
  <2>3. s * Layers \in Nat \ {0}
    BY <2>1, <2>2
  <2> QED BY <2>3
<1>8. Logs'
  BY <1>1, <1>2, <1>3, <1>6, <1>7 DEF Logs
<1>9. Begun' /\ Complete' /\ Homes' /\ Counted'
  BY <1>1 DEF Begun, Complete, Homes, Counted
<1> QED BY <1>8, <1>9 DEF LogInv

\* P1 goes on with it.
LEMMA LayerLogs ==
  ASSUME TraceInv, LogInv, DecodeLayer
  PROVE  LogInv'
<1>1. /\ source = "p1" /\ stage = "decode" /\ turn < Steps * Layers /\ turn' = turn + 1
      /\ stage' = stage /\ source' = source /\ tokens' = tokens
  BY DEF DecodeLayer, Idle
<1>2. PICK n, u, t, l, step : /\ n = tokens /\ u = trace' /\ t = trace /\ l = turn % Layers
                              /\ step = turn \div Layers + 1
  OBVIOUS
<1>3. n \in Nat \ {0} /\ IsTrace(t) /\ turn \in Nat
  <2>1. Steps * Layers \in Nat
    BY PipelineAssumption, TraceAssumption, ProductIs
  <2> QED BY <1>2, <2>1 DEF TraceInv
<1>4. PICK w : /\ w \in Winners(Cands(l, n), TopkCount(Len(Cands(l, n))))
               /\ Written(DecodeEvents(l, step, n, w))
  BY <1>2 DEF DecodeLayer, Cands
<1>5. l \in 0..(Layers - 1) /\ step \in 1..Steps /\ step \in Nat
  <2>1. Layers \in Nat \ {0} /\ Steps \in Nat /\ Steps * Layers \in Nat
    BY PipelineAssumption, TraceAssumption, ProductIs
  <2>2. turn \in 0..(Steps * Layers - 1)
    BY <1>1, <1>3, <2>1
  <2>3. turn \div Layers \in 0..(Steps - 1) /\ turn % Layers \in 0..(Layers - 1)
    BY <2>1, <2>2, ShareOut
  <2> QED BY <1>2, <2>1, <2>3
<1>6. PICK lines : lines = DecodeEvents(l, step, n, w)
  OBVIOUS
<1>7. lines \in Seq(DecodeLines(step, l, n)) /\ Len(lines) # 0
  BY <1>3, <1>4, <1>5, <1>6, DecodeLinesAre
<1>8. u = t \o Numbered(lines, Len(t))
  BY <1>2, <1>4, <1>6 DEF Written
<1>9. Log(t, n) /\ Stepped(t, turn)
  BY <1>1, <1>2 DEF LogInv, Logs
<1>10. Log(u, n)
  BY <1>3, <1>5, <1>7, <1>8, <1>9, LogGoesOn
<1>11. Stepped(u, turn + 1)
  BY <1>2, <1>3, <1>7, <1>8, <1>9, SteppedOn
<1>12. Logs'
  BY <1>1, <1>2, <1>10, <1>11 DEF Logs
<1>13. Begun' /\ Complete' /\ Homes' /\ Counted'
  BY <1>1 DEF Begun, Complete, Homes, Counted
<1> QED BY <1>12, <1>13 DEF LogInv

\* P2 or P3 makes one up.
LEMMA SynthesizeLogs ==
  ASSUME TraceInv, LogInv, Synthesize
  PROVE  LogInv'
<1>1. /\ source \in {"p2", "p3"} /\ stage' = "written" /\ source' = source /\ tokens' = tokens
      /\ trace' = IF source = "p2" THEN SynthesizeTrace(tokens, Steps)
                                   ELSE SyntheticTrace(tokens, Steps)
  BY DEF Synthesize, Idle
<1>2. tokens \in Nat \ {0} /\ Steps \in Nat
  BY PipelineAssumption DEF TraceInv
<1>3. ASSUME BlocksOf(tokens) = BlocksPerHead PROVE AtHome(trace', BlocksPerHead)
  <2>1. CASE source = "p2"
    BY <1>1, <1>2, <1>3, <2>1, SynthHome
  <2>2. CASE source # "p2"
    BY <1>1, <1>2, <2>2, KvRefused
  <2> QED BY <2>1, <2>2
<1>4. Homes'
  BY <1>1, <1>3 DEF Homes
<1>5. Begun' /\ Logs' /\ Complete' /\ Counted'
  BY <1>1 DEF Begun, Logs, Complete, Counted
<1> QED BY <1>4, <1>5 DEF LogInv

\* A replay starts with nothing read.
LEMMA StartCounts ==
  ASSUME LogInv, NEW config, StartReplay(config)
  PROVE  LogInv'
<1>1. /\ stage = "written" /\ UNCHANGED <<source, tokens, trace, turn>> /\ cursor' = 0
      /\ replay' = NewReplay /\ job' = config
      /\ stage' = IF \A i \in 1..Len(trace) : ReplayerAccepts(trace[i])
                  THEN "replaying" ELSE "rejected"
  BY DEF StartReplay
<1>2. Counted'
  <2> SUFFICES ASSUME stage' = "replaying"
               PROVE  /\ PlaceRecords(Records(trace', cursor'), job'.mode, Channels, QueueDepth)
                           = replay'
                      /\ \A i \in 1..Len(trace') : trace'[i].operation \in ValidOperations
    BY DEF Counted
  <2>1. \A i \in 1..Len(trace) : ReplayerAccepts(trace[i])
    BY <1>1
  <2>2. \A i \in 1..Len(trace) : trace[i].operation \in ValidOperations
    BY <2>1 DEF ReplayerAccepts
  <2>3. PICK t, mode : t = trace' /\ mode = job'.mode
    OBVIOUS
  <2>4. PlaceRecords(Records(t, 0), mode, Channels, QueueDepth) = NewReplay
    BY NoRecords
  <2> QED BY <1>1, <2>2, <2>3, <2>4
<1>3. stage \notin {"prefill", "decode"} /\ stage' \notin {"prefill", "decode"}
  BY <1>1
<1> QED BY <1>1, <1>2, <1>3, ReadingOn

\* A record that is replayed is one that is counted.
LEMMA RecordCounts ==
  ASSUME TraceInv, LogInv, ReplayRecord
  PROVE  LogInv'
<1>1. /\ stage = "replaying" /\ UNCHANGED <<source, tokens, trace, turn, stage, job>>
      /\ cursor' = cursor + 1
  BY DEF ReplayRecord
<1>2. PICK t, c, config, r, rec, ch, after :
        /\ t = trace /\ c = cursor /\ config = job /\ r = replay
        /\ rec = ValidatedRecord(trace[cursor + 1])
        /\ ch = PlaceOf(ValidatedRecord(trace[cursor + 1]), job.mode, replay.loads).channel
        /\ after = replay'
  OBVIOUS
<1>3. after = Enqueue(Account(r, rec, ch), rec, ch)
  BY <1>2 DEF ReplayRecord
<1>4. c \in Nat /\ config \in Replays /\ "queue" \in DOMAIN r
  <2>1. Len(trace) \in Nat
    BY LenProperties DEF TraceInv, IsTrace
  <2> QED BY <1>1, <1>2, <2>1 DEF TraceInv, Replaying, QueueOK
<1>5. PlaceRecords(Records(t, c), config.mode, Channels, QueueDepth) = r
  BY <1>1, <1>2 DEF LogInv, Counted
<1>6. rec = ValidatedRecord(t[c + 1]) /\ ch = PlaceOf(rec, config.mode, r.loads).channel
  BY <1>2
<1>7. PlaceRecords(Records(t, c + 1), config.mode, Channels, QueueDepth) = after
  BY <1>3, <1>4, <1>5, <1>6, ReplayAgrees
<1>8. Counted'
  BY <1>1, <1>2, <1>7 DEF LogInv, Counted
<1> QED BY <1>1, <1>8, ReadingOn

\* Every action of the three programs keeps it.
LEMMA LogInvNext ==
  ASSUME TraceInv, LogInv, [Next]_vars
  PROVE  LogInv'
<1>1. CASE Prefill
  BY <1>1, PrefillLogs
<1>2. CASE DecodeLayer
  BY <1>2, LayerLogs
<1>3. CASE Serialize
  <2>1. /\ source = "p1" /\ stage = "decode" /\ turn = Steps * Layers /\ stage' = "written"
        /\ source' = source /\ tokens' = tokens /\ trace' = trace /\ turn' = turn
    BY <1>3 DEF Serialize, Idle
  <2>2. Logs'
    BY <2>1 DEF LogInv, Logs
  <2>3. Begun' /\ Complete' /\ Homes' /\ Counted'
    BY <2>1 DEF Begun, Complete, Homes, Counted
  <2> QED BY <2>2, <2>3 DEF LogInv
<1>4. CASE Synthesize
  BY <1>4, SynthesizeLogs
<1>5. ASSUME NEW config \in Experiments, StartBaseline(config) PROVE LogInv'
  <2>1. /\ stage = "written" /\ stage' = "running" /\ UNCHANGED <<source, tokens, trace, turn>>
    BY <1>5 DEF StartBaseline
  <2>2. Counted'
    BY <2>1 DEF Counted
  <2> QED BY <2>1, <2>2, ReadingOn
<1>6. ASSUME NEW config \in Experiments, StartExperiment(config) PROVE LogInv'
  <2>1. /\ stage = "written" /\ stage' \in {"running", "rejected"}
        /\ UNCHANGED <<source, tokens, trace, turn>>
    BY <1>6 DEF StartExperiment
  <2>2. Counted'
    BY <2>1 DEF Counted
  <2> QED BY <2>1, <2>2, ReadingOn
<1>7. ASSUME NEW config \in Replays, StartReplay(config) PROVE LogInv'
  BY <1>7, StartCounts
<1>8. CASE ExperimentRecord
  <2>1. /\ stage = "running" /\ UNCHANGED <<source, tokens, trace, turn, stage>>
    BY <1>8 DEF ExperimentRecord
  <2>2. Counted'
    BY <2>1 DEF Counted
  <2> QED BY <2>1, <2>2, ReadingOn
<1>9. CASE ReplayRecord
  BY <1>9, RecordCounts
<1>10. CASE ReportExperiment \/ ReportReplay \/ Reject
  <2>1. /\ stage \notin {"prefill", "decode"} /\ stage' = "written"
        /\ UNCHANGED <<source, tokens, trace, turn>>
    BY <1>10 DEF ReportExperiment, ReportReplay, Reject, Finish
  <2>2. Counted'
    BY <2>1 DEF Counted
  <2> QED BY <2>1, <2>2, ReadingOn
<1>11. CASE UNCHANGED vars
  <2>1. UNCHANGED <<source, tokens, trace, turn, stage, job, cursor, st, replay>>
    BY <1>11 DEF vars
  <2> QED BY <2>1 DEF LogInv, Begun, Logs, Complete, Homes, Counted
<1> QED BY <1>1, <1>2, <1>3, <1>4, <1>5, <1>6, <1>7, <1>8, <1>9, <1>10, <1>11 DEF Next

\* It always holds.
LEMMA LogInvAlways == Spec => [](TraceInv /\ LogInv)
<1>1. Init => TraceInv /\ LogInv
  BY TraceInvInit, LogInvInit
<1>2. TraceInv /\ LogInv /\ [Next]_vars => (TraceInv /\ LogInv)'
  BY TraceInvNext, LogInvNext
<1> QED BY <1>1, <1>2, PTL DEF Spec

\* A replay finds what a trace wrote: a record that reads a block goes to the channel and die
\* its write went to (replayer.py:293-303), whichever of the generators wrote the trace, and
\* the placement study counts the same load on each channel, the same batches and the same
\* queue as the replayer (phase3_real_trace_eval.py:67-144).
THEOREM PlacementAlwaysAgrees == Spec => []PlacementAgrees
<1>1. TraceInv /\ LogInv => PlacementAgrees
  <2> SUFFICES ASSUME TraceInv, LogInv, stage = "replaying",
                      NEW records, records = [i \in 1..cursor |-> ValidatedRecord(trace[i])]
               PROVE  /\ BlocksOf(tokens) = BlocksPerHead =>
                           \A i, j \in 1..cursor :
                             (IsWrite(records[i]) /\ records[i].block_id = records[j].block_id)
                               => LET p == PlaceOf(records[i], job.mode, NoCounters)
                                      q == PlaceOf(records[j], job.mode, NoCounters)
                                  IN  <<p.channel, p.die>> = <<q.channel, q.die>>
                      /\ PlaceRecords(records, job.mode, Channels, QueueDepth) = replay
    BY DEF PlacementAgrees
  <2>1. PlaceRecords(records, job.mode, Channels, QueueDepth) = replay
    BY DEF LogInv, Counted, Records
  <2>2. ASSUME BlocksOf(tokens) = BlocksPerHead PROVE AtHome(trace, BlocksPerHead)
    <3>1. CASE source = "p1"
      <4>1. PICK t, n : t = trace /\ n = tokens
        OBVIOUS
      <4>2. n \in Nat \ {0} /\ IsTrace(t) /\ Log(t, n)
        BY <3>1, <4>1 DEF TraceInv, LogInv, Logs
      <4>3. AtHome(t, BlocksOf(n))
        BY <4>2, LogHome
      <4> QED BY <2>2, <4>1, <4>3
    <3>2. CASE source # "p1"
      BY <2>2, <3>2 DEF LogInv, Homes
    <3> QED BY <3>1, <3>2
  <2>3. ASSUME BlocksOf(tokens) = BlocksPerHead, NEW i \in 1..cursor, NEW j \in 1..cursor,
               records[i].block_id = records[j].block_id
        PROVE  PlaceOf(records[i], job.mode, NoCounters) = PlaceOf(records[j], job.mode, NoCounters)
    <3>1. 1..cursor \subseteq 1..Len(trace)
      <4>1. Len(trace) \in Nat
        BY LenProperties DEF TraceInv, IsTrace
      <4> QED BY <4>1 DEF TraceInv
    <3>2. ASSUME NEW k \in 1..cursor
          PROVE  /\ HomeLine(records[k], BlocksPerHead) /\ records[k].layer_id \in Nat
                 /\ records[k].token_start \in Nat
      <4>1. k \in 1..Len(trace) /\ records[k] = ValidatedRecord(trace[k])
        BY <3>1
      <4>2. trace[k].operation \in ValidOperations
        BY <4>1 DEF LogInv, Counted
      <4>3. Home(trace[k], BlocksPerHead)
        BY <2>2, <2>3, <4>1, <4>2 DEF AtHome
      <4>4. Replayable(trace[k])
        BY <4>1 DEF TraceInv, Replaying, AllReplayable
      <4> QED BY <4>1, <4>3, <4>4 DEF Home, Replayable
    <3>3. PICK r, s, mode, loads : /\ r = records[i] /\ s = records[j] /\ mode = job.mode
                                   /\ loads = NoCounters
      OBVIOUS
    <3>4. /\ HomeLine(r, BlocksPerHead) /\ r.layer_id \in Nat /\ r.token_start \in Nat
          /\ HomeLine(s, BlocksPerHead) /\ s.layer_id \in Nat /\ s.token_start \in Nat
          /\ r.block_id = s.block_id
      BY <2>3, <3>2, <3>3
    <3>5. PlaceOf(r, mode, loads) = PlaceOf(s, mode, loads)
      BY <3>4, SamePlace
    <3> QED BY <3>3, <3>5
  <2> QED BY <2>1, <2>3
<1> QED BY <1>1, LogInvAlways, PTL

-----------------------------------------------------------------------------
(***************************************************************************)
(* The blocks in DRAM, for the writer and for the quality study.           *)
(***************************************************************************)

\* The smaller of two numbers.
LEMMA MinIs ==
  ASSUME NEW a \in Int, NEW b \in Int
  PROVE  Min({a, b}) = IF a <= b THEN a ELSE b
<1>1. \E x \in {a, b} : \A y \in {a, b} : x <= y
  OBVIOUS
<1>2. PICK m : m = Min({a, b})
  OBVIOUS
<1>3. m \in {a, b} /\ \A y \in {a, b} : m <= y
  BY <1>1, <1>2 DEF Min
<1>4. m <= a /\ m <= b /\ (m = a \/ m = b)
  BY <1>3
<1> QED BY <1>2, <1>4

\* Multiples are in the order of what is multiplied.
LEMMA MultiplesGrow ==
  ASSUME NEW T \in Nat, NEW a \in Int, NEW b \in Int, a <= b
  PROVE  a * T <= b * T
<1>1. PICK m \in Nat : b = a + m
  <2>1. b - a \in Nat /\ b = a + (b - a)
    OBVIOUS
  <2> QED BY <2>1
<1>2. b * T = a * T + m * T /\ m * T \in Nat /\ a * T \in Int
  BY <1>1
<1> QED BY <1>2

\* Which blocks start before a token.
LEMMA BelowCeil ==
  ASSUME NEW T \in Nat \ {0}, NEW s \in Nat, NEW b \in Nat
  PROVE  b * T < s <=> b <= (s + T - 1) \div T - 1
<1>1. PICK x, q, r : x = s + T - 1 /\ q = x \div T /\ r = x % T
  OBVIOUS
<1>2. x \in Int /\ q \in Int /\ r \in 0..(T - 1) /\ x = T * q + r
  <2>1. x \in Int
    BY <1>1
  <2> QED BY <1>1, <2>1, DivMod, ModRange
<1>3. T * q = q * T /\ q * T \in Int /\ b * T \in Int
  BY <1>2
<1>4. CASE b <= q - 1
  <2>1. b * T <= (q - 1) * T
    BY <1>2, <1>4, MultiplesGrow
  <2>2. (q - 1) * T = q * T - T
    BY <1>2
  <2>3. b * T < s
    BY <1>1, <1>2, <1>3, <2>1, <2>2
  <2> QED BY <1>1, <1>4, <2>3
<1>5. CASE q <= b
  <2>1. q * T <= b * T
    BY <1>2, <1>5, MultiplesGrow
  <2>2. ~(b * T < s)
    BY <1>1, <1>2, <1>3, <2>1
  <2>3. ~(b <= q - 1)
    BY <1>2, <1>5
  <2> QED BY <1>1, <2>2, <2>3
<1> QED BY <1>2, <1>4, <1>5

\* Which blocks end after a token.
LEMMA AboveFloor ==
  ASSUME NEW T \in Nat \ {0}, NEW x \in Nat, NEW b \in Nat
  PROVE  b * T + T > x <=> b >= x \div T
<1>1. PICK q, r : q = x \div T /\ r = x % T
  OBVIOUS
<1>2. q \in Int /\ r \in 0..(T - 1) /\ x = T * q + r
  BY <1>1, DivMod, ModRange
<1>3. T * q = q * T /\ q * T \in Int /\ b * T \in Int
  BY <1>2
<1>4. CASE q <= b
  <2>1. q * T <= b * T
    BY <1>2, <1>4, MultiplesGrow
  <2>2. b * T + T > x
    BY <1>2, <1>3, <2>1
  <2> QED BY <1>1, <1>4, <2>2
<1>5. CASE b + 1 <= q
  <2>1. (b + 1) * T <= q * T
    BY <1>2, <1>5, MultiplesGrow
  <2>2. (b + 1) * T = b * T + T
    OBVIOUS
  <2>3. ~(b * T + T > x)
    BY <1>2, <1>3, <2>1, <2>2
  <2>4. ~(b >= q)
    BY <1>2, <1>5
  <2> QED BY <1>1, <2>3, <2>4
<1> QED BY <1>2, <1>4, <1>5

\* The blocks of a context, by their first tokens.
LEMMA BlocksBelow ==
  ASSUME NEW n, n \in Nat \ {0}, NEW b \in Nat
  PROVE  b \in 0..(BlocksOf(n) - 1) <=> b * TokensPerBlock < n
<1>1. PICK T, B : T = TokensPerBlock /\ B = BlocksOf(n)
  OBVIOUS
<1>2. T \in Nat \ {0} /\ B \in Nat \ {0} /\ B = (n + T - 1) \div T
  BY <1>1, GeometryAssumption, BlocksPositive DEF BlocksOf
<1>3. b * T < n <=> b <= B - 1
  BY <1>2, BelowCeil
<1> QED BY <1>1, <1>2, <1>3

\* The first token that is not in the window.
Recent(n) == Max({0, n - WindowTokens})

\* It is no later than the last.
LEMMA RecentIs ==
  ASSUME NEW n, n \in Nat \ {0}
  PROVE  /\ Recent(n) \in Nat /\ Recent(n) >= n - WindowTokens /\ Recent(n) < n
         /\ Recent(n) \in {0, n - WindowTokens}
<1>1. WindowTokens \in Nat \ {0}
  BY TraceAssumption
<1>2. PICK w, m : w = n - WindowTokens /\ m = Max({0, w})
  OBVIOUS
<1>3. w \in Int /\ w < n
  BY <1>1, <1>2
<1>4. \E x \in {0, w} : \A y \in {0, w} : x >= y
  BY <1>3
<1>5. m \in {0, w} /\ \A y \in {0, w} : m >= y
  BY <1>2, <1>4 DEF Max
<1> QED BY <1>2, <1>3, <1>5 DEF Recent

\* The blocks in DRAM are the same by their tokens and by their numbers.
LEMMA HostIs ==
  ASSUME NEW n, n \in Nat \ {0}, NEW b \in 0..(BlocksOf(n) - 1)
  PROVE  Tier(b * TokensPerBlock, Min({b * TokensPerBlock + TokensPerBlock, n}), n) = "DRAM"
           <=> b \in HostBlocks(n)
<1>1. PICK T, B, m, W, first, last : /\ T = TokensPerBlock /\ B = BlocksOf(n) /\ m = Recent(n)
                                     /\ W = WindowTokens /\ first = b * T
                                     /\ last = Min({b * TokensPerBlock + TokensPerBlock, n})
  OBVIOUS
<1>2. /\ T \in Nat \ {0} /\ B \in Nat \ {0} /\ b \in Nat /\ b <= B - 1 /\ W \in Nat \ {0}
      /\ m \in Nat /\ m >= n - W /\ m < n /\ m \in {0, n - W} /\ first \in Nat
  <2>1. T \in Nat \ {0} /\ B \in Nat \ {0} /\ W \in Nat \ {0}
    BY <1>1, GeometryAssumption, TraceAssumption, BlocksPositive
  <2>2. b \in Nat /\ b <= B - 1
    BY <1>1, <2>1
  <2>3. first \in Nat
    BY <1>1, <2>1, <2>2, ProductIs
  <2> QED BY <1>1, <2>1, <2>2, <2>3, RecentIs
<1>3. last = IF first + T <= n THEN first + T ELSE n
  BY <1>1, <1>2, MinIs
<1>4. last > n - W <=> first + T > m
  BY <1>2, <1>3
<1>5. first + T > m <=> b >= m \div T
  BY <1>1, <1>2, AboveFloor
<1>6. first < SinkTokens <=> b <= (SinkTokens + T - 1) \div T - 1
  <2>1. SinkTokens \in Nat
    BY TraceAssumption
  <2> QED BY <1>1, <1>2, <2>1, BelowCeil
<1>7. b \in HostBlocks(n) <=> \/ b <= (SinkTokens + T - 1) \div T - 1
                              \/ b >= m \div T
  <2>1. SinkTokens + T - 1 \in Int /\ m \in Int
    BY <1>2, TraceAssumption
  <2>2. (SinkTokens + T - 1) \div T \in Int /\ m \div T \in Int
    BY <1>2, <2>1, DivMod
  <2>3. HostBlocks(n) = (0..((SinkTokens + T - 1) \div T - 1)) \cup ((m \div T)..(B - 1))
    BY <1>1 DEF HostBlocks, Recent
  <2> QED BY <1>2, <2>2, <2>3
<1>8. Tier(first, last, n) = "DRAM" <=> first < SinkTokens \/ last > n - W
  BY <1>1 DEF Tier
<1> QED BY <1>1, <1>4, <1>5, <1>6, <1>7, <1>8

\* A line that writes block b of a head.
Writing(e, b, n) ==
  /\ e.token_start = b * TokensPerBlock /\ e.token_end = b * TokensPerBlock + TokensPerBlock
  /\ e.tier = Tier(b * TokensPerBlock, Min({b * TokensPerBlock + TokensPerBlock, n}), n)

\* The writes of a trace, and the blocks they write.
PrefillOf(t) == {e \in Range(t) : e.operation = "PREFILL_WRITE"}
AllWritten(writes, n) ==
  /\ \A e \in writes : \E b \in 0..(BlocksOf(n) - 1) : Writing(e, b, n)
  /\ \A b \in 0..(BlocksOf(n) - 1) : \E e \in writes : Writing(e, b, n)

\* A line that was numbered writes the block it was made for.
LEMMA WritingIs ==
  ASSUME NEW n, n \in Nat \ {0}, NEW l, NEW h, NEW b, NEW block, block = BlockOf(l, h, b, n),
         NEW r, r = WriteEvent(block), r \in Events, NEW e, NEW id, e = WithId(r, id)
  PROVE  Writing(e, b, n) /\ e.operation = "PREFILL_WRITE"
<1>1. {"token_start", "token_end", "tier", "operation"} \subseteq DOMAIN r
  BY DEF Events
<1>2. /\ e["token_start"] = r["token_start"] /\ e["token_end"] = r["token_end"]
      /\ e["tier"] = r["tier"] /\ e["operation"] = r["operation"]
  BY <1>1, NumberedKey
<1>3. /\ r.token_start = block.token_start /\ r.tier = block.storage_tier
      /\ r.token_end = block.token_start + block.token_count /\ r.operation = "PREFILL_WRITE"
  BY DEF WriteEvent, BlockEvent
<1>4. /\ block.token_start = b * TokensPerBlock /\ block.token_count = TokensPerBlock
      /\ block.storage_tier
           = Tier(b * TokensPerBlock, Min({b * TokensPerBlock + TokensPerBlock, n}), n)
  BY DEF BlockOf
<1> QED BY <1>2, <1>3, <1>4 DEF Writing

\* No line of decoding writes.
LEMMA DecodeReads ==
  ASSUME NEW step, NEW l, NEW n, NEW r, r \in DecodeLines(step, l, n), NEW e, NEW id,
         e = WithId(r, id)
  PROVE  e.operation = r.operation /\ r.operation \in {"DECODE_READ", "TOPK_FILTER", "TOPK_FETCH"}
<1>1. r.operation \in {"DECODE_READ", "TOPK_FILTER", "TOPK_FETCH"}
  BY DEF DecodeLines, DecodeLine, ReadLine, ScanLine, FetchLine, ReadEvent, FetchEvent, BlockEvent,
         FilterEvent
<1>2. "operation" \in DOMAIN r
  BY DEF DecodeLines, Events
<1>3. e["operation"] = r["operation"]
  BY <1>2, NumberedKey
<1> QED BY <1>1, <1>3

\* P1 writes every block of every head, and nothing else.
LEMMA LogWrites ==
  ASSUME NEW n, n \in Nat \ {0}, NEW t, IsTrace(t), Log(t, n)
  PROVE  AllWritten(PrefillOf(t), n)
<1>0. Len(t) \in Nat /\ DOMAIN t = 1..Len(t) /\ Writes(n) \in Nat
  BY LenProperties, PrefillLines DEF IsTrace
<1>1. ASSUME NEW e \in PrefillOf(t) PROVE \E b \in 0..(BlocksOf(n) - 1) : Writing(e, b, n)
  <2>1. PICK i \in 1..Len(t) : e = t[i] /\ e.operation = "PREFILL_WRITE"
    BY <1>0, <1>1 DEF PrefillOf, Range
  <2>2. i \in 1..Writes(n)
    <3> SUFFICES ASSUME i \notin 1..Writes(n) PROVE FALSE
      OBVIOUS
    <3>1. i \in (Writes(n) + 1)..Len(t)
      BY <1>0
    <3>2. PICK l \in 0..(Layers - 1), step \in 1..Steps :
            \E r \in DecodeLines(step, l, n) : t[i] = WithId(r, i - 1)
      BY <3>1 DEF Log
    <3>3. PICK r \in DecodeLines(step, l, n) : t[i] = WithId(r, i - 1)
      BY <3>2
    <3>4. t[i].operation \in {"DECODE_READ", "TOPK_FILTER", "TOPK_FETCH"}
      BY <3>3, DecodeReads
    <3> QED BY <2>1, <3>4
  <2>3. PICK r \in WriteLines(n) : t[i] = WithId(r, i - 1)
    BY <2>2 DEF Log
  <2>4. PICK block \in AllBlocks(n) : r = WriteEvent(block)
    BY DEF WriteLines
  <2>5. PICK l \in 0..(Layers - 1) : block \in BlocksIn(l, n)
    BY DEF AllBlocks
  <2>6. PICK h \in 0..(Heads - 1), b \in 0..(BlocksOf(n) - 1) : block = BlockOf(l, h, b, n)
    BY <2>5 DEF BlocksIn
  <2>7. r \in Events
    BY <2>3, WriteIsEvent
  <2>8. Writing(t[i], b, n)
    BY <2>3, <2>4, <2>6, <2>7, WritingIs
  <2> QED BY <2>1, <2>8
<1>2. ASSUME NEW b \in 0..(BlocksOf(n) - 1) PROVE \E e \in PrefillOf(t) : Writing(e, b, n)
  <2>1. 0 \in 0..(Layers - 1) /\ 0 \in 0..(Heads - 1)
    BY TraceAssumption
  <2>2. PICK block, r : block = BlockOf(0, 0, b, n) /\ r = WriteEvent(block)
    OBVIOUS
  <2>3. block \in BlocksIn(0, n)
    BY <2>1, <2>2 DEF BlocksIn
  <2>4. block \in AllBlocks(n)
    BY <2>1, <2>3 DEF AllBlocks
  <2>5. r \in WriteLines(n)
    BY <2>2, <2>4 DEF WriteLines
  <2>6. PICK i \in 1..Writes(n) : t[i] = WithId(r, i - 1)
    BY <2>5 DEF Log
  <2>7. r \in Events
    BY <2>5, WriteIsEvent
  <2>8. Writing(t[i], b, n) /\ t[i].operation = "PREFILL_WRITE"
    BY <2>2, <2>6, <2>7, WritingIs
  <2>9. i \in 1..Len(t)
    BY <1>0 DEF Log
  <2>10. t[i] \in PrefillOf(t)
    BY <1>0, <2>8, <2>9 DEF PrefillOf, Range
  <2> QED BY <2>8, <2>10
<1> QED BY <1>1, <1>2 DEF AllWritten

\* The tokens of a block that are in the context.
Span(b, n) == (b * TokensPerBlock)..(Min({(b + 1) * TokensPerBlock, n}) - 1)

\* They are those that divide into it.
LEMMA SpanIs ==
  ASSUME NEW n, n \in Nat \ {0}, NEW b \in Nat, NEW x
  PROVE  x \in Span(b, n) <=> x \in 0..(n - 1) /\ x \div TokensPerBlock = b
<1>1. PICK T, first, last : /\ T = TokensPerBlock /\ first = b * T
                            /\ last = Min({(b + 1) * TokensPerBlock, n})
  OBVIOUS
<1>2. T \in Nat \ {0} /\ first \in Nat /\ (b + 1) * T = first + T /\ (b + 1) * T \in Int
  <2>1. T \in Nat \ {0}
    BY <1>1, GeometryAssumption
  <2>2. (b + 1) * T = b * T + T /\ b * T \in Nat
    BY <2>1
  <2> QED BY <1>1, <2>1, <2>2
<1>3. last = IF first + T <= n THEN first + T ELSE n
  BY <1>1, <1>2, MinIs
<1>4. x \in Span(b, n) <=> x \in Nat /\ first <= x /\ x < first + T /\ x < n
  BY <1>1, <1>2, <1>3 DEF Span
<1>5. ASSUME x \in Nat, first <= x, x < first + T PROVE x \div T = b
  <2>1. PICK r : r = x - first
    OBVIOUS
  <2>2. r \in 0..(T - 1) /\ x = b * T + r
    BY <1>1, <1>2, <1>5, <2>1
  <2> QED BY <1>2, <2>2, DividesInto
<1>6. ASSUME x \in Nat, x \div T = b PROVE first <= x /\ x < first + T
  <2>0. x \in Int /\ T \in Nat \ {0}
    BY <1>2, <1>6
  <2>1. x = T * b + (x % T) /\ x % T \in 0..(T - 1)
    <3>1. x = T * (x \div T) + (x % T) /\ x % T \in 0..(T - 1)
      BY <2>0, DivMod, ModRange
    <3> QED BY <1>6, <3>1
  <2>2. T * b = first
    BY <1>1, <1>2
  <2> QED BY <1>2, <1>6, <2>1, <2>2
<1> QED BY <1>1, <1>4, <1>5, <1>6

\* The tokens a query attends to, block by block.
Attended(n, blocks) == {x \in 0..(n - 1) : x \div TokensPerBlock \in blocks}

\* The blocks kept in DRAM have numbers.
LEMMA HostNumbers ==
  ASSUME NEW n, n \in Nat \ {0}
  PROVE  HostBlocks(n) \subseteq Nat /\ IsFiniteSet(HostBlocks(n))
<1>1. PICK T, B, m, k : /\ T = TokensPerBlock /\ B = BlocksOf(n) /\ m = Recent(n)
                        /\ k = (SinkTokens + TokensPerBlock - 1) \div TokensPerBlock - 1
  OBVIOUS
<1>2. T \in Nat \ {0} /\ B \in Nat \ {0} /\ m \in Nat /\ SinkTokens \in Nat
  BY <1>1, GeometryAssumption, TraceAssumption, BlocksPositive, RecentIs
<1>3. m \div T \in Nat
  BY <1>2, QuotientIs
<1>4. k \in Int
  <2>1. SinkTokens + T - 1 \in Int
    BY <1>2
  <2>2. (SinkTokens + T - 1) \div T \in Int
    BY <1>2, <2>1, DivMod
  <2> QED BY <1>1, <2>2
<1>5. HostBlocks(n) = (0..k) \cup ((m \div T)..(B - 1))
  BY <1>1 DEF HostBlocks, Recent
<1>6. IsFiniteSet(0..k) /\ IsFiniteSet((m \div T)..(B - 1))
  <2>1. 0 \in Int /\ m \div T \in Int /\ B - 1 \in Int
    BY <1>2, <1>3
  <2> QED BY <1>4, <2>1, FS_Interval
<1>7. IsFiniteSet((0..k) \cup ((m \div T)..(B - 1)))
  BY <1>6, FS_Union
<1>8. 0..k \subseteq Nat /\ (m \div T)..(B - 1) \subseteq Nat
  BY <1>2, <1>3, <1>4
<1> QED BY <1>5, <1>7, <1>8

\* A query attends to the tokens of its blocks.
LEMMA QueryAttends ==
  ASSUME NEW n, n \in Nat \ {0}, NEW top, top \subseteq Nat
  PROVE  EvaluateQuery(n, top).tokens = Attended(n, HostBlocks(n) \cup top)
<1>1. PICK active : active = HostBlocks(n) \cup top
  OBVIOUS
<1>2. active \subseteq Nat
  BY <1>1, HostNumbers
<1>3. EvaluateQuery(n, top).tokens = UNION {Span(b, n) : b \in active}
  BY <1>1 DEF EvaluateQuery, Span
<1>4. ASSUME NEW x \in UNION {Span(b, n) : b \in active} PROVE x \in Attended(n, active)
  <2>1. PICK b \in active : x \in Span(b, n)
    BY <1>4
  <2>2. x \in 0..(n - 1) /\ x \div TokensPerBlock = b
    BY <1>2, <2>1, SpanIs
  <2> QED BY <2>2 DEF Attended
<1>5. ASSUME NEW x \in Attended(n, active) PROVE x \in UNION {Span(b, n) : b \in active}
  <2>1. PICK b : b = x \div TokensPerBlock
    OBVIOUS
  <2>2. x \in 0..(n - 1) /\ b \in active
    BY <1>5, <2>1 DEF Attended
  <2>3. x \in Span(b, n)
    BY <1>2, <2>1, <2>2, SpanIs
  <2> QED BY <2>2, <2>3
<1> QED BY <1>1, <1>3, <1>4, <1>5

\* They are those of the lines that wrote these blocks.
LEMMA QueryWrites ==
  ASSUME NEW n, n \in Nat \ {0}, NEW writes, AllWritten(writes, n),
         NEW top, top \subseteq 0..(BlocksOf(n) - 1),
         NEW used, used = {e \in writes : \/ e.tier = "DRAM"
                                          \/ e.token_start \div TokensPerBlock \in top}
  PROVE  Attended(n, HostBlocks(n) \cup top)
           = UNION {e.token_start..(Min({e.token_end, n}) - 1) : e \in used}
<1>1. PICK U : U = UNION {e.token_start..(Min({e.token_end, n}) - 1) : e \in used}
  OBVIOUS
<1>2. BlocksOf(n) \in Nat
  BY BlocksPositive
<1>3. ASSUME NEW b \in 0..(BlocksOf(n) - 1), NEW e \in writes, Writing(e, b, n)
      PROVE  /\ e.token_start..(Min({e.token_end, n}) - 1) = Span(b, n)
             /\ e \in used <=> b \in HostBlocks(n) \cup top
  <2>1. TokensPerBlock \in Nat \ {0} /\ b \in Int /\ 0 \in 0..(TokensPerBlock - 1)
    BY <1>2, GeometryAssumption
  <2>2. (b + 1) * TokensPerBlock = b * TokensPerBlock + TokensPerBlock
    BY <2>1
  <2>3. (b * TokensPerBlock + 0) \div TokensPerBlock = b
    BY <2>1, DividesInto
  <2>4. b * TokensPerBlock + 0 = b * TokensPerBlock
    BY <2>1
  <2>5. e.token_start \div TokensPerBlock = b
    BY <1>3, <2>3, <2>4 DEF Writing
  <2>6. e.tier = "DRAM" <=> b \in HostBlocks(n)
    BY <1>3, HostIs DEF Writing
  <2>7. e.token_start..(Min({e.token_end, n}) - 1) = Span(b, n)
    BY <1>3, <2>2 DEF Writing, Span
  <2> QED BY <1>3, <2>5, <2>6, <2>7
<1>4. ASSUME NEW x \in Attended(n, HostBlocks(n) \cup top) PROVE x \in U
  <2>1. PICK b : b = x \div TokensPerBlock
    OBVIOUS
  <2>2. x \in 0..(n - 1) /\ b \in HostBlocks(n) \cup top
    BY <1>4, <2>1 DEF Attended
  <2>3. b \in 0..(BlocksOf(n) - 1)
    BY <2>1, <2>2, BlockBelow
  <2>4. PICK e \in writes : Writing(e, b, n)
    BY <2>3 DEF AllWritten
  <2>5. b \in Nat
    BY <1>2, <2>3
  <2>6. x \in Span(b, n)
    BY <2>1, <2>2, <2>5, SpanIs
  <2>7. e \in used /\ x \in e.token_start..(Min({e.token_end, n}) - 1)
    BY <1>3, <2>2, <2>3, <2>4, <2>6
  <2> QED BY <1>1, <2>7
<1>5. ASSUME NEW x \in U PROVE x \in Attended(n, HostBlocks(n) \cup top)
  <2>1. PICK e \in used : x \in e.token_start..(Min({e.token_end, n}) - 1)
    BY <1>1, <1>5
  <2>2. e \in writes
    OBVIOUS
  <2>3. PICK b \in 0..(BlocksOf(n) - 1) : Writing(e, b, n)
    BY <2>2 DEF AllWritten
  <2>4. x \in Span(b, n) /\ b \in HostBlocks(n) \cup top
    BY <1>3, <2>1, <2>2, <2>3
  <2>5. b \in Nat
    BY <1>2, <2>3
  <2>6. x \in 0..(n - 1) /\ x \div TokensPerBlock = b
    BY <2>4, <2>5, SpanIs
  <2> QED BY <2>4, <2>6 DEF Attended
<1> QED BY <1>1, <1>4, <1>5

\* The blocks of the context that are not in DRAM.
LEMMA SsdBlocksAre ==
  ASSUME NEW n, n \in Nat \ {0}
  PROVE  /\ SsdCandidates(n) \subseteq 0..(BlocksOf(n) - 1) /\ IsFiniteSet(SsdCandidates(n))
         /\ Cardinality(SsdCandidates(n)) \in Nat
<1>1. 0 \in Int /\ BlocksOf(n) - 1 \in Int
  BY BlocksPositive
<1>2. IsFiniteSet(0..(BlocksOf(n) - 1))
  BY <1>1, FS_Interval
<1>3. SsdCandidates(n) \subseteq 0..(BlocksOf(n) - 1)
  BY DEF SsdCandidates
<1>4. IsFiniteSet(SsdCandidates(n))
  BY <1>2, <1>3, FS_Subset
<1> QED BY <1>3, <1>4, FS_CardinalityType

\* A budget of 100 % is all of them.
LEMMA WholeBudget ==
  ASSUME NEW number \in Nat
  PROVE  QueryCount(number, 100) = number
<1>1. CASE number = 0
  BY <1>1 DEF QueryCount
<1>2. CASE number # 0
  <2>1. (number * 100 + 99) \div 100 = number
    BY DividesInto
  <2>2. number \in {1, number} /\ {1, number} \subseteq Nat /\ \A x \in {1, number} : x <= number
    BY <1>2
  <2>3. Max({1, number}) = number
    BY <2>2, MaxIs
  <2> QED BY <1>2, <2>1, <2>3 DEF QueryCount
<1> QED BY <1>1, <1>2

\* Then a query attends to every token.
LEMMA WholeContext ==
  ASSUME NEW n, n \in Nat \ {0}
  PROVE  Attended(n, HostBlocks(n) \cup SsdCandidates(n)) = 0..(n - 1)
<1>1. ASSUME NEW x \in 0..(n - 1) PROVE x \div TokensPerBlock \in HostBlocks(n) \cup SsdCandidates(n)
  <2>1. x \div TokensPerBlock \in 0..(BlocksOf(n) - 1)
    BY BlockBelow
  <2> QED BY <2>1 DEF SsdCandidates
<1> QED BY <1>1 DEF Attended

\* A block holds no more tokens than it has room for.
LEMMA AttendedBound ==
  ASSUME NEW n, n \in Nat \ {0}, NEW blocks, IsFiniteSet(blocks)
  PROVE  /\ Cardinality(Attended(n, blocks)) \in Nat /\ Cardinality(blocks) \in Nat
         /\ Cardinality(Attended(n, blocks)) <= Cardinality(blocks) * TokensPerBlock
<1>1. PICK T, A, C : T = TokensPerBlock /\ A = Attended(n, blocks) /\ C = blocks \X (0..(T - 1))
  OBVIOUS
<1>2. T \in Nat \ {0}
  BY <1>1, GeometryAssumption
<1>3. IsFiniteSet(0..(T - 1)) /\ Cardinality(0..(T - 1)) = T
  <2>1. 0 \in Int /\ T - 1 \in Int
    BY <1>2
  <2>2. /\ IsFiniteSet(0..(T - 1))
        /\ Cardinality(0..(T - 1)) = IF 0 > T - 1 THEN 0 ELSE T - 1 - 0 + 1
    BY <2>1, FS_Interval
  <2> QED BY <1>2, <2>2
<1>4. IsFiniteSet(C) /\ Cardinality(C) = Cardinality(blocks) * T
  BY <1>1, <1>3, FS_Product
<1>5. PICK f : f = [x \in A |-> <<x \div T, x % T>>]
  OBVIOUS
<1>6. A \subseteq Int /\ \A x \in A : x \div T \in blocks
  BY <1>1 DEF Attended
<1>7. f \in [A -> C]
  <2>1. \A x \in A : x % T \in 0..(T - 1)
    BY <1>2, <1>6, ModRange
  <2> QED BY <1>1, <1>5, <1>6, <2>1
<1>8. ASSUME NEW x \in A, NEW y \in A, f[x] = f[y] PROVE x = y
  <2>1. x \div T = y \div T /\ x % T = y % T
    BY <1>5, <1>8
  <2>2. x = T * (x \div T) + (x % T) /\ y = T * (y \div T) + (y % T)
    BY <1>2, <1>6, DivMod
  <2> QED BY <2>1, <2>2
<1>9. f \in Injection(A, C)
  BY <1>5, <1>7, <1>8 DEF Injection, IsInjective
<1>10. IsFiniteSet(A) /\ Cardinality(A) <= Cardinality(C)
  BY <1>4, <1>9, FS_Injection
<1>11. Cardinality(A) \in Nat /\ Cardinality(blocks) \in Nat
  BY <1>10, FS_CardinalityType
<1> QED BY <1>1, <1>4, <1>10, <1>11

\* What a query moves holds the tokens it attends to.
LEMMA QueryMoves ==
  ASSUME NEW n, n \in Nat \ {0}, NEW top, top \subseteq SsdCandidates(n),
         NEW query, query = EvaluateQuery(n, top)
  PROVE  Cardinality(query.tokens) * Heads * BlockPages <= query.pages * TokensPerBlock
<1>1. PICK H, S, T, K : /\ H = HostBlocks(n) /\ S = top /\ T = TokensPerBlock /\ K = Heads
  OBVIOUS
<1>2. IsFiniteSet(H) /\ IsFiniteSet(S) /\ S \subseteq Nat /\ T \in Nat \ {0} /\ K \in Nat \ {0}
  <2>0. SsdCandidates(n) \subseteq 0..(BlocksOf(n) - 1) /\ IsFiniteSet(SsdCandidates(n))
    BY SsdBlocksAre
  <2>1. IsFiniteSet(top) /\ top \subseteq Nat
    <3>1. IsFiniteSet(top)
      BY <2>0, FS_Subset
    <3>2. 0..(BlocksOf(n) - 1) \subseteq Nat
      OBVIOUS
    <3> QED BY <2>0, <3>1, <3>2
  <2> QED BY <1>1, <2>1, HostNumbers, GeometryAssumption, TraceAssumption
<1>3. PICK a, c, d, u, v : /\ a = Cardinality(query.tokens) /\ c = Cardinality(H)
                           /\ d = Cardinality(S) /\ u = Cardinality(H \cup S)
                           /\ v = Cardinality(H \cap S)
  OBVIOUS
<1>4. IsFiniteSet(H \cup S) /\ IsFiniteSet(H \cap S) /\ u = c + d - v
  BY <1>2, <1>3, FS_Union, FS_Intersection
<1>5. c \in Nat /\ d \in Nat /\ u \in Nat /\ v \in Nat
  BY <1>2, <1>3, <1>4, FS_CardinalityType
<1>6. query.tokens = Attended(n, H \cup S)
  BY <1>1, <1>2, QueryAttends
<1>7. a \in Nat /\ a <= u * T
  BY <1>1, <1>3, <1>4, <1>6, AttendedBound
<1>8. PICK m : m = c + d
  OBVIOUS
<1>9. m \in Nat /\ u <= m
  BY <1>4, <1>5, <1>8
<1>10. a <= m * T
  <2>1. u * T <= m * T
    BY <1>2, <1>5, <1>9, MultiplesGrow
  <2>2. u * T \in Nat /\ m * T \in Nat
    BY <1>2, <1>5, <1>9
  <2> QED BY <1>7, <2>1, <2>2
<1>11. a * K <= (m * T) * K
  <2>1. m * T \in Nat
    BY <1>2, <1>9
  <2> QED BY <1>2, <1>7, <1>10, <2>1, MultiplesGrow
<1>12. (a * K) * 2 <= ((m * T) * K) * 2
  <2>1. a * K \in Nat /\ (m * T) * K \in Nat
    <3>1. m * T \in Nat
      BY <1>2, <1>9
    <3> QED BY <1>2, <1>7, <3>1, ProductIs
  <2> QED BY <1>11, <2>1
<1>13. ((m * T) * K) * 2 = ((m * K) * 2) * T
  <2>1. \A x, y, z \in Nat : ((x * y) * z) * 2 = ((x * z) * 2) * y
    BY Z3
  <2> QED BY <1>2, <1>9, <2>1
<1>14. query.pages = (m * K) * 2
  BY <1>1, <1>3, <1>8 DEF EvaluateQuery, BlockPages
<1> QED BY <1>1, <1>3, <1>12, <1>13, <1>14 DEF BlockPages

\* What the study says of a query.
Agreed(n, writes, percent, top) ==
  LET query == EvaluateQuery(n, top)
      used  == {e \in writes : \/ e.tier = "DRAM"
                               \/ e.token_start \div TokensPerBlock \in top}
  IN  /\ query.tokens = UNION {e.token_start..(Min({e.token_end, n}) - 1) : e \in used}
      /\ percent = 100 => query.tokens = 0..(n - 1)
      /\ Cardinality(query.tokens) * Heads * BlockPages <= query.pages * TokensPerBlock

\* It is so.
LEMMA QueryAgrees ==
  ASSUME NEW n, n \in Nat \ {0}, NEW writes, AllWritten(writes, n), NEW percent,
         NEW number, number = Cardinality(SsdCandidates(n)), NEW top,
         top \in kSubset(QueryCount(number, percent), SsdCandidates(n))
  PROVE  Agreed(n, writes, percent, top)
<1>1. PICK query, used : /\ query = EvaluateQuery(n, top)
                         /\ used = {e \in writes : \/ e.tier = "DRAM"
                                                   \/ e.token_start \div TokensPerBlock \in top}
  OBVIOUS
<1>2. top \subseteq SsdCandidates(n) /\ Cardinality(top) = QueryCount(number, percent)
  BY DEF kSubset
<1>3. /\ SsdCandidates(n) \subseteq 0..(BlocksOf(n) - 1) /\ IsFiniteSet(SsdCandidates(n))
      /\ number \in Nat
  BY SsdBlocksAre
<1>4. top \subseteq 0..(BlocksOf(n) - 1) /\ top \subseteq Nat
  <2>1. 0..(BlocksOf(n) - 1) \subseteq Nat
    OBVIOUS
  <2> QED BY <1>2, <1>3, <2>1
<1>5. query.tokens = Attended(n, HostBlocks(n) \cup top)
  BY <1>1, <1>4, QueryAttends
<1>6. Attended(n, HostBlocks(n) \cup top)
        = UNION {e.token_start..(Min({e.token_end, n}) - 1) : e \in used}
  BY <1>1, <1>4, QueryWrites
<1>7. ASSUME percent = 100 PROVE query.tokens = 0..(n - 1)
  <2>1. Cardinality(top) = number
    BY <1>2, <1>3, <1>7, WholeBudget
  <2>2. top = SsdCandidates(n)
    BY <1>2, <1>3, <2>1, FS_Subset
  <2> QED BY <1>5, <2>2, WholeContext
<1>8. Cardinality(query.tokens) * Heads * BlockPages <= query.pages * TokensPerBlock
  BY <1>1, <1>2, QueryMoves
<1> QED BY <1>1, <1>5, <1>6, <1>7, <1>8 DEF Agreed

\* The blocks with the sinks and the window stay in DRAM, for the writer that judges a block by
\* its tokens (block_adapter.py:118-128) and for the quality study that judges it by its number
\* (topk_evaluator.py:88-92) alike; a query of the study attends to the tokens of these blocks
\* and of those that win, to every token at a budget of 100 %, and moves no fewer pages than
\* hold them (topk_evaluator.py:138-196).
THEOREM TiersAlwaysAgree == Spec => []TiersAgree
<1>1. TraceInv /\ LogInv => TiersAgree
  <2> SUFFICES ASSUME TraceInv, LogInv, Logged PROVE TiersAgree
    BY DEF TiersAgree
  <2>1. PICK n, t : n = tokens /\ t = trace
    OBVIOUS
  <2>2. n \in Nat \ {0} /\ IsTrace(t) /\ Log(t, n)
    BY <2>1 DEF TraceInv, LogInv, Logs, Logged
  <2>3. PICK writes, number : writes = PrefillOf(t) /\ number = Cardinality(SsdCandidates(n))
    OBVIOUS
  <2>4. AllWritten(writes, n)
    BY <2>2, <2>3, LogWrites
  <2>5. ASSUME NEW e \in writes
        PROVE  e.tier = "DRAM" <=> e.token_start \div TokensPerBlock \in HostBlocks(n)
    <3>1. PICK b \in 0..(BlocksOf(n) - 1) : Writing(e, b, n)
      BY <2>4 DEF AllWritten
    <3>2. TokensPerBlock \in Nat \ {0} /\ b \in Int /\ 0 \in 0..(TokensPerBlock - 1)
      BY <2>2, GeometryAssumption, BlocksPositive
    <3>3. (b * TokensPerBlock + 0) \div TokensPerBlock = b
      BY <3>2, DividesInto
    <3>4. b * TokensPerBlock + 0 = b * TokensPerBlock
      BY <3>2
    <3>5. e.token_start \div TokensPerBlock = b
      BY <3>1, <3>3, <3>4 DEF Writing
    <3>6. e.tier = "DRAM" <=> b \in HostBlocks(n)
      BY <2>2, <3>1, HostIs DEF Writing
    <3> QED BY <3>5, <3>6
  <2>6. \A percent \in {TopkPercent, 100} :
          \A top \in kSubset(QueryCount(number, percent), SsdCandidates(n)) :
            Agreed(n, writes, percent, top)
    BY <2>2, <2>3, <2>4, QueryAgrees
  <2>7. \A e \in PrefillOf(trace) :
          e.tier = "DRAM" <=> e.token_start \div TokensPerBlock \in HostBlocks(tokens)
    BY <2>1, <2>3, <2>5
  <2>8. \A percent \in {TopkPercent, 100} :
          \A top \in kSubset(QueryCount(Cardinality(SsdCandidates(tokens)), percent),
                             SsdCandidates(tokens)) :
            Agreed(tokens, PrefillOf(trace), percent, top)
    BY <2>1, <2>3, <2>6
  <2> QED BY <2>7, <2>8 DEF TiersAgree, Agreed, PrefillOf
<1> QED BY <1>1, LogInvAlways, PTL

-----------------------------------------------------------------------------
(***************************************************************************)
(* What the validation script says of a trace of P1, and more.             *)
(***************************************************************************)

\* A numbered line has the keys of the line, and both readers find them.
SameLine(e, r, id) ==
  /\ e.event_id = id /\ e.step = r.step /\ e.layer_id = r.layer_id /\ e.head_id = r.head_id
  /\ e.operation = r.operation /\ e.block_id = r.block_id /\ e.sub_page = r.sub_page
  /\ e.byte_size = r.byte_size /\ e.tier = r.tier
  /\ e.candidate_blocks = r.candidate_blocks /\ e.selected_blocks = r.selected_blocks

\* So it is.
LEMMA NumberedLine ==
  ASSUME NEW r, r \in Events, NEW e, NEW id, e = WithId(r, id)
  PROVE  SameLine(e, r, id)
<1>1. DOMAIN r = {"step", "layer_id", "head_id", "operation", "block_id", "token_start",
                  "token_end", "sub_page", "byte_size", "tier", "candidate_blocks",
                  "selected_blocks"}
  BY DEF Events
<1>2. \A key \in DOMAIN r : e[key] = r[key]
  <2> TAKE key \in DOMAIN r
  <2>1. key # "event_id"
    BY <1>1
  <2> QED BY <2>1, NumberedKey
<1>3. /\ e["step"] = r["step"] /\ e["layer_id"] = r["layer_id"] /\ e["head_id"] = r["head_id"]
      /\ e["operation"] = r["operation"] /\ e["block_id"] = r["block_id"]
      /\ e["sub_page"] = r["sub_page"] /\ e["byte_size"] = r["byte_size"]
      /\ e["tier"] = r["tier"] /\ e["candidate_blocks"] = r["candidate_blocks"]
      /\ e["selected_blocks"] = r["selected_blocks"]
  BY <1>1, <1>2
<1>4. e["event_id"] = id
  BY DEF WithId
<1> QED BY <1>3, <1>4 DEF SameLine

\* What P3's reader makes of it.
LEMMA ReadBack ==
  ASSUME NEW r, r \in Events, NEW e, NEW id, e = WithId(r, id)
  PROVE  /\ FromDict(e)["event_id"] = e["event_id"] /\ FromDict(e)["step"] = e["step"]
         /\ FromDict(e)["operation"] = e["operation"]
         /\ FromDict(e)["byte_size"] = e["byte_size"]
         /\ ValidatedRecord(e).operation = e.operation
<1>1. DOMAIN e = {"event_id"} \cup DOMAIN r
  BY NumberedKeys
<1>2. {"step", "byte_size"} \subseteq DOMAIN r
  BY DEF Events
<1>3. Has(e, "event_id") /\ Has(e, "step") /\ Has(e, "byte_size")
  BY <1>1, <1>2 DEF Has
<1> QED BY <1>3 DEF FromDict, ValidatedRecord, Get

\* What the script asks of a line, but for its number.
Scripted(e) ==
  CASE e.operation = "PREFILL_WRITE" ->
         /\ e.step = 0 /\ e.sub_page = "BOTH" /\ e.byte_size = BlockPages
         /\ e.head_id \in 0..(Heads - 1)
         /\ e.selected_blocks = <<e.block_id>>
    [] e.operation = "DECODE_READ" ->
         /\ e.step >= 1 /\ e.tier = "DRAM"
         /\ e.sub_page = "BOTH" /\ e.byte_size = BlockPages
    [] e.operation = "TOPK_FILTER" ->
         /\ e.step >= 1 /\ e.tier = "SSD" /\ e.sub_page = "KEY"
         /\ e.candidate_blocks # <<>> /\ e.selected_blocks # <<>>
         /\ e.byte_size = Len(e.candidate_blocks) * KeyPages
    [] e.operation = "TOPK_FETCH" ->
         /\ e.step >= 1 /\ e.tier = "SSD" /\ e.sub_page = "VALUE"
         /\ e.byte_size = KeyPages
         /\ e.block_id \in Range(e.selected_blocks)
    [] OTHER -> FALSE

\* Only candidates are selected, or the block itself.
Chosenly(e) == Range(e.selected_blocks) \subseteq Range(e.candidate_blocks) \cup {e.block_id}

\* The one in a list of one.
LEMMA RangeOfOne == ASSUME NEW b PROVE Range(<<b>>) = {b}
BY DEF Range

\* The lines of the prefill are what the script asks for.
LEMMA WriteScripted ==
  ASSUME NEW n, n \in Nat \ {0}, NEW r, r \in WriteLines(n), NEW e, NEW id, e = WithId(r, id)
  PROVE  Scripted(e) /\ Chosenly(e) /\ e.step = 0
<1>1. PICK b \in AllBlocks(n) : r = WriteEvent(b)
  BY DEF WriteLines
<1>2. PICK l \in 0..(Layers - 1) : b \in BlocksIn(l, n)
  BY DEF AllBlocks
<1>3. b.kv_head_start \in 0..(Heads - 1)
  <2>1. PICK h \in 0..(Heads - 1), k \in 0..(BlocksOf(n) - 1) : b = BlockOf(l, h, k, n)
    BY <1>2 DEF BlocksIn
  <2>2. b.kv_head_start = h
    BY <2>1 DEF BlockOf
  <2> QED BY <2>2
<1>4. r \in Events
  BY WriteIsEvent
<1>5. SameLine(e, r, id)
  BY <1>4, NumberedLine
<1>6. /\ r.operation = "PREFILL_WRITE" /\ r.step = 0 /\ r.sub_page = "BOTH"
      /\ r.byte_size = BlockPages /\ r.head_id = b.kv_head_start /\ r.block_id = b.block_id
      /\ r.selected_blocks = <<b.block_id>> /\ r.candidate_blocks = <<>>
  BY <1>1 DEF WriteEvent, BlockEvent
<1>7. Scripted(e)
  BY <1>3, <1>5, <1>6 DEF Scripted, SameLine
<1>8. Chosenly(e)
  BY <1>5, <1>6, RangeOfOne DEF Chosenly, SameLine
<1> QED BY <1>5, <1>6, <1>7, <1>8 DEF SameLine

\* So are those of decoding; and each uses a block of its layer that was written, in its tier.
Uses(e, b) == e.block_id = b.block_id /\ e.layer_id = b.layer_id /\ e.tier = b.storage_tier
Scans(e, l, n) == e.operation = "TOPK_FILTER" => /\ Range(e.candidate_blocks) = Range(Cands(l, n))
                                                 /\ e.layer_id = l

\* What the lines of decoding have in common.
LEMMA DecodeScripted ==
  ASSUME NEW n, n \in Nat \ {0}, NEW l \in 0..(Layers - 1), NEW step \in 1..Steps,
         NEW r, r \in DecodeLines(step, l, n), NEW e, NEW id, e = WithId(r, id)
  PROVE  /\ Scripted(e) /\ Chosenly(e) /\ Scans(e, l, n)
         /\ \E b \in BlocksIn(l, n) : Uses(e, b)
<1>0. l \in Nat /\ step >= 1
  BY TraceAssumption, PipelineAssumption
<1>1. r \in Events /\ DecodeLine(r, step, l, n)
  BY DEF DecodeLines
<1>2. SameLine(e, r, id)
  BY <1>1, NumberedLine
<1>3. ASSUME NEW b \in BlocksIn(l, n) PROVE b.layer_id = l
  <2>1. PICK h \in 0..(Heads - 1), k \in 0..(BlocksOf(n) - 1) : b = BlockOf(l, h, k, n)
    BY DEF BlocksIn
  <2> QED BY <2>1 DEF BlockOf
<1>4. CASE ReadLine(r, step, l, n)
  <2>1. PICK b \in On(l, n, "DRAM") : r = ReadEvent(b, step)
    BY <1>4 DEF ReadLine
  <2>2. b \in BlocksIn(l, n) /\ b.storage_tier = "DRAM"
    BY DEF On
  <2>3. /\ r.operation = "DECODE_READ" /\ r.step = step /\ r.sub_page = "BOTH"
        /\ r.byte_size = BlockPages /\ r.tier = b.storage_tier /\ r.block_id = b.block_id
        /\ r.layer_id = b.layer_id
        /\ r.selected_blocks = <<b.block_id>> /\ r.candidate_blocks = <<>>
    BY <2>1 DEF ReadEvent, BlockEvent
  <2>4. Scripted(e)
    BY <1>0, <1>2, <2>2, <2>3 DEF Scripted, SameLine
  <2>5. Chosenly(e)
    BY <1>2, <2>3, RangeOfOne DEF Chosenly, SameLine
  <2>6. Scans(e, l, n) /\ Uses(e, b)
    BY <1>2, <2>3 DEF Scans, Uses, SameLine
  <2> QED BY <2>2, <2>4, <2>5, <2>6
<1>5. CASE ScanLine(r, step, l, n)
  <2>1. PICK w : Won(l, n, w) /\ r = FilterEvent(l, step, Cands(l, n), w)
    BY <1>5 DEF ScanLine
  <2>2. PICK c : c = Cands(l, n)
    OBVIOUS
  <2>3. /\ r.operation = "TOPK_FILTER" /\ r.step = step /\ r.sub_page = "KEY"
        /\ r.byte_size = Len(c) * KeyPages /\ r.tier = "SSD" /\ r.block_id = c[1]
        /\ r.layer_id = l /\ r.selected_blocks = w /\ r.candidate_blocks = c
    BY <2>1, <2>2 DEF FilterEvent
  <2>4. c # <<>> /\ w # <<>> /\ Range(w) \subseteq Range(c)
    BY <2>1, <2>2 DEF Won, IdLists
  <2>5. Range(c) = {b.block_id : b \in On(l, n, "SSD")} /\ c[1] \in Range(c)
    <3>1. Range(c) = {b.block_id : b \in On(l, n, "SSD")}
      BY <1>0, <2>2, CandsAre
    <3>2. c \in Seq(Nat)
      BY <1>1, <2>3 DEF Events
    <3>3. 1 \in 1..Len(c) /\ DOMAIN c = 1..Len(c)
      BY <2>4, <3>2, EmptySeq, LenProperties
    <3> QED BY <3>1, <3>3 DEF Range
  <2>6. PICK b \in On(l, n, "SSD") : c[1] = b.block_id
    BY <2>5
  <2>7. b \in BlocksIn(l, n) /\ b.storage_tier = "SSD" /\ b.layer_id = l
    BY <1>3 DEF On
  <2>8. Scripted(e)
    BY <1>0, <1>2, <2>3, <2>4 DEF Scripted, SameLine
  <2>9. Chosenly(e)
    BY <1>2, <2>3, <2>4 DEF Chosenly, SameLine
  <2>10. Scans(e, l, n) /\ Uses(e, b)
    BY <1>2, <2>2, <2>3, <2>6, <2>7 DEF Scans, Uses, SameLine
  <2> QED BY <2>7, <2>8, <2>9, <2>10
<1>6. CASE FetchLine(r, step, l, n)
  <2>1. PICK w, b : /\ Won(l, n, w) /\ b \in On(l, n, "SSD") /\ b.block_id \in Range(w)
                    /\ r = FetchEvent(b, step, l, n, w)
    BY <1>6 DEF FetchLine
  <2>2. b \in BlocksIn(l, n) /\ b.storage_tier = "SSD"
    BY <2>1 DEF On
  <2>3. /\ r.operation = "TOPK_FETCH" /\ r.step = step /\ r.sub_page = "VALUE"
        /\ r.byte_size = KeyPages /\ r.tier = b.storage_tier /\ r.block_id = b.block_id
        /\ r.layer_id = b.layer_id
        /\ r.selected_blocks = w /\ r.candidate_blocks = Cands(l, n)
    BY <2>1 DEF FetchEvent, BlockEvent
  <2>4. Range(w) \subseteq Range(Cands(l, n))
    BY <2>1 DEF Won
  <2>5. Scripted(e)
    BY <1>0, <1>2, <2>1, <2>2, <2>3 DEF Scripted, SameLine
  <2>6. Chosenly(e)
    BY <1>2, <2>3, <2>4 DEF Chosenly, SameLine
  <2>7. Scans(e, l, n) /\ Uses(e, b)
    BY <1>2, <2>3 DEF Scans, Uses, SameLine
  <2> QED BY <2>2, <2>5, <2>6, <2>7
<1> QED BY <1>1, <1>4, <1>5, <1>6 DEF DecodeLine

\* A block of a layer is written by a line of the prefill, which has its id and tier.
LEMMA WrittenBefore ==
  ASSUME NEW n, n \in Nat \ {0}, NEW t, Log(t, n), NEW l \in 0..(Layers - 1),
         NEW b, b \in BlocksIn(l, n)
  PROVE  \E w \in 1..Writes(n) : t[w].operation = "PREFILL_WRITE" /\ Uses(t[w], b)
<1>1. PICK r : r = WriteEvent(b)
  OBVIOUS
<1>2. b \in AllBlocks(n)
  BY DEF AllBlocks
<1>3. r \in WriteLines(n)
  BY <1>1, <1>2 DEF WriteLines
<1>4. PICK w \in 1..Writes(n) : t[w] = WithId(r, w - 1)
  BY <1>3 DEF Log
<1>5. r \in Events
  BY <1>3, WriteIsEvent
<1>6. SameLine(t[w], r, w - 1)
  BY <1>4, <1>5, NumberedLine
<1>7. /\ r.operation = "PREFILL_WRITE" /\ r.block_id = b.block_id /\ r.layer_id = b.layer_id
      /\ r.tier = b.storage_tier
  BY <1>1 DEF WriteEvent, BlockEvent
<1>8. t[w].operation = "PREFILL_WRITE" /\ Uses(t[w], b)
  BY <1>6, <1>7 DEF SameLine, Uses
<1> QED BY <1>8

\* And each of these lines writes a block of its layer.
LEMMA WritesBlock ==
  ASSUME NEW n, n \in Nat \ {0}, NEW t, Log(t, n), NEW w \in 1..Writes(n)
  PROVE  \E l \in 0..(Layers - 1) : t[w].layer_id = l /\ \E b \in BlocksIn(l, n) : Uses(t[w], b)
<1>1. PICK r \in WriteLines(n) : t[w] = WithId(r, w - 1)
  BY DEF Log
<1>2. PICK b \in AllBlocks(n) : r = WriteEvent(b)
  BY DEF WriteLines
<1>3. PICK l \in 0..(Layers - 1) : b \in BlocksIn(l, n)
  BY DEF AllBlocks
<1>4. PICK h \in 0..(Heads - 1), k \in 0..(BlocksOf(n) - 1) : b = BlockOf(l, h, k, n)
  BY <1>3 DEF BlocksIn
<1>5. b.layer_id = l
  BY <1>4 DEF BlockOf
<1>6. r \in Events
  BY WriteIsEvent
<1>7. SameLine(t[w], r, w - 1)
  BY <1>1, <1>6, NumberedLine
<1>8. r.block_id = b.block_id /\ r.layer_id = b.layer_id /\ r.tier = b.storage_tier
  BY <1>2 DEF WriteEvent, BlockEvent
<1>9. t[w].layer_id = l /\ Uses(t[w], b)
  BY <1>5, <1>7, <1>8 DEF SameLine, Uses
<1> QED BY <1>3, <1>9

\* A line is one of the prefill or one of decoding.
LEMMA LineIs ==
  ASSUME NEW n, n \in Nat \ {0}, NEW t, IsTrace(t), Log(t, n), NEW i \in 1..Len(t)
  PROVE  \/ i \in 1..Writes(n) /\ \E r \in WriteLines(n) : t[i] = WithId(r, i - 1)
         \/ /\ Writes(n) < i
            /\ \E l \in 0..(Layers - 1), step \in 1..Steps : \E r \in DecodeLines(step, l, n) :
                 t[i] = WithId(r, i - 1)
<1>1. Len(t) \in Nat /\ Writes(n) \in Nat
  BY LenProperties, PrefillLines DEF IsTrace
<1>2. CASE i <= Writes(n)
  <2>1. i \in 1..Writes(n)
    BY <1>1, <1>2
  <2> QED BY <2>1 DEF Log
<1>3. CASE ~(i <= Writes(n))
  <2>1. i \in (Writes(n) + 1)..Len(t) /\ Writes(n) < i
    BY <1>1, <1>3
  <2> QED BY <2>1 DEF Log
<1> QED BY <1>2, <1>3

\* The operation says which.
LEMMA OperationIs ==
  ASSUME NEW n, n \in Nat \ {0}, NEW t, IsTrace(t), Log(t, n), NEW i \in 1..Len(t)
  PROVE  /\ t[i].operation = "PREFILL_WRITE" <=> i <= Writes(n)
         /\ t[i].operation \in {"PREFILL_WRITE", "DECODE_READ", "TOPK_FILTER", "TOPK_FETCH"}
<1>1. Writes(n) \in Nat /\ i \in Nat
  BY LenProperties, PrefillLines DEF IsTrace
<1>2. CASE i \in 1..Writes(n) /\ \E r \in WriteLines(n) : t[i] = WithId(r, i - 1)
  <2>1. PICK r \in WriteLines(n) : t[i] = WithId(r, i - 1)
    BY <1>2
  <2>2. r \in Events
    BY WriteIsEvent
  <2>3. t[i].operation = r.operation
    BY <2>1, <2>2, NumberedLine DEF SameLine
  <2>4. r.operation = "PREFILL_WRITE"
    BY DEF WriteLines, WriteEvent, BlockEvent
  <2> QED BY <1>1, <1>2, <2>3, <2>4
<1>3. CASE /\ Writes(n) < i
           /\ \E l \in 0..(Layers - 1), step \in 1..Steps : \E r \in DecodeLines(step, l, n) :
                t[i] = WithId(r, i - 1)
  <2>1. PICK l \in 0..(Layers - 1), step \in 1..Steps :
           \E r \in DecodeLines(step, l, n) : t[i] = WithId(r, i - 1)
    BY <1>3
  <2>2. t[i].operation \in {"DECODE_READ", "TOPK_FILTER", "TOPK_FETCH"}
    BY <2>1, DecodeReads
  <2> QED BY <1>1, <1>3, <2>2
<1> QED BY <1>2, <1>3, LineIs

\* What the validation says of a line and of those before it.
LineValid(t, i) ==
  /\ t[i].event_id = i - 1 /\ Scripted(t[i]) /\ Chosenly(t[i]) /\ t[i].step \in 0..Steps
  /\ t[i].operation # "PREFILL_WRITE" =>
       \E w \in 1..(i - 1) : /\ t[w].operation = "PREFILL_WRITE"
                             /\ t[w].block_id = t[i].block_id
                             /\ t[w].layer_id = t[i].layer_id
                             /\ t[w].tier = t[i].tier
  /\ t[i].operation = "TOPK_FILTER" =>
       Range(t[i].candidate_blocks) =
         {t[w].block_id : w \in {x \in 1..(i - 1) :
            /\ t[x].operation = "PREFILL_WRITE"
            /\ t[x].layer_id = t[i].layer_id /\ t[x].tier = "SSD"}}
  /\ \A key \in {"event_id", "step", "operation", "byte_size"} : FromDict(t[i])[key] = t[i][key]
  /\ ValidatedRecord(t[i]).operation = t[i].operation

\* The candidates of a scan are the blocks on the SSD that its layer was written to.
LEMMA ScanCovers ==
  ASSUME NEW n, n \in Nat \ {0}, NEW t, IsTrace(t), Log(t, n), NEW i \in 1..Len(t),
         Writes(n) < i, NEW l \in 0..(Layers - 1)
  PROVE  Range(Cands(l, n)) =
           {t[w].block_id : w \in {x \in 1..(i - 1) :
              /\ t[x].operation = "PREFILL_WRITE" /\ t[x].layer_id = l /\ t[x].tier = "SSD"}}
<1>0. l \in Nat /\ i \in Nat /\ Writes(n) \in Nat /\ Len(t) \in Nat
  BY LenProperties, PrefillLines, TraceAssumption, SMTT(30) DEF IsTrace
<1>1. Range(Cands(l, n)) = {b.block_id : b \in On(l, n, "SSD")}
  BY <1>0, CandsAre
<1>2. PICK W : W = {x \in 1..(i - 1) : /\ t[x].operation = "PREFILL_WRITE"
                                       /\ t[x].layer_id = l /\ t[x].tier = "SSD"}
  OBVIOUS
<1>3. ASSUME NEW b \in On(l, n, "SSD") PROVE \E w \in W : b.block_id = t[w].block_id
  <2>1. b \in BlocksIn(l, n) /\ b.storage_tier = "SSD"
    BY DEF On
  <2>2. b.layer_id = l
    <3>1. PICK h \in 0..(Heads - 1), k \in 0..(BlocksOf(n) - 1) : b = BlockOf(l, h, k, n)
      BY <2>1 DEF BlocksIn
    <3> QED BY <3>1 DEF BlockOf
  <2>3. PICK w \in 1..Writes(n) : t[w].operation = "PREFILL_WRITE" /\ Uses(t[w], b)
    BY <2>1, WrittenBefore
  <2>4. w \in 1..(i - 1)
    BY <1>0
  <2> QED BY <1>2, <2>1, <2>2, <2>3, <2>4 DEF Uses
<1>4. ASSUME NEW w \in W PROVE \E b \in On(l, n, "SSD") : b.block_id = t[w].block_id
  <2>1. /\ w \in 1..(i - 1) /\ t[w].operation = "PREFILL_WRITE" /\ t[w].layer_id = l
        /\ t[w].tier = "SSD"
    BY <1>2
  <2>2. w \in 1..Len(t)
    BY <1>0, <2>1
  <2>3. w \in 1..Writes(n)
    <3>1. w <= Writes(n)
      BY <2>1, <2>2, OperationIs
    <3> QED BY <1>0, <2>2, <3>1
  <2>4. PICK k \in 0..(Layers - 1) : t[w].layer_id = k /\ \E b \in BlocksIn(k, n) : Uses(t[w], b)
    BY <2>3, WritesBlock
  <2>5. PICK b \in BlocksIn(l, n) : Uses(t[w], b)
    BY <2>1, <2>4
  <2>6. b \in On(l, n, "SSD")
    BY <2>1, <2>5 DEF On, Uses
  <2> QED BY <2>5, <2>6 DEF Uses
<1>5. \A x \in Range(Cands(l, n)) : x \in {t[w].block_id : w \in W}
  BY <1>1, <1>3
<1>6. \A x \in {t[w].block_id : w \in W} : x \in Range(Cands(l, n))
  BY <1>1, <1>4
<1>7. Range(Cands(l, n)) = {t[w].block_id : w \in W}
  BY <1>5, <1>6
<1> QED BY <1>2, <1>7

\* Every line of a log is valid.
LEMMA LogValid ==
  ASSUME NEW n, n \in Nat \ {0}, NEW t, IsTrace(t), Log(t, n), NEW i \in 1..Len(t)
  PROVE  LineValid(t, i)
<1>0. i \in Nat /\ Writes(n) \in Nat /\ Len(t) \in Nat /\ Steps \in Nat
  BY LenProperties, PrefillLines, PipelineAssumption DEF IsTrace
<1>1. CASE i \in 1..Writes(n) /\ \E r \in WriteLines(n) : t[i] = WithId(r, i - 1)
  <2>1. PICK r \in WriteLines(n) : t[i] = WithId(r, i - 1)
    BY <1>1
  <2>2. r \in Events
    BY WriteIsEvent
  <2>3. t[i].event_id = i - 1
    BY <2>1, <2>2, NumberedLine DEF SameLine
  <2>4. Scripted(t[i]) /\ Chosenly(t[i]) /\ t[i].step \in 0..Steps
    <3>1. Scripted(t[i]) /\ Chosenly(t[i]) /\ t[i].step = 0
      BY <2>1, WriteScripted
    <3> QED BY <1>0, <3>1
  <2>5. t[i].operation = "PREFILL_WRITE"
    BY <1>0, <1>1, OperationIs
  <2>6. /\ \A key \in {"event_id", "step", "operation", "byte_size"} :
             FromDict(t[i])[key] = t[i][key]
        /\ ValidatedRecord(t[i]).operation = t[i].operation
    BY <2>1, <2>2, ReadBack
  <2> QED BY <2>3, <2>4, <2>5, <2>6 DEF LineValid
<1>2. CASE /\ Writes(n) < i
           /\ \E l \in 0..(Layers - 1), step \in 1..Steps : \E r \in DecodeLines(step, l, n) :
                t[i] = WithId(r, i - 1)
  <2>1. PICK l \in 0..(Layers - 1), step \in 1..Steps :
           \E r \in DecodeLines(step, l, n) : t[i] = WithId(r, i - 1)
    BY <1>2
  <2>2. PICK r \in DecodeLines(step, l, n) : t[i] = WithId(r, i - 1)
    BY <2>1
  <2>3. r \in Events
    BY DEF DecodeLines
  <2>4. t[i].event_id = i - 1
    BY <2>2, <2>3, NumberedLine DEF SameLine
  <2>5. /\ Scripted(t[i]) /\ Chosenly(t[i]) /\ Scans(t[i], l, n)
        /\ \E b \in BlocksIn(l, n) : Uses(t[i], b)
    BY <2>2, DecodeScripted
  <2>6. t[i].step \in 0..Steps
    <3>1. t[i].step = step
      BY <2>2, StepOf
    <3> QED BY <1>0, <3>1
  <2>7. \E w \in 1..(i - 1) : /\ t[w].operation = "PREFILL_WRITE"
                              /\ t[w].block_id = t[i].block_id
                              /\ t[w].layer_id = t[i].layer_id
                              /\ t[w].tier = t[i].tier
    <3>1. PICK b \in BlocksIn(l, n) : Uses(t[i], b)
      BY <2>5
    <3>2. PICK w \in 1..Writes(n) : t[w].operation = "PREFILL_WRITE" /\ Uses(t[w], b)
      BY <3>1, WrittenBefore
    <3>3. w \in 1..(i - 1)
      BY <1>0, <1>2
    <3> QED BY <3>1, <3>2, <3>3 DEF Uses
  <2>8. t[i].operation = "TOPK_FILTER" =>
          Range(t[i].candidate_blocks) =
            {t[w].block_id : w \in {x \in 1..(i - 1) :
               /\ t[x].operation = "PREFILL_WRITE"
               /\ t[x].layer_id = t[i].layer_id /\ t[x].tier = "SSD"}}
    <3> SUFFICES ASSUME t[i].operation = "TOPK_FILTER"
                 PROVE  Range(t[i].candidate_blocks) =
                          {t[w].block_id : w \in {x \in 1..(i - 1) :
                             /\ t[x].operation = "PREFILL_WRITE"
                             /\ t[x].layer_id = t[i].layer_id /\ t[x].tier = "SSD"}}
      OBVIOUS
    <3>1. Range(t[i].candidate_blocks) = Range(Cands(l, n)) /\ t[i].layer_id = l
      BY <2>5 DEF Scans
    <3>2. Range(Cands(l, n)) =
            {t[w].block_id : w \in {x \in 1..(i - 1) :
               /\ t[x].operation = "PREFILL_WRITE" /\ t[x].layer_id = l /\ t[x].tier = "SSD"}}
      BY <1>2, ScanCovers
    <3> QED BY <3>1, <3>2
  <2>9. /\ \A key \in {"event_id", "step", "operation", "byte_size"} :
             FromDict(t[i])[key] = t[i][key]
        /\ ValidatedRecord(t[i]).operation = t[i].operation
    BY <2>2, <2>3, ReadBack
  <2> QED BY <2>4, <2>5, <2>6, <2>7, <2>8, <2>9 DEF LineValid
<1> QED BY <1>1, <1>2, LineIs

\* The loop that adds up what one operation moves, turn by turn.
BytesOf(t, op) ==
  FoldLeft(LAMBDA sum, e : IF e.operation = op THEN sum + e.byte_size ELSE sum, 0, t)

\* It is one.
LEMMA BytesTurns ==
  ASSUME NEW S, NEW seq \in Seq(S), NEW op
  PROVE  \E f : Turns(f, "bytes", op, 0, seq) /\ BytesOf(seq, op) = f[Len(seq)]
<1>. DEFINE Eq(h) == h = [s \in SUBSET (1..Len(seq)) |->
                     IF s = {} THEN 0
                     ELSE IF seq[Max(s)].operation = op
                          THEN h[s \ {Max(s)}] + seq[Max(s)].byte_size
                          ELSE h[s \ {Max(s)}]]
            it == CHOOSE h : Eq(h)
<1>1. \A h : Eq(h) <=> Iterates(h, "bytes", op, 0, seq, Len(seq))
  BY DEF Iterates, Turned
<1>2. Len(seq) \in Nat /\ DOMAIN seq = 1..Len(seq)
  BY LenProperties
<1>3. Eq(it)
  BY <1>1, <1>2, IteratesExist
<1>4. BytesOf(seq, op) = it[1..Len(seq)]
  BY <1>2 DEF FoldLeft, MapThenFoldSet, BytesOf
<1>5. Iterates(it, "bytes", op, 0, seq, Len(seq))
  BY <1>1, <1>3
<1>. HIDE DEF it
<1>6. Turns([i \in 0..Len(seq) |-> it[1..i]], "bytes", op, 0, seq)
  BY <1>5, IteratesTurn, Zenon
<1>7. [i \in 0..Len(seq) |-> it[1..i]][Len(seq)] = it[1..Len(seq)]
  BY <1>2
<1> QED BY <1>4, <1>6, <1>7

\* The prefill moves two pages a block and head of each layer.
LEMMA PrefillBytes ==
  ASSUME NEW n, n \in Nat \ {0}, NEW t, IsTrace(t), Log(t, n)
  PROVE  BytesOf(t, "PREFILL_WRITE") = Layers * Heads * BlocksOf(n) * BlockPages
<1>1. PICK N, W, D : N = Len(t) /\ W = Writes(n) /\ D = BlockPages
  OBVIOUS
<1>2. N \in Nat /\ W \in Nat /\ D \in Nat /\ W <= N /\ t \in Seq(Range(t))
  BY <1>1, LenProperties, PrefillLines DEF IsTrace, Log, BlockPages
<1>3. PICK f : Turns(f, "bytes", "PREFILL_WRITE", 0, t) /\ BytesOf(t, "PREFILL_WRITE") = f[N]
  BY <1>1, <1>2, BytesTurns
<1>4. f[0] = 0
  BY <1>3 DEF Turns
<1>5. ASSUME NEW i \in 1..N
      PROVE  f[i] = IF i <= W THEN f[i - 1] + D ELSE f[i - 1]
  <2>1. f[i] = IF t[i].operation = "PREFILL_WRITE" THEN f[i - 1] + t[i].byte_size ELSE f[i - 1]
    BY <1>1, <1>3 DEF Turns, Turned
  <2>2. LineValid(t, i) /\ (t[i].operation = "PREFILL_WRITE" <=> i <= W)
    BY <1>1, LogValid, OperationIs
  <2>3. t[i].operation = "PREFILL_WRITE" => t[i].byte_size = D
    BY <1>1, <2>2 DEF LineValid, Scripted
  <2> QED BY <2>1, <2>2, <2>3
<1>6. \A k \in Nat : D * (k + 1) = D * k + D /\ D * k \in Nat
  BY <1>2, OneMore
<1>7. D * 0 = 0
  BY <1>2
<1> DEFINE X == {k \in Nat : k <= N => f[k] = IF k <= W THEN D * k ELSE D * W}
<1>8. 0 \in X
  BY <1>2, <1>4, <1>7
<1>9. ASSUME NEW k \in Nat, k \in X PROVE k + 1 \in X
  <2> SUFFICES ASSUME k + 1 <= N PROVE f[k + 1] = IF k + 1 <= W THEN D * (k + 1) ELSE D * W
    OBVIOUS
  <2>1. k + 1 \in 1..N /\ (k + 1) - 1 = k /\ k <= N
    BY <1>2
  <2>2. f[k] = IF k <= W THEN D * k ELSE D * W
    BY <1>9, <2>1
  <2>3. f[k + 1] = IF k + 1 <= W THEN f[k] + D ELSE f[k]
    BY <1>5, <2>1
  <2>4. CASE k + 1 <= W
    BY <1>2, <1>6, <2>2, <2>3, <2>4
  <2>5. CASE k = W
    BY <1>2, <2>2, <2>3, <2>5
  <2>6. CASE k > W
    BY <1>2, <2>2, <2>3, <2>6
  <2> QED BY <1>2, <2>4, <2>5, <2>6
<1>10. Nat \subseteq X
  <2> HIDE DEF X
  <2> QED BY <1>8, <1>9, SetInduction
<1>11. f[N] = D * W
  <2>1. f[N] = IF N <= W THEN D * N ELSE D * W
    BY <1>2, <1>10
  <2>2. N <= W => N = W
    BY <1>2
  <2> QED BY <2>1, <2>2
<1>12. D * W = Layers * Heads * BlocksOf(n) * D
  <2>1. \A d, a, b, c \in Nat : d * (a * (b * c)) = a * b * c * d
    BY Z3
  <2>2. Layers \in Nat /\ Heads \in Nat /\ BlocksOf(n) \in Nat
    BY TraceAssumption, BlocksPositive
  <2> QED BY <1>1, <1>2, <2>1, <2>2 DEF Writes
<1> QED BY <1>1, <1>3, <1>11, <1>12

\* The last step of a whole trace is the one the manifest names.
LEMMA LastStep ==
  ASSUME NEW n, n \in Nat \ {0}, NEW t, IsTrace(t), Log(t, n), Stepped(t, Steps * Layers)
  PROVE  Max({e.step : e \in Range(t)}) = Steps
<1>1. Steps \in Nat \ {0} /\ Layers \in Nat \ {0} /\ Steps * Layers \in Nat
  BY PipelineAssumption, TraceAssumption, ProductIs
<1>2. DOMAIN t = 1..Len(t)
  BY LenProperties DEF IsTrace
<1>3. PICK S : S = {e.step : e \in Range(t)}
  OBVIOUS
<1>4. \A s \in S : \E i \in 1..Len(t) : s = t[i].step
  BY <1>2, <1>3 DEF Range
<1>5. \A i \in 1..Len(t) : t[i].step \in 0..Steps
  BY LogValid DEF LineValid
<1>6. S \subseteq Nat /\ \A s \in S : s <= Steps
  BY <1>1, <1>4, <1>5
<1>7. Steps \in S
  <2>1. Steps \in 1..Steps /\ Steps * Layers <= Steps * Layers
    BY <1>1
  <2>2. PICK i \in 1..Len(t) : t[i].step = Steps
    BY <2>1 DEF Stepped
  <2>3. t[i] \in Range(t)
    BY <1>2 DEF Range
  <2> QED BY <1>3, <2>2, <2>3
<1> QED BY <1>3, <1>6, <1>7, MaxIs

\* A trace of P1 passes its validation script, and more than that: its lines have numbers without
\* a gap, a block is written before it is used and is in the same tier ever after, a scan covers
\* the SSD blocks of its layer, only scanned blocks are fetched (trace_generator.py:93-199), what
\* the manifest says is what the lines add up to, and replayer and schema take the same lines for
\* writes and for reads (validate_real_trace.py:92-156).
THEOREM TracesAlwaysValid == Spec => []ValidTrace
<1>1. TraceInv /\ LogInv => ValidTrace
  <2> SUFFICES ASSUME TraceInv, LogInv, Logged PROVE ValidTrace
    BY DEF ValidTrace
  <2>1. PICK n, t : n = tokens /\ t = trace
    OBVIOUS
  <2>2. n \in Nat \ {0} /\ IsTrace(t) /\ Log(t, n) /\ Stepped(t, turn)
    BY <2>1 DEF TraceInv, LogInv, Logs, Logged
  <2>3. \A i \in 1..Len(t) : LineValid(t, i)
    BY <2>2, LogValid
  <2>4. Len(t) \in Nat /\ DOMAIN t = 1..Len(t) /\ Steps \in Nat
    BY <2>2, LenProperties, PipelineAssumption DEF IsTrace
  <2>5. ScriptAccepts(trace)
    BY <2>1, <2>3 DEF ScriptAccepts, LineValid, Scripted
  <2>6. /\ TraceManifest.num_layers = Layers /\ TraceManifest.num_kv_heads = Heads
        /\ TraceManifest.tokens_per_block = TokensPerBlock
        /\ TraceManifest.key_page_bytes = KeyPages /\ TraceManifest.value_page_bytes = KeyPages
        /\ TraceManifest.logical_block_bytes = BlockPages
        /\ TraceManifest.total_tokens = n + 1 /\ TraceManifest.total_events = Len(t)
        /\ TraceManifest.total_steps = Steps
    <3>1. (n - Steps + 1) + Steps = n + 1
      BY <2>2, <2>4
    <3> QED BY <2>1, <3>1 DEF TraceManifest, Manifest
  <2>7. ScriptAcceptsManifest(TraceManifest, tokens + 1, Len(trace))
    BY <2>1, <2>6 DEF ScriptAcceptsManifest
  <2>8. BytesOf(trace, "PREFILL_WRITE") =
          TraceManifest.num_layers * TraceManifest.num_kv_heads
            * BlocksOf(TraceManifest.total_tokens - 1) * TraceManifest.logical_block_bytes
    <3>1. TraceManifest.total_tokens - 1 = n
      BY <2>2, <2>6
    <3>2. BytesOf(t, "PREFILL_WRITE") = Layers * Heads * BlocksOf(n) * BlockPages
      BY <2>2, PrefillBytes
    <3> QED BY <2>1, <2>6, <3>1, <3>2
  <2>9. ASSUME stage = "written"
        PROVE  Max({e.step : e \in Range(trace)}) = TraceManifest.total_steps
    <3>1. source = "p1" /\ turn = Steps * Layers
      BY <2>9 DEF LogInv, Complete, Logged
    <3>2. Stepped(t, Steps * Layers)
      BY <2>2, <3>1
    <3>3. Max({e.step : e \in Range(t)}) = Steps
      BY <2>2, <3>2, LastStep
    <3> QED BY <2>1, <2>6, <3>3
  <2>10. ASSUME NEW e \in Range(trace)
         PROVE  /\ IsWrite(ValidatedRecord(e)) <=> IsCanonicalWrite(FromDict(e))
                /\ IsCanonicalWrite(FromDict(e)) <=> ~IsCanonicalRead(FromDict(e))
    <3>1. PICK i \in 1..Len(t) : e = t[i]
      BY <2>1, <2>4, <2>10 DEF Range
    <3>2. ValidatedRecord(e).operation = e.operation
      BY <2>3, <3>1 DEF LineValid
    <3>3. FromDict(e).operation = e.operation
      BY DEF FromDict
    <3>4. e.operation \in {"PREFILL_WRITE", "DECODE_READ", "TOPK_FILTER", "TOPK_FETCH"}
      BY <2>2, <3>1, OperationIs
    <3> QED BY <3>2, <3>3, <3>4 DEF IsWrite, IsCanonicalWrite, IsCanonicalRead
  <2>11. ASSUME NEW i \in 1..Len(trace)
         PROVE  LET e == trace[i]
                IN  /\ e.operation # "PREFILL_WRITE" =>
                          \E w \in 1..(i - 1) : /\ trace[w].operation = "PREFILL_WRITE"
                                                /\ trace[w].block_id = e.block_id
                                                /\ trace[w].layer_id = e.layer_id
                                                /\ trace[w].tier = e.tier
                    /\ Range(e.selected_blocks) \subseteq
                          Range(e.candidate_blocks) \cup {e.block_id}
                    /\ e.operation = "TOPK_FILTER" =>
                          Range(e.candidate_blocks) =
                            {trace[w].block_id : w \in {x \in 1..(i - 1) :
                               /\ trace[x].operation = "PREFILL_WRITE"
                               /\ trace[x].layer_id = e.layer_id /\ trace[x].tier = "SSD"}}
    <3>1. LineValid(trace, i)
      BY <2>1, <2>3
    <3> QED BY <3>1, Zenon DEF LineValid, Chosenly
  <2> QED BY <2>5, <2>7, <2>8, <2>9, <2>10, <2>11 DEF ValidTrace, BytesOf
<1> QED BY <1>1, LogInvAlways, PTL

-----------------------------------------------------------------------------
(***************************************************************************)
(* The busiest channel of a batch.                                         *)
(***************************************************************************)

\* How many reads of a batch go to a channel.
At(q, ch) == {i \in 1..Len(q) : q[i] = ch}
Count(q, ch) == Cardinality(At(q, ch))

\* A batch takes as long as one of its channels, and none takes longer.
NoneLonger(q) == \A ch : Count(q, ch) <= MaxLoad(q)
OneAsLong(q) == \E ch : MaxLoad(q) = Count(q, ch)

\* A count is a number no larger than the batch.
LEMMA CountIs ==
  ASSUME NEW S, NEW q \in Seq(S), NEW ch
  PROVE  /\ Count(q, ch) \in Nat /\ Count(q, ch) <= Len(q)
         /\ IsFiniteSet(At(q, ch))
         /\ Count(q, ch) = 0 <=> At(q, ch) = {}
<1>1. Len(q) \in Nat
  BY LenProperties
<1>2. IsFiniteSet(1..Len(q)) /\ Cardinality(1..Len(q)) = Len(q)
  <2>1. PICK n \in Nat : n = Len(q)
    BY <1>1
  <2>2. IsFiniteSet(1..n) /\ Cardinality(1..n) = IF 1 > n THEN 0 ELSE (n - 1) + 1
    BY FS_Interval
  <2> QED BY <2>1, <2>2
<1>3. At(q, ch) \subseteq 1..Len(q)
  BY DEF At
<1>4. IsFiniteSet(At(q, ch)) /\ Cardinality(At(q, ch)) <= Cardinality(1..Len(q))
  BY <1>2, <1>3, FS_Subset
<1>5. Cardinality(At(q, ch)) \in Nat
  BY <1>4, FS_CardinalityType
<1>6. Cardinality(At(q, ch)) = 0 <=> At(q, ch) = {}
  BY <1>4, FS_EmptySet
<1> QED BY <1>2, <1>4, <1>5, <1>6 DEF Count

\* The counts of a batch with one read more.
LEMMA CountAppend ==
  ASSUME NEW S, NEW q \in Seq(S), NEW x \in S, NEW ch
  PROVE  Count(Append(q, x), ch) = Count(q, ch) + (IF ch = x THEN 1 ELSE 0)
<1>1. PICK n \in Nat : n = Len(q)
  BY LenProperties
<1>2. PICK r : r = Append(q, x)
  OBVIOUS
<1>3. /\ r \in Seq(S) /\ Len(r) = n + 1 /\ r[n + 1] = x
      /\ \A i \in 1..n : r[i] = q[i]
  BY <1>1, <1>2, AppendProperties
<1>4. CASE ch = x
  <2>1. At(r, ch) = At(q, ch) \cup {n + 1}
    <3>1. At(r, ch) \subseteq At(q, ch) \cup {n + 1}
      BY <1>1, <1>3, <1>4 DEF At
    <3>2. At(q, ch) \cup {n + 1} \subseteq At(r, ch)
      BY <1>1, <1>3, <1>4 DEF At
    <3> QED BY <3>1, <3>2
  <2>2. n + 1 \notin At(q, ch)
    BY <1>1 DEF At
  <2>3. Cardinality(At(q, ch) \cup {n + 1}) = Cardinality(At(q, ch)) + 1
    BY <2>2, CountIs, FS_AddElement
  <2> QED BY <1>2, <1>4, <2>1, <2>3 DEF Count
<1>5. CASE ch # x
  <2>1. At(r, ch) = At(q, ch)
    <3>1. At(r, ch) \subseteq At(q, ch)
      BY <1>1, <1>3, <1>5 DEF At
    <3>2. At(q, ch) \subseteq At(r, ch)
      BY <1>1, <1>3, <1>5 DEF At
    <3> QED BY <3>1, <3>2
  <2>2. Count(q, ch) \in Nat
    BY CountIs
  <2> QED BY <1>2, <1>5, <2>1, <2>2 DEF Count
<1> QED BY <1>4, <1>5

\* The time of a batch (replayer.py:331-349).
LEMMA LoadIs ==
  ASSUME NEW S, NEW q \in Seq(S)
  PROVE  /\ MaxLoad(q) \in Nat /\ MaxLoad(q) <= Len(q)
         /\ q # <<>> => MaxLoad(q) >= 1
         /\ q = <<>> => MaxLoad(q) = 0
         /\ NoneLonger(q) /\ OneAsLong(q)
<1>1. PICK R : R = Range(q)
  OBVIOUS
<1>2. PICK C : C = {0} \cup {Count(q, ch) : ch \in R}
  OBVIOUS
<1>3. MaxLoad(q) = Max(C)
  BY <1>1, <1>2 DEF MaxLoad, Count, At
<1>4. \A ch : Count(q, ch) \in Nat /\ Count(q, ch) <= Len(q)
  BY CountIs
<1>5. DOMAIN q = 1..Len(q) /\ Len(q) \in Nat
  BY LenProperties
<1>6. \A ch : ch \notin R => Count(q, ch) = 0
  <2> SUFFICES ASSUME NEW ch, ch \notin R PROVE At(q, ch) = {}
    BY CountIs
  <2> QED BY <1>1, <1>5 DEF At, Range
<1>8. IsFiniteSet(C) /\ C \subseteq Nat /\ C # {}
  <2>1. C \subseteq 0..Len(q)
    BY <1>2, <1>4, <1>5
  <2>2. IsFiniteSet(0..Len(q))
    BY <1>5, FS_Interval
  <2>3. IsFiniteSet(C)
    BY <2>1, <2>2, FS_Subset
  <2> QED BY <1>2, <1>4, <2>3
<1>9. PICK m \in C : \A x \in C : x <= m
  <2>1. PICK key : key = [x \in C |-> x]
    OBVIOUS
  <2>2. key \in [C -> Int] /\ \A x \in C : key[x] = x
    BY <1>8, <2>1
  <2>3. \E m \in C : \A x \in C : key[x] <= key[m]
    BY <1>8, <2>2, LargestExists
  <2> QED BY <2>2, <2>3
<1>10. Max(C) = m
  BY <1>8, <1>9, MaxIs
<1>11. m \in Nat /\ \A ch : Count(q, ch) <= m
  BY <1>2, <1>4, <1>6, <1>8, <1>9
<1>12. CASE q # <<>>
  <2>1. 1 \in 1..Len(q)
    BY <1>5, <1>12, EmptySeq
  <2>2. 1 \in At(q, q[1])
    BY <2>1 DEF At
  <2>3. Count(q, q[1]) # 0
    BY <2>2, CountIs
  <2>4. m >= 1
    BY <1>4, <1>11, <2>3
  <2>5. \E ch : m = Count(q, ch)
    BY <1>2, <1>9, <2>4
  <2> QED BY <1>3, <1>4, <1>10, <1>11, <1>12, <2>4, <2>5 DEF NoneLonger, OneAsLong
<1>13. CASE q = <<>>
  <2>1. Len(q) = 0
    BY <1>13, EmptySeq
  <2>2. \A ch : Count(q, ch) = 0
    BY <1>4, <2>1
  <2>3. m = 0
    BY <1>2, <1>9, <2>2
  <2> QED BY <1>3, <1>10, <1>13, <2>1, <2>2, <2>3 DEF NoneLonger, OneAsLong
<1> QED BY <1>12, <1>13

\* With one channel a batch takes as long as it has reads.
LEMMA LoadOfOne ==
  ASSUME NEW S, NEW q \in Seq(S), NEW ch, \A i \in 1..Len(q) : q[i] = ch
  PROVE  MaxLoad(q) = Len(q)
<1>1. PICK n \in Nat : n = Len(q)
  BY LenProperties
<1>2. At(q, ch) = 1..n
  BY <1>1 DEF At
<1>3. Cardinality(1..n) = n
  <2>1. Cardinality(1..n) = IF 1 > n THEN 0 ELSE (n - 1) + 1
    BY FS_Interval
  <2> QED BY <2>1
<1>4. MaxLoad(q) \in Nat /\ MaxLoad(q) <= n /\ Count(q, ch) <= MaxLoad(q)
  BY <1>1, LoadIs DEF NoneLonger
<1> QED BY <1>1, <1>2, <1>3, <1>4 DEF Count
-----------------------------------------------------------------------------
(***************************************************************************)
(* A run of the study's loop, record by record.                            *)
(***************************************************************************)

\* A record that can be placed and counted.
Placeable(x) ==
  /\ x.layer_id \in Nat /\ x.head_id \in Nat /\ x.token_start \in Nat /\ x.block_id \in Nat
  /\ x.byte_size \in Nat

\* The counters of a run over n channels.
Fields == {"loads", "read", "written", "key", "value", "combined", "queue", "batches", "service"}
Tally(v, n) ==
  /\ v = [field \in Fields |-> v[field]]
  /\ v.loads \in [0..(n - 1) -> Nat] /\ v.queue \in Seq(0..(n - 1))
  /\ v.read \in Nat /\ v.written \in Nat /\ v.key \in Nat /\ v.value \in Nat /\ v.combined \in Nat
  /\ v.batches \in Nat /\ v.service \in Nat

\* The bytes and the time of a run, before a record and after it.
SameBytes(v, u) ==
  /\ u.read = v.read /\ u.written = v.written
  /\ u.key = v.key /\ u.value = v.value /\ u.combined = v.combined
AddBytes(v, x, u) ==
  /\ u.read = v.read + (IF IsWrite(x) THEN 0 ELSE x.byte_size)
  /\ u.written = v.written + (IF IsWrite(x) THEN x.byte_size ELSE 0)
  /\ u.key = v.key + (IF x.sub_page = "KEY" THEN x.byte_size ELSE 0)
  /\ u.value = v.value + (IF x.sub_page = "VALUE" THEN x.byte_size ELSE 0)
  /\ u.combined = v.combined + (IF x.sub_page = "BOTH" THEN x.byte_size ELSE 0)
Batched(v, q, d, u) ==
  /\ u.queue = IF Len(q) >= d THEN <<>> ELSE q
  /\ u.batches = IF Len(q) >= d THEN v.batches + 1 ELSE v.batches
  /\ u.service = IF Len(q) >= d THEN v.service + MaxLoad(q) ELSE v.service
Queued(v, x, ch) == IF IsWrite(x) THEN v.queue ELSE Append(v.queue, ch)
CountedIn(v, x, ch, d, u) ==
  /\ AddBytes(v, x, u)
  /\ Batched(v, Queued(v, x, ch), d, u)
  /\ u.loads = [v.loads EXCEPT ![ch] = @ + 1]

\* What an account changes.
Accounted(v, x, ch, y) ==
  /\ y = [k \in Fields |-> y[k]]
  /\ y.loads = [v.loads EXCEPT ![ch] = @ + 1] /\ AddBytes(v, x, y)
  /\ y.queue = v.queue /\ y.batches = v.batches /\ y.service = v.service

LEMMA AccountIs ==
  ASSUME NEW v, v = [k \in Fields |-> v[k]], NEW x, NEW ch, NEW y, y = Account(v, x, ch)
  PROVE  Accounted(v, x, ch, y)
<1>1. DOMAIN v = Fields
  OBVIOUS
<1>2. y = [k \in Fields |-> y[k]]
  BY DEF Account
<1>3. /\ y.loads = [v.loads EXCEPT ![ch] = @ + 1] /\ y.queue = v.queue
      /\ y.read = v.read + (IF IsWrite(x) THEN 0 ELSE x.byte_size)
      /\ y.written = v.written + (IF IsWrite(x) THEN x.byte_size ELSE 0)
      /\ y.key = v.key + (IF x.sub_page = "KEY" THEN x.byte_size ELSE 0)
      /\ y.value = v.value + (IF x.sub_page = "VALUE" THEN x.byte_size ELSE 0)
      /\ y.combined = v.combined + (IF x.sub_page = "BOTH" THEN x.byte_size ELSE 0)
      /\ y.batches = v.batches /\ y.service = v.service
  BY <1>1 DEF Account, CountOn, Fields
<1> QED BY <1>2, <1>3 DEF AddBytes, Accounted

\* What sending a batch changes.
LEMMA FlushIs ==
  ASSUME NEW v, v = [k \in Fields |-> v[k]], NEW y, y = Flush(v)
  PROVE  /\ y = [k \in Fields |-> y[k]]
         /\ y.loads = v.loads /\ SameBytes(v, y) /\ y.queue = <<>>
         /\ y.batches = v.batches + 1 /\ y.service = v.service + MaxLoad(v.queue)
<1>1. DOMAIN v = Fields
  OBVIOUS
<1>2. y = [k \in Fields |-> y[k]]
  BY DEF Flush
<1>3. /\ y.loads = v.loads /\ y.read = v.read /\ y.written = v.written
      /\ y.key = v.key /\ y.value = v.value /\ y.combined = v.combined /\ y.queue = <<>>
      /\ y.batches = v.batches + 1 /\ y.service = v.service + MaxLoad(v.queue)
  BY <1>1 DEF Flush, Fields
<1> QED BY <1>2, <1>3 DEF SameBytes

\* What putting a queue in place changes.
LEMMA QueueIs ==
  ASSUME NEW v, v = [k \in Fields |-> v[k]], NEW q, NEW y, y = [v EXCEPT !.queue = q]
  PROVE  /\ y = [k \in Fields |-> y[k]]
         /\ y.loads = v.loads /\ SameBytes(v, y) /\ y.queue = q
         /\ y.batches = v.batches /\ y.service = v.service
<1>1. DOMAIN v = Fields
  OBVIOUS
<1> QED BY <1>1 DEF SameBytes, Fields

\* The channel of a policy is one of the device's, whatever the record
\* (phase3_real_trace_eval.py:117-131).
LEMMA PolicyInRange ==
  ASSUME NEW x, Placeable(x), NEW policy \in Policies, NEW n \in Nat \ {0}
  PROVE  PolicyChannel(policy, x, n) \in 0..(n - 1)
<1>1. PICK layer \in Nat, head \in Nat, token \in Nat, block \in Nat :
        /\ layer = x.layer_id /\ head = x.head_id /\ token = x.token_start
        /\ block = x.block_id
  BY DEF Placeable
<1>2. PICK b : b = IF token > 0 THEN token \div TokensPerBlock ELSE block % BlocksPerHead
  OBVIOUS
<1>3. b \in Int
  <2>1. token \div TokensPerBlock \in Int
    BY DivMod, GeometryAssumption
  <2>2. BlocksPerHead \in Nat \ {0}
    BY GeometryAssumption
  <2>3. block % BlocksPerHead \in 0..(BlocksPerHead - 1)
    BY <2>2, ModRange
  <2> QED BY <1>2, <2>1, <2>2, <2>3
<1>4. PICK c : c = layer + head + b + b \div n
  OBVIOUS
<1>5. c \in Int
  <2>1. b \div n \in Int
    BY <1>3, DivMod
  <2> QED BY <1>3, <1>4, <2>1
<1>6. c % n \in 0..(n - 1)
  BY <1>5, ModRange
<1>7. block % n \in 0..(n - 1)
  BY ModRange
<1>8. head % n \in 0..(n - 1)
  BY ModRange
<1>9. PICK r : r = PolicyChannel(policy, x, n)
  OBVIOUS
<1>10. r = CASE policy = "conventional"   -> 0
             [] policy = "naive_block_rr" -> block % n
             [] policy = "head_only"      -> head % n
             [] policy = "tensor_aware"   -> c % n
  BY <1>1, <1>2, <1>4, <1>9, Zenon DEF PolicyChannel
<1>11. CASE policy = "conventional"
  BY <1>9, <1>10, <1>11
<1>12. CASE policy = "naive_block_rr"
  BY <1>7, <1>9, <1>10, <1>12
<1>13. CASE policy = "head_only"
  BY <1>8, <1>9, <1>10, <1>13
<1>14. CASE policy = "tensor_aware"
  BY <1>6, <1>9, <1>10, <1>14
<1> QED BY <1>11, <1>12, <1>13, <1>14 DEF Policies

\* One turn of the loop (phase3_real_trace_eval.py:91-141).
LEMMA OneTurn ==
  ASSUME NEW x, Placeable(x), NEW policy \in Policies, NEW n \in Nat \ {0}, NEW d \in Nat \ {0},
         NEW v, Tally(v, n), NEW ch, ch = PolicyChannel(policy, x, n),
         NEW u, u = PlaceTurn(v, x, policy, n, d)
  PROVE  /\ Tally(u, n) /\ CountedIn(v, x, ch, d, u)
         /\ Queued(v, x, ch) \in Seq(0..(n - 1)) /\ ch \in 0..(n - 1)
<1>1. PICK R : R = 0..(n - 1)
  OBVIOUS
<1>2. ch \in R
  BY <1>1, PolicyInRange
<1>3. v = [k \in Fields |-> v[k]] /\ v.loads \in [R -> Nat] /\ v.queue \in Seq(R)
  BY <1>1 DEF Tally
<1>4. PICK q : q = Queued(v, x, ch)
  OBVIOUS
<1>5. q \in Seq(R)
  BY <1>2, <1>3, <1>4, AppendProperties DEF Queued
<1>6. PICK y : y = Account(v, x, ch)
  OBVIOUS
<1>7. /\ y = [k \in Fields |-> y[k]]
      /\ y.loads = [v.loads EXCEPT ![ch] = @ + 1] /\ AddBytes(v, x, y)
      /\ y.queue = v.queue /\ y.batches = v.batches /\ y.service = v.service
  <2>1. Accounted(v, x, ch, y)
    BY <1>3, <1>6, AccountIs
  <2> QED BY <2>1 DEF Accounted
<1>8. PICK s : s = [y EXCEPT !.queue = q]
  OBVIOUS
<1>9. /\ s = [k \in Fields |-> s[k]]
      /\ s.loads = y.loads /\ SameBytes(y, s) /\ s.queue = q
      /\ s.batches = y.batches /\ s.service = y.service
  BY <1>7, <1>8, QueueIs, SMTT(30)
<1>10. PICK z : z = Flush(s)
  OBVIOUS
<1>11. /\ z = [k \in Fields |-> z[k]]
       /\ z.loads = s.loads /\ SameBytes(s, z) /\ z.queue = <<>>
       /\ z.batches = s.batches + 1 /\ z.service = s.service + MaxLoad(s.queue)
  BY <1>9, <1>10, FlushIs
<1>12. u = IF Len(q) >= d THEN z ELSE s
  <2>1. q = IF IsWrite(x) THEN y.queue ELSE Append(y.queue, ch)
    BY <1>4, <1>7 DEF Queued
  <2> QED BY <1>6, <1>8, <1>10, <2>1 DEF PlaceTurn
<1>13. AddBytes(v, x, u)
  BY <1>7, <1>9, <1>11, <1>12 DEF AddBytes, SameBytes
<1>14. Batched(v, q, d, u)
  BY <1>7, <1>9, <1>11, <1>12 DEF Batched
<1>15. u.loads = [v.loads EXCEPT ![ch] = @ + 1]
  BY <1>7, <1>9, <1>11, <1>12
<1>16. Tally(u, n)
  <2>1. u = [k \in Fields |-> u[k]]
    BY <1>9, <1>11, <1>12
  <2>2. u.loads \in [R -> Nat]
    <3>1. PICK l, w : l = v.loads /\ w = u.loads
      OBVIOUS
    <3>2. l \in [R -> Nat] /\ w = [l EXCEPT ![ch] = @ + 1]
      BY <1>3, <1>15, <3>1
    <3>3. w \in [R -> Nat]
      BY <1>2, <3>2
    <3> QED BY <3>1, <3>3
  <2>3. MaxLoad(q) \in Nat /\ <<>> \in Seq(R)
    BY <1>5, LoadIs, EmptySeq
  <2>4. u.queue \in Seq(R)
    BY <1>5, <1>14, <2>3 DEF Batched
  <2>5. u.batches \in Nat /\ u.service \in Nat
    <3>1. v.batches \in Nat /\ v.service \in Nat
      BY DEF Tally
    <3>2. v.batches + 1 \in Nat /\ v.service + MaxLoad(q) \in Nat
      BY <2>3, <3>1
    <3> QED BY <1>14, <3>1, <3>2 DEF Batched
  <2>6. /\ u.read \in Nat /\ u.written \in Nat /\ u.key \in Nat /\ u.value \in Nat
        /\ u.combined \in Nat
    <3>1. PICK size \in Nat : size = x.byte_size
      BY DEF Placeable
    <3>2. /\ v.read \in Nat /\ v.written \in Nat /\ v.key \in Nat /\ v.value \in Nat
          /\ v.combined \in Nat
      BY DEF Tally
    <3>3. /\ u.read = v.read + (IF IsWrite(x) THEN 0 ELSE size)
          /\ u.written = v.written + (IF IsWrite(x) THEN size ELSE 0)
          /\ u.key = v.key + (IF x.sub_page = "KEY" THEN size ELSE 0)
          /\ u.value = v.value + (IF x.sub_page = "VALUE" THEN size ELSE 0)
          /\ u.combined = v.combined + (IF x.sub_page = "BOTH" THEN size ELSE 0)
      BY <1>13, <3>1 DEF AddBytes
    <3>4. u.read \in Nat /\ u.written \in Nat
      BY <3>1, <3>2, <3>3
    <3>5. u.key \in Nat /\ u.value \in Nat /\ u.combined \in Nat
      BY <3>1, <3>2, <3>3
    <3> QED BY <3>4, <3>5
  <2> QED BY <1>1, <2>1, <2>2, <2>4, <2>5, <2>6 DEF Tally
<1> QED BY <1>1, <1>2, <1>4, <1>5, <1>13, <1>14, <1>15, <1>16 DEF CountedIn

\* What the loop keeps: a short queue, a load for each record, and a time for each batch.
AllPlaceable(t, N) == \A i \in 1..N : Placeable(ValidatedRecord(t[i]))
SomeRead(t, i) == \E j \in 1..i : ~IsWrite(ValidatedRecord(t[j]))
RunsOn(v, t, n, d, i) ==
  /\ Tally(v, n) /\ Len(v.queue) < d
  /\ Total(v.loads) = i
  /\ v.batches <= v.service
  /\ SomeRead(t, i) => v.batches > 0 \/ v.queue # <<>>

\* The counters of the start.
LEMMA NewIs ==
  ASSUME NEW n \in Nat \ {0}, NEW v, v = NewTallies(n)
  PROVE  /\ Tally(v, n)
         /\ v.loads = [ch \in 0..(n - 1) |-> 0] /\ Total(v.loads) = 0
         /\ v.queue = <<>> /\ v.batches = 0 /\ v.service = 0
         /\ v.read = 0 /\ v.written = 0 /\ v.key = 0 /\ v.value = 0 /\ v.combined = 0
<1>1. PICK R : R = 0..(n - 1)
  OBVIOUS
<1>2. PICK w : w = [ch \in R |-> 0]
  OBVIOUS
<1>3. PICK z : z = NewReplay
  OBVIOUS
<1>4. /\ z = [k \in Fields |-> z[k]] /\ DOMAIN z = Fields
      /\ z.queue = <<>> /\ z.batches = 0 /\ z.service = 0
      /\ z.read = 0 /\ z.written = 0 /\ z.key = 0 /\ z.value = 0 /\ z.combined = 0
  BY <1>3 DEF NewReplay, Fields
<1>5. v = [z EXCEPT !.loads = w]
  BY <1>1, <1>2, <1>3 DEF NewTallies
<1>6. v = [k \in Fields |-> v[k]]
  BY <1>4, <1>5
<1>7. /\ v.loads = w /\ v.queue = <<>> /\ v.batches = 0 /\ v.service = 0
      /\ v.read = 0 /\ v.written = 0 /\ v.key = 0 /\ v.value = 0 /\ v.combined = 0
  BY <1>4, <1>5 DEF Fields
<1>8. w \in [R -> Nat] /\ <<>> \in Seq(R)
  BY <1>2, EmptySeq
<1>9. Tally(v, n)
  <2>1. v.loads \in [0..(n - 1) -> Nat] /\ v.queue \in Seq(0..(n - 1))
    BY <1>1, <1>7, <1>8
  <2>2. /\ v.read \in Nat /\ v.written \in Nat /\ v.key \in Nat /\ v.value \in Nat
        /\ v.combined \in Nat /\ v.batches \in Nat /\ v.service \in Nat
    BY <1>7
  <2> QED BY <1>6, <2>1, <2>2, Zenon DEF Tally
<1>10. Total(w) = 0
  <2>1. IsFiniteSet(R)
    BY <1>1, FS_Interval
  <2> QED BY <1>2, <2>1, TotalZero
<1> QED BY <1>1, <1>2, <1>7, <1>9, <1>10

\* One load more in all.
OneLoad(n, w, ch, v) ==
  w \in [0..(n - 1) -> Nat] /\ ch \in 0..(n - 1) /\ v = [w EXCEPT ![ch] = @ + 1]

LEMMA LoadGrows ==
  ASSUME NEW n, n \in Nat \ {0}, NEW w, NEW ch, NEW v, OneLoad(n, w, ch, v)
  PROVE  Total(v) = Total(w) + 1
<1>1. PICK A, p : A = 0..(n - 1) /\ p = 1
  OBVIOUS
<1>2. IsFiniteSet(A)
  BY <1>1, FS_Interval
<1>3. w \in [A -> Nat] /\ v \in [A -> Nat] /\ ch \in A /\ p \in Nat /\ v[ch] = w[ch] + p
  BY <1>1 DEF OneLoad
<1>4. AgreeOn(w, v, A \ {ch})
  BY <1>1 DEF AgreeOn, OneLoad
<1>5. Total(v) = Total(w) + p
  BY <1>2, <1>3, <1>4, CountGrows
<1> QED BY <1>1, <1>5

\* One record more, in what the loop keeps.
LEMMA RunStep ==
  ASSUME NEW t, NEW i \in Nat, NEW x, x = ValidatedRecord(t[i + 1]), Placeable(x),
         NEW policy \in Policies, NEW n \in Nat \ {0}, NEW d \in Nat \ {0},
         NEW v, RunsOn(v, t, n, d, i), NEW u, u = PlaceTurn(v, x, policy, n, d)
  PROVE  RunsOn(u, t, n, d, i + 1)
<1>1. PICK ch, q : ch = PolicyChannel(policy, x, n) /\ q = Queued(v, x, ch)
  OBVIOUS
<1>2. Tally(v, n)
  BY DEF RunsOn
<1>3. /\ Tally(u, n) /\ CountedIn(v, x, ch, d, u) /\ q \in Seq(0..(n - 1))
      /\ ch \in 0..(n - 1)
  BY <1>1, <1>2, OneTurn
<1>4. /\ v.loads \in [0..(n - 1) -> Nat] /\ v.batches \in Nat /\ v.service \in Nat
      /\ v.queue \in Seq(0..(n - 1))
  BY <1>2 DEF Tally
<1>5. Total(u.loads) = i + 1
  <2>1. PICK w, l : w = u.loads /\ l = v.loads
    OBVIOUS
  <2>2. w = [l EXCEPT ![ch] = @ + 1] /\ l \in [0..(n - 1) -> Nat]
    BY <1>3, <1>4, <2>1 DEF CountedIn
  <2>3. OneLoad(n, l, ch, w)
    BY <1>3, <2>2 DEF OneLoad
  <2>4. Total(w) = Total(l) + 1
    BY <2>3, LoadGrows
  <2> QED BY <2>1, <2>4 DEF RunsOn
<1>6. Batched(v, q, d, u)
  BY <1>1, <1>3 DEF CountedIn
<1>7. MaxLoad(q) \in Nat /\ Len(q) \in Nat /\ (q # <<>> => MaxLoad(q) >= 1)
  BY <1>3, LoadIs, LenProperties
<1>8. Len(u.queue) < d
  <2>1. Len(<<>>) = 0
    BY EmptySeq
  <2> QED BY <1>6, <1>7, <2>1 DEF Batched
<1>9. q = <<>> => Len(q) = 0
  BY EmptySeq
<1>10. u.batches <= u.service
  <2>1. v.batches <= v.service
    BY DEF RunsOn
  <2>2. CASE Len(q) >= d
    <3>1. u.batches = v.batches + 1 /\ u.service = v.service + MaxLoad(q)
      BY <1>6, <2>2 DEF Batched
    <3>2. MaxLoad(q) >= 1
      BY <1>7, <1>9, <2>2
    <3> QED BY <1>4, <1>7, <2>1, <3>1, <3>2
  <2>3. CASE ~(Len(q) >= d)
    BY <1>6, <2>1, <2>3 DEF Batched
  <2> QED BY <2>2, <2>3
<1>11. ASSUME SomeRead(t, i + 1) PROVE u.batches > 0 \/ u.queue # <<>>
  <2>1. v.batches > 0 \/ q # <<>>
    <3>1. CASE IsWrite(x)
      <4>1. SomeRead(t, i)
        <5>1. PICK j \in 1..(i + 1) : ~IsWrite(ValidatedRecord(t[j]))
          BY <1>11 DEF SomeRead
        <5>2. j # i + 1
          BY <3>1, <5>1
        <5>3. j \in 1..i
          BY <5>1, <5>2
        <5> QED BY <5>1, <5>3 DEF SomeRead
      <4> QED BY <1>1, <3>1, <4>1 DEF Queued, RunsOn
    <3>2. CASE ~IsWrite(x)
      <4>1. PICK R, q0 : R = 0..(n - 1) /\ q0 = v.queue
        OBVIOUS
      <4>2. q0 \in Seq(R) /\ ch \in R /\ q = Append(q0, ch)
        BY <1>1, <1>3, <1>4, <3>2, <4>1 DEF Queued
      <4> QED BY <4>2, AppendProperties
    <3> QED BY <3>1, <3>2
  <2>2. CASE Len(q) >= d
    <3>1. u.batches = v.batches + 1
      BY <1>6, <2>2 DEF Batched
    <3> QED BY <1>4, <3>1
  <2>3. CASE ~(Len(q) >= d)
    BY <1>6, <2>1, <2>3 DEF Batched
  <2> QED BY <2>2, <2>3
<1> QED BY <1>3, <1>5, <1>8, <1>10, <1>11 DEF RunsOn

\* What the loop keeps, after each record.
LEMMA RunKeeps ==
  ASSUME NEW t, NEW N \in Nat, AllPlaceable(t, N), NEW policy \in Policies,
         NEW n \in Nat \ {0}, NEW d \in Nat \ {0}
  PROVE  \A i \in 0..N : RunsOn(PlaceRecords(Records(t, i), policy, n, d), t, n, d, i)
<1> DEFINE X == {i \in Nat : i <= N =>
                   RunsOn(PlaceRecords(Records(t, i), policy, n, d), t, n, d, i)}
<1>2. 0 \in X
  <2>1. PlaceRecords(Records(t, 0), policy, n, d) = NewTallies(n)
    BY PlaceNone, RecordsNone
  <2>2. ~SomeRead(t, 0)
    BY DEF SomeRead
  <2>3. Len(<<>>) = 0
    BY EmptySeq
  <2>4. PICK v : v = NewTallies(n)
    OBVIOUS
  <2>5. Tally(v, n)
    BY <2>4, NewIs
  <2>6. Total(v.loads) = 0 /\ v.queue = <<>> /\ v.batches = 0 /\ v.service = 0
    BY <2>4, NewIs
  <2>7. RunsOn(v, t, n, d, 0)
    BY <2>2, <2>3, <2>5, <2>6 DEF RunsOn
  <2> QED BY <2>1, <2>4, <2>7
<1>3. ASSUME NEW i \in Nat, i \in X PROVE i + 1 \in X
  <2> SUFFICES ASSUME i + 1 <= N
               PROVE  RunsOn(PlaceRecords(Records(t, i + 1), policy, n, d), t, n, d, i + 1)
    OBVIOUS
  <2>1. i + 1 \in 1..N /\ i <= N
    OBVIOUS
  <2>2. PICK v, u, x : /\ v = PlaceRecords(Records(t, i), policy, n, d)
                       /\ u = PlaceRecords(Records(t, i + 1), policy, n, d)
                       /\ x = ValidatedRecord(t[i + 1])
    OBVIOUS
  <2>3. RunsOn(v, t, n, d, i)
    BY <1>3, <2>1, <2>2
  <2>4. u = PlaceTurn(v, x, policy, n, d)
    BY <2>2, OneRecordMore
  <2>5. Placeable(x)
    BY <2>1, <2>2 DEF AllPlaceable
  <2>6. RunsOn(u, t, n, d, i + 1)
    BY <2>2, <2>3, <2>4, <2>5, RunStep
  <2> QED BY <2>2, <2>6
<1>4. Nat \subseteq X
  <2> HIDE DEF X
  <2> QED BY <1>2, <1>3, SetInduction
<1> QED BY <1>4

\* A run by any policy, and one of the conventional FTL: the same bytes, the same batches, and
\* no more time, since there each batch waits for one channel.
AllZero(q) == \A i \in 1..Len(q) : q[i] = 0
Alike(v, w) ==
  /\ SameBytes(w, v) /\ v.batches = w.batches /\ v.service <= w.service
  /\ Len(v.queue) = Len(w.queue) /\ AllZero(w.queue)

\* A queue to which both add a read.
LEMMA BothQueue ==
  ASSUME NEW R, NEW p, p \in Seq(R), NEW a, a \in R, NEW S, NEW q, q \in Seq(S), 0 \in S,
         Len(p) = Len(q), AllZero(q)
  PROVE  Len(Append(p, a)) = Len(Append(q, 0)) /\ AllZero(Append(q, 0))
<1>1. Len(Append(p, a)) = Len(p) + 1
  BY AppendProperties
<1>2. PICK z : z = Append(q, 0)
  OBVIOUS
<1>3. Len(z) = Len(q) + 1 /\ (\A i \in 1..Len(q) : z[i] = q[i]) /\ z[Len(q) + 1] = 0
  BY <1>2, AppendProperties
<1>4. Len(q) \in Nat
  BY LenProperties
<1>5. AllZero(z)
  BY <1>3, <1>4 DEF AllZero
<1> QED BY <1>1, <1>2, <1>3, <1>5

\* They are alike after a record if they were before.
LEMMA AlikeStep ==
  ASSUME NEW x, Placeable(x), NEW policy \in Policies, NEW n \in Nat \ {0}, NEW m \in Nat \ {0},
         NEW d \in Nat \ {0}, NEW v, Tally(v, n), NEW w, Tally(w, m), Alike(v, w),
         NEW u, u = PlaceTurn(v, x, policy, n, d), NEW z, z = PlaceTurn(w, x, "conventional", m, d)
  PROVE  Alike(u, z)
<1>1. PICK ch, p, q : /\ ch = PolicyChannel(policy, x, n) /\ p = Queued(v, x, ch)
                      /\ q = Queued(w, x, 0)
  OBVIOUS
<1>2. Tally(u, n) /\ CountedIn(v, x, ch, d, u) /\ p \in Seq(0..(n - 1)) /\ ch \in 0..(n - 1)
  BY <1>1, OneTurn
<1>3. PolicyChannel("conventional", x, m) = 0 /\ "conventional" \in Policies
  BY DEF PolicyChannel, Policies
<1>4. Tally(z, m) /\ CountedIn(w, x, 0, d, z) /\ q \in Seq(0..(m - 1)) /\ 0 \in 0..(m - 1)
  BY <1>1, <1>3, OneTurn
<1>5. /\ v.batches = w.batches /\ v.service <= w.service /\ SameBytes(w, v)
      /\ v.batches \in Nat /\ v.service \in Nat /\ w.service \in Nat
  BY DEF Alike, Tally
<1>6. Len(p) = Len(q) /\ AllZero(q)
  <2>1. PICK R, S, p0, q0 : R = 0..(n - 1) /\ S = 0..(m - 1) /\ p0 = v.queue /\ q0 = w.queue
    OBVIOUS
  <2>2. p0 \in Seq(R) /\ q0 \in Seq(S) /\ ch \in R /\ 0 \in S /\ Len(p0) = Len(q0) /\ AllZero(q0)
    BY <1>2, <1>4, <2>1 DEF Tally, Alike
  <2>3. Len(Append(p0, ch)) = Len(Append(q0, 0)) /\ AllZero(Append(q0, 0))
    BY <2>2, BothQueue
  <2>4. /\ p = IF IsWrite(x) THEN p0 ELSE Append(p0, ch)
        /\ q = IF IsWrite(x) THEN q0 ELSE Append(q0, 0)
    BY <1>1, <2>1 DEF Queued
  <2> QED BY <2>2, <2>3, <2>4
<1>7. MaxLoad(p) \in Nat /\ MaxLoad(q) \in Nat /\ MaxLoad(p) <= MaxLoad(q)
  <2>1. MaxLoad(p) \in Nat /\ MaxLoad(p) <= Len(p)
    BY <1>2, LoadIs
  <2>2. MaxLoad(q) = Len(q) /\ Len(q) \in Nat
    BY <1>4, <1>6, LoadOfOne, LenProperties DEF AllZero
  <2> QED BY <1>6, <2>1, <2>2
<1>8. Batched(v, p, d, u) /\ Batched(w, q, d, z)
  BY <1>1, <1>2, <1>4 DEF CountedIn
<1>9. SameBytes(z, u)
  <2>1. AddBytes(v, x, u) /\ AddBytes(w, x, z)
    BY <1>2, <1>4 DEF CountedIn
  <2> QED BY <1>5, <2>1 DEF AddBytes, SameBytes
<1>10. CASE Len(p) >= d
  <2>1. u.queue = <<>> /\ u.batches = v.batches + 1 /\ u.service = v.service + MaxLoad(p)
    BY <1>8, <1>10 DEF Batched
  <2>2. z.queue = <<>> /\ z.batches = w.batches + 1 /\ z.service = w.service + MaxLoad(q)
    BY <1>6, <1>8, <1>10 DEF Batched
  <2>3. u.batches = z.batches /\ u.service <= z.service
    BY <1>5, <1>7, <2>1, <2>2
  <2>4. AllZero(<<>>)
    BY EmptySeq DEF AllZero
  <2> QED BY <1>9, <2>1, <2>2, <2>3, <2>4 DEF Alike
<1>11. CASE ~(Len(p) >= d)
  <2>1. u.queue = p /\ u.batches = v.batches /\ u.service = v.service
    BY <1>8, <1>11 DEF Batched
  <2>2. z.queue = q /\ z.batches = w.batches /\ z.service = w.service
    BY <1>6, <1>8, <1>11 DEF Batched
  <2> QED BY <1>5, <1>6, <1>9, <2>1, <2>2 DEF Alike
<1> QED BY <1>10, <1>11

\* So they are alike after any number of records.
LEMMA RunsAlike ==
  ASSUME NEW t, NEW N \in Nat, AllPlaceable(t, N), NEW policy \in Policies,
         NEW n \in Nat \ {0}, NEW m \in Nat \ {0}, NEW d \in Nat \ {0}
  PROVE  \A i \in 0..N : Alike(PlaceRecords(Records(t, i), policy, n, d),
                               PlaceRecords(Records(t, i), "conventional", m, d))
<1> DEFINE X == {i \in Nat : i <= N => Alike(PlaceRecords(Records(t, i), policy, n, d),
                                            PlaceRecords(Records(t, i), "conventional", m, d))}
<1>1. "conventional" \in Policies
  BY DEF Policies
<1>2. 0 \in X
  <2>1. PICK v, w : v = NewTallies(n) /\ w = NewTallies(m)
    OBVIOUS
  <2>2. /\ v.queue = <<>> /\ v.batches = 0 /\ v.service = 0
        /\ v.read = 0 /\ v.written = 0 /\ v.key = 0 /\ v.value = 0 /\ v.combined = 0
    BY <2>1, NewIs
  <2>3. /\ w.queue = <<>> /\ w.batches = 0 /\ w.service = 0
        /\ w.read = 0 /\ w.written = 0 /\ w.key = 0 /\ w.value = 0 /\ w.combined = 0
    BY <2>1, NewIs
  <2>4. AllZero(<<>>)
    BY EmptySeq DEF AllZero
  <2>5. Alike(v, w)
    BY <2>2, <2>3, <2>4 DEF Alike, SameBytes
  <2>6. /\ PlaceRecords(Records(t, 0), policy, n, d) = v
        /\ PlaceRecords(Records(t, 0), "conventional", m, d) = w
    BY <2>1, PlaceNone, RecordsNone
  <2> QED BY <2>5, <2>6
<1>3. ASSUME NEW i \in Nat, i \in X PROVE i + 1 \in X
  <2> SUFFICES ASSUME i + 1 <= N
               PROVE  Alike(PlaceRecords(Records(t, i + 1), policy, n, d),
                            PlaceRecords(Records(t, i + 1), "conventional", m, d))
    OBVIOUS
  <2>1. i + 1 \in 1..N /\ i <= N /\ i \in 0..N
    OBVIOUS
  <2>2. PICK v, u, w, z, x :
          /\ v = PlaceRecords(Records(t, i), policy, n, d)
          /\ u = PlaceRecords(Records(t, i + 1), policy, n, d)
          /\ w = PlaceRecords(Records(t, i), "conventional", m, d)
          /\ z = PlaceRecords(Records(t, i + 1), "conventional", m, d)
          /\ x = ValidatedRecord(t[i + 1])
    OBVIOUS
  <2>3. u = PlaceTurn(v, x, policy, n, d) /\ z = PlaceTurn(w, x, "conventional", m, d)
    BY <2>2, OneRecordMore
  <2>4. Placeable(x)
    BY <2>1, <2>2 DEF AllPlaceable
  <2>5. Tally(v, n)
    BY <2>1, <2>2, RunKeeps DEF RunsOn
  <2>6. Tally(w, m)
    BY <1>1, <2>1, <2>2, RunKeeps DEF RunsOn
  <2>7. Alike(v, w)
    BY <1>3, <2>1, <2>2
  <2>8. Alike(u, z)
    BY <2>3, <2>4, <2>5, <2>6, <2>7, AlikeStep
  <2> QED BY <2>2, <2>8
<1>4. Nat \subseteq X
  <2> HIDE DEF X
  <2> QED BY <1>2, <1>3, SetInduction
<1> QED BY <1>4

\* A run with a queue of depth a, and one whose depth b is a multiple of it: what waits in the
\* deeper queue is k whole batches of the other run and what waits there, and the deeper
\* run has not spent more time, even when what waits on a channel is added.
Behind(p, s, q, r) == \A ch : Count(q, ch) + r <= Count(p, ch) + s
Deeper(v, w, a) ==
  /\ \E k \in Nat : /\ Len(w.queue) = k * a + Len(v.queue)
                    /\ k # 0 => w.batches + 1 <= v.batches
  /\ w.batches <= v.batches /\ w.service <= v.service
  /\ Behind(v.queue, v.service, w.queue, w.service)

\* A batch of the deeper run ends with one of the other.
LEMMA EndTogether ==
  ASSUME NEW a \in Nat \ {0}, NEW m \in Nat, NEW b, b = a * m, NEW k \in Nat, NEW l \in Nat,
         l < a, k * a + l < b
  PROVE  (k * a + l) + 1 >= b => l + 1 >= a
<1> SUFFICES ASSUME (k * a + l) + 1 >= b, l + 1 < a PROVE FALSE
  OBVIOUS
<1>1. k * a \in Nat /\ a * m \in Nat
  BY ProductIs
<1>2. k < m
  <2> SUFFICES ASSUME m <= k PROVE FALSE
    OBVIOUS
  <2>1. m * a <= k * a
    BY Z3
  <2>2. a * m = m * a
    BY Z3
  <2> QED BY <1>1, <2>1, <2>2
<1>3. (k + 1) * a <= m * a
  <2>1. k + 1 <= m
    BY <1>2
  <2> QED BY <2>1, Z3
<1>4. (k + 1) * a = k * a + a /\ a * m = m * a
  BY Z3
<1> QED BY <1>1, <1>3, <1>4

\* The time of a batch that waited in the deeper queue is time the other has spent.
LEMMA BatchPaid ==
  ASSUME NEW P, NEW p, p \in Seq(P), NEW Q, NEW q, q \in Seq(Q), NEW s \in Nat, NEW r \in Nat,
         Behind(p, s, q, r)
  PROVE  r + MaxLoad(q) <= s + MaxLoad(p)
<1>1. PICK ch : MaxLoad(q) = Count(q, ch)
  BY LoadIs DEF OneAsLong
<1>2. Count(q, ch) + r <= Count(p, ch) + s
  BY DEF Behind
<1>3. Count(p, ch) <= MaxLoad(p) /\ MaxLoad(p) \in Nat
  BY LoadIs DEF NoneLonger
<1>4. Count(p, ch) \in Nat /\ Count(q, ch) \in Nat
  BY CountIs
<1> QED BY <1>1, <1>2, <1>3, <1>4

\* Nothing waits in an empty queue.
LEMMA CountNone == ASSUME NEW ch PROVE Count(<<>>, ch) = 0
<1>1. <<>> \in Seq({}) /\ Len(<<>>) = 0
  BY EmptySeq
<1>2. Count(<<>>, ch) \in Nat /\ Count(<<>>, ch) <= Len(<<>>)
  BY <1>1, CountIs
<1> QED BY <1>1, <1>2

\* A read more in both queues.
LEMMA BehindAppend ==
  ASSUME NEW R, NEW p, p \in Seq(R), NEW q, q \in Seq(R), NEW x, x \in R, NEW s \in Nat,
         NEW r \in Nat, Behind(p, s, q, r)
  PROVE  Behind(Append(p, x), s, Append(q, x), r)
<1> SUFFICES ASSUME NEW ch PROVE Count(Append(q, x), ch) + r <= Count(Append(p, x), ch) + s
  BY DEF Behind
<1>1. PICK e \in Nat : e = IF ch = x THEN 1 ELSE 0
  OBVIOUS
<1>2. Count(Append(q, x), ch) = Count(q, ch) + e /\ Count(Append(p, x), ch) = Count(p, ch) + e
  BY <1>1, CountAppend
<1>3. Count(q, ch) \in Nat /\ Count(p, ch) \in Nat
  BY CountIs
<1>4. Count(q, ch) + r <= Count(p, ch) + s
  BY DEF Behind
<1> QED BY <1>2, <1>3, <1>4

\* The deeper run is ahead after a record if it was before.
LEMMA DeeperStep ==
  ASSUME NEW x, Placeable(x), NEW policy \in Policies, NEW n \in Nat \ {0},
         NEW a \in Nat \ {0}, NEW m \in Nat, NEW b, b \in Nat \ {0}, b = a * m,
         NEW v, Tally(v, n), NEW w, Tally(w, n), Deeper(v, w, a),
         Len(v.queue) < a, Len(w.queue) < b,
         NEW u, u = PlaceTurn(v, x, policy, n, a), NEW z, z = PlaceTurn(w, x, policy, n, b)
  PROVE  Deeper(u, z, a)
<1>1. PICK R, ch, p0, q0, p, q :
        /\ R = 0..(n - 1) /\ ch = PolicyChannel(policy, x, n) /\ p0 = v.queue /\ q0 = w.queue
        /\ p = Queued(v, x, ch) /\ q = Queued(w, x, ch)
  OBVIOUS
<1>2. CountedIn(v, x, ch, a, u) /\ p \in Seq(R) /\ ch \in R
  BY <1>1, OneTurn
<1>3. CountedIn(w, x, ch, b, z) /\ q \in Seq(R)
  BY <1>1, OneTurn
<1>4. Batched(v, p, a, u) /\ Batched(w, q, b, z)
  BY <1>1, <1>2, <1>3 DEF CountedIn
<1>5. PICK s \in Nat, r \in Nat, i \in Nat, j \in Nat :
        s = v.service /\ r = w.service /\ i = v.batches /\ j = w.batches
  BY DEF Tally
<1>6. p0 \in Seq(R) /\ q0 \in Seq(R) /\ Len(p0) \in Nat /\ Len(q0) \in Nat
  BY <1>1, LenProperties DEF Tally
<1>7. PICK k \in Nat : Len(q0) = k * a + Len(p0) /\ (k # 0 => j + 1 <= i)
  BY <1>1, <1>5 DEF Deeper
<1>8. j <= i /\ r <= s /\ Behind(p0, s, q0, r)
  BY <1>1, <1>5 DEF Deeper
<1>9. k * a \in Nat
  BY ProductIs
<1>10. CASE IsWrite(x)
  <2>1. p = p0 /\ q = q0 /\ ~(Len(p) >= a) /\ ~(Len(q) >= b)
    BY <1>1, <1>6, <1>10 DEF Queued
  <2>2. u.queue = p0 /\ z.queue = q0 /\ u.batches = i /\ z.batches = j /\ u.service = s /\ z.service = r
    BY <1>4, <1>5, <2>1 DEF Batched
  <2> QED BY <1>7, <1>8, <2>2 DEF Deeper
<1>11. CASE ~IsWrite(x)
  <2>1. p = Append(p0, ch) /\ q = Append(q0, ch)
    BY <1>1, <1>11 DEF Queued
  <2>2. Len(p) = Len(p0) + 1 /\ Len(q) = Len(q0) + 1
    BY <1>2, <1>6, <2>1, AppendProperties
  <2>3. Behind(p, s, q, r)
    BY <1>2, <1>6, <1>8, <2>1, BehindAppend
  <2>4. r + MaxLoad(q) <= s + MaxLoad(p) /\ MaxLoad(p) \in Nat /\ MaxLoad(q) \in Nat
    BY <1>2, <1>3, <2>3, BatchPaid, LoadIs
  <2>5. Len(q) >= b => Len(p) >= a
    <3>1. PICK l \in Nat : l = Len(p0)
      BY <1>6
    <3>2. l < a /\ k * a + l < b
      BY <1>1, <1>7, <3>1
    <3>3. (k * a + l) + 1 >= b => l + 1 >= a
      BY <3>2, EndTogether
    <3> QED BY <1>7, <2>2, <3>1, <3>3
  <2>6. CASE ~(Len(p) >= a)
    <3>1. u.queue = p /\ z.queue = q /\ u.batches = i /\ z.batches = j /\ u.service = s /\ z.service = r
      BY <1>4, <1>5, <2>5, <2>6 DEF Batched
    <3>2. Len(q) = k * a + Len(p)
      BY <1>6, <1>7, <1>9, <2>2
    <3> QED BY <1>7, <1>8, <2>3, <3>1, <3>2 DEF Deeper
  <2>7. CASE Len(p) >= a /\ ~(Len(q) >= b)
    <3>1. /\ u.queue = <<>> /\ z.queue = q /\ u.batches = i + 1 /\ z.batches = j
          /\ u.service = s + MaxLoad(p) /\ z.service = r
      BY <1>4, <1>5, <2>7 DEF Batched
    <3>2. Len(p) = a
      BY <1>1, <1>6, <2>2, <2>7
    <3>3. Len(q) = (k + 1) * a + Len(u.queue) /\ k + 1 \in Nat
      <4>1. (k + 1) * a = k * a + a
        BY Z3
      <4>2. Len(u.queue) = 0
        BY <3>1, EmptySeq
      <4> QED BY <1>6, <1>7, <1>9, <2>2, <3>2, <4>1, <4>2
    <3>4. z.batches + 1 <= u.batches /\ z.batches <= u.batches /\ z.service <= u.service
      BY <1>8, <2>4, <3>1
    <3>5. Behind(u.queue, u.service, z.queue, z.service)
      <4> SUFFICES ASSUME NEW c PROVE Count(q, c) + r <= Count(<<>>, c) + (s + MaxLoad(p))
        BY <3>1 DEF Behind
      <4>1. Count(q, c) + r <= Count(p, c) + s
        BY <2>3 DEF Behind
      <4>2. Count(p, c) <= MaxLoad(p)
        BY <1>2, LoadIs DEF NoneLonger
      <4>3. Count(p, c) \in Nat /\ Count(q, c) \in Nat /\ Count(<<>>, c) = 0
        BY <1>2, <1>3, CountIs, CountNone
      <4> QED BY <2>4, <4>1, <4>2, <4>3
    <3> QED BY <3>1, <3>3, <3>4, <3>5 DEF Deeper
  <2>8. CASE Len(q) >= b
    <3>1. /\ u.queue = <<>> /\ z.queue = <<>> /\ u.batches = i + 1 /\ z.batches = j + 1
          /\ u.service = s + MaxLoad(p) /\ z.service = r + MaxLoad(q)
      BY <1>4, <1>5, <2>5, <2>8 DEF Batched
    <3>2. z.batches <= u.batches /\ z.service <= u.service
      BY <1>8, <2>4, <3>1
    <3>3. Len(z.queue) = 0 * a + Len(u.queue) /\ 0 \in Nat
      <4>1. Len(<<>>) = 0 /\ 0 * a = 0
        BY EmptySeq
      <4> QED BY <3>1, <4>1
    <3>4. Behind(u.queue, u.service, z.queue, z.service)
      <4> SUFFICES ASSUME NEW c PROVE Count(<<>>, c) + z.service <= Count(<<>>, c) + u.service
        BY <3>1 DEF Behind
      <4>1. Count(<<>>, c) = 0 /\ z.service \in Nat /\ u.service \in Nat
        BY <2>4, <3>1, CountNone
      <4> QED BY <3>2, <4>1
    <3> QED BY <3>2, <3>3, <3>4 DEF Deeper
  <2> QED BY <2>6, <2>7, <2>8
<1> QED BY <1>10, <1>11

\* So it is after any number of records.
LEMMA RunsDeeper ==
  ASSUME NEW t, NEW N \in Nat, AllPlaceable(t, N), NEW policy \in Policies,
         NEW n \in Nat \ {0}, NEW a \in Nat \ {0}, NEW m \in Nat, NEW b \in Nat \ {0}, b = a * m
  PROVE  \A i \in 0..N : Deeper(PlaceRecords(Records(t, i), policy, n, a),
                                PlaceRecords(Records(t, i), policy, n, b), a)
<1> DEFINE X == {i \in Nat : i <= N => Deeper(PlaceRecords(Records(t, i), policy, n, a),
                                             PlaceRecords(Records(t, i), policy, n, b), a)}
<1>2. 0 \in X
  <2>1. PICK v : v = NewTallies(n)
    OBVIOUS
  <2>2. v.queue = <<>> /\ v.batches = 0 /\ v.service = 0
    BY <2>1, NewIs
  <2>3. Len(v.queue) = 0 * a + Len(v.queue) /\ 0 \in Nat
    <3>1. Len(<<>>) = 0 /\ 0 * a = 0
      BY EmptySeq
    <3> QED BY <2>2, <3>1
  <2>4. Behind(v.queue, v.service, v.queue, v.service)
    <3> SUFFICES ASSUME NEW c PROVE Count(<<>>, c) + 0 <= Count(<<>>, c) + 0
      BY <2>2 DEF Behind
    <3> QED BY CountNone
  <2>5. Deeper(v, v, a)
    BY <2>2, <2>3, <2>4 DEF Deeper
  <2>6. /\ PlaceRecords(Records(t, 0), policy, n, a) = v
        /\ PlaceRecords(Records(t, 0), policy, n, b) = v
    BY <2>1, PlaceNone, RecordsNone
  <2> QED BY <2>5, <2>6
<1>3. ASSUME NEW i \in Nat, i \in X PROVE i + 1 \in X
  <2> SUFFICES ASSUME i + 1 <= N
               PROVE  Deeper(PlaceRecords(Records(t, i + 1), policy, n, a),
                             PlaceRecords(Records(t, i + 1), policy, n, b), a)
    OBVIOUS
  <2>1. i + 1 \in 1..N /\ i <= N /\ i \in 0..N
    OBVIOUS
  <2>2. PICK v, u, w, z, x :
          /\ v = PlaceRecords(Records(t, i), policy, n, a)
          /\ u = PlaceRecords(Records(t, i + 1), policy, n, a)
          /\ w = PlaceRecords(Records(t, i), policy, n, b)
          /\ z = PlaceRecords(Records(t, i + 1), policy, n, b)
          /\ x = ValidatedRecord(t[i + 1])
    OBVIOUS
  <2>3. u = PlaceTurn(v, x, policy, n, a) /\ z = PlaceTurn(w, x, policy, n, b)
    BY <2>2, OneRecordMore
  <2>4. Placeable(x)
    BY <2>1, <2>2 DEF AllPlaceable
  <2>5. Tally(v, n) /\ Len(v.queue) < a
    BY <2>1, <2>2, RunKeeps DEF RunsOn
  <2>6. Tally(w, n) /\ Len(w.queue) < b
    BY <2>1, <2>2, RunKeeps DEF RunsOn
  <2>7. Deeper(v, w, a)
    BY <1>3, <2>1, <2>2
  <2>8. Deeper(u, z, a)
    BY <2>3, <2>4, <2>5, <2>6, <2>7, DeeperStep
  <2> QED BY <2>2, <2>8
<1>4. Nat \subseteq X
  <2> HIDE DEF X
  <2> QED BY <1>2, <1>3, SetInduction
<1> QED BY <1>4

-----------------------------------------------------------------------------
(***************************************************************************)
(* What the study reports.                                                 *)
(***************************************************************************)

\* The report of a run: its last batch has been sent.
Report(e, n, t, N) ==
  /\ Tally(e, n) /\ e.queue = <<>> /\ Total(e.loads) = N
  /\ e.batches <= e.service /\ (SomeRead(t, N) => e.batches >= 1)
Ended(v, e) ==
  /\ e.queue = <<>> /\ e.loads = v.loads /\ SameBytes(v, e)
  /\ e.batches = v.batches + (IF v.queue = <<>> THEN 0 ELSE 1)
  /\ e.service = v.service + MaxLoad(v.queue)

\* What the last batch changes.
LEMMA LastIs ==
  ASSUME NEW n \in Nat \ {0}, NEW v, Tally(v, n),
         NEW e, e = IF v.queue # <<>> THEN Flush(v) ELSE v
  PROVE  Tally(e, n) /\ Ended(v, e)
<1>1. /\ v = [k \in Fields |-> v[k]] /\ v.queue \in Seq(0..(n - 1))
      /\ v.batches \in Nat /\ v.service \in Nat
  BY DEF Tally
<1>2. CASE v.queue = <<>>
  <2>1. e = v /\ MaxLoad(v.queue) = 0
    BY <1>1, <1>2, LoadIs
  <2> QED BY <1>1, <1>2, <2>1 DEF Ended, SameBytes
<1>3. CASE v.queue # <<>>
  <2>1. e = Flush(v)
    BY <1>3
  <2>2. /\ e = [k \in Fields |-> e[k]]
        /\ e.loads = v.loads /\ SameBytes(v, e) /\ e.queue = <<>>
        /\ e.batches = v.batches + 1 /\ e.service = v.service + MaxLoad(v.queue)
    BY <1>1, <2>1, FlushIs
  <2>3. Ended(v, e)
    BY <1>3, <2>2 DEF Ended
  <2>4. MaxLoad(v.queue) \in Nat
    BY <1>1, LoadIs
  <2>5. e.batches \in Nat /\ e.service \in Nat
    BY <1>1, <2>2, <2>4
  <2>6. e.queue \in Seq(0..(n - 1))
    BY <2>2, EmptySeq
  <2>7. /\ e.loads \in [0..(n - 1) -> Nat]
        /\ e.read \in Nat /\ e.written \in Nat /\ e.key \in Nat /\ e.value \in Nat
        /\ e.combined \in Nat
    BY <2>2 DEF SameBytes, Tally
  <2>8. Tally(e, n)
    BY <2>2, <2>5, <2>6, <2>7, Zenon DEF Tally
  <2> QED BY <2>3, <2>8
<1> QED BY <1>2, <1>3

\* The report after the last record.
LEMMA EvaluateEnds ==
  ASSUME NEW seq, NEW policy, NEW n \in Nat \ {0}, NEW d, NEW v,
         v = PlaceRecords(seq, policy, n, d), Tally(v, n)
  PROVE  /\ Tally(EvaluatePlacement(seq, policy, n, d), n)
         /\ Ended(v, EvaluatePlacement(seq, policy, n, d))
<1>1. PICK e : e = EvaluatePlacement(seq, policy, n, d)
  OBVIOUS
<1>2. e = IF v.queue # <<>> THEN Flush(v) ELSE v
  BY <1>1 DEF EvaluatePlacement
<1> QED BY <1>1, <1>2, LastIs

\* A report of any policy, any number of channels and any depth of the queue.
LEMMA EvaluateIs ==
  ASSUME NEW t, NEW N \in Nat, AllPlaceable(t, N), NEW policy \in Policies,
         NEW n \in Nat \ {0}, NEW d \in Nat \ {0}
  PROVE  Report(EvaluatePlacement(Records(t, N), policy, n, d), n, t, N)
<1>1. PICK v, e : /\ v = PlaceRecords(Records(t, N), policy, n, d)
                  /\ e = EvaluatePlacement(Records(t, N), policy, n, d)
  OBVIOUS
<1>2. RunsOn(v, t, n, d, N)
  BY <1>1, RunKeeps
<1>3. Tally(v, n)
  BY <1>2 DEF RunsOn
<1>4. Tally(e, n) /\ Ended(v, e)
  BY <1>1, <1>3, EvaluateEnds
<1>5. /\ v.batches \in Nat /\ v.service \in Nat /\ v.queue \in Seq(0..(n - 1))
      /\ v.batches <= v.service
  BY <1>2, <1>3 DEF Tally, RunsOn
<1>6. /\ MaxLoad(v.queue) \in Nat /\ (v.queue # <<>> => MaxLoad(v.queue) >= 1)
      /\ (v.queue = <<>> => MaxLoad(v.queue) = 0)
  BY <1>5, LoadIs
<1>7. e.batches <= e.service
  <2>1. CASE v.queue = <<>>
    BY <1>4, <1>5, <1>6, <2>1 DEF Ended
  <2>2. CASE v.queue # <<>>
    <3>1. e.batches = v.batches + 1 /\ e.service = v.service + MaxLoad(v.queue)
      BY <1>4, <2>2 DEF Ended
    <3> QED BY <1>5, <1>6, <2>2, <3>1
  <2> QED BY <2>1, <2>2
<1>8. ASSUME SomeRead(t, N) PROVE e.batches >= 1
  <2>1. v.batches > 0 \/ v.queue # <<>>
    BY <1>2, <1>8 DEF RunsOn
  <2>2. e.batches = v.batches + (IF v.queue = <<>> THEN 0 ELSE 1)
    BY <1>4 DEF Ended
  <2> QED BY <1>5, <2>1, <2>2
<1>9. Total(e.loads) = N /\ e.queue = <<>>
  BY <1>2, <1>4 DEF Ended, RunsOn
<1> QED BY <1>1, <1>4, <1>7, <1>8, <1>9 DEF Report

\* The report of any policy against that of the conventional FTL.
LEMMA EvaluateAlike ==
  ASSUME NEW t, NEW N \in Nat, AllPlaceable(t, N), NEW policy \in Policies,
         NEW n \in Nat \ {0}, NEW m \in Nat \ {0}, NEW d \in Nat \ {0},
         NEW e, e = EvaluatePlacement(Records(t, N), policy, n, d),
         NEW c, c = EvaluatePlacement(Records(t, N), "conventional", m, d)
  PROVE  SameBytes(c, e) /\ e.batches = c.batches /\ e.service <= c.service
<1>1. PICK v, w : /\ v = PlaceRecords(Records(t, N), policy, n, d)
                  /\ w = PlaceRecords(Records(t, N), "conventional", m, d)
  OBVIOUS
<1>0. "conventional" \in Policies
  BY DEF Policies
<1>2. Tally(v, n)
  BY <1>1, RunKeeps DEF RunsOn
<1>3. Tally(w, m)
  BY <1>0, <1>1, RunKeeps DEF RunsOn
<1>4. Ended(v, e)
  BY <1>1, <1>2, EvaluateEnds
<1>5. Ended(w, c)
  BY <1>1, <1>3, EvaluateEnds
<1>6. Alike(v, w)
  BY <1>1, RunsAlike
<1>7. SameBytes(c, e)
  BY <1>4, <1>5, <1>6 DEF Ended, SameBytes, Alike
<1>8. v.queue = <<>> <=> w.queue = <<>>
  <2>1. Len(v.queue) = 0 <=> v.queue = <<>>
    BY <1>2, EmptySeq DEF Tally
  <2>2. Len(w.queue) = 0 <=> w.queue = <<>>
    BY <1>3, EmptySeq DEF Tally
  <2> QED BY <1>6, <2>1, <2>2 DEF Alike
<1>9. e.batches = c.batches
  BY <1>4, <1>5, <1>6, <1>8 DEF Ended, Alike
<1>10. e.service <= c.service
  <2>1. MaxLoad(v.queue) \in Nat /\ MaxLoad(v.queue) <= Len(v.queue)
    BY <1>2, LoadIs DEF Tally
  <2>2. MaxLoad(w.queue) = Len(w.queue) /\ Len(w.queue) \in Nat
    <3>1. PICK S, q : S = 0..(m - 1) /\ q = w.queue
      OBVIOUS
    <3>2. q \in Seq(S) /\ \A i \in 1..Len(q) : q[i] = 0
      BY <1>3, <1>6, <3>1 DEF Tally, Alike, AllZero
    <3>3. MaxLoad(q) = Len(q) /\ Len(q) \in Nat
      BY <3>2, LoadOfOne, LenProperties
    <3> QED BY <3>1, <3>3
  <2>3. v.service \in Nat /\ w.service \in Nat /\ v.service <= w.service /\ Len(v.queue) = Len(w.queue)
    BY <1>2, <1>3, <1>6 DEF Tally, Alike
  <2>4. e.service = v.service + MaxLoad(v.queue) /\ c.service = w.service + MaxLoad(w.queue)
    BY <1>4, <1>5 DEF Ended
  <2> QED BY <2>1, <2>2, <2>3, <2>4
<1> QED BY <1>7, <1>9, <1>10

\* The report with a deeper queue.
LEMMA EvaluateDeeper ==
  ASSUME NEW t, NEW N \in Nat, AllPlaceable(t, N), NEW policy \in Policies,
         NEW n \in Nat \ {0}, NEW a \in Nat \ {0}, NEW b \in Nat \ {0}, b % a = 0,
         NEW e, e = EvaluatePlacement(Records(t, N), policy, n, a),
         NEW z, z = EvaluatePlacement(Records(t, N), policy, n, b)
  PROVE  z.batches <= e.batches /\ z.service <= e.service
<1>1. PICK v, w : /\ v = PlaceRecords(Records(t, N), policy, n, a)
                  /\ w = PlaceRecords(Records(t, N), policy, n, b)
  OBVIOUS
<1>2. PICK m \in Nat : b = a * m
  <2>1. b \div a \in Int /\ b = a * (b \div a) + (b % a)
    BY DivMod
  <2>2. b \div a \in Nat
    BY Z3
  <2> QED BY <2>1, <2>2
<1>3. Tally(v, n) /\ Tally(w, n)
  BY <1>1, RunKeeps DEF RunsOn
<1>4. Ended(v, e) /\ Ended(w, z)
  BY <1>1, <1>3, EvaluateEnds
<1>5. Deeper(v, w, a)
  BY <1>1, <1>2, RunsDeeper
<1>13. PICK p, q : p = v.queue /\ q = w.queue
  OBVIOUS
<1>12. v.service \in Nat /\ w.service \in Nat /\ v.batches \in Nat /\ w.batches \in Nat
  BY <1>3 DEF Tally
<1>6. PICK s \in Nat, r \in Nat, i \in Nat, j \in Nat :
        /\ p = v.queue /\ q = w.queue
        /\ s = v.service /\ r = w.service /\ i = v.batches /\ j = w.batches
  BY <1>13, <1>12
<1>7. p \in Seq(0..(n - 1)) /\ q \in Seq(0..(n - 1))
  BY <1>3, <1>6 DEF Tally
<1>8. r + MaxLoad(q) <= s + MaxLoad(p)
  BY <1>5, <1>6, <1>7, BatchPaid DEF Deeper
<1>9. z.service <= e.service
  BY <1>4, <1>6, <1>8 DEF Ended
<1>10. j <= i /\ (q # <<>> => j + 1 <= i + (IF p = <<>> THEN 0 ELSE 1))
  <2>1. j <= i
    BY <1>5, <1>6 DEF Deeper
  <2>2. PICK k \in Nat : Len(q) = k * a + Len(p) /\ (k # 0 => j + 1 <= i)
    BY <1>5, <1>6 DEF Deeper
  <2>3. ASSUME p = <<>>, q # <<>> PROVE j + 1 <= i
    <3>1. Len(p) = 0 /\ Len(q) # 0
      BY <1>7, <2>3, EmptySeq
    <3>2. k # 0
      <4>1. 0 * a = 0
        OBVIOUS
      <4> QED BY <2>2, <3>1, <4>1
    <3> QED BY <2>2, <3>2
  <2> QED BY <2>1, <2>3
<1>11. z.batches <= e.batches
  <2>1. e.batches = i + (IF p = <<>> THEN 0 ELSE 1) /\ z.batches = j + (IF q = <<>> THEN 0 ELSE 1)
    BY <1>4, <1>6 DEF Ended
  <2> QED BY <1>10, <2>1
<1> QED BY <1>9, <1>11

-----------------------------------------------------------------------------
(***************************************************************************)
(* The study phase by phase.                                               *)
(***************************************************************************)

\* The filter of a phase, turn by turn.
LEMMA PhaseTurns ==
  ASSUME NEW S, NEW seq \in Seq(S), NEW phase, NEW base, base = <<>>
  PROVE  \E f : /\ Turns(f, "phase", phase, base, seq)
                /\ OfPhase(seq, phase) = f[Len(seq)]
<1>. DEFINE Eq(h) == h = [s \in SUBSET (1..Len(seq)) |->
                     IF s = {} THEN base
                     ELSE IF seq[Max(s)].operation = phase
                          THEN Append(h[s \ {Max(s)}], seq[Max(s)]) ELSE h[s \ {Max(s)}]]
            it == CHOOSE h : Eq(h)
<1>1. \A h : Eq(h) <=> Iterates(h, "phase", phase, base, seq, Len(seq))
  BY DEF Iterates, Turned
<1>2. Len(seq) \in Nat /\ DOMAIN seq = 1..Len(seq)
  BY LenProperties
<1>3. Eq(it)
  BY <1>1, <1>2, IteratesExist
<1>4. OfPhase(seq, phase) = it[1..Len(seq)]
  BY <1>2 DEF FoldLeft, MapThenFoldSet, OfPhase
<1>5. Iterates(it, "phase", phase, base, seq, Len(seq))
  BY <1>1, <1>3
<1>. HIDE DEF it
<1>6. Turns([i \in 0..Len(seq) |-> it[1..i]], "phase", phase, base, seq)
  BY <1>5, IteratesTurn, Zenon
<1>7. [i \in 0..Len(seq) |-> it[1..i]][Len(seq)] = it[1..Len(seq)]
  BY <1>2
<1> QED BY <1>4, <1>6, <1>7

\* The phase of no record, and of one more.
LEMMA PhaseNone ==
  ASSUME NEW phase
  PROVE  OfPhase(<<>>, phase) = <<>>
<1>1. PICK base, seq : base = <<>> /\ seq = <<>>
  OBVIOUS
<1>2. seq \in Seq({}) /\ Len(seq) = 0
  BY <1>1, EmptySeq
<1>3. PICK f : Turns(f, "phase", phase, base, seq) /\ OfPhase(seq, phase) = f[Len(seq)]
  BY <1>1, <1>2, PhaseTurns
<1> QED BY <1>1, <1>2, <1>3 DEF Turns

OneMoreOf(phase, a, x, b) == b = IF x.operation = phase THEN Append(a, x) ELSE a

LEMMA PhaseAppend ==
  ASSUME NEW S, NEW seq \in Seq(S), NEW x \in S, NEW phase
  PROVE  OneMoreOf(phase, OfPhase(seq, phase), x, OfPhase(Append(seq, x), phase))
<1>1. PICK base, more : base = <<>> /\ more = Append(seq, x)
  OBVIOUS
<1>0. WithOneMore(S, seq, x, more)
  BY <1>1, OneLonger
<1>2. /\ more \in Seq(S) /\ Len(more) = Len(seq) + 1
      /\ \A i \in 1..Len(seq) : more[i] = seq[i]
      /\ more[Len(more)] = x
  BY <1>0 DEF WithOneMore
<1>3. PICK f : Turns(f, "phase", phase, base, seq) /\ OfPhase(seq, phase) = f[Len(seq)]
  BY <1>1, PhaseTurns
<1>4. PICK g : Turns(g, "phase", phase, base, more) /\ OfPhase(more, phase) = g[Len(more)]
  BY <1>1, <1>2, PhaseTurns
<1>5. g[Len(more)] = Turned("phase", phase, f[Len(seq)], more[Len(more)])
  BY <1>2, <1>3, <1>4, TurnsOne
<1>6. PICK v : v = f[Len(seq)]
  OBVIOUS
<1>7. Turned("phase", phase, v, x) = IF x.operation = phase THEN Append(v, x) ELSE v
  BY DEF Turned
<1> QED BY <1>1, <1>2, <1>3, <1>4, <1>5, <1>6, <1>7 DEF OneMoreOf

\* What a report counts: pages of each kind, and a load on each channel.
ByteFields == {"read", "written", "key", "value", "combined"}
Parts(n) == ({"bytes"} \X ByteFields) \cup ({"load"} \X (0..(n - 1)))
Part(v, k) == IF k[1] = "load" THEN v.loads[k[2]] ELSE v[k[2]]
Added(x, field) ==
  CASE field = "read"     -> IF IsWrite(x) THEN 0 ELSE x.byte_size
    [] field = "written"  -> IF IsWrite(x) THEN x.byte_size ELSE 0
    [] field = "key"      -> IF x.sub_page = "KEY" THEN x.byte_size ELSE 0
    [] field = "value"    -> IF x.sub_page = "VALUE" THEN x.byte_size ELSE 0
    [] field = "combined" -> IF x.sub_page = "BOTH" THEN x.byte_size ELSE 0
PartAdded(x, ch, k) == IF k[1] = "load" THEN (IF k[2] = ch THEN 1 ELSE 0) ELSE Added(x, k[2])

\* Such a part is a number.
LEMMA PartIs ==
  ASSUME NEW n \in Nat \ {0}, NEW v, Tally(v, n), NEW k \in Parts(n)
  PROVE  Part(v, k) \in Nat
<1>1. CASE k \in {"bytes"} \X ByteFields
  <2>1. k[1] = "bytes" /\ k[2] \in ByteFields
    BY <1>1
  <2>2. v[k[2]] \in Nat
    BY <2>1 DEF Tally, ByteFields
  <2> QED BY <2>1, <2>2 DEF Part
<1>2. CASE k \in {"load"} \X (0..(n - 1))
  <2>1. k[1] = "load" /\ k[2] \in 0..(n - 1)
    BY <1>2
  <2>2. v.loads \in [0..(n - 1) -> Nat]
    BY DEF Tally
  <2> QED BY <2>1, <2>2 DEF Part
<1> QED BY <1>1, <1>2 DEF Parts

\* How much a record adds to it.
LEMMA PartGrows ==
  ASSUME NEW n \in Nat \ {0}, NEW d, NEW x, Placeable(x), NEW v, Tally(v, n),
         NEW ch \in 0..(n - 1), NEW u, CountedIn(v, x, ch, d, u), NEW k \in Parts(n)
  PROVE  PartAdded(x, ch, k) \in Nat /\ Part(u, k) = Part(v, k) + PartAdded(x, ch, k)
<1>1. CASE k \in {"bytes"} \X ByteFields
  <2>1. k[1] = "bytes" /\ k[2] \in ByteFields
    BY <1>1
  <2>2. PICK size \in Nat : size = x.byte_size
    BY DEF Placeable
  <2>3. PICK f \in ByteFields : f = k[2]
    BY <2>1
  <2>4. Added(x, f) \in Nat
    BY <2>2 DEF Added, ByteFields
  <2>5. u[f] = v[f] + Added(x, f)
    BY <2>2 DEF Added, ByteFields, CountedIn, AddBytes
  <2> QED BY <2>1, <2>3, <2>4, <2>5 DEF Part, PartAdded
<1>2. CASE k \in {"load"} \X (0..(n - 1))
  <2>1. k[1] = "load" /\ k[2] \in 0..(n - 1)
    BY <1>2
  <2>2. PICK w, z, c : w = v.loads /\ z = u.loads /\ c = k[2]
    OBVIOUS
  <2>3. w \in [0..(n - 1) -> Nat] /\ z = [w EXCEPT ![ch] = @ + 1] /\ c \in 0..(n - 1)
    BY <2>1, <2>2 DEF Tally, CountedIn
  <2>4. z[c] = w[c] + (IF c = ch THEN 1 ELSE 0)
    BY <2>3
  <2> QED BY <2>1, <2>2, <2>4 DEF Part, PartAdded
<1> QED BY <1>1, <1>2 DEF Parts

\* The last batch changes none.
LEMMA PartEnds ==
  ASSUME NEW n, NEW v, NEW e, Ended(v, e), NEW k \in Parts(n)
  PROVE  Part(e, k) = Part(v, k)
<1>1. CASE k \in {"bytes"} \X ByteFields
  <2>1. k[1] = "bytes" /\ k[2] \in ByteFields
    BY <1>1
  <2>2. e[k[2]] = v[k[2]]
    BY <2>1 DEF Ended, SameBytes, ByteFields
  <2> QED BY <2>1, <2>2 DEF Part
<1>2. CASE k \in {"load"} \X (0..(n - 1))
  <2>1. k[1] = "load"
    BY <1>2
  <2> QED BY <2>1 DEF Part, Ended
<1> QED BY <1>1, <1>2 DEF Parts

\* At the start all are zero.
LEMMA PartStarts ==
  ASSUME NEW n \in Nat \ {0}, NEW k \in Parts(n)
  PROVE  Part(NewTallies(n), k) = 0
<1>1. PICK v : v = NewTallies(n)
  OBVIOUS
<1>2. v.loads = [ch \in 0..(n - 1) |-> 0]
  BY <1>1, NewIs
<1>3. v.read = 0 /\ v.written = 0 /\ v.key = 0 /\ v.value = 0 /\ v.combined = 0
  BY <1>1, NewIs
<1>4. CASE k \in {"bytes"} \X ByteFields
  <2>1. k[1] = "bytes" /\ k[2] \in ByteFields
    BY <1>4
  <2>2. v[k[2]] = 0
    BY <1>3, <2>1 DEF ByteFields
  <2> QED BY <1>1, <2>1, <2>2 DEF Part
<1>5. CASE k \in {"load"} \X (0..(n - 1))
  <2>1. k[1] = "load" /\ k[2] \in 0..(n - 1)
    BY <1>5
  <2> QED BY <1>1, <1>2, <2>1 DEF Part
<1> QED BY <1>4, <1>5 DEF Parts

\* There are four phases.
LEMMA PhasesFinite == IsFiniteSet(Phases)
<1>1. IsFiniteSet({})
  BY FS_EmptySet
<1>2. IsFiniteSet({} \cup {"PREFILL_WRITE"})
  BY <1>1, FS_AddElement
<1>3. IsFiniteSet({} \cup {"PREFILL_WRITE"} \cup {"DECODE_READ"})
  BY <1>2, FS_AddElement
<1>4. IsFiniteSet({} \cup {"PREFILL_WRITE"} \cup {"DECODE_READ"} \cup {"TOPK_FILTER"})
  BY <1>3, FS_AddElement
<1>5. IsFiniteSet({} \cup {"PREFILL_WRITE"} \cup {"DECODE_READ"} \cup {"TOPK_FILTER"}
                     \cup {"TOPK_FETCH"})
  BY <1>4, FS_AddElement
<1>6. Phases = {} \cup {"PREFILL_WRITE"} \cup {"DECODE_READ"} \cup {"TOPK_FILTER"}
                     \cup {"TOPK_FETCH"}
  BY DEF Phases
<1> QED BY <1>5, <1>6

\* The phases of the first i records, and what they add up to.
Phased(t, i, p, n, d) == PlaceRecords(OfPhase(Records(t, i), p), "tensor_aware", n, d)
Whole(t, i, n, d) == PlaceRecords(Records(t, i), "tensor_aware", n, d)
InOnePhase(t, N) == \A i \in 1..N : ValidatedRecord(t[i]).operation \in Phases
SplitUp(t, N, i) == \A p \in Phases : OfPhase(Records(t, i), p) \in Seq({ValidatedRecord(t[j]) : j \in 1..N})
PhasesRun(t, i, n, d) == \A p \in Phases : Tally(Phased(t, i, p, n, d), n)
PhasesSum(t, i, n, d) ==
  \A k \in Parts(n) : Total([p \in Phases |-> Part(Phased(t, i, p, n, d), k)])
                        = Part(Whole(t, i, n, d), k)

LEMMA PhasesStart ==
  ASSUME NEW t, NEW N \in Nat, NEW n \in Nat \ {0}, NEW d
  PROVE  SplitUp(t, N, 0) /\ PhasesRun(t, 0, n, d) /\ PhasesSum(t, 0, n, d)
<1>1. Records(t, 0) = <<>>
  BY RecordsNone
<1>2. \A p : OfPhase(Records(t, 0), p) = <<>>
  BY <1>1, PhaseNone
<1>3. SplitUp(t, N, 0)
  BY <1>2, EmptySeq DEF SplitUp
<1>4. \A p : Phased(t, 0, p, n, d) = NewTallies(n)
  BY <1>2, PlaceNone DEF Phased
<1>5. PICK v : v = NewTallies(n)
  OBVIOUS
<1>6. Tally(v, n)
  BY <1>5, NewIs
<1>7. PhasesRun(t, 0, n, d)
  BY <1>4, <1>5, <1>6 DEF PhasesRun
<1>8. Whole(t, 0, n, d) = v
  BY <1>1, <1>5, PlaceNone DEF Whole
<1>9. PhasesSum(t, 0, n, d)
  <2> SUFFICES ASSUME NEW k \in Parts(n)
               PROVE  Total([p \in Phases |-> Part(Phased(t, 0, p, n, d), k)])
                        = Part(Whole(t, 0, n, d), k)
    BY DEF PhasesSum
  <2>1. Part(v, k) = 0
    BY <1>5, PartStarts
  <2>2. [p \in Phases |-> Part(Phased(t, 0, p, n, d), k)] = [p \in Phases |-> 0]
    BY <1>4, <1>5, <2>1
  <2> QED BY <1>8, <2>1, <2>2, PhasesFinite, TotalZero
<1> QED BY <1>3, <1>7, <1>9

\* One record more is one more of its phase, and none of another.
LEMMA SplitStep ==
  ASSUME NEW t, NEW N \in Nat, NEW i \in Nat, i + 1 <= N, SplitUp(t, N, i),
         NEW S, S = {ValidatedRecord(t[j]) : j \in 1..N}, NEW x, x = ValidatedRecord(t[i + 1]),
         NEW p \in Phases
  PROVE  /\ x \in S /\ OfPhase(Records(t, i), p) \in Seq(S)
         /\ OneMoreOf(p, OfPhase(Records(t, i), p), x, OfPhase(Records(t, i + 1), p))
<1>1. x \in S
  <2>1. i + 1 \in 1..N
    OBVIOUS
  <2> QED BY <2>1
<1>2. PICK a : a = Records(t, i)
  OBVIOUS
<1>3. a \in Seq(S)
  <2>1. 1..i \subseteq 1..N
    OBVIOUS
  <2>2. a \in [1..i -> S]
    BY <1>2, <2>1 DEF Records
  <2> QED BY <2>2, IsSeq
<1>4. Records(t, i + 1) = Append(a, x)
  <2>1. PICK R : R = {ValidatedRecord(t[j]) : j \in 1..(i + 1)}
    OBVIOUS
  <2> QED BY <1>2, <2>1, RecordsAre
<1>5. OneMoreOf(p, OfPhase(a, p), x, OfPhase(Append(a, x), p))
  BY <1>1, <1>3, PhaseAppend
<1> QED BY <1>1, <1>2, <1>4, <1>5 DEF SplitUp

\* So the phase of a record takes a turn of its loop, and no other does.
LEMMA PhasedStep ==
  ASSUME NEW t, NEW N \in Nat, NEW i \in Nat, i + 1 <= N, SplitUp(t, N, i),
         NEW x, x = ValidatedRecord(t[i + 1]), NEW p \in Phases, NEW n, NEW d
  PROVE  Phased(t, i + 1, p, n, d) = IF x.operation = p
                                     THEN PlaceTurn(Phased(t, i, p, n, d), x, "tensor_aware", n, d)
                                     ELSE Phased(t, i, p, n, d)
<1>1. PICK S, a, b : /\ S = {ValidatedRecord(t[j]) : j \in 1..N}
                     /\ a = OfPhase(Records(t, i), p) /\ b = OfPhase(Records(t, i + 1), p)
  OBVIOUS
<1>4. x \in S /\ a \in Seq(S) /\ OneMoreOf(p, a, x, b)
  BY <1>1, SplitStep
<1>2. x \in S /\ a \in Seq(S) /\ b = IF x.operation = p THEN Append(a, x) ELSE a
  BY <1>4 DEF OneMoreOf
<1>3. PlaceRecords(Append(a, x), "tensor_aware", n, d)
        = PlaceTurn(PlaceRecords(a, "tensor_aware", n, d), x, "tensor_aware", n, d)
  BY <1>2, PlaceAppend
<1> QED BY <1>1, <1>2, <1>3 DEF Phased

LEMMA SplitGoesOn ==
  ASSUME NEW t, NEW N \in Nat, NEW i \in Nat, i + 1 <= N, SplitUp(t, N, i)
  PROVE  SplitUp(t, N, i + 1)
<1> SUFFICES ASSUME NEW p \in Phases
             PROVE  OfPhase(Records(t, i + 1), p) \in Seq({ValidatedRecord(t[j]) : j \in 1..N})
  BY DEF SplitUp
<1>1. PICK S, a, x : /\ S = {ValidatedRecord(t[j]) : j \in 1..N}
                     /\ a = OfPhase(Records(t, i), p) /\ x = ValidatedRecord(t[i + 1])
  OBVIOUS
<1>4. x \in S /\ a \in Seq(S) /\ OneMoreOf(p, a, x, OfPhase(Records(t, i + 1), p))
  BY <1>1, SplitStep
<1>2. x \in S /\ a \in Seq(S)
      /\ OfPhase(Records(t, i + 1), p) = IF x.operation = p THEN Append(a, x) ELSE a
  BY <1>4 DEF OneMoreOf
<1>3. Append(a, x) \in Seq(S)
  BY <1>2, AppendProperties
<1> QED BY <1>1, <1>2, <1>3

LEMMA PhasesGoOn ==
  ASSUME NEW t, NEW N \in Nat, NEW i \in Nat, i + 1 <= N, AllPlaceable(t, N), InOnePhase(t, N),
         NEW n \in Nat \ {0}, NEW d \in Nat \ {0},
         SplitUp(t, N, i), PhasesRun(t, i, n, d), PhasesSum(t, i, n, d)
  PROVE  PhasesRun(t, i + 1, n, d) /\ PhasesSum(t, i + 1, n, d)
<1>1. PICK x, own : x = ValidatedRecord(t[i + 1]) /\ own = x.operation
  OBVIOUS
<1>2. Placeable(x) /\ own \in Phases
  <2>1. i + 1 \in 1..N
    OBVIOUS
  <2> QED BY <1>1, <2>1 DEF AllPlaceable, InOnePhase
<1>3. PICK ch : ch = PolicyChannel("tensor_aware", x, n)
  OBVIOUS
<1>4. ASSUME NEW v, Tally(v, n)
      PROVE  /\ Tally(PlaceTurn(v, x, "tensor_aware", n, d), n)
             /\ CountedIn(v, x, ch, d, PlaceTurn(v, x, "tensor_aware", n, d))
             /\ ch \in 0..(n - 1)
  <2>1. PICK u, policy : u = PlaceTurn(v, x, "tensor_aware", n, d) /\ policy = "tensor_aware"
    OBVIOUS
  <2>2. policy \in Policies /\ u = PlaceTurn(v, x, policy, n, d) /\ ch = PolicyChannel(policy, x, n)
    BY <1>3, <2>1 DEF Policies
  <2>3. Tally(u, n) /\ CountedIn(v, x, ch, d, u) /\ ch \in 0..(n - 1)
    BY <1>2, <1>4, <2>2, OneTurn
  <2> QED BY <2>1, <2>3
<1>5. ASSUME NEW p \in Phases
      PROVE  /\ Tally(Phased(t, i, p, n, d), n)
             /\ Phased(t, i + 1, p, n, d)
                  = IF p = own THEN PlaceTurn(Phased(t, i, p, n, d), x, "tensor_aware", n, d)
                    ELSE Phased(t, i, p, n, d)
  <2>1. Tally(Phased(t, i, p, n, d), n)
    BY DEF PhasesRun
  <2>2. Phased(t, i + 1, p, n, d)
          = IF x.operation = p THEN PlaceTurn(Phased(t, i, p, n, d), x, "tensor_aware", n, d)
            ELSE Phased(t, i, p, n, d)
    BY <1>1, PhasedStep
  <2> QED BY <1>1, <2>1, <2>2
<1>6. PhasesRun(t, i + 1, n, d)
  BY <1>4, <1>5 DEF PhasesRun
<1>7. PICK w, z : w = Whole(t, i, n, d) /\ z = Whole(t, i + 1, n, d)
  OBVIOUS
<1>8. Tally(w, n) /\ z = PlaceTurn(w, x, "tensor_aware", n, d)
  <2>1. "tensor_aware" \in Policies /\ i \in 0..N
    BY DEF Policies
  <2>2. Tally(w, n)
    BY <1>7, <2>1, RunKeeps DEF RunsOn, Whole
  <2> QED BY <1>1, <1>7, <2>2, OneRecordMore DEF Whole
<1>9. PhasesSum(t, i + 1, n, d)
  <2> SUFFICES ASSUME NEW k \in Parts(n)
               PROVE  Total([p \in Phases |-> Part(Phased(t, i + 1, p, n, d), k)])
                        = Part(Whole(t, i + 1, n, d), k)
    BY DEF PhasesSum
  <2>1. PICK a : a = PartAdded(x, ch, k)
    OBVIOUS
  <2>2. ASSUME NEW v, Tally(v, n)
        PROVE  a \in Nat /\ Part(PlaceTurn(v, x, "tensor_aware", n, d), k) = Part(v, k) + a
    BY <1>2, <1>4, <2>1, <2>2, PartGrows
  <2>3. a \in Nat /\ Part(z, k) = Part(w, k) + a
    BY <1>8, <2>2
  <2>4. PICK A, f, g : /\ A = Phases
                       /\ f = [p \in Phases |-> Part(Phased(t, i, p, n, d), k)]
                       /\ g = [p \in Phases |-> Part(Phased(t, i + 1, p, n, d), k)]
    OBVIOUS
  <2>5. ASSUME NEW p \in Phases PROVE f[p] \in Nat /\ g[p] = f[p] + (IF p = own THEN a ELSE 0)
    <3>1. f[p] = Part(Phased(t, i, p, n, d), k) /\ g[p] = Part(Phased(t, i + 1, p, n, d), k)
      BY <2>4
    <3>2. Part(Phased(t, i, p, n, d), k) \in Nat
      BY <1>5, PartIs
    <3>3. CASE p = own
      <4>1. PICK v : v = Phased(t, i, p, n, d)
        OBVIOUS
      <4>2. Tally(v, n) /\ Phased(t, i + 1, p, n, d) = PlaceTurn(v, x, "tensor_aware", n, d)
        BY <1>5, <3>3, <4>1
      <4>3. g[p] = f[p] + a
        BY <2>2, <3>1, <4>1, <4>2
      <4> QED BY <3>1, <3>2, <3>3, <4>3
    <3>4. CASE p # own
      <4>1. g[p] = f[p]
        BY <1>5, <3>1, <3>4
      <4> QED BY <3>1, <3>2, <3>4, <4>1
    <3> QED BY <3>3, <3>4
  <2>6. f \in [A -> Nat] /\ g \in [A -> Nat] /\ own \in A /\ g[own] = f[own] + a
    BY <1>2, <2>3, <2>4, <2>5
  <2>7. AgreeOn(f, g, A \ {own})
    BY <2>4, <2>5 DEF AgreeOn
  <2>8. Total(g) = Total(f) + a
    BY <2>3, <2>4, <2>6, <2>7, PhasesFinite, CountGrows
  <2>9. Total(f) = Part(w, k)
    BY <1>7, <2>4 DEF PhasesSum
  <2> QED BY <1>7, <2>3, <2>4, <2>8, <2>9
<1> QED BY <1>6, <1>9

\* The phases add up to the whole, however many records there are.
LEMMA PhasesAddUp ==
  ASSUME NEW t, NEW N \in Nat, AllPlaceable(t, N), InOnePhase(t, N),
         NEW n \in Nat \ {0}, NEW d \in Nat \ {0}
  PROVE  PhasesRun(t, N, n, d) /\ PhasesSum(t, N, n, d)
<1> DEFINE X == {i \in Nat : i <= N =>
                   SplitUp(t, N, i) /\ PhasesRun(t, i, n, d) /\ PhasesSum(t, i, n, d)}
<1>1. 0 \in X
  BY PhasesStart
<1>2. ASSUME NEW i \in Nat, i \in X PROVE i + 1 \in X
  <2> SUFFICES ASSUME i + 1 <= N
               PROVE  SplitUp(t, N, i + 1) /\ PhasesRun(t, i + 1, n, d) /\ PhasesSum(t, i + 1, n, d)
    OBVIOUS
  <2>1. SplitUp(t, N, i) /\ PhasesRun(t, i, n, d) /\ PhasesSum(t, i, n, d)
    BY <1>2
  <2> HIDE DEF X
  <2> QED BY <2>1, SplitGoesOn, PhasesGoOn
<1>3. Nat \subseteq X
  <2> HIDE DEF X
  <2> QED BY <1>1, <1>2, SetInduction
<1> QED BY <1>3

\* And so do their reports.
LEMMA ReportsAddUp ==
  ASSUME NEW t, NEW N \in Nat, AllPlaceable(t, N), InOnePhase(t, N),
         NEW n \in Nat \ {0}, NEW d \in Nat \ {0}, NEW k \in Parts(n)
  PROVE  Total([p \in Phases |->
                  Part(EvaluatePlacement(OfPhase(Records(t, N), p), "tensor_aware", n, d), k)])
           = Part(EvaluatePlacement(Records(t, N), "tensor_aware", n, d), k)
<1>1. PhasesRun(t, N, n, d) /\ PhasesSum(t, N, n, d)
  BY PhasesAddUp
<1>2. ASSUME NEW p \in Phases
      PROVE  Part(EvaluatePlacement(OfPhase(Records(t, N), p), "tensor_aware", n, d), k)
               = Part(Phased(t, N, p, n, d), k)
  <2>1. PICK v, seq : v = Phased(t, N, p, n, d) /\ seq = OfPhase(Records(t, N), p)
    OBVIOUS
  <2>2. Tally(v, n) /\ v = PlaceRecords(seq, "tensor_aware", n, d)
    BY <1>1, <2>1 DEF PhasesRun, Phased
  <2>3. Ended(v, EvaluatePlacement(seq, "tensor_aware", n, d))
    BY <2>2, EvaluateEnds
  <2> QED BY <2>1, <2>3, PartEnds
<1>3. Part(EvaluatePlacement(Records(t, N), "tensor_aware", n, d), k) = Part(Whole(t, N, n, d), k)
  <2>1. PICK v, seq : v = Whole(t, N, n, d) /\ seq = Records(t, N)
    OBVIOUS
  <2>2. "tensor_aware" \in Policies /\ N \in 0..N
    BY DEF Policies
  <2>3. Tally(v, n) /\ v = PlaceRecords(seq, "tensor_aware", n, d)
    BY <2>1, <2>2, RunKeeps DEF RunsOn, Whole
  <2>4. Ended(v, EvaluatePlacement(seq, "tensor_aware", n, d))
    BY <2>3, EvaluateEnds
  <2> QED BY <2>1, <2>4, PartEnds
<1>4. [p \in Phases |-> Part(EvaluatePlacement(OfPhase(Records(t, N), p), "tensor_aware", n, d), k)]
        = [p \in Phases |-> Part(Phased(t, N, p, n, d), k)]
  BY <1>2
<1> QED BY <1>1, <1>3, <1>4 DEF PhasesSum

-----------------------------------------------------------------------------
(***************************************************************************)
(* The study of a trace of P1.                                             *)
(***************************************************************************)

\* A line of P1 can be placed and counted, and is of one phase.
LEMMA LineCounts ==
  ASSUME NEW n, n \in Nat \ {0}, NEW t, IsTrace(t), Log(t, n), NEW i \in 1..Len(t)
  PROVE  Placeable(ValidatedRecord(t[i])) /\ ValidatedRecord(t[i]).operation \in Phases
<1>1. \E r : r \in Events /\ t[i] = WithId(r, i - 1)
  <2>1. CASE \E r \in WriteLines(n) : t[i] = WithId(r, i - 1)
    BY <2>1, WriteIsEvent
  <2>2. CASE \E l \in 0..(Layers - 1), step \in 1..Steps : \E r \in DecodeLines(step, l, n) :
               t[i] = WithId(r, i - 1)
    BY <2>2 DEF DecodeLines
  <2> QED BY <2>1, <2>2, LineIs
<1>2. PICK r : r \in Events /\ t[i] = WithId(r, i - 1)
  BY <1>1
<1>3. PICK e : e = t[i]
  OBVIOUS
<1>4. SameLine(e, r, i - 1) /\ r.operation \in ValidOperations /\ r.byte_size \in Nat
  BY <1>2, <1>3, NumberedLine DEF Events
<1>5. e.operation = r.operation /\ e.byte_size = r.byte_size
  BY <1>4 DEF SameLine
<1>6. Line(e)
  BY <1>3 DEF IsTrace
<1>7. Replayable(e)
  BY <1>4, <1>5, <1>6 DEF Line
<1>8. ValidatedRecord(e).byte_size = e.byte_size /\ ValidatedRecord(e).operation = e.operation
  BY DEF ValidatedRecord
<1>9. e.operation \in Phases
  BY <1>3, OperationIs DEF Phases
<1> QED BY <1>3, <1>4, <1>5, <1>7, <1>8, <1>9 DEF Placeable, Replayable

\* The last step has left a line, and that is no write.
LEMMA LogReads ==
  ASSUME NEW n, n \in Nat \ {0}, NEW t, IsTrace(t), Log(t, n), Stepped(t, Steps * Layers)
  PROVE  SomeRead(t, Len(t))
<1>1. Steps \in Nat \ {0} /\ Steps \in 1..Steps /\ Layers \in Nat
  BY PipelineAssumption, TraceAssumption
<1>2. Steps * Layers <= Steps * Layers
  <2>1. Steps * Layers \in Nat
    BY <1>1, ProductIs
  <2> QED BY <2>1
<1>3. PICK i \in 1..Len(t) : t[i].step = Steps
  BY <1>1, <1>2 DEF Stepped
<1>4. Scripted(t[i])
  BY LogValid DEF LineValid
<1>5. t[i].operation # "PREFILL_WRITE"
  BY <1>1, <1>3, <1>4 DEF Scripted
<1>6. t[i].operation \in {"PREFILL_WRITE", "DECODE_READ", "TOPK_FILTER", "TOPK_FETCH"}
  BY OperationIs
<1>7. ValidatedRecord(t[i]).operation = t[i].operation
  BY DEF ValidatedRecord
<1>8. ~IsWrite(ValidatedRecord(t[i]))
  BY <1>5, <1>6, <1>7 DEF IsWrite
<1> QED BY <1>8 DEF SomeRead

\* What the study needs of a trace.
Studied(t, N) == N \in Nat /\ AllPlaceable(t, N) /\ InOnePhase(t, N) /\ SomeRead(t, N)

\* What it concludes of a policy, of a deeper queue and of the phases.
FairTime(e, c, page) == ServiceTime(e, page) \in 1..ServiceTime(c, page)
FairBytes(e, c) == [e EXCEPT !.loads = c.loads, !.service = c.service] = c
FairPolicy(e, c, page, N) == FairTime(e, c, page) /\ FairBytes(e, c) /\ PagesOn(e.loads) = N
FairDepths(s, z) ==
  /\ ServiceTime(z.ta, PageTime) <= ServiceTime(s.ta, PageTime)
  /\ ServiceTime(z.conv, PageTime) <= ServiceTime(s.conv, PageTime)
FairPhases(phases, ta) ==
  /\ \A field \in {"read", "written", "key", "value", "combined"} :
       FoldFunction(+, 0, [p \in DOMAIN phases |-> phases[p].ta[field]]) = ta[field]
  /\ \A ch \in 0..(Channels - 1) :
       FoldFunction(+, 0, [p \in DOMAIN phases |-> phases[p].ta.loads[ch]]) = ta.loads[ch]

\* A finished log can be studied.
LEMMA LogStudied ==
  ASSUME NEW n, n \in Nat \ {0}, NEW t, IsTrace(t), Log(t, n), Stepped(t, Steps * Layers)
  PROVE  Studied(t, Len(t))
<1>1. Len(t) \in Nat
  BY LenProperties DEF IsTrace
<1>2. AllPlaceable(t, Len(t)) /\ InOnePhase(t, Len(t))
  BY LineCounts DEF AllPlaceable, InOnePhase
<1> QED BY <1>1, <1>2, LogReads DEF Studied

\* A policy against the conventional FTL (phase3_real_trace_eval.py:221-229).
LEMMA AblationIs ==
  ASSUME NEW t, NEW N, Studied(t, N), NEW policy \in Policies, NEW page \in TimingProfiles,
         NEW n \in Nat \ {0}, NEW d \in Nat \ {0},
         NEW e, e = EvaluatePlacement(Records(t, N), policy, n, d),
         NEW c, c = EvaluatePlacement(Records(t, N), "conventional", n, d)
  PROVE  FairPolicy(e, c, page, N)
<1>1. N \in Nat /\ AllPlaceable(t, N) /\ SomeRead(t, N) /\ "conventional" \in Policies
  BY DEF Studied, Policies
<1>2. Report(e, n, t, N)
  BY <1>1, EvaluateIs
<1>3. Report(c, n, t, N)
  BY <1>1, EvaluateIs
<1>4. SameBytes(c, e) /\ e.batches = c.batches /\ e.service <= c.service
  BY <1>1, EvaluateAlike
<1>5. ServiceTime(e, page) \in 1..ServiceTime(c, page)
  <2>1. PICK b \in Nat, s \in Nat, z \in Nat : b = e.batches /\ s = e.service /\ z = c.service
    BY <1>2, <1>3 DEF Report, Tally
  <2>2. b >= 1 /\ b <= s /\ s <= z
    BY <1>1, <1>2, <1>4, <2>1 DEF Report
  <2>3. ServiceTime(e, page) = b * 20 + s * page /\ ServiceTime(c, page) = b * 20 + z * page
    BY <1>4, <2>1 DEF ServiceTime, PcieOverhead
  <2>4. CASE page = 35
    BY <2>2, <2>3, <2>4
  <2>5. CASE page = 60
    BY <2>2, <2>3, <2>5
  <2>6. CASE page = 110
    BY <2>2, <2>3, <2>6
  <2> QED BY <2>4, <2>5, <2>6 DEF TimingProfiles, PageTime
<1>6. [e EXCEPT !.loads = c.loads, !.service = c.service] = c
  <2>1. PICK u : u = [e EXCEPT !.loads = c.loads, !.service = c.service]
    OBVIOUS
  <2>2. e = [k \in Fields |-> e[k]] /\ c = [k \in Fields |-> c[k]]
    BY <1>2, <1>3 DEF Report, Tally
  <2>3. u = [k \in Fields |-> u[k]]
    BY <2>1, <2>2
  <2>4. u.loads = c.loads /\ u.service = c.service /\ u.queue = e.queue /\ u.batches = e.batches
        /\ u.read = e.read /\ u.written = e.written
        /\ u.key = e.key /\ u.value = e.value /\ u.combined = e.combined
    BY <2>1, <2>2 DEF Fields
  <2>5. e.queue = c.queue
    BY <1>2, <1>3 DEF Report
  <2>6. \A k \in Fields : u[k] = c[k]
    BY <1>4, <2>4, <2>5 DEF Fields, SameBytes
  <2> QED BY <2>1, <2>2, <2>3, <2>6
<1>7. PagesOn(e.loads) = N
  BY <1>2 DEF Report, PagesOn, Total
<1> QED BY <1>5, <1>6, <1>7 DEF FairPolicy, FairTime, FairBytes

\* More channels (phase3_real_trace_eval.py:234-251).
LEMMA ScalingIs ==
  ASSUME NEW t, NEW N, Studied(t, N), NEW n \in Nat \ {0}, NEW m \in Nat \ {0},
         NEW d \in Nat \ {0}, NEW s, s = Compared(Records(t, N), m, d),
         NEW c, c = EvaluatePlacement(Records(t, N), "conventional", n, d)
  PROVE  s.conv.service = c.service /\ s.ta.service \in 1..c.service
<1>0. PICK one, two : one = "conventional" /\ two = "tensor_aware"
  OBVIOUS
<1>1. /\ N \in Nat /\ AllPlaceable(t, N) /\ SomeRead(t, N)
      /\ one \in Policies /\ two \in Policies
  BY <1>0 DEF Studied, Policies
<1>2. PICK e, z : /\ e = EvaluatePlacement(Records(t, N), one, m, d)
                  /\ z = EvaluatePlacement(Records(t, N), two, m, d)
  OBVIOUS
<1>3. s.conv = e /\ s.ta = z
  BY <1>0, <1>2 DEF Compared
<1>4. Report(e, m, t, N)
  BY <1>1, <1>2, EvaluateIs
<1>5. Report(z, m, t, N)
  BY <1>1, <1>2, EvaluateIs
<1>6. Report(c, n, t, N)
  BY <1>0, <1>1, EvaluateIs
<1>7. e.service <= c.service
  BY <1>1, <1>2, EvaluateAlike
<1>8. z.service <= c.service
  BY <1>1, <1>2, EvaluateAlike
<1>9. c.service <= e.service
  BY <1>0, <1>1, <1>2, EvaluateAlike
<1>10. /\ e.service \in Nat /\ z.service \in Nat /\ c.service \in Nat
       /\ z.batches \in Nat /\ z.batches >= 1 /\ z.batches <= z.service
  BY <1>1, <1>4, <1>5, <1>6 DEF Report, Tally
<1> QED BY <1>3, <1>7, <1>8, <1>9, <1>10

\* A deeper queue (phase3_real_trace_eval.py:256-271).
LEMMA DepthsAre ==
  ASSUME NEW t, NEW N, Studied(t, N), NEW n \in Nat \ {0}, NEW a \in Nat \ {0},
         NEW b \in Nat \ {0}, b % a = 0,
         NEW s, s = Compared(Records(t, N), n, a), NEW z, z = Compared(Records(t, N), n, b)
  PROVE  FairDepths(s, z)
<1>1. N \in Nat /\ AllPlaceable(t, N)
  BY DEF Studied
<1>2. ASSUME NEW policy \in Policies
      PROVE  ServiceTime(EvaluatePlacement(Records(t, N), policy, n, b), PageTime)
               <= ServiceTime(EvaluatePlacement(Records(t, N), policy, n, a), PageTime)
  <2>1. PICK e, u : /\ e = EvaluatePlacement(Records(t, N), policy, n, a)
                    /\ u = EvaluatePlacement(Records(t, N), policy, n, b)
    OBVIOUS
  <2>2. Report(e, n, t, N)
    BY <1>1, <2>1, EvaluateIs
  <2>3. Report(u, n, t, N)
    BY <1>1, <2>1, EvaluateIs
  <2>4. u.batches <= e.batches /\ u.service <= e.service
    BY <1>1, <2>1, EvaluateDeeper
  <2>5. /\ e.batches \in Nat /\ e.service \in Nat /\ u.batches \in Nat /\ u.service \in Nat
    BY <2>2, <2>3 DEF Report, Tally
  <2>6. /\ ServiceTime(e, PageTime) = e.batches * 20 + e.service * 60
        /\ ServiceTime(u, PageTime) = u.batches * 20 + u.service * 60
    BY DEF ServiceTime, PcieOverhead, PageTime
  <2> QED BY <2>1, <2>4, <2>5, <2>6
<1>3. "conventional" \in Policies /\ "tensor_aware" \in Policies
  BY DEF Policies
<1>4. /\ s.conv = EvaluatePlacement(Records(t, N), "conventional", n, a)
      /\ s.ta = EvaluatePlacement(Records(t, N), "tensor_aware", n, a)
      /\ z.conv = EvaluatePlacement(Records(t, N), "conventional", n, b)
      /\ z.ta = EvaluatePlacement(Records(t, N), "tensor_aware", n, b)
  BY DEF Compared
<1> QED BY <1>2, <1>3, <1>4 DEF FairDepths

\* The phases (phase3_real_trace_eval.py:276-296).
LEMMA PhaseSums ==
  ASSUME NEW t, NEW N, Studied(t, N), NEW d \in Nat \ {0},
         NEW phases, phases = [p \in Phases |-> Compared(OfPhase(Records(t, N), p), Channels, d)],
         NEW ta, ta = EvaluatePlacement(Records(t, N), "tensor_aware", Channels, d)
  PROVE  FairPhases(phases, ta)
<1>0. PICK n \in Nat \ {0} : n = Channels
  BY GeometryAssumption
<1>1. N \in Nat /\ AllPlaceable(t, N) /\ InOnePhase(t, N)
  BY DEF Studied
<1>2. DOMAIN phases = Phases
  OBVIOUS
<1>3. ASSUME NEW p \in Phases
      PROVE  phases[p].ta = EvaluatePlacement(OfPhase(Records(t, N), p), "tensor_aware", n, d)
  BY <1>0 DEF Compared
<1>4. ASSUME NEW k \in Parts(n)
      PROVE  Total([p \in Phases |-> Part(phases[p].ta, k)]) = Part(ta, k)
  <2>1. [p \in Phases |-> Part(phases[p].ta, k)]
          = [p \in Phases |-> Part(EvaluatePlacement(OfPhase(Records(t, N), p),
                                                     "tensor_aware", n, d), k)]
    BY <1>3
  <2>2. Total([p \in Phases |-> Part(EvaluatePlacement(OfPhase(Records(t, N), p),
                                                       "tensor_aware", n, d), k)]) = Part(ta, k)
    BY <1>0, <1>1, ReportsAddUp
  <2> QED BY <2>1, <2>2
<1>5. ASSUME NEW field \in ByteFields
      PROVE  FoldFunction(+, 0, [p \in DOMAIN phases |-> phases[p].ta[field]]) = ta[field]
  <2>1. PICK k : k = <<"bytes", field>>
    OBVIOUS
  <2>2. k \in Parts(n) /\ k[1] # "load" /\ k[2] = field
    BY <2>1 DEF Parts
  <2>3. \A v : Part(v, k) = v[field]
    BY <2>2 DEF Part
  <2>4. [p \in Phases |-> Part(phases[p].ta, k)] = [p \in DOMAIN phases |-> phases[p].ta[field]]
    BY <1>2, <2>3
  <2>5. Total([p \in Phases |-> Part(phases[p].ta, k)]) = ta[field]
    BY <1>4, <2>2, <2>3
  <2> QED BY <2>4, <2>5 DEF Total
<1>6. ASSUME NEW ch \in 0..(n - 1)
      PROVE  FoldFunction(+, 0, [p \in DOMAIN phases |-> phases[p].ta.loads[ch]]) = ta.loads[ch]
  <2>1. PICK k : k = <<"load", ch>>
    OBVIOUS
  <2>2. k \in Parts(n) /\ k[1] = "load" /\ k[2] = ch
    BY <2>1 DEF Parts
  <2>3. \A v : Part(v, k) = v.loads[ch]
    BY <2>2 DEF Part
  <2>4. [p \in Phases |-> Part(phases[p].ta, k)] = [p \in DOMAIN phases |-> phases[p].ta.loads[ch]]
    BY <1>2, <2>3
  <2>5. Total([p \in Phases |-> Part(phases[p].ta, k)]) = ta.loads[ch]
    BY <1>4, <2>2, <2>3
  <2> QED BY <2>4, <2>5 DEF Total
<1> QED BY <1>0, <1>5, <1>6 DEF FairPhases, ByteFields

\* What the study concludes of a trace of P1, of any length and on any device: the
\* conventional FTL is the worst policy and no better for more channels, a deeper queue never
\* costs more time, no policy changes what is read and written, the phases add up to the trace,
\* and no time it divides by is zero (phase3_real_trace_eval.py:206-320).
THEOREM StudyAlwaysFair == Spec => []StudyIsFair
<1>1. TraceInv /\ LogInv => StudyIsFair
  <2> DEFINE R == [i \in 1..cursor |-> ValidatedRecord(trace[i])]
             Concluded(policies, scaling, depths, phases, conv, ta) ==
               /\ \A policy \in Policies, page \in TimingProfiles :
                    FairPolicy(policies[policy], conv, page, Len(trace))
               /\ \A c \in StudyChannels :
                    /\ scaling[c].conv.service = conv.service
                    /\ scaling[c].ta.service \in 1..conv.service
               /\ \A a, b \in StudyDepths : a <= b => FairDepths(depths[a], depths[b])
               /\ FairPhases(phases, ta)
  <2>0. (TraceInv /\ LogInv /\ stage = "replaying" /\ source = "p1"
           /\ cursor = Len(trace) /\ job.mode = "conventional"
           => Concluded(PolicyAblation(R), ChannelScaling(R), DepthScaling(R), PhaseResults(R),
                        PolicyAblation(R)["conventional"], PolicyAblation(R)["tensor_aware"]))
        => (TraceInv /\ LogInv => StudyIsFair)
    BY DEF StudyIsFair, FairPolicy, FairTime, FairBytes, FairDepths, FairPhases
  <2> SUFFICES ASSUME TraceInv, LogInv, stage = "replaying", source = "p1",
                      cursor = Len(trace), job.mode = "conventional",
                      NEW records, records = R,
                      NEW policies, policies = PolicyAblation(records),
                      NEW scaling, scaling = ChannelScaling(records),
                      NEW depths, depths = DepthScaling(records),
                      NEW phases, phases = PhaseResults(records),
                      NEW conv, conv = policies["conventional"],
                      NEW ta, ta = policies["tensor_aware"]
               PROVE  Concluded(policies, scaling, depths, phases, conv, ta)
    <3> HIDE DEF Concluded
    <3> QED BY <2>0
  <2>1. PICK n, t, N : n = tokens /\ t = trace /\ N = Len(trace)
    OBVIOUS
  <2>2. n \in Nat \ {0} /\ IsTrace(t) /\ Log(t, n) /\ Stepped(t, Steps * Layers)
    BY <2>1 DEF TraceInv, LogInv, Logs, Complete
  <2>3. Studied(t, N)
    BY <2>1, <2>2, LogStudied
  <2>4. records = Records(t, N)
    BY <2>1 DEF Records
  <2>5. Channels \in Nat \ {0} /\ QueueDepth \in Nat \ {0}
    BY GeometryAssumption, PipelineAssumption
  <2>6. \A policy \in Policies :
          policies[policy] = EvaluatePlacement(Records(t, N), policy, Channels, QueueDepth)
    BY <2>4 DEF PolicyAblation
  <2>7. /\ conv = EvaluatePlacement(Records(t, N), "conventional", Channels, QueueDepth)
        /\ ta = EvaluatePlacement(Records(t, N), "tensor_aware", Channels, QueueDepth)
    BY <2>6 DEF Policies
  <2>8. ASSUME NEW policy \in Policies, NEW page \in TimingProfiles
        PROVE  FairPolicy(policies[policy], conv, page, Len(trace))
    <3>1. PICK e : e = policies[policy]
      OBVIOUS
    <3>2. e = EvaluatePlacement(Records(t, N), policy, Channels, QueueDepth)
      BY <2>6, <3>1
    <3>3. FairPolicy(e, conv, page, N)
      BY <2>3, <2>5, <2>7, <3>2, AblationIs
    <3> QED BY <2>1, <3>1, <3>3
  <2>9. ASSUME NEW c \in StudyChannels
        PROVE  scaling[c].conv.service = conv.service /\ scaling[c].ta.service \in 1..conv.service
    <3>1. c \in Nat \ {0}
      BY StudyAssumption
    <3>2. scaling[c] = Compared(Records(t, N), c, QueueDepth)
      BY <2>4 DEF ChannelScaling
    <3> QED BY <2>3, <2>5, <2>7, <3>1, <3>2, ScalingIs
  <2>10. ASSUME NEW a \in StudyDepths, NEW b \in StudyDepths, a <= b
         PROVE  FairDepths(depths[a], depths[b])
    <3>1. a \in Nat \ {0} /\ b \in Nat \ {0} /\ b % a = 0
      BY <2>10, StudyAssumption
    <3>2. /\ depths[a] = Compared(Records(t, N), Channels, a)
          /\ depths[b] = Compared(Records(t, N), Channels, b)
      BY <2>4 DEF DepthScaling
    <3> QED BY <2>3, <2>5, <3>1, <3>2, DepthsAre
  <2>11. phases = [p \in Phases |-> Compared(OfPhase(Records(t, N), p), Channels, QueueDepth)]
    BY <2>4 DEF PhaseResults
  <2>12. FairPhases(phases, ta)
    BY <2>3, <2>5, <2>7, <2>11, PhaseSums
  <2> QED BY <2>8, <2>9, <2>10, <2>12
<1> QED BY <1>1, LogInvAlways, PTL

=============================================================================
