---------------------------- MODULE ModelRunProofs ----------------------------
(***************************************************************************)
(* Theorems about ModelRun, for every hub, every set of models that are    *)
(* onboarded and any number of onboardings, crashes and restarts; for      *)
(* every set of layers and of prompts, every size of sinks, window and     *)
(* block, every share of blocks that is selected and any number of tokens. *)
(***************************************************************************)
EXTENDS ModelRun, SequenceLemmas

-----------------------------------------------------------------------------
(***************************************************************************)
(* The registry.                                                           *)
(***************************************************************************)

\* An entry is refused exactly if no adapter runs it.
Decided(e) == e.level = "UNSUPPORTED" <=> GetAdapter(e) = "none"

\* What the process and the file have of the models that were onboarded: the process has
\* nothing but built-in entries and those, and the file has them all.
Remembered ==
  /\ DOMAIN KnownModels \subseteq DOMAIN known
  /\ \A k \in DOMAIN known :
       \/ k \in DOMAIN kept /\ known[k] = kept[k]
       \/ k \in DOMAIN KnownModels /\ known[k] = KnownModels[k]
  /\ DOMAIN kept \subseteq DOMAIN LoadCustom
  /\ \A k \in DOMAIN kept : LoadCustom[k] = kept[k]
  /\ \A k \in DOMAIN LoadCustom : Decided(LoadCustom[k])
  /\ DOMAIN kept \subseteq {o[2] : o \in Onboarded}

\* Nothing is in the empty table.
LEMMA NoneEmpty == DOMAIN None = {}
BY DEF None

\* Every built-in entry, every class of detect_model_config and every entry that the
\* onboarding makes is refused exactly if no adapter runs it.
LEMMA EntriesDecided ==
  /\ \A k \in DOMAIN KnownModels : Decided(KnownModels[k])
  /\ \A id : Decided(Classified(id)) /\ Decided(Inspected(id))
  /\ \A n : Decided(Entry(n, "unknown", "unknown", "UNSUPPORTED", FALSE))
<1>1. ASSUME NEW k \in DOMAIN KnownModels PROVE Decided(KnownModels[k])
  BY <1>1 DEF Decided, KnownModels, Entry, GetAdapter
<1>2. ASSUME NEW id PROVE Decided(Classified(id))
  BY DEF Decided, Classified, Entry, GetAdapter
<1>3. ASSUME NEW id PROVE Decided(Inspected(id))
  BY DEF Decided, Inspected, Entry, GetAdapter
<1>4. ASSUME NEW n PROVE Decided(Entry(n, "unknown", "unknown", "UNSUPPORTED", FALSE))
  BY DEF Decided, Entry, GetAdapter
<1> QED
  BY <1>1, <1>2, <1>3, <1>4

\* A registration is remembered by the process and by the file.
LEMMA RegisterRemembered ==
  ASSUME Remembered, NEW o \in Onboarded, Register(o[1], o[2])
  PROVE  Remembered'
<1>. DEFINE e == Inspected(o[1])
            k == o[2]
<1>1. /\ known' = With(known, k, e) /\ kept' = With(kept, k, e)
      /\ LoadCustom' = With(LoadCustom, k, e)
  BY DEF Register, SaveCustom, LoadCustom
<1>2. Decided(e)
  BY EntriesDecided
<1>3. k \in {p[2] : p \in Onboarded}
  OBVIOUS
<1>. HIDE DEF e, k
<1>4. /\ DOMAIN known' = DOMAIN known \cup {k} /\ known'[k] = e
      /\ \A x \in DOMAIN known \ {k} : known'[x] = known[x]
  BY <1>1 DEF With
<1>5. /\ DOMAIN kept' = DOMAIN kept \cup {k} /\ kept'[k] = e
      /\ \A x \in DOMAIN kept \ {k} : kept'[x] = kept[x]
  BY <1>1 DEF With
<1>6. /\ DOMAIN LoadCustom' = DOMAIN LoadCustom \cup {k} /\ LoadCustom'[k] = e
      /\ \A x \in DOMAIN LoadCustom \ {k} : LoadCustom'[x] = LoadCustom[x]
  BY <1>1 DEF With
<1> QED
  BY <1>2, <1>3, <1>4, <1>5, <1>6 DEF Remembered

\* A crash tears the file, and nothing is promised any more; the next process knows
\* the built-in entries.
LEMMA CrashRemembered ==
  ASSUME CrashInSave
  PROVE  Remembered'
<1>1. known' = KnownModels /\ kept' = None /\ LoadCustom' = None
  BY DEF CrashInSave, LoadCustom
<1> QED
  BY <1>1, NoneEmpty DEF Remembered

\* Every step of the model.
LEMMA RememberedStep == Remembered /\ [Next]_vars => Remembered'
<1> SUFFICES ASSUME Remembered, [Next]_vars PROVE Remembered'
  OBVIOUS
<1>1. CASE Onboard
  BY <1>1, RegisterRemembered, CrashRemembered DEF Onboard
<1>2. CASE NewProcess
  <2>1. known' = KnownModels /\ kept' = kept /\ LoadCustom' = LoadCustom
    BY <1>2 DEF NewProcess, Restart, LoadCustom
  <2> QED
    BY <2>1 DEF Remembered
<1>3. CASE UNCHANGED registryVars
  <2>1. known' = known /\ kept' = kept /\ LoadCustom' = LoadCustom
    BY <1>3 DEF registryVars, LoadCustom
  <2> QED
    BY <2>1 DEF Remembered
<1>4. [Next]_vars => Onboard \/ NewProcess \/ UNCHANGED registryVars
  BY DEF Next, vars, StartRun, StartDense, Prefill, DecodeLayer, DenseLayer, Finish, PrefillFails,
         DecodeFails
<1> QED
  BY <1>1, <1>2, <1>3, <1>4

\* A name is an alias of itself or of a built-in key.
LEMMA AliasKnown == ASSUME NEW k PROVE Alias(k) = k \/ Alias(k) \in DOMAIN KnownModels
<1>1. Alias(k) \in {k, "qwen3.5-4b", "qwen3.5-9b"}
  BY DEF Alias
<1>2. {"qwen3.5-4b", "qwen3.5-9b"} \subseteq DOMAIN KnownModels
  BY DEF KnownModels
<1> QED
  BY <1>1, <1>2

\* What is remembered answers.
LEMMA RememberedAnswers ==
  ASSUME Remembered
  PROVE  RegistryAnswers
<1>1. /\ DOMAIN ListModels = DOMAIN known \cup DOMAIN LoadCustom
      /\ \A k \in DOMAIN known : ListModels[k] = known[k]
      /\ \A k \in DOMAIN LoadCustom \ DOMAIN known : ListModels[k] = LoadCustom[k]
  BY DEF ListModels, Over
<1>2. \A k \in DOMAIN ListModels : Decided(ListModels[k])
  BY <1>1, EntriesDecided DEF Remembered
<1>3. ASSUME NEW n PROVE Decided(Detect(n))
  BY <1>2, EntriesDecided DEF Detect
<1>4. ASSUME NEW k \in DOMAIN kept
      PROVE  \/ Alias(k) \in DOMAIN kept /\ Detect(k) = kept[Alias(k)]
             \/ Alias(k) \in DOMAIN KnownModels /\ Detect(k) = KnownModels[Alias(k)]
  <2>1. PICK a : a = Alias(k)
    OBVIOUS
  <2>2. a \in DOMAIN kept \/ a \in DOMAIN KnownModels
    BY <2>1, AliasKnown
  <2>3. a \in DOMAIN ListModels
    BY <1>1, <2>2 DEF Remembered
  <2>4. Detect(k) = ListModels[a]
    BY <2>1, <2>3 DEF Detect
  <2>5. \/ a \in DOMAIN kept /\ ListModels[a] = kept[a]
        \/ a \in DOMAIN KnownModels /\ ListModels[a] = KnownModels[a]
    BY <1>1, <2>2, <2>3 DEF Remembered
  <2> QED
    BY <2>1, <2>4, <2>5
<1> QED
  BY <1>3, <1>4 DEF RegistryAnswers, Decided

\* The registry answers as it was told: whatever is onboarded before or after it, a model
\* is found under its key as it was registered, by this process and by later ones, unless
\* a crash tore the file or the key is a built-in one or an alias of one, which answers
\* for the built-in one (registry.py:267-273); and a name is refused exactly if no adapter
\* runs it.
THEOREM RegistryAnswersAlways == Spec => []RegistryAnswers
<1>1. Init => Remembered
  <2> SUFFICES ASSUME Init PROVE Remembered
    OBVIOUS
  <2>1. known = KnownModels /\ kept = None /\ LoadCustom = None
    BY DEF Init, RegistryInit, LoadCustom
  <2> QED
    BY <2>1, NoneEmpty DEF Remembered
<1>2. Remembered => RegistryAnswers
  BY RememberedAnswers
<1> QED
  BY <1>1, <1>2, RememberedStep, PTL DEF Spec

-----------------------------------------------------------------------------
(***************************************************************************)
(* Sorted sequences, and what a division leaves.                           *)
(***************************************************************************)

\* A division with a remainder.
LEMMA Divided ==
  ASSUME NEW a \in Nat, NEW n \in Nat \ {0}
  PROVE  /\ a \div n \in Nat /\ a % n \in 0..(n - 1)
         /\ a = n * (a \div n) + (a % n)
BY Z3

\* The layers in their order: what `sorted` returns (aissd_inference.py:619-622).
LEMMA AscendingIs ==
  ASSUME NEW X, IsFiniteSet(X), X \subseteq Int
  PROVE  /\ Ascending(X) \in Seq(X) /\ Ascending(X) \in [1..Cardinality(X) -> X]
         /\ Len(Ascending(X)) = Cardinality(X) /\ Cardinality(X) \in Nat
         /\ Range(Ascending(X)) = X
         /\ \A i, j \in 1..Cardinality(X) : i < j => Ascending(X)[i] < Ascending(X)[j]
<1>. DEFINE n == Cardinality(X)
            Good(s) == \A i, j \in DOMAIN s : i < j => s[i] < s[j]
            key == [x \in X |-> x]
<1>1. n \in Nat
  BY FS_CardinalityType
<1>2. key \in [X -> Int] /\ \A x, y \in X : key[x] = key[y] => x = y
  OBVIOUS
<1>3. \E s \in [1..n -> X] : \A i, j \in 1..n : i < j => key[s[i]] < key[s[j]]
  <2>. HIDE DEF key
  <2> QED BY <1>2, SortedExists
<1>4. \E s \in [1..n -> X] : Good(s)
  <2>1. PICK s \in [1..n -> X] : \A i, j \in 1..n : i < j => key[s[i]] < key[s[j]]
    BY <1>3
  <2>2. \A i \in 1..n : s[i] \in X /\ key[s[i]] = s[i]
    OBVIOUS
  <2> QED BY <2>1, <2>2
<1>5. PICK s : s = Ascending(X)
  OBVIOUS
<1>6. s \in [1..n -> X] /\ Good(s)
  BY <1>4, <1>5 DEF Ascending
<1>7. \A i, j \in 1..n : s[i] = s[j] => i = j
  <2>1. \A i, j \in 1..n : i < j => s[i] < s[j] /\ s[i] \in Int /\ s[j] \in Int
    BY <1>6
  <2> QED BY <2>1
<1>8. Range(s) = X
  BY <1>1, <1>6, <1>7, AllOfThem
<1> QED BY <1>1, <1>5, <1>6, <1>8

\* The winners in the order of their ids: what `sorted` makes of them
\* (transformer_kv.py:352).
LEMMA ByIdIs ==
  ASSUME NEW B, IsFiniteSet(B), \A b \in B : b.bid \in Int, \A b, c \in B : b.bid = c.bid => b = c
  PROVE  /\ ById(B) \in Seq(B) /\ ById(B) \in [1..Cardinality(B) -> B]
         /\ Len(ById(B)) = Cardinality(B) /\ Cardinality(B) \in Nat
         /\ Range(ById(B)) = B
         /\ \A i, j \in 1..Cardinality(B) : i < j => ById(B)[i].bid < ById(B)[j].bid
<1>. DEFINE n == Cardinality(B)
            Good(s) == \A i, j \in DOMAIN s : i < j => s[i].bid < s[j].bid
            key == [b \in B |-> b.bid]
<1>1. n \in Nat
  BY FS_CardinalityType
<1>2. key \in [B -> Int] /\ \A x, y \in B : key[x] = key[y] => x = y
  OBVIOUS
<1>3. \E s \in [1..n -> B] : \A i, j \in 1..n : i < j => key[s[i]] < key[s[j]]
  <2>. HIDE DEF key
  <2> QED BY <1>2, SortedExists
<1>4. \E s \in [1..n -> B] : Good(s)
  <2>1. PICK s \in [1..n -> B] : \A i, j \in 1..n : i < j => key[s[i]] < key[s[j]]
    BY <1>3
  <2>2. \A i \in 1..n : s[i] \in B /\ key[s[i]] = s[i].bid
    OBVIOUS
  <2> QED BY <2>1, <2>2
<1>5. PICK s : s = ById(B)
  OBVIOUS
<1>6. s \in [1..n -> B] /\ Good(s)
  BY <1>4, <1>5 DEF ById
<1>7. \A i, j \in 1..n : s[i] = s[j] => i = j
  <2>1. \A i, j \in 1..n : i < j => s[i].bid < s[j].bid /\ s[i].bid \in Int /\ s[j].bid \in Int
    BY <1>6
  <2> QED BY <2>1
<1>8. Range(s) = B
  BY <1>1, <1>6, <1>7, AllOfThem
<1> QED BY <1>1, <1>5, <1>6, <1>8

-----------------------------------------------------------------------------
(***************************************************************************)
(* Tokens.                                                                 *)
(***************************************************************************)

\* A token: its run and its position, or the padding of a block.
Token == Nat \X Int

\* A list of k tokens of run r from position a on.
IsText(s, r, a, k) ==
  s \in Seq(Token) /\ Len(s) = k /\ \A i \in 1..k : s[i] = <<r, a + i - 1>>

\* Tokens from one position to another.
LEMMA TokensSeq ==
  ASSUME NEW r \in Nat, NEW a \in Nat, NEW b \in Nat, a <= b
  PROVE  IsText(Tokens(r, a, b), r, a, b - a)
<1>1. b - a \in Nat /\ \A i \in 1..(b - a) : a + i - 1 \in a..(b - 1)
  OBVIOUS
<1>2. PICK s : s = Tokens(r, a, b)
  OBVIOUS
<1>3. \A i \in 1..(b - a) : s[i] = <<r, a + i - 1>>
  BY <1>2 DEF Tokens
<1>4. s \in [1..(b - a) -> Token]
  <2>1. s = [i \in 1..(b - a) |-> <<r, a + i - 1>>]
    BY <1>2 DEF Tokens
  <2>2. \A i \in 1..(b - a) : <<r, a + i - 1>> \in Token
    BY <1>1 DEF Token
  <2> QED BY <2>1, <2>2
<1>5. s \in Seq(Token) /\ Len(s) = b - a
  BY <1>1, <1>4
<1>6. IsText(s, r, a, b - a)
  BY <1>3, <1>5 DEF IsText
<1> QED BY <1>2, <1>6

\* As many of them as there are positions.
LEMMA TokensLen ==
  ASSUME NEW r \in Nat, NEW a \in Nat, NEW b \in Nat, a <= b
  PROVE  Len(Tokens(r, a, b)) = b - a
<1>1. IsText(Tokens(r, a, b), r, a, b - a)
  BY TokensSeq
<1> QED BY <1>1 DEF IsText

\* The set of them.
LEMMA TokensRange ==
  ASSUME NEW r \in Nat, NEW a \in Nat, NEW b \in Nat, a <= b
  PROVE  Range(Tokens(r, a, b)) = {<<r, p>> : p \in a..(b - 1)}
<1>1. \A i \in 1..(b - a) : a + i - 1 \in a..(b - 1)
  OBVIOUS
<1>2. PICK s : s = Tokens(r, a, b)
  OBVIOUS
<1>3. DOMAIN s = 1..(b - a) /\ \A i \in 1..(b - a) : s[i] = <<r, a + i - 1>>
  BY <1>2 DEF Tokens
<1>4. ASSUME NEW p \in a..(b - 1) PROVE <<r, p>> \in Range(s)
  <2>1. p - a + 1 \in 1..(b - a) /\ a + (p - a + 1) - 1 = p
    OBVIOUS
  <2>2. s[p - a + 1] = <<r, p>>
    BY <1>3, <2>1
  <2> QED BY <1>3, <2>1, <2>2 DEF Range
<1>5. ASSUME NEW x \in Range(s) PROVE x \in {<<r, p>> : p \in a..(b - 1)}
  BY <1>1, <1>3 DEF Range
<1>6. Range(s) = {<<r, p>> : p \in a..(b - 1)}
  BY <1>4, <1>5
<1> QED BY <1>2, <1>6

\* Tokens of one run in the order of the text.
Ordered(s, r) ==
  /\ s \in Seq(Token)
  /\ \A i \in 1..Len(s) : s[i][1] = r
  /\ \A i, j \in 1..Len(s) : i < j => s[i][2] < s[j][2]

\* Two stretches of text, the second after the first.
LEMMA OrderedJoin ==
  ASSUME NEW r, NEW a, NEW b, Ordered(a, r), Ordered(b, r),
         \A x \in Range(a), y \in Range(b) : x[2] < y[2]
  PROVE  Ordered(a \o b, r)
<1>1. a \in Seq(Token) /\ b \in Seq(Token)
  BY DEF Ordered
<1>2. /\ Len(a) \in Nat /\ Len(b) \in Nat
      /\ DOMAIN a = 1..Len(a) /\ DOMAIN b = 1..Len(b)
  BY <1>1, LenProperties
<1>3. PICK c : c = a \o b
  OBVIOUS
<1>4. /\ c \in Seq(Token) /\ Len(c) = Len(a) + Len(b)
      /\ \A i \in 1..Len(c) : c[i] = IF i <= Len(a) THEN a[i] ELSE b[i - Len(a)]
  BY <1>1, <1>3, ConcatProperties
<1>5. Range(c) = Range(a) \cup Range(b)
  BY <1>1, <1>3, RangeConcatenation
<1>6. PICK m \in Nat, n \in Nat : m = Len(a) /\ n = Len(b)
  BY <1>2
<1>7. \A i \in 1..(m + n) : IF i <= m THEN i \in 1..m /\ c[i] = a[i]
                                     ELSE i - m \in 1..n /\ c[i] = b[i - m]
  BY <1>4, <1>6
<1>8. (\A i \in 1..m : a[i] \in Range(a)) /\ (\A i \in 1..n : b[i] \in Range(b))
  BY <1>2, <1>6 DEF Range
<1>9. ASSUME NEW i \in 1..(m + n) PROVE c[i][1] = r
  BY <1>6, <1>7 DEF Ordered
<1>10. ASSUME NEW i \in 1..(m + n), NEW j \in 1..(m + n), i < j PROVE c[i][2] < c[j][2]
  <2>1. CASE j <= m
    BY <1>6, <1>7, <1>10, <2>1 DEF Ordered
  <2>2. CASE i > m
    <3>1. i - m \in 1..n /\ j - m \in 1..n /\ i - m < j - m /\ c[i] = b[i - m] /\ c[j] = b[j - m]
      BY <1>7, <1>10, <2>2
    <3> QED BY <1>6, <3>1 DEF Ordered
  <2>3. CASE i <= m /\ j > m
    <3>1. i \in 1..m /\ j - m \in 1..n /\ c[i] = a[i] /\ c[j] = b[j - m]
      BY <1>7, <2>3
    <3> QED BY <1>8, <3>1
  <2> QED BY <2>1, <2>2, <2>3
<1> QED BY <1>3, <1>4, <1>5, <1>6, <1>9, <1>10 DEF Ordered

\* Tokens from one position to another are in order.
LEMMA TokensOrdered ==
  ASSUME NEW r \in Nat, NEW a \in Nat, NEW b \in Nat, a <= b
  PROVE  Ordered(Tokens(r, a, b), r)
<1>1. PICK s : s = Tokens(r, a, b)
  OBVIOUS
<1>2. /\ s \in Seq(Token) /\ Len(s) = b - a
      /\ \A i \in 1..(b - a) : s[i] = <<r, a + i - 1>>
  <2>1. IsText(s, r, a, b - a)
    BY <1>1, TokensSeq
  <2> QED BY <2>1 DEF IsText
<1> QED BY <1>1, <1>2 DEF Ordered

\* A sequence with one element more.
Longer(S, s, x, v) ==
  v \in Seq(S) /\ Len(v) = Len(s) + 1 /\ (\A i \in 1..Len(s) : v[i] = s[i]) /\ v[Len(s) + 1] = x

LEMMA AppendLonger == ASSUME NEW S, NEW s \in Seq(S), NEW x \in S PROVE Longer(S, s, x, Append(s, x))
BY AppendProperties DEF Longer

\* Tokens with one token more, and with one token less.
NextTokens(r, a, b) ==
  /\ Append(Tokens(r, a, b), <<r, b>>) = Tokens(r, a, b + 1)
  /\ Tokens(r, a, b) \o << <<r, b>> >> = Tokens(r, a, b + 1)
  /\ a < b => Tail(Tokens(r, a, b)) = Tokens(r, a + 1, b)
  /\ Tokens(r, a, b) = <<>> <=> a = b

LEMMA TokensNext ==
  ASSUME NEW r \in Nat, NEW a \in Nat, NEW b \in Nat, a <= b
  PROVE  NextTokens(r, a, b)
<1>0. PICK c \in Nat, d \in Nat : c = b + 1 /\ d = a + 1
  OBVIOUS
<1>1. PICK s, t, u : s = Tokens(r, a, b) /\ t = Tokens(r, a, c) /\ u = Tokens(r, d, b)
  OBVIOUS
<1>2. /\ s \in Seq(Token) /\ Len(s) = b - a /\ \A i \in 1..(b - a) : s[i] = <<r, a + i - 1>>
  <2>1. IsText(s, r, a, b - a)
    BY <1>1, TokensSeq
  <2> QED BY <2>1 DEF IsText
<1>3. /\ t \in Seq(Token) /\ Len(t) = c - a /\ \A i \in 1..(c - a) : t[i] = <<r, a + i - 1>>
  <2>1. a <= c
    BY <1>0
  <2>2. IsText(t, r, a, c - a)
    BY <1>1, <2>1, TokensSeq
  <2> QED BY <2>2 DEF IsText
<1>4. <<r, b>> \in Token
  BY DEF Token
<1>5. Append(s, <<r, b>>) = t
  <2>1. PICK v : v = Append(s, <<r, b>>)
    OBVIOUS
  <2>0. Longer(Token, s, <<r, b>>, v)
    BY <1>2, <1>4, <2>1, AppendLonger
  <2>2. v \in Seq(Token) /\ Len(v) = Len(s) + 1 /\ \A i \in 1..Len(s) : v[i] = s[i]
    BY <2>0 DEF Longer
  <2>3. v[Len(s) + 1] = <<r, b>>
    BY <2>0 DEF Longer
  <2>4. ASSUME NEW i \in 1..Len(v) PROVE v[i] = t[i]
    <3>1. CASE i = b - a + 1
      <4>1. v[i] = <<r, b>> /\ t[i] = <<r, a + i - 1>> /\ a + i - 1 = b
        BY <1>0, <1>2, <1>3, <2>3, <3>1
      <4> QED BY <4>1
    <3>2. CASE i # b - a + 1
      <4>1. i \in 1..(b - a) /\ i \in 1..(c - a)
        BY <1>0, <1>2, <2>2, <3>2
      <4> QED BY <1>2, <1>3, <2>2, <4>1
    <3> QED BY <3>1, <3>2
  <2>5. Len(v) = Len(t)
    BY <1>0, <1>2, <1>3, <2>2
  <2> QED BY <1>3, <2>1, <2>2, <2>4, <2>5, SeqEqual
<1>6. s \o << <<r, b>> >> = t
  <2>1. s \o << <<r, b>> >> = Append(s, <<r, b>>)
    BY <1>2, <1>4, AppendIsConcat
  <2> QED BY <1>5, <2>1
<1>7. ASSUME a < b PROVE Tail(s) = u
  <2>1. u \in Seq(Token) /\ Len(u) = b - d /\ \A i \in 1..(b - d) : u[i] = <<r, d + i - 1>>
    <3>1. d <= b
      BY <1>0, <1>7
    <3>2. IsText(u, r, d, b - d)
      BY <1>1, <3>1, TokensSeq
    <3> QED BY <3>2 DEF IsText
  <2>2. s # <<>>
    BY <1>2, <1>7, EmptySeq
  <2>3. PICK v : v = Tail(s)
    OBVIOUS
  <2>4. v \in Seq(Token) /\ Len(v) = Len(s) - 1 /\ \A i \in 1..Len(v) : v[i] = s[i+1]
    BY <1>2, <2>2, <2>3, HeadTailProperties
  <2>5. ASSUME NEW i \in 1..Len(v) PROVE v[i] = u[i]
    <3>1. i \in 1..(b - d) /\ i + 1 \in 1..(b - a) /\ a + (i + 1) - 1 = d + i - 1
      BY <1>0, <1>2, <2>4
    <3>2. s[i+1] = <<r, a + (i + 1) - 1>> /\ u[i] = <<r, d + i - 1>>
      BY <1>2, <2>1, <3>1
    <3> QED BY <2>4, <3>1, <3>2
  <2>6. Len(v) = Len(u)
    BY <1>0, <1>2, <2>1, <2>4
  <2> QED BY <2>1, <2>3, <2>4, <2>5, <2>6, SeqEqual
<1>8. s = <<>> <=> a = b
  BY <1>2, EmptySeq
<1> QED BY <1>0, <1>1, <1>5, <1>6, <1>7, <1>8 DEF NextTokens

\* One token more.
LEMMA TokensAppend ==
  ASSUME NEW r \in Nat, NEW a \in Nat, NEW b \in Nat, a <= b
  PROVE  Append(Tokens(r, a, b), <<r, b>>) = Tokens(r, a, b + 1)
<1>1. NextTokens(r, a, b)
  BY TokensNext
<1> QED BY <1>1 DEF NextTokens

LEMMA TokensJoin ==
  ASSUME NEW r \in Nat, NEW a \in Nat, NEW b \in Nat, a <= b
  PROVE  Tokens(r, a, b) \o << <<r, b>> >> = Tokens(r, a, b + 1)
<1>1. NextTokens(r, a, b)
  BY TokensNext
<1> QED BY <1>1 DEF NextTokens

\* One token less.
LEMMA TokensTail ==
  ASSUME NEW r \in Nat, NEW a \in Nat, NEW b \in Nat, a < b
  PROVE  Tail(Tokens(r, a, b)) = Tokens(r, a + 1, b)
<1>1. a <= b
  OBVIOUS
<1>2. NextTokens(r, a, b)
  BY <1>1, TokensNext
<1> QED BY <1>2 DEF NextTokens

\* No tokens.
LEMMA TokensEmpty ==
  ASSUME NEW r \in Nat, NEW a \in Nat, NEW b \in Nat, a <= b
  PROVE  Tokens(r, a, b) = <<>> <=> a = b
<1>1. NextTokens(r, a, b)
  BY TokensNext
<1> QED BY <1>1 DEF NextTokens

-----------------------------------------------------------------------------
(***************************************************************************)
(* The blocks of a prompt.                                                 *)
(***************************************************************************)

\* The first position of a block, and the one after its last token.
First(b) == SinkTokens + b * TokensPerBlock
End(n, b) == First(b) + ActualTokens(n, b)

\* The smaller of two numbers.
LEMMA MinOfTwo ==
  ASSUME NEW a \in Int, NEW b \in Int
  PROVE  Min({a, b}) = IF a <= b THEN a ELSE b
<1>1. \E m \in {a, b} : \A y \in {a, b} : m <= y
  OBVIOUS
<1>2. Min({a, b}) \in {a, b} /\ \A y \in {a, b} : Min({a, b}) <= y
  BY <1>1 DEF Min
<1> QED BY <1>2

\* Multiples grow.
LEMMA MultiplesGrow ==
  ASSUME NEW b \in Nat, NEW c \in Nat, NEW t \in Nat \ {0}, b < c
  PROVE  /\ b * t \in Nat /\ c * t \in Nat /\ b * t + t <= c * t
BY Z3

\* A product does not depend on the order.
LEMMA Commutes == \A b, t \in Nat : b * t = t * b /\ b * t \in Nat
BY Z3

\* The blocks cut what is between the sinks and the window of the prompt, in order and without
\* a gap (transformer_kv.py:169-189).
LEMMA BlocksTile ==
  ASSUME NEW n \in Nat, Splits(n)
  PROVE  /\ HistoryBlocks(n) \in Nat \ {0}
         /\ \A b \in 0..(HistoryBlocks(n) - 1) :
              /\ First(b) \in Nat /\ First(b) >= SinkTokens
              /\ ActualTokens(n, b) \in 1..TokensPerBlock
              /\ End(n, b) \in Nat /\ End(n, b) <= n - RecentTokens
         /\ \A b, c \in 0..(HistoryBlocks(n) - 1) : b < c => End(n, b) <= First(c)
         /\ \A p \in SinkTokens..(n - RecentTokens - 1) :
              \E b \in 0..(HistoryBlocks(n) - 1) : First(b) <= p /\ p < End(n, b)
<1>1. PICK T \in Nat \ {0}, S \in Nat, R \in Nat \ {0} :
        T = TokensPerBlock /\ S = SinkTokens /\ R = RecentTokens
  BY ProviderAssumption
<1>2. PICK d \in Nat \ {0} : d = n - S - R
  BY <1>1 DEF Splits
<1>3. PICK H, rem : H = (d + T - 1) \div T /\ rem = (d + T - 1) % T
  OBVIOUS
<1>4. d + T - 1 \in Nat
  OBVIOUS
<1>5. H \in Nat /\ rem \in 0..(T - 1) /\ d + T - 1 = T * H + rem
  BY <1>3, <1>4, Divided
<1>6. HistoryBlocks(n) = H
  BY <1>1, <1>2, <1>3 DEF HistoryBlocks
<1>7. PICK m \in Nat : m = H * T /\ m >= d /\ m - T < d
  <2>1. H * T = T * H /\ H * T \in Nat
    BY <1>5, Commutes
  <2> QED BY <1>5, <2>1
<1>8. H # 0
  <2>1. H = 0 => m = 0
    BY <1>7
  <2> QED BY <1>7, <2>1
<1>9. ASSUME NEW b \in 0..(H - 1)
      PROVE  /\ b * T \in Nat /\ b * T < d
             /\ First(b) = S + b * T
             /\ ActualTokens(n, b) = IF T <= d - b * T THEN T ELSE d - b * T
             /\ ActualTokens(n, b) \in 1..T
             /\ End(n, b) <= S + d
  <2>1. b \in Nat /\ b < H
    BY <1>5
  <2>2. b * T \in Nat /\ b * T + T <= H * T
    BY <1>5, <2>1, MultiplesGrow
  <2>3. PICK x \in Nat : x = b * T /\ x < d
    BY <1>7, <2>2
  <2>4. First(b) = S + x
    BY <1>1, <2>3 DEF First
  <2>5. ActualTokens(n, b) = Min({T, d - x})
    <3>1. n - RecentTokens - SinkTokens - b * TokensPerBlock = d - x
      BY <1>1, <1>2, <2>3
    <3> QED BY <1>1, <3>1 DEF ActualTokens
  <2>6. ActualTokens(n, b) = IF T <= d - x THEN T ELSE d - x
    BY <2>5, MinOfTwo
  <2> QED BY <2>3, <2>4, <2>6 DEF End
<1>10. ASSUME NEW b \in 0..(H - 1), NEW c \in 0..(H - 1), b < c PROVE End(n, b) <= First(c)
  <2>1. b * T \in Nat /\ c * T \in Nat /\ b * T + T <= c * T
    BY <1>5, <1>10, MultiplesGrow
  <2>2. PICK x \in Nat, y \in Nat : x = b * T /\ y = c * T
    BY <2>1
  <2>3. First(b) = S + x /\ First(c) = S + y /\ ActualTokens(n, b) \in 1..T
    BY <1>9, <2>2
  <2> QED BY <2>1, <2>2, <2>3 DEF End
<1>11. ASSUME NEW p \in S..(n - R - 1)
       PROVE  \E b \in 0..(H - 1) : First(b) <= p /\ p < End(n, b)
  <2>1. PICK x \in 0..(d - 1) : x = p - S
    BY <1>2
  <2>2. PICK b, r : b = x \div T /\ r = x % T
    OBVIOUS
  <2>3. b \in Nat /\ r \in 0..(T - 1) /\ x = T * b + r
    <3>1. x \in Nat
      OBVIOUS
    <3> QED BY <2>2, <3>1, Divided
  <2>4. PICK y \in Nat : y = b * T /\ y <= x /\ x < y + T
    <3>1. b * T = T * b /\ b * T \in Nat
      BY <2>3, Commutes
    <3> QED BY <2>3, <3>1
  <2>5. b < H
    <3>1. CASE b = H
      BY <1>7, <2>1, <2>4, <3>1
    <3>2. CASE H < b
      <4>1. H * T + T <= b * T
        BY <1>5, <2>3, <3>2, MultiplesGrow
      <4> QED BY <1>7, <2>1, <2>4, <4>1
    <3> QED BY <1>5, <2>3, <3>1, <3>2
  <2>6. b \in 0..(H - 1)
    BY <1>5, <2>3, <2>5
  <2>7. First(b) = S + y /\ ActualTokens(n, b) = IF T <= d - y THEN T ELSE d - y
    BY <1>9, <2>4, <2>6
  <2>8. First(b) <= p /\ p < End(n, b)
    BY <2>1, <2>4, <2>7 DEF End
  <2> QED BY <2>6, <2>8
<1>12. ASSUME NEW b \in 0..(H - 1)
       PROVE  First(b) \in Nat /\ First(b) >= S /\ End(n, b) \in Nat /\ End(n, b) <= n - R
  <2>1. PICK x \in Nat, a \in 1..T : x = b * T /\ First(b) = S + x /\ a = ActualTokens(n, b)
                                     /\ End(n, b) <= S + d
    BY <1>9
  <2> QED BY <1>2, <2>1 DEF End
<1> QED
  <2>1. \A b \in 0..(H - 1) : ActualTokens(n, b) \in 1..T
    BY <1>9
  <2> QED BY <1>1, <1>5, <1>6, <1>8, <1>10, <1>11, <1>12, <2>1

\* A short prompt has no blocks.
LEMMA NoBlocks == ASSUME NEW n \in Nat, ~Splits(n) PROVE HistoryBlocks(n) = 0
BY DEF HistoryBlocks

\* A page without its padding is the tokens of its block.
LEMMA PageIs ==
  ASSUME NEW r \in Nat, NEW n \in Nat, Splits(n), NEW b \in 0..(HistoryBlocks(n) - 1)
  PROVE  /\ Block(r, n, b) \in Seq(Token) /\ Len(Block(r, n, b)) = TokensPerBlock
         /\ SubSeq(Block(r, n, b), 1, ActualTokens(n, b)) = Tokens(r, First(b), End(n, b))
<1>1. PICK T \in Nat \ {0}, f \in Nat, a \in Nat :
        T = TokensPerBlock /\ f = First(b) /\ a = ActualTokens(n, b) /\ a \in 1..T
  BY BlocksTile, ProviderAssumption
<1>2. PICK s : s = Block(r, n, b)
  OBVIOUS
<1>3. s = [i \in 1..T |-> IF i <= a THEN <<r, f + i - 1>> ELSE Pad]
  BY <1>1, <1>2, Zenon DEF Block, First
<1>4. s \in [1..T -> Token]
  <2>1. \A i \in 1..T : <<r, f + i - 1>> \in Token /\ Pad \in Token
    BY DEF Token, Pad
  <2> QED BY <1>3, <2>1
<1>5. s \in Seq(Token) /\ Len(s) = T
  BY <1>4
<1>6. PICK u : u = SubSeq(s, 1, a)
  OBVIOUS
<1>7. u \in Seq(Token) /\ Len(u) = a /\ \A i \in 1..a : u[i] = s[1 + i - 1]
  <2>1. \A i \in 1..a : s[i] \in Token
    BY <1>1, <1>4
  <2> QED BY <1>6, <2>1, SubSeqProperties
<1>8. PICK e \in Nat : e = End(n, b) /\ e = f + a /\ f <= e /\ e - f = a
  BY <1>1 DEF End
<1>9. PICK t : t = Tokens(r, f, e)
  OBVIOUS
<1>10. t \in Seq(Token) /\ Len(t) = a /\ \A i \in 1..a : t[i] = <<r, f + i - 1>>
  <2>1. IsText(t, r, f, e - f)
    BY <1>8, <1>9, TokensSeq
  <2> QED BY <1>8, <2>1 DEF IsText
<1>11. \A i \in 1..a : u[i] = t[i]
  <2>1. \A i \in 1..a : i \in 1..T /\ 1 + i - 1 = i /\ i <= a
    BY <1>1
  <2> QED BY <1>3, <1>7, <1>10, <2>1
<1>12. u = t
  BY <1>7, <1>10, <1>11, SeqEqual
<1> QED BY <1>1, <1>2, <1>5, <1>6, <1>8, <1>9, <1>12

-----------------------------------------------------------------------------
(***************************************************************************)
(* A layer after a prompt of n tokens and t - n further ones.              *)
(***************************************************************************)

\* Where the sinks end and the window begins.
SinkEnd(n) == IF Splits(n) THEN SinkTokens ELSE n
WindowStart(n, t) == IF Splits(n) THEN t - RecentTokens ELSE IF t = n THEN n ELSE t - 1

\* The blocks of a prompt, as candidates.
Candidates(n) == {[bid |-> b, actual |-> ActualTokens(n, b)] : b \in 0..(HistoryBlocks(n) - 1)}

\* What the provider has of the layer.
LayerAt(r, n, t) ==
  [sink |-> Tokens(r, 0, SinkEnd(n)), recent |-> Tokens(r, WindowStart(n, t), t),
   candidates |-> Candidates(n), total |-> t]

\* The tokens of a block.
BlockTokens(r, n, b) == {<<r, p>> : p \in First(b)..(End(n, b) - 1)}

\* Sinks, blocks and window are apart, and in this order.
LEMMA CutInOrder ==
  ASSUME NEW n \in Nat \ {0}, NEW t \in Nat, n <= t
  PROVE  /\ SinkEnd(n) \in Nat /\ WindowStart(n, t) \in Nat
         /\ SinkEnd(n) <= WindowStart(n, t) /\ WindowStart(n, t) <= t
         /\ n < t => WindowStart(n, t) < t
         /\ \A b \in 0..(HistoryBlocks(n) - 1) :
              /\ First(b) \in Nat /\ End(n, b) \in Nat
              /\ SinkEnd(n) <= First(b) /\ First(b) < End(n, b) /\ End(n, b) <= WindowStart(n, t)
         /\ \A b, c \in 0..(HistoryBlocks(n) - 1) : b < c => End(n, b) <= First(c)
<1>1. PICK T \in Nat \ {0}, S \in Nat, R \in Nat \ {0} :
        T = TokensPerBlock /\ S = SinkTokens /\ R = RecentTokens
  BY ProviderAssumption
<1>2. CASE Splits(n)
  <2>1. n > S + R /\ SinkEnd(n) = S /\ WindowStart(n, t) = t - R
    BY <1>1, <1>2 DEF Splits, SinkEnd, WindowStart
  <2>2. ASSUME NEW b \in 0..(HistoryBlocks(n) - 1)
        PROVE  /\ First(b) \in Nat /\ End(n, b) \in Nat /\ S <= First(b)
               /\ First(b) < End(n, b) /\ End(n, b) <= n - R
    <3>1. /\ First(b) \in Nat /\ First(b) >= S /\ ActualTokens(n, b) \in 1..T
          /\ End(n, b) \in Nat /\ End(n, b) <= n - R
      BY <1>1, <1>2, BlocksTile
    <3> QED BY <3>1 DEF End
  <2>3. \A b, c \in 0..(HistoryBlocks(n) - 1) : b < c => End(n, b) <= First(c)
    BY <1>2, BlocksTile
  <2>4. \A b \in 0..(HistoryBlocks(n) - 1) : End(n, b) <= t - R
    BY <1>1, <2>2
  <2> QED BY <1>1, <2>1, <2>2, <2>3, <2>4
<1>3. CASE ~Splits(n)
  <2>1. HistoryBlocks(n) = 0 /\ SinkEnd(n) = n /\ WindowStart(n, t) = IF t = n THEN n ELSE t - 1
    BY <1>3, NoBlocks DEF SinkEnd, WindowStart
  <2> QED BY <2>1
<1> QED BY <1>2, <1>3

\* The prompt's capture makes the state of a layer that has seen n tokens: sinks, blocks and
\* window (transformer_kv.py:152-198).
LEMMA PromptMakes ==
  ASSUME NEW r \in Nat, NEW n \in Nat \ {0}
  PROVE  LayerData(r, n) = LayerAt(r, n, n)
<1>1. ~Splits(n) => Tokens(r, n, n) = <<>>
  <2>1. n \in Nat /\ n <= n
    OBVIOUS
  <2> QED BY <2>1, TokensEmpty
<1> QED BY <1>1 DEF LayerData, LayerAt, Candidates, SinkEnd, WindowStart

\* A further token moves a layer from the state after t tokens to the one after t + 1: the
\* window slides, nothing else changes (transformer_kv.py:201-206).
LEMMA TokenMoves ==
  ASSUME NEW r \in Nat, NEW n \in Nat \ {0}, NEW t \in Nat, n <= t
  PROVE  AppendNewToken(LayerAt(r, n, t), <<r, t>>) = LayerAt(r, n, t + 1)
<1>1. PICK w \in Nat, v \in Nat, u \in Nat :
        w = WindowStart(n, t) /\ u = t + 1 /\ v = WindowStart(n, t + 1)
  <2>1. t + 1 \in Nat /\ n <= t + 1
    OBVIOUS
  <2> QED BY <2>1, CutInOrder
<1>2. w <= t /\ v <= t /\ v <= u /\ (w = t => v = t) /\ (w < t => v = w + 1)
  <2>1. RecentTokens \in Nat \ {0}
    BY ProviderAssumption
  <2> QED BY <1>1, <2>1 DEF WindowStart
<1>3. (IF Tokens(r, w, t) = <<>> THEN Tokens(r, w, t) ELSE Tail(Tokens(r, w, t))) = Tokens(r, v, t)
  <2>0. w <= t
    BY <1>2
  <2>1. Tokens(r, w, t) = <<>> <=> w = t
    BY <2>0, TokensEmpty
  <2>2. CASE w = t
    BY <1>2, <2>1, <2>2
  <2>3. CASE w < t
    <3>1. Tail(Tokens(r, w, t)) = Tokens(r, w + 1, t)
      BY <2>3, TokensTail
    <3> QED BY <1>2, <2>1, <2>3, <3>1
  <2> QED BY <1>1, <1>2, <2>2, <2>3
<1>4. Tokens(r, v, t) \o << <<r, t>> >> = Tokens(r, v, u)
  <2>1. v <= t
    BY <1>2
  <2>2. Tokens(r, v, t) \o << <<r, t>> >> = Tokens(r, v, t + 1)
    BY <2>1, TokensJoin
  <2> QED BY <1>1, <2>2
<1>5. AppendNewToken(LayerAt(r, n, t), <<r, t>>)
        = [sink |-> Tokens(r, 0, SinkEnd(n)),
           recent |-> (IF Tokens(r, w, t) = <<>> THEN Tokens(r, w, t) ELSE Tail(Tokens(r, w, t)))
                          \o << <<r, t>> >>,
           candidates |-> Candidates(n), total |-> u]
  <2>1. PICK ld : ld = LayerAt(r, n, t)
    OBVIOUS
  <2>2. ld = [sink |-> Tokens(r, 0, SinkEnd(n)), recent |-> Tokens(r, w, t),
              candidates |-> Candidates(n), total |-> t]
    BY <1>1, <2>1 DEF LayerAt
  <2>3. AppendNewToken(ld, <<r, t>>)
          = [sink |-> ld.sink, recent |-> (IF ld.recent = <<>> THEN ld.recent ELSE Tail(ld.recent))
                                             \o << <<r, t>> >>,
             candidates |-> ld.candidates, total |-> ld.total + 1]
    <3>. DEFINE q == (IF ld.recent = <<>> THEN ld.recent ELSE Tail(ld.recent)) \o << <<r, t>> >>
    <3>1. AppendNewToken(ld, <<r, t>>) = [ld EXCEPT !.recent = q, !.total = ld.total + 1]
      BY <2>2 DEF AppendNewToken
    <3>. HIDE DEF q
    <3>2. AppendNewToken(ld, <<r, t>>)
            = [sink |-> ld.sink, recent |-> q, candidates |-> ld.candidates, total |-> ld.total + 1]
      BY <2>2, <3>1
    <3> QED BY <3>2 DEF q
  <2> QED BY <1>1, <2>1, <2>2, <2>3
<1> QED BY <1>1, <1>3, <1>4, <1>5 DEF LayerAt

-----------------------------------------------------------------------------
(***************************************************************************)
(* What attention is given.                                                *)
(***************************************************************************)

\* Stretches of text that follow each other, joined.
LEMMA FlattenOrdered ==
  ASSUME NEW r, NEW seqs \in Seq(Seq(Token)), \A i \in 1..Len(seqs) : Ordered(seqs[i], r),
         \A i, j \in 1..Len(seqs) : i < j =>
            \A x \in Range(seqs[i]), y \in Range(seqs[j]) : x[2] < y[2]
  PROVE  Ordered(FlattenSeq(seqs), r)
<1>1. CASE seqs = <<>>
  <2>1. FlattenSeq(seqs) = <<>> /\ <<>> \in Seq(Token) /\ Len(<<>>) = 0
    BY <1>1, FlattenFirst, EmptySeq
  <2> QED BY <2>1 DEF Ordered
<1>2. CASE seqs # <<>>
  <2>. DEFINE N == Len(seqs)
  <2>1. N \in Nat /\ N # 0 /\ \A i \in 1..N : seqs[i] \in Seq(Token)
    BY <1>2, EmptySeq, LenProperties, ElementOfSeq
  <2>2. PICK f \in [1..N -> Seq(Token)] : Joins(f, seqs, N) /\ FlattenSeq(seqs) = f[N]
    BY <1>2, FlattenJoins
  <2>3. \A i \in 1..N : IF i = 1 THEN f[i] = seqs[1] ELSE f[i] = f[i-1] \o seqs[i]
    BY <2>1, <2>2, JoinsAt, Zenon
  <2>. DEFINE X == {n \in Nat : n \in 1..N =>
                      /\ Ordered(f[n], r)
                      /\ Range(f[n]) \subseteq UNION {Range(seqs[i]) : i \in 1..n}}
  <2>4. 0 \in X
    OBVIOUS
  <2>5. ASSUME NEW n \in Nat, n \in X, NEW m, m = n + 1, m \in 1..N
        PROVE  /\ Ordered(f[m], r)
               /\ Range(f[m]) \subseteq UNION {Range(seqs[i]) : i \in 1..m}
    <3>1. IF m = 1 THEN f[m] = seqs[1] ELSE f[m] = f[m-1] \o seqs[m]
      BY <2>3, <2>5, Zenon
    <3>2. CASE n = 0
      <4>1. f[m] = seqs[1] /\ 1..m = {1} /\ 1 \in 1..N
        BY <2>5, <3>1, <3>2
      <4> QED BY <4>1
    <3>3. CASE n # 0
      <4>1. n \in 1..N /\ m # 1 /\ m - 1 = n
        BY <2>1, <2>5, <3>3
      <4>2. f[m] = f[n] \o seqs[m]
        BY <3>1, <4>1
      <4>3. Ordered(f[n], r) /\ Range(f[n]) \subseteq UNION {Range(seqs[i]) : i \in 1..n}
        BY <2>5, <4>1
      <4>4. \A x \in Range(f[n]), y \in Range(seqs[m]) : x[2] < y[2]
        <5>1. ASSUME NEW x \in Range(f[n]), NEW y \in Range(seqs[m]) PROVE x[2] < y[2]
          <6>1. PICK i \in 1..n : x \in Range(seqs[i])
            BY <4>3
          <6>2. i \in 1..N /\ i < m
            BY <2>5, <4>1
          <6> QED BY <2>5, <6>1, <6>2
        <5> QED BY <5>1
      <4>5. Ordered(seqs[m], r)
        BY <2>5
      <4>6. Ordered(f[m], r) /\ Range(f[m]) = Range(f[n]) \cup Range(seqs[m])
        <5>1. PICK a, b : a = f[n] /\ b = seqs[m]
          OBVIOUS
        <5>2. Ordered(a, r) /\ Ordered(b, r) /\ \A x \in Range(a), y \in Range(b) : x[2] < y[2]
          BY <4>3, <4>4, <4>5, <5>1
        <5>3. Ordered(a \o b, r)
          BY <5>2, OrderedJoin
        <5>4. Range(a \o b) = Range(a) \cup Range(b)
          <6>1. a \in Seq(Token) /\ b \in Seq(Token)
            BY <5>2 DEF Ordered
          <6> QED BY <6>1, RangeConcatenation
        <5> QED BY <4>2, <5>1, <5>3, <5>4
      <4>7. 1..m = (1..n) \cup {m}
        BY <2>5
      <4> QED BY <4>3, <4>6, <4>7
    <3> QED BY <3>2, <3>3
  <2>6. ASSUME NEW n \in Nat, n \in X PROVE n + 1 \in X
    <3>1. n + 1 \in 1..N => /\ Ordered(f[n + 1], r)
                           /\ Range(f[n + 1]) \subseteq UNION {Range(seqs[i]) : i \in 1..(n + 1)}
      <4>. HIDE DEF X
      <4> QED BY <2>5, <2>6
    <3> QED BY <3>1
  <2>7. Nat \subseteq X
    <3>. HIDE DEF X
    <3> QED BY <2>4, <2>6, SetInduction
  <2>8. N \in 1..N
    BY <2>1
  <2>9. Ordered(f[N], r)
    <3>1. N \in X
      <4>. HIDE DEF X
      <4> QED BY <2>1, <2>7
    <3> QED BY <2>8, <3>1
  <2> QED BY <2>2, <2>9
<1> QED BY <1>1, <1>2

\* A candidate, and what is stored of it.
LEMMA CandidateIs ==
  ASSUME NEW n \in Nat \ {0}, NEW c \in Candidates(n)
  PROVE  /\ c.bid \in 0..(HistoryBlocks(n) - 1) /\ c.actual = ActualTokens(n, c.bid)
         /\ c.bid \in Int /\ Splits(n)
         /\ \A d \in Candidates(n) : c.bid = d.bid => c = d
<1>1. PICK b \in 0..(HistoryBlocks(n) - 1) : c = [bid |-> b, actual |-> ActualTokens(n, b)]
  BY DEF Candidates
<1>2. Splits(n)
  BY NoBlocks
<1>3. ASSUME NEW d \in Candidates(n), c.bid = d.bid PROVE c = d
  <2>1. PICK e \in 0..(HistoryBlocks(n) - 1) : d = [bid |-> e, actual |-> ActualTokens(n, e)]
    BY DEF Candidates
  <2> QED BY <1>1, <1>3, <2>1
<1> QED BY <1>1, <1>2, <1>3

\* There are finitely many.
LEMMA CandidatesFinite ==
  ASSUME NEW n \in Nat \ {0}
  PROVE  IsFiniteSet(Candidates(n)) /\ Cardinality(Candidates(n)) \in Nat
<1>1. HistoryBlocks(n) \in Nat
  BY BlocksTile, NoBlocks
<1>2. PICK I : I = 0..(HistoryBlocks(n) - 1)
  OBVIOUS
<1>3. IsFiniteSet(I)
  BY <1>1, <1>2, FS_Interval
<1>4. [b \in I |-> [bid |-> b, actual |-> ActualTokens(n, b)]] \in Surjection(I, Candidates(n))
  BY <1>2 DEF Surjection, Candidates
<1> QED BY <1>3, <1>4, FS_Surjection, FS_CardinalityType

\* The pages are those that the run wrote.
PagesGood(pages, r, n) ==
  \A b \in 0..(HistoryBlocks(n) - 1) : pages[b] = Block(r, n, b)

\* Some of the blocks, joined.
LEMMA JoinedIs ==
  ASSUME NEW r \in Nat, NEW n \in Nat \ {0}, NEW B \in SUBSET Candidates(n),
         NEW pages, PagesGood(pages, r, n)
  PROVE  /\ Ordered(Joined(ById(B), pages), r)
         /\ Range(Joined(ById(B), pages)) = UNION {BlockTokens(r, n, c.bid) : c \in B}
<1>1. IsFiniteSet(B) /\ (\A b \in B : b.bid \in Int) /\ \A b, c \in B : b.bid = c.bid => b = c
  BY CandidatesFinite, CandidateIs, FS_Subset
<1>2. PICK s, k : s = ById(B) /\ k = Cardinality(B)
  OBVIOUS
<1>3. /\ s \in [1..k -> B] /\ Len(s) = k /\ k \in Nat /\ Range(s) = B
      /\ \A i, j \in 1..k : i < j => s[i].bid < s[j].bid
  BY <1>1, <1>2, ByIdIs
<1>4. PICK seqs : seqs = [i \in 1..k |-> SubSeq(pages[s[i].bid], 1, s[i].actual)]
  OBVIOUS
<1>5. ASSUME NEW i \in 1..k
      PROVE  /\ s[i].bid \in 0..(HistoryBlocks(n) - 1)
             /\ seqs[i] = Tokens(r, First(s[i].bid), End(n, s[i].bid))
             /\ seqs[i] \in Seq(Token) /\ Ordered(seqs[i], r)
             /\ Range(seqs[i]) = BlockTokens(r, n, s[i].bid)
  <2>1. s[i] \in Candidates(n)
    BY <1>3
  <2>2. PICK b \in 0..(HistoryBlocks(n) - 1) : b = s[i].bid /\ s[i].actual = ActualTokens(n, b)
                                               /\ Splits(n)
    BY <2>1, CandidateIs
  <2>3. pages[b] = Block(r, n, b)
    BY DEF PagesGood
  <2>4. SubSeq(Block(r, n, b), 1, ActualTokens(n, b)) = Tokens(r, First(b), End(n, b))
    BY <2>2, PageIs
  <2>5. seqs[i] = Tokens(r, First(b), End(n, b))
    BY <1>4, <2>2, <2>3, <2>4
  <2>6. First(b) \in Nat /\ End(n, b) \in Nat /\ First(b) <= End(n, b)
    <3>1. n <= n
      OBVIOUS
    <3>2. First(b) \in Nat /\ End(n, b) \in Nat /\ First(b) < End(n, b)
      BY <3>1, CutInOrder
    <3> QED BY <3>2
  <2>7. Range(Tokens(r, First(b), End(n, b))) = BlockTokens(r, n, b)
    BY <2>6, TokensRange DEF BlockTokens
  <2>8. Ordered(Tokens(r, First(b), End(n, b)), r)
    BY <2>6, TokensOrdered
  <2>9. Ordered(seqs[i], r) /\ seqs[i] \in Seq(Token)
    BY <2>5, <2>8 DEF Ordered
  <2> QED BY <2>2, <2>5, <2>7, <2>9
<1>6. seqs \in Seq(Seq(Token)) /\ Len(seqs) = k
  <2>1. seqs \in [1..k -> Seq(Token)]
    BY <1>4, <1>5
  <2> QED BY <1>3, <2>1
<1>7. Joined(ById(B), pages) = FlattenSeq(seqs)
  BY <1>2, <1>3, <1>4 DEF Joined
<1>8. ASSUME NEW i \in 1..k, NEW j \in 1..k, i < j,
             NEW x \in Range(seqs[i]), NEW y \in Range(seqs[j])
      PROVE  x[2] < y[2]
  <2>1. PICK b \in 0..(HistoryBlocks(n) - 1), c \in 0..(HistoryBlocks(n) - 1) :
          b = s[i].bid /\ c = s[j].bid /\ b < c
    BY <1>3, <1>5, <1>8
  <2>2. PICK p \in First(b)..(End(n, b) - 1) : x = <<r, p>>
    BY <1>5, <2>1 DEF BlockTokens
  <2>3. PICK q \in First(c)..(End(n, c) - 1) : y = <<r, q>>
    BY <1>5, <2>1 DEF BlockTokens
  <2>4. /\ First(b) \in Nat /\ End(n, b) \in Nat /\ First(c) \in Nat /\ End(n, c) \in Nat
        /\ End(n, b) <= First(c)
    <3>1. n <= n
      OBVIOUS
    <3> QED BY <2>1, <3>1, CutInOrder
  <2>5. p < q
    BY <2>4
  <2> QED BY <2>2, <2>3, <2>5
<1>9. Ordered(FlattenSeq(seqs), r)
  BY <1>5, <1>6, <1>8, FlattenOrdered
<1>10. Range(FlattenSeq(seqs)) = UNION {BlockTokens(r, n, c.bid) : c \in B}
  <2>1. Range(FlattenSeq(seqs)) = UNION {Range(seqs[i]) : i \in 1..k}
    BY <1>6, FlattenElements
  <2>2. \A i \in 1..k : s[i] \in B /\ Range(seqs[i]) = BlockTokens(r, n, s[i].bid)
    BY <1>3, <1>5
  <2>3. \A c \in B : \E i \in 1..k : s[i] = c
    BY <1>3 DEF Range
  <2> QED BY <2>1, <2>2, <2>3
<1> QED BY <1>7, <1>9, <1>10

\* The larger of two numbers.
LEMMA MaxOfTwo ==
  ASSUME NEW a \in Int, NEW b \in Int
  PROVE  Max({a, b}) = IF a >= b THEN a ELSE b
<1>1. \E m \in {a, b} : \A y \in {a, b} : m >= y
  OBVIOUS
<1>2. Max({a, b}) \in {a, b} /\ \A y \in {a, b} : Max({a, b}) >= y
  BY <1>1 DEF Max
<1> QED BY <1>2

\* A product with a larger factor.
LEMMA LargerFactor ==
  ASSUME NEW a \in Nat, NEW p \in Nat, p >= 100
  PROVE  a * p \in Nat /\ a * p >= 100 * a
BY Z3

\* How many blocks are selected: at least one and no more than there are, at 100 % all of
\* them (transformer_kv.py:226).
LEMMA KValIs ==
  ASSUME NEW X, IsFiniteSet(X), NEW p \in Nat
  PROVE  KVal(X, p) \in Nat /\ (p >= 100 => Cardinality(X) <= KVal(X, p))
<1>1. PICK c \in Nat : c = Cardinality(X)
  BY FS_CardinalityType
<1>2. c * p \in Nat
  BY Commutes
<1>3. PICK m \in Nat : m = c * p + 99
  BY <1>2
<1>4. PICK q \in Nat : q = m \div 100 /\ m < 100 * q + 100
  <2>1. 100 \in Nat \ {0}
    OBVIOUS
  <2>2. m \div 100 \in Nat /\ m % 100 \in 0..(100 - 1) /\ m = 100 * (m \div 100) + (m % 100)
    BY <2>1, Divided
  <2> QED BY <2>2
<1>5. KVal(X, p) = IF 1 >= q THEN 1 ELSE q
  BY <1>1, <1>3, <1>4, MaxOfTwo DEF KVal
<1>6. ASSUME p >= 100 PROVE c <= q
  <2>1. c * p >= 100 * c
    BY <1>6, LargerFactor
  <2> QED BY <1>2, <1>3, <1>4, <2>1
<1> QED BY <1>1, <1>5, <1>6

\* The tokens that attention is given of a layer, if the blocks are B.
Given(r, n, t, B) ==
  {<<r, p>> : p \in 0..(SinkEnd(n) - 1)} \cup {<<r, p>> : p \in WindowStart(n, t)..(t - 1)}
    \cup UNION {BlockTokens(r, n, c.bid) : c \in B}

\* Sinks, selected blocks and window, put together, are tokens of one run in their order up
\* to the last one (transformer_kv.py:332-372).
LEMMA ReassembledIs ==
  ASSUME NEW r \in Nat, NEW n \in Nat \ {0}, NEW t \in Nat, n <= t, NEW top, NEW pages,
         Range(top) \in SUBSET Candidates(n), PagesGood(pages, r, n)
  PROVE  /\ Ordered(Reassembled(LayerAt(r, n, t), top, pages), r)
         /\ Range(Reassembled(LayerAt(r, n, t), top, pages)) = Given(r, n, t, Range(top))
         /\ n < t => LET a == Reassembled(LayerAt(r, n, t), top, pages)
                     IN  Len(a) \in Nat \ {0} /\ a[Len(a)] = <<r, t - 1>>
<1>1. PICK S \in Nat, W \in Nat :
        S = SinkEnd(n) /\ W = WindowStart(n, t) /\ S <= W /\ W <= t /\ (n < t => W < t)
  BY CutInOrder
<1>2. PICK a, b, c, B : /\ a = Tokens(r, 0, S) /\ b = Joined(ById(B), pages) /\ c = Tokens(r, W, t)
                        /\ B = Range(top)
  OBVIOUS
<1>3. Reassembled(LayerAt(r, n, t), top, pages) = (a \o b) \o c
  BY <1>1, <1>2 DEF Reassembled, LayerAt
<1>4. Ordered(a, r) /\ Range(a) = {<<r, p>> : p \in 0..(S - 1)}
  <2>1. 0 \in Nat /\ 0 <= S
    OBVIOUS
  <2>2. Ordered(a, r)
    BY <1>2, <2>1, TokensOrdered
  <2>3. Range(a) = {<<r, p>> : p \in 0..(S - 1)}
    BY <1>2, <2>1, TokensRange
  <2> QED BY <2>2, <2>3
<1>5. Ordered(b, r) /\ Range(b) = UNION {BlockTokens(r, n, x.bid) : x \in B}
  BY <1>2, JoinedIs
<1>6. /\ Ordered(c, r) /\ Range(c) = {<<r, p>> : p \in W..(t - 1)}
      /\ c \in Seq(Token) /\ Len(c) = t - W /\ \A i \in 1..(t - W) : c[i] = <<r, W + i - 1>>
  <2>1. Ordered(c, r)
    BY <1>1, <1>2, TokensOrdered
  <2>0. W <= t
    BY <1>1
  <2>2. Range(Tokens(r, W, t)) = {<<r, p>> : p \in W..(t - 1)}
    BY <2>0, TokensRange
  <2>3. /\ Tokens(r, W, t) \in Seq(Token) /\ Len(Tokens(r, W, t)) = t - W
        /\ \A i \in 1..(t - W) : Tokens(r, W, t)[i] = <<r, W + i - 1>>
    <3>1. IsText(Tokens(r, W, t), r, W, t - W)
      BY <2>0, TokensSeq
    <3> QED BY <3>1 DEF IsText
  <2> QED BY <1>2, <2>1, <2>2, <2>3
<1>7. \A y \in Range(b) : \E q \in S..(W - 1) : y = <<r, q>>
  <2>1. ASSUME NEW y \in Range(b) PROVE \E q \in S..(W - 1) : y = <<r, q>>
    <3>1. PICK x \in Candidates(n) : y \in BlockTokens(r, n, x.bid)
      BY <1>2, <1>5
    <3>2. PICK d \in 0..(HistoryBlocks(n) - 1) : d = x.bid
      BY CandidateIs
    <3>3. First(d) \in Nat /\ End(n, d) \in Nat /\ S <= First(d) /\ End(n, d) <= W
      BY <1>1, CutInOrder
    <3>4. PICK q \in First(d)..(End(n, d) - 1) : y = <<r, q>>
      BY <3>1, <3>2 DEF BlockTokens
    <3> QED BY <3>3, <3>4
  <2> QED BY <2>1
<1>8. \A x \in Range(a), y \in Range(b) : x[2] < y[2]
  BY <1>4, <1>7
<1>9. PICK ab : ab = a \o b
  OBVIOUS
<1>10. Ordered(ab, r)
  BY <1>4, <1>5, <1>8, <1>9, OrderedJoin
<1>11. Range(ab) = Range(a) \cup Range(b)
  <2>1. a \in Seq(Token) /\ b \in Seq(Token)
    BY <1>4, <1>5 DEF Ordered
  <2> QED BY <1>9, <2>1, RangeConcatenation
<1>12. \A x \in Range(ab), y \in Range(c) : x[2] < y[2]
  BY <1>1, <1>4, <1>6, <1>7, <1>11
<1>13. Ordered(ab \o c, r)
  BY <1>6, <1>10, <1>12, OrderedJoin
<1>14. Range(ab \o c) = Range(ab) \cup Range(c)
  <2>1. ab \in Seq(Token) /\ c \in Seq(Token)
    BY <1>6, <1>10 DEF Ordered
  <2> QED BY <2>1, RangeConcatenation
<1>15. Range(ab \o c) = Given(r, n, t, B)
  <2>1. Given(r, n, t, B) = {<<r, p>> : p \in 0..(S - 1)} \cup {<<r, p>> : p \in W..(t - 1)}
                              \cup UNION {BlockTokens(r, n, x.bid) : x \in B}
    BY <1>1 DEF Given
  <2>2. Range(ab \o c) = (Range(a) \cup Range(b)) \cup Range(c)
    BY <1>11, <1>14
  <2>3. PICK A : A = {<<r, p>> : p \in 0..(S - 1)}
    OBVIOUS
  <2>4. PICK M : M = UNION {BlockTokens(r, n, x.bid) : x \in B}
    OBVIOUS
  <2>5. PICK C : C = {<<r, p>> : p \in W..(t - 1)}
    OBVIOUS
  <2>6. Given(r, n, t, B) = A \cup C \cup M
    BY <2>1, <2>3, <2>4, <2>5, Zenon
  <2>7. Range(a) = A /\ Range(b) = M /\ Range(c) = C
    BY <1>4, <1>5, <1>6, <2>3, <2>4, <2>5, Zenon
  <2> QED BY <2>2, <2>6, <2>7
<1>16. ASSUME n < t
       PROVE  Len(ab \o c) \in Nat \ {0} /\ (ab \o c)[Len(ab \o c)] = <<r, t - 1>>
  <2>1. PICK k \in Nat, l \in Nat \ {0} : k = Len(ab) /\ l = t - W
    <3>1. Len(ab) \in Nat
      BY <1>10, LenProperties DEF Ordered
    <3> QED BY <1>1, <1>16, <3>1
  <2>2. PICK d : d = ab \o c
    OBVIOUS
  <2>3. /\ d \in Seq(Token) /\ Len(d) = Len(ab) + Len(c)
        /\ \A i \in 1..Len(d) : d[i] = IF i <= Len(ab) THEN ab[i] ELSE c[i - Len(ab)]
    <3>1. ab \in Seq(Token) /\ c \in Seq(Token)
      BY <1>6, <1>10 DEF Ordered
    <3>2. d \in Seq(Token) /\ Len(d) = Len(ab) + Len(c)
      BY <2>2, <3>1, ConcatProperties
    <3>3. \A i \in 1..Len(d) : d[i] = IF i <= Len(ab) THEN ab[i] ELSE c[i - Len(ab)]
      BY <2>2, <3>1, <3>2, ConcatProperties
    <3> QED BY <3>2, <3>3
  <2>4. Len(d) = k + l /\ k + l \in 1..Len(d) /\ d[k + l] = c[l]
    <3>1. Len(d) = k + l
      BY <1>6, <2>1, <2>3
    <3>2. k + l \in 1..Len(d) /\ ~(k + l <= k) /\ (k + l) - k = l
      BY <2>1, <3>1
    <3>3. d[k + l] = c[(k + l) - k]
      BY <2>1, <2>3, <3>2
    <3> QED BY <3>1, <3>2, <3>3
  <2>5. c[l] = <<r, W + l - 1>> /\ W + l - 1 = t - 1
    BY <1>6, <2>1
  <2> QED BY <2>2, <2>4, <2>5
<1> QED BY <1>2, <1>3, <1>9, <1>13, <1>15, <1>16

\* What a selection of blocks may be: some of them, none that ends before the sliding window,
\* and all of them at 100 % without one.
Chosen(kind, percent, n, t, B) ==
  /\ B \in SUBSET Candidates(n)
  /\ kind = "sliding" /\ t > SlidingWindow => \A c \in B : End(n, c.bid) > t - SlidingWindow
  /\ kind # "sliding" /\ percent >= 100 => B = Candidates(n)

\* What select_and_fetch answers: the layer is as it was, and attention is given a selection
\* (transformer_kv.py:208-372, sliding_window_kv.py:60-86).
LEMMA Selected ==
  ASSUME NEW r \in Nat, NEW n \in Nat \ {0}, NEW t \in Nat, n <= t, NEW kind,
         NEW percent \in Nat, NEW pages,
         NEW got \in SelectAndFetch(kind, LayerAt(r, n, t), percent, pages)
  PROVE  /\ got.ld = LayerAt(r, n, t)
         /\ \E top : /\ Chosen(kind, percent, n, t, Range(top))
                     /\ got.active = Reassembled(LayerAt(r, n, t), top, pages)
<1>1. PICK ld : ld = LayerAt(r, n, t)
  OBVIOUS
<1>2. ld.candidates = Candidates(n) /\ ld.total = t
  BY <1>1 DEF LayerAt
<1>3. PICK cands : cands = IF kind = "sliding" THEN InWindow(ld) ELSE ld.candidates
  OBVIOUS
<1>4. cands \in SUBSET Candidates(n) /\ IsFiniteSet(cands)
  <2>1. InWindow(ld) \in SUBSET Candidates(n)
    BY <1>2 DEF InWindow
  <2>2. cands \in SUBSET Candidates(n)
    BY <1>2, <1>3, <2>1
  <2> QED BY <2>2, CandidatesFinite, FS_Subset
<1>5. PICK top \in IF cands = {} THEN {<<>>} ELSE TopBlocks(cands, KVal(cands, percent)) :
         got = [ld |-> ld, active |-> Reassembled(ld, top, pages)]
  BY <1>1, <1>3 DEF SelectAndFetch
<1>6. Range(top) \in SUBSET cands /\ (percent >= 100 => Range(top) = cands)
  <2>1. CASE cands = {}
    <3>1. top = <<>>
      BY <1>5, <2>1
    <3>2. Range(<<>>) = {}
      BY DEF Range
    <3> QED BY <2>1, <3>1, <3>2
  <2>2. CASE cands # {}
    <3>1. PICK k \in Nat : k = KVal(cands, percent) /\ (percent >= 100 => Cardinality(cands) <= k)
      BY <1>4, KValIs
    <3>2. top \in [1..k -> cands] /\ \A i, j \in 1..k : top[i] = top[j] => i = j
      BY <1>5, <2>2, <3>1 DEF TopBlocks
    <3>3. Range(top) \in SUBSET cands
      BY <3>2 DEF Range
    <3>4. percent >= 100 => Range(top) = cands
      BY <1>4, <3>1, <3>2, AllOfThem
    <3> QED BY <3>3, <3>4
  <2> QED BY <2>1, <2>2
<1>7. ASSUME kind = "sliding", t > SlidingWindow, NEW c \in Range(top)
      PROVE  End(n, c.bid) > t - SlidingWindow
  <2>1. c \in InWindow(ld)
    BY <1>3, <1>6, <1>7
  <2>2. t \in Int /\ SlidingWindow \in Int /\ ~(t <= SlidingWindow)
    BY <1>7, ProviderAssumption
  <2>3. c \in Candidates(n) /\ SinkTokens + c.bid * TokensPerBlock + c.actual > t - SlidingWindow
    BY <1>2, <2>1, <2>2 DEF InWindow
  <2>4. c.actual = ActualTokens(n, c.bid)
    BY <2>3, CandidateIs
  <2> QED BY <2>3, <2>4 DEF End, First
<1>8. Chosen(kind, percent, n, t, Range(top))
  BY <1>2, <1>3, <1>4, <1>6, <1>7 DEF Chosen
<1> QED BY <1>1, <1>5, <1>8

\* The first block begins at the sinks, each at the end of the one before, and the last ends
\* where the window of the prompt begins.
LEMMA BlocksMeet ==
  ASSUME NEW n \in Nat, Splits(n)
  PROVE  /\ First(0) = SinkTokens
         /\ \A b \in Nat : b # 0 /\ b <= HistoryBlocks(n) - 1 => First(b) = End(n, b - 1)
         /\ End(n, HistoryBlocks(n) - 1) = n - RecentTokens
<1>1. PICK H \in Nat \ {0}, S \in Nat, R \in Nat \ {0} :
        H = HistoryBlocks(n) /\ S = SinkTokens /\ R = RecentTokens
  BY BlocksTile, ProviderAssumption
<1>2. /\ \A b \in 0..(H - 1) : /\ First(b) \in Nat /\ End(n, b) \in Nat /\ First(b) < End(n, b)
                               /\ S <= First(b) /\ End(n, b) <= n - R
      /\ \A b, c \in 0..(H - 1) : b < c => End(n, b) <= First(c)
      /\ \A p \in S..(n - R - 1) : \E b \in 0..(H - 1) : First(b) <= p /\ p < End(n, b)
  <2>1. ASSUME NEW b \in 0..(H - 1)
        PROVE  /\ First(b) \in Nat /\ End(n, b) \in Nat /\ First(b) < End(n, b)
               /\ S <= First(b) /\ End(n, b) <= n - R
    <3>1. /\ First(b) \in Nat /\ First(b) >= S /\ ActualTokens(n, b) \in 1..TokensPerBlock
          /\ End(n, b) \in Nat /\ End(n, b) <= n - R
      BY <1>1, BlocksTile
    <3>2. TokensPerBlock \in Nat
      BY ProviderAssumption
    <3> QED BY <3>1, <3>2 DEF End
  <2> QED BY <1>1, <2>1, BlocksTile
<1>3. First(0) = S
  <2>1. TokensPerBlock \in Nat
    BY ProviderAssumption
  <2> QED BY <1>1, <2>1 DEF First
<1>4. ASSUME NEW b \in Nat, b # 0, b <= H - 1 PROVE First(b) = End(n, b - 1)
  <2>1. PICK a \in 0..(H - 1) : a = b - 1 /\ b \in 0..(H - 1) /\ a < b
    BY <1>4
  <2>2. PICK p \in Nat : p = End(n, a) /\ p <= First(b)
    BY <1>2, <2>1
  <2> SUFFICES ASSUME p < First(b) PROVE FALSE
    BY <1>2, <2>1, <2>2
  <2>3. p \in S..(n - R - 1)
    <3>1. First(b) < n - R
      BY <1>1, <1>2, <2>1
    <3>2. S <= First(a) /\ First(a) < p /\ First(a) \in Nat /\ First(b) \in Nat
      BY <1>2, <2>1, <2>2
    <3> QED BY <1>1, <3>1, <3>2
  <2>4. PICK c \in 0..(H - 1) : First(c) <= p /\ p < End(n, c)
    BY <1>2, <2>3
  <2>5. CASE c = a
    BY <2>2, <2>4, <2>5
  <2>6. CASE c < a
    <3>1. End(n, c) <= First(a) /\ First(a) < End(n, a) /\ End(n, c) \in Nat /\ First(a) \in Nat
      BY <1>2, <2>6
    <3> QED BY <2>2, <2>4, <3>1
  <2>7. CASE c = b
    BY <1>2, <2>4, <2>7
  <2>8. CASE c > b
    <3>1. End(n, b) <= First(c) /\ First(b) < End(n, b) /\ First(b) \in Nat /\ First(c) \in Nat
          /\ End(n, b) \in Nat
      BY <1>2, <2>1, <2>8
    <3> QED BY <2>4, <3>1
  <2> QED BY <2>1, <2>5, <2>6, <2>7, <2>8
<1>5. End(n, H - 1) = n - R
  <2>1. PICK a \in 0..(H - 1) : a = H - 1
    OBVIOUS
  <2>2. PICK p \in S..(n - R - 1) : p = n - R - 1
    <3>1. First(a) < n - R /\ S <= First(a) /\ First(a) \in Nat
      BY <1>1, <1>2
    <3> QED BY <1>1, <3>1
  <2>3. PICK c \in 0..(H - 1) : First(c) <= p /\ p < End(n, c)
    BY <1>2
  <2>4. CASE c = a
    BY <1>1, <1>2, <2>1, <2>2, <2>3, <2>4
  <2>5. CASE c < a
    <3>1. End(n, c) <= First(a) /\ First(a) < End(n, a) /\ End(n, c) \in Nat /\ First(a) \in Nat
          /\ End(n, a) <= n - R /\ End(n, a) \in Nat
      BY <1>2, <2>5
    <3> QED BY <1>1, <2>2, <2>3, <3>1
  <2> QED BY <2>1, <2>4, <2>5
<1> QED BY <1>1, <1>3, <1>4, <1>5

-----------------------------------------------------------------------------
(***************************************************************************)
(* How many tokens are kept.                                               *)
(***************************************************************************)

\* The tokens of some blocks, counted as StateHasOneOwner counts them.
ActualSum(X) == MapThenSumSet(LAMBDA c : c.actual, X)

\* It is a sum.
LEMMA ActualSumIs ==
  ASSUME NEW A, IsFiniteSet(A), NEW h, Sums(h, [c \in A |-> c.actual], A)
  PROVE  ActualSum(A) = h[A]
<1>. DEFINE w == [c \in A |-> c.actual]
            Eq(g) == g = [s \in SUBSET A |-> IF s = {} THEN 0 ELSE One(s).actual + g[s \ {One(s)}]]
            it == CHOOSE g : Eq(g)
<1>1. ActualSum(A) = it[A]
  BY DEF ActualSum, MapThenSumSet, MapThenFoldSet, One
<1>2. \A s \in SUBSET A : s # {} => w[One(s)] = One(s).actual
  BY OneIn
<1>3. \A g : Eq(g) <=> Sums(g, w, A)
  BY <1>2 DEF Sums
<1>4. Eq(h)
  BY <1>3
<1>5. Eq(it)
  BY <1>4
<1>6. Sums(it, w, A)
  BY <1>3, <1>5
<1>. HIDE DEF it
<1> QED BY <1>1, <1>6, SumsUnique

\* The blocks hold what is between the sinks and the window of the prompt.
LEMMA ActualTotal ==
  ASSUME NEW n \in Nat \ {0}
  PROVE  ActualSum(Candidates(n)) = IF Splits(n) THEN n - RecentTokens - SinkTokens ELSE 0
<1>1. PICK A, w : A = Candidates(n) /\ w = [c \in A |-> c.actual]
  OBVIOUS
<1>2. \A c \in A : w[c] \in Nat /\ w[c] = c.actual
  <2>1. ASSUME NEW c \in A PROVE w[c] \in Nat /\ w[c] = c.actual
    <3>1. c.bid \in 0..(HistoryBlocks(n) - 1) /\ c.actual = ActualTokens(n, c.bid) /\ Splits(n)
      BY <1>1, CandidateIs
    <3>2. ActualTokens(n, c.bid) \in 1..TokensPerBlock /\ TokensPerBlock \in Nat
      BY <3>1, BlocksTile, ProviderAssumption
    <3> QED BY <1>1, <3>1, <3>2
  <2> QED BY <2>1
<1>3. IsFiniteSet(A)
  BY <1>1, CandidatesFinite
<1>4. PICK h \in [SUBSET A -> Nat] : Sums(h, w, A)
  BY <1>2, <1>3, SumsExist
<1>5. AnyOrder(h, w, A)
  BY <1>2, <1>3, <1>4, SumsAny
<1>6. ActualSum(A) = h[A]
  BY <1>1, <1>3, <1>4, ActualSumIs
<1>7. h[{}] = 0
  BY <1>5 DEF AnyOrder
<1>8. CASE ~Splits(n)
  <2>1. A = {}
    BY <1>1, <1>8, CandidateIs
  <2> QED BY <1>1, <1>6, <1>7, <1>8, <2>1
<1>9. CASE Splits(n)
  <2>1. PICK H \in Nat \ {0}, S \in Nat : H = HistoryBlocks(n) /\ S = SinkTokens
    BY <1>9, BlocksTile, ProviderAssumption
  <2>. DEFINE Up(k) == {c \in A : c.bid < k}
              X == {k \in Nat : k \in 1..H => h[Up(k)] = End(n, k - 1) - S}
  <2>2. \A c \in A : c.bid \in 0..(H - 1) /\ \A d \in A : c.bid = d.bid => c = d
    BY <1>1, <2>1, CandidateIs
  <2>3. Up(0) = {}
    BY <2>2
  <2>4. ASSUME NEW k \in Nat, k < H
        PROVE  /\ h[Up(k + 1)] = ActualTokens(n, k) + h[Up(k)]
               /\ ActualTokens(n, k) \in Nat /\ h[Up(k)] \in Nat
    <3>1. PICK c : c = [bid |-> k, actual |-> ActualTokens(n, k)]
      OBVIOUS
    <3>2. c \in A /\ c.bid = k /\ c.actual = ActualTokens(n, k)
      <4>1. k \in 0..(H - 1)
        BY <2>4
      <4> QED BY <1>1, <2>1, <3>1, <4>1 DEF Candidates
    <3>3. c \in Up(k + 1) /\ Up(k + 1) \in SUBSET A
      BY <3>2
    <3>4. Up(k + 1) \ {c} = Up(k)
      <4>1. \A d \in A : d.bid < k + 1 /\ d # c <=> d.bid < k
        BY <2>2, <3>2
      <4> QED BY <4>1
    <3>. HIDE DEF Up
    <3>5. h[Up(k + 1)] = w[c] + h[Up(k + 1) \ {c}]
      BY <1>5, <3>3 DEF AnyOrder
    <3>6. Up(k) \in SUBSET A
      BY DEF Up
    <3> QED BY <1>2, <1>4, <3>2, <3>4, <3>5, <3>6
  <2>5. 0 \in X
    OBVIOUS
  <2>6. ASSUME NEW k \in Nat, k \in X PROVE k + 1 \in X
    <3>1. ASSUME k + 1 \in 1..H PROVE h[Up(k + 1)] = End(n, (k + 1) - 1) - S
      <4>1. k < H /\ (k + 1) - 1 = k
        BY <3>1
      <4>2. /\ h[Up(k + 1)] = ActualTokens(n, k) + h[Up(k)]
            /\ ActualTokens(n, k) \in Nat /\ h[Up(k)] \in Nat
        BY <2>4, <4>1
      <4>3. End(n, k) = First(k) + ActualTokens(n, k)
        BY DEF End
      <4>4. h[Up(k)] = First(k) - S /\ First(k) \in Int
        <5>1. CASE k = 0
          <6>1. First(0) = S /\ h[Up(0)] = 0
            BY <1>7, <1>9, <2>1, <2>3, BlocksMeet
          <6> QED BY <5>1, <6>1
        <5>2. CASE k # 0
          <6>1. k \in 1..H /\ k <= H - 1 /\ k \in 0..(H - 1)
            BY <4>1, <5>2
          <6>2. h[Up(k)] = End(n, k - 1) - S
            BY <2>6, <6>1
          <6>3. First(k) = End(n, k - 1)
            BY <1>9, <2>1, <5>2, <6>1, BlocksMeet
          <6>4. First(k) \in Nat
            BY <1>9, <2>1, <6>1, BlocksTile
          <6> QED BY <6>2, <6>3, <6>4
        <5> QED BY <5>1, <5>2
      <4>. HIDE DEF Up
      <4> QED BY <2>1, <4>1, <4>2, <4>3, <4>4
    <3> QED BY <3>1
  <2>7. h[Up(H)] = End(n, H - 1) - S
    <3>1. Nat \subseteq X
      <4>. HIDE DEF X
      <4> QED BY <2>5, <2>6, SetInduction
    <3>2. H \in X /\ H \in 1..H
      <4>. HIDE DEF X
      <4> QED BY <3>1
    <3> QED BY <3>2
  <2>8. Up(H) = A
    BY <2>2
  <2>9. End(n, H - 1) = n - RecentTokens
    BY <1>9, <2>1, BlocksMeet
  <2>. HIDE DEF Up
  <2> QED BY <1>1, <1>6, <1>9, <2>1, <2>7, <2>8, <2>9
<1> QED BY <1>8, <1>9

\* Where what is kept for good ends: the prompt without its window.
KeptEnd(n) == IF Splits(n) THEN n - RecentTokens ELSE n

\* It ends before the window as it is now.
EndsBefore(n, t) ==
  /\ KeptEnd(n) \in Nat /\ WindowStart(n, t) \in Nat
  /\ KeptEnd(n) <= WindowStart(n, t) /\ WindowStart(n, t) <= t

LEMMA KeptEnds ==
  ASSUME NEW n \in Nat \ {0}, NEW t \in Nat, n <= t
  PROVE  EndsBefore(n, t)
<1>1. PICK W \in Nat, S \in Nat : W = WindowStart(n, t) /\ S = SinkEnd(n) /\ S <= W /\ W <= t
  BY CutInOrder
<1>2. PICK E : E = KeptEnd(n)
  OBVIOUS
<1>3. E \in Nat /\ E <= W
  <2>1. CASE Splits(n)
    <3>1. PICK R \in Nat \ {0} : R = RecentTokens
      BY ProviderAssumption
    <3>2. E = n - R /\ W = t - R /\ S = SinkTokens /\ n > S + R
      BY <1>1, <1>2, <2>1, <3>1 DEF KeptEnd, WindowStart, SinkEnd, Splits
    <3> QED BY <3>2
  <2>2. CASE ~Splits(n)
    <3>1. E = n /\ W = (IF t = n THEN n ELSE t - 1)
      BY <1>1, <1>2, <2>2 DEF KeptEnd, WindowStart
    <3> QED BY <3>1
  <2> QED BY <2>1, <2>2
<1> QED BY <1>1, <1>2, <1>3 DEF EndsBefore

\* Of a layer there is kept the prompt up to its window, and the window as it is now.
LEMMA GivenAll ==
  ASSUME NEW r \in Nat, NEW n \in Nat \ {0}, NEW t \in Nat, n <= t
  PROVE  Given(r, n, t, Candidates(n))
           = {<<r, p>> : p \in (0..(KeptEnd(n) - 1)) \cup (WindowStart(n, t)..(t - 1))}
<1>0. PICK E : E = KeptEnd(n)
  OBVIOUS
<1>1. PICK W \in Nat, S \in Nat : W = WindowStart(n, t) /\ S = SinkEnd(n) /\ S <= W /\ W <= t
  BY CutInOrder
<1>2. PICK M : M = UNION {BlockTokens(r, n, c.bid) : c \in Candidates(n)}
  OBVIOUS
<1>3. Given(r, n, t, Candidates(n)) = {<<r, p>> : p \in 0..(S - 1)} \cup {<<r, p>> : p \in W..(t - 1)} \cup M
  BY <1>1, <1>2 DEF Given
<1>4. E \in Nat /\ S <= E /\ E <= W /\ M = {<<r, p>> : p \in S..(E - 1)}
  <2>1. CASE Splits(n)
    <3>1. PICK R \in Nat \ {0} : R = RecentTokens
      BY ProviderAssumption
    <3>2. E = n - R /\ W = t - R /\ S = SinkTokens /\ n > S + R
      BY <1>0, <1>1, <2>1, <3>1 DEF KeptEnd, WindowStart, SinkEnd, Splits
    <3>3. ASSUME NEW x \in M PROVE x \in {<<r, p>> : p \in S..(E - 1)}
      <4>1. PICK c \in Candidates(n) : x \in BlockTokens(r, n, c.bid)
        BY <1>2
      <4>2. PICK b \in 0..(HistoryBlocks(n) - 1) : b = c.bid
        BY CandidateIs
      <4>3. First(b) \in Nat /\ First(b) >= S /\ End(n, b) \in Nat /\ End(n, b) <= E
        BY <2>1, <3>1, <3>2, BlocksTile
      <4>4. PICK p \in First(b)..(End(n, b) - 1) : x = <<r, p>>
        BY <4>1, <4>2 DEF BlockTokens
      <4> QED BY <3>2, <4>3, <4>4
    <3>4. ASSUME NEW p \in S..(E - 1) PROVE <<r, p>> \in M
      <4>1. PICK b \in 0..(HistoryBlocks(n) - 1) : First(b) <= p /\ p < End(n, b)
        BY <2>1, <3>1, <3>2, BlocksTile
      <4>2. First(b) \in Nat /\ End(n, b) \in Nat
        BY <2>1, BlocksTile
      <4>3. <<r, p>> \in BlockTokens(r, n, b)
        BY <4>1, <4>2 DEF BlockTokens
      <4>4. PICK c : c = [bid |-> b, actual |-> ActualTokens(n, b)]
        OBVIOUS
      <4>5. c \in Candidates(n) /\ c.bid = b
        BY <4>4 DEF Candidates
      <4> QED BY <1>2, <4>3, <4>5
    <3>5. M = {<<r, p>> : p \in S..(E - 1)}
      BY <3>3, <3>4
    <3> QED BY <3>2, <3>5
  <2>2. CASE ~Splits(n)
    <3>1. E = n /\ S = n /\ W = (IF t = n THEN n ELSE t - 1)
      BY <1>0, <1>1, <2>2 DEF KeptEnd, WindowStart, SinkEnd
    <3>2. Candidates(n) = {}
      BY <2>2, CandidateIs
    <3>3. M = {} /\ S..(E - 1) = {}
      BY <1>2, <3>1, <3>2
    <3> QED BY <3>1, <3>3
  <2> QED BY <2>1, <2>2
<1>5. (0..(S - 1)) \cup (S..(E - 1)) = 0..(E - 1)
  BY <1>4
<1>6. PICK A, B, C, D : /\ A = 0..(S - 1) /\ B = S..(E - 1) /\ C = W..(t - 1) /\ D = 0..(E - 1)
                        /\ A \cup B = D
  BY <1>5
<1>7. {<<r, p>> : p \in A} \cup {<<r, p>> : p \in C} \cup {<<r, p>> : p \in B}
        = {<<r, p>> : p \in D \cup C}
  BY <1>6
<1>8. Given(r, n, t, Candidates(n)) = {<<r, p>> : p \in D \cup C}
  BY <1>3, <1>4, <1>6, <1>7
<1> QED BY <1>0, <1>1, <1>4, <1>6, <1>8

\* What is kept of a layer is as many tokens as the provider's lists have: none is kept twice.
LEMMA KeptCounted ==
  ASSUME NEW r \in Nat, NEW n \in Nat \ {0}, NEW t \in Nat, n <= t
  PROVE  Cardinality(Given(r, n, t, Candidates(n)))
           = Len(LayerAt(r, n, t).sink) + Len(LayerAt(r, n, t).recent)
               + MapThenSumSet(LAMBDA c : c.actual, LayerAt(r, n, t).candidates)
<1>1. PICK E \in Nat, W \in Nat : E = KeptEnd(n) /\ W = WindowStart(n, t) /\ E <= W /\ W <= t
  <2>1. EndsBefore(n, t)
    BY KeptEnds
  <2> QED BY <2>1 DEF EndsBefore
<1>2. PICK P, Q : P = 0..(E - 1) /\ Q = W..(t - 1)
  OBVIOUS
<1>3. IsFiniteSet(P) /\ Cardinality(P) = E /\ IsFiniteSet(Q) /\ Cardinality(Q) = t - W
  <2>1. E - 1 \in Int /\ 0 \in Int /\ W \in Int /\ t - 1 \in Int
    BY <1>1
  <2>2. IsFiniteSet(P) /\ Cardinality(P) = IF 0 > E - 1 THEN 0 ELSE (E - 1) - 0 + 1
    BY <1>2, <2>1, FS_Interval
  <2>3. IsFiniteSet(Q) /\ Cardinality(Q) = IF W > t - 1 THEN 0 ELSE (t - 1) - W + 1
    BY <1>2, <2>1, FS_Interval
  <2> QED BY <1>1, <2>2, <2>3
<1>4. P \cap Q = {}
  BY <1>1, <1>2
<1>5. IsFiniteSet(P \cup Q) /\ Cardinality(P \cup Q) = E + (t - W)
  <2>1. Cardinality(P \cap Q) = 0
    BY <1>4, FS_EmptySet
  <2>2. IsFiniteSet(P \cup Q) /\ Cardinality(P \cup Q) = Cardinality(P) + Cardinality(Q) - Cardinality(P \cap Q)
    BY <1>3, FS_Union
  <2> QED BY <1>1, <1>3, <2>1, <2>2
<1>6. Cardinality({<<r, p>> : p \in P \cup Q}) = E + (t - W)
  <2>1. PICK U, V : U = P \cup Q /\ V = {<<r, p>> : p \in U}
    OBVIOUS
  <2>2. PICK f : f = [p \in U |-> <<r, p>>]
    OBVIOUS
  <2>3. f \in Surjection(U, V) /\ f \in Injection(U, V)
    BY <2>1, <2>2 DEF Surjection, Injection, IsInjective
  <2>4. IsFiniteSet(U)
    BY <1>5, <2>1
  <2>5. Cardinality(V) = Cardinality(U)
    BY <2>3, <2>4, FS_Surjection
  <2> QED BY <1>5, <2>1, <2>5
<1>7. Given(r, n, t, Candidates(n)) = {<<r, p>> : p \in P \cup Q}
  BY <1>1, <1>2, GivenAll
<1>8. PICK ld : ld = LayerAt(r, n, t)
  OBVIOUS
<1>9. ld.sink = Tokens(r, 0, SinkEnd(n)) /\ ld.recent = Tokens(r, W, t) /\ ld.candidates = Candidates(n)
  BY <1>1, <1>8 DEF LayerAt
<1>10. Len(ld.recent) = t - W
  <2>1. W <= t
    BY <1>1
  <2>2. Len(Tokens(r, W, t)) = t - W
    BY <2>1, TokensLen
  <2> QED BY <1>9, <2>2
<1>11. PICK S \in Nat : S = SinkEnd(n) /\ Len(ld.sink) = S
  <2>1. SinkEnd(n) \in Nat /\ 0 <= SinkEnd(n) /\ 0 \in Nat
    <3>1. SinkEnd(n) \in Nat
      BY CutInOrder
    <3> QED BY <3>1
  <2>2. Len(Tokens(r, 0, SinkEnd(n))) = SinkEnd(n) - 0
    BY <2>1, TokensLen
  <2> QED BY <1>9, <2>1, <2>2
<1>12. ActualSum(Candidates(n)) = E - S
  <2>1. CASE Splits(n)
    <3>1. ActualSum(Candidates(n)) = n - RecentTokens - SinkTokens
      BY <2>1, ActualTotal
    <3>2. E = n - RecentTokens /\ S = SinkTokens
      BY <1>1, <1>11, <2>1 DEF KeptEnd, SinkEnd
    <3> QED BY <3>1, <3>2
  <2>2. CASE ~Splits(n)
    <3>1. ActualSum(Candidates(n)) = 0 /\ E = n /\ S = n
      BY <1>1, <1>11, <2>2, ActualTotal DEF KeptEnd, SinkEnd
    <3> QED BY <3>1
  <2> QED BY <2>1, <2>2
<1>13. MapThenSumSet(LAMBDA c : c.actual, ld.candidates) = E - S
  BY <1>9, <1>12 DEF ActualSum
<1>14. E + (t - W) = S + (t - W) + (E - S)
  BY <1>1
<1> QED BY <1>6, <1>7, <1>8, <1>10, <1>11, <1>13, <1>14

\* The sinks.
LEMMA SinksAre ==
  ASSUME NEW r \in Nat, NEW e \in Nat
  PROVE  Range(Tokens(r, 0, e)) = {<<r, p>> : p \in 0..(e - 1)}
<1>1. 0 \in Nat /\ 0 <= e
  OBVIOUS
<1> QED BY <1>1, TokensRange

\* What attention is given of a layer: one run's tokens in their order up to the last one, the
\* sinks and whole blocks, in the window when the provider slides, all of them when it may.
WellGiven(a, r, n, t, kind, percent) ==
  /\ \A i \in 1..Len(a) : a[i][1] = r
  /\ \A i, j \in 1..Len(a) : i < j => a[i][2] < a[j][2]
  /\ a[Len(a)] = <<r, t - 1>>
  /\ Range(LayerAt(r, n, t).sink) \subseteq Range(a)
  /\ \A c \in Candidates(n) :
        LET block == BlockTokens(r, n, c.bid)
        IN  /\ block \subseteq Range(a) \/ block \cap Range(a) = {}
            /\ kind = "sliding" /\ block \subseteq Range(a) =>
                  \E x \in block : x[2] >= t - SlidingWindow
  /\ percent >= 100 /\ kind # "sliding" => Range(a) = Given(r, n, t, Candidates(n))

\* What select_and_fetch reassembles is what attention should be given (transformer_kv.py:332-372).
LEMMA ActiveGood ==
  ASSUME NEW r \in Nat, NEW n \in Nat \ {0}, NEW t \in Nat, n < t, NEW kind, NEW percent \in Nat,
         NEW pages, PagesGood(pages, r, n), NEW top, Chosen(kind, percent, n, t, Range(top))
  PROVE  WellGiven(Reassembled(LayerAt(r, n, t), top, pages), r, n, t, kind, percent)
<1>0. PICK a : a = Reassembled(LayerAt(r, n, t), top, pages)
  OBVIOUS
<1>1. n <= t
  OBVIOUS
<1>2. PICK B : B = Range(top) /\ B \in SUBSET Candidates(n)
  BY DEF Chosen
<1>3. Ordered(a, r) /\ Range(a) = Given(r, n, t, B) /\ a[Len(a)] = <<r, t - 1>>
  BY <1>0, <1>1, <1>2, ReassembledIs
<1>4. (\A i \in 1..Len(a) : a[i][1] = r) /\ \A i, j \in 1..Len(a) : i < j => a[i][2] < a[j][2]
  BY <1>3 DEF Ordered
<1>5. PICK S \in Nat, W \in Nat : S = SinkEnd(n) /\ W = WindowStart(n, t) /\ S <= W /\ W <= t
  BY <1>1, CutInOrder
<1>6. Range(LayerAt(r, n, t).sink) \subseteq Range(a)
  <2>2. Range(Tokens(r, 0, S)) = {<<r, p>> : p \in 0..(S - 1)}
    BY SinksAre
  <2>3. LayerAt(r, n, t).sink = Tokens(r, 0, S)
    BY <1>5 DEF LayerAt
  <2>4. {<<r, p>> : p \in 0..(S - 1)} \subseteq Given(r, n, t, B)
    BY <1>5 DEF Given
  <2> QED BY <1>3, <2>2, <2>3, <2>4
<1>7. ASSUME NEW c \in Candidates(n)
      PROVE  LET block == BlockTokens(r, n, c.bid)
             IN  /\ block \subseteq Range(a) \/ block \cap Range(a) = {}
                 /\ kind = "sliding" /\ block \subseteq Range(a) =>
                       \E x \in block : x[2] >= t - SlidingWindow
  <2>1. PICK b \in 0..(HistoryBlocks(n) - 1) : b = c.bid
    BY CandidateIs
  <2>2. PICK f \in Nat, e \in Nat : /\ f = First(b) /\ e = End(n, b) /\ f < e /\ S <= f /\ e <= W
    BY <1>1, <1>5, CutInOrder
  <2>3. PICK block : block = BlockTokens(r, n, c.bid) /\ block = {<<r, p>> : p \in f..(e - 1)}
    BY <2>1, <2>2 DEF BlockTokens
  <2>4. CASE c \in B
    <3>1. block \subseteq Range(a)
      BY <1>3, <2>3, <2>4 DEF Given
    <3>2. ASSUME kind = "sliding" PROVE \E x \in block : x[2] >= t - SlidingWindow
      <4>1. PICK w \in Nat : w = SlidingWindow
        BY ProviderAssumption
      <4>2. CASE t > w
        <5>1. e > t - w
          BY <1>2, <2>1, <2>2, <2>4, <3>2, <4>1, <4>2 DEF Chosen
        <5>2. <<r, e - 1>> \in block /\ e - 1 >= t - w
          BY <2>2, <2>3, <5>1
        <5> QED BY <4>1, <5>2
      <4>3. CASE ~(t > w)
        <5>1. <<r, f>> \in block /\ f >= t - w
          BY <2>2, <2>3, <4>3
        <5> QED BY <4>1, <5>1
      <4> QED BY <4>2, <4>3
    <3> QED BY <2>3, <3>1, <3>2
  <2>5. CASE c \notin B
    <3>1. ASSUME NEW x \in block, x \in Range(a) PROVE FALSE
      <4>1. PICK p \in f..(e - 1) : x = <<r, p>>
        BY <2>3
      <4>2. x \in Given(r, n, t, B)
        BY <1>3, <3>1
      <4>3. ~(\E q \in 0..(S - 1) : x = <<r, q>>)
        BY <2>2, <4>1
      <4>4. ~(\E q \in W..(t - 1) : x = <<r, q>>)
        BY <2>2, <4>1
      <4>5. PICK d \in B : x \in BlockTokens(r, n, d.bid)
        BY <1>5, <4>2, <4>3, <4>4 DEF Given
      <4>6. PICK g \in 0..(HistoryBlocks(n) - 1) : g = d.bid /\ g # b
        <5>1. d \in Candidates(n) /\ d # c
          BY <1>2, <2>5
        <5> QED BY <2>1, <5>1, CandidateIs
      <4>7. PICK q \in First(g)..(End(n, g) - 1) : x = <<r, q>>
        BY <4>5, <4>6 DEF BlockTokens
      <4>8. p = q
        BY <4>1, <4>7
      <4>9. First(g) \in Nat /\ End(n, g) \in Nat
        BY <1>1, CutInOrder
      <4>10. CASE g < b
        <5>1. End(n, g) <= First(b)
          BY <1>1, <4>10, CutInOrder
        <5> QED BY <2>2, <4>7, <4>8, <4>9, <5>1
      <4>11. CASE b < g
        <5>1. End(n, b) <= First(g)
          BY <1>1, <4>11, CutInOrder
        <5> QED BY <2>2, <4>7, <4>8, <4>9, <5>1
      <4> QED BY <2>1, <4>6, <4>10, <4>11
    <3>2. block \cap Range(a) = {}
      BY <3>1
    <3>3. ~(block \subseteq Range(a))
      <4>1. <<r, f>> \in block
        BY <2>2, <2>3
      <4> QED BY <3>1, <4>1
    <3> QED BY <2>3, <3>2, <3>3
  <2> QED BY <2>4, <2>5
<1>8. percent >= 100 /\ kind # "sliding" => Range(a) = Given(r, n, t, Candidates(n))
  BY <1>2, <1>3 DEF Chosen
<1> QED BY <1>0, <1>3, <1>4, <1>6, <1>7, <1>8 DEF WellGiven

-----------------------------------------------------------------------------
(***************************************************************************)
(* The writes of a prompt.                                                 *)
(***************************************************************************)

\* What MapThenFoldSet computes of the writes, for every subset of the indices below n.
Iterates(h, base, seq, n) ==
  h = [s \in SUBSET (1..n) |->
         IF s = {} THEN base ELSE WriteBlock(h[s \ {Max(s)}], seq[Max(s)])]

\* The writes, one by one.
Turns(f, base, seq) ==
  /\ f[0] = base
  /\ \A i \in 1..Len(seq) : f[i] = WriteBlock(f[i - 1], seq[i])

\* Every sequence of writes has such a table.
LEMMA IteratesExist ==
  ASSUME NEW base, NEW seq, NEW N \in Nat
  PROVE  \E h : Iterates(h, base, seq, N)
<1>. DEFINE X == {n \in Nat : \E h : Iterates(h, base, seq, n)}
<1>1. 0 \in X
  <2>1. Iterates([s \in SUBSET (1..0) |-> base], base, seq, 0)
    <3>1. \A s \in SUBSET (1..0) : s = {}
      OBVIOUS
    <3> QED BY <3>1, Zenon DEF Iterates
  <2> QED BY <2>1
<1>2. ASSUME NEW n \in Nat, n \in X PROVE n + 1 \in X
  <2>1. PICK h : Iterates(h, base, seq, n)
    BY <1>2
  <2>. DEFINE m == n + 1
              g == [s \in SUBSET (1..m) |->
                      IF s = {} THEN base
                      ELSE IF m \in s THEN WriteBlock(h[s \ {m}], seq[m])
                      ELSE h[s]]
  <2>2. /\ m \in Nat /\ \A s \in SUBSET (1..m) : s \subseteq Nat /\ \A x \in s : x <= m
        /\ \A s \in SUBSET (1..m) : m \notin s => s \in SUBSET (1..n)
        /\ \A s \in SUBSET (1..m) : s \ {m} \in SUBSET (1..n)
        /\ \A s \in SUBSET (1..n) : s \in SUBSET (1..m) /\ m \notin s
    OBVIOUS
  <2>. HIDE DEF m
  <2>3. \A s \in SUBSET (1..n) :
           h[s] = IF s = {} THEN base ELSE WriteBlock(h[s \ {Max(s)}], seq[Max(s)])
    BY <2>1, Zenon DEF Iterates
  <2>4. \A s \in SUBSET (1..n) : g[s] = h[s]
    <3>1. h[{}] = base
      BY <2>3
    <3> QED BY <2>2, <3>1
  <2>5. ASSUME NEW s \in SUBSET (1..m)
        PROVE  g[s] = IF s = {} THEN base ELSE WriteBlock(g[s \ {Max(s)}], seq[Max(s)])
    <3>1. CASE s = {}
      BY <3>1
    <3>2. CASE m \in s
      <4>1. Max(s) = m
        BY <2>2, <3>2, MaxIs
      <4>2. g[s \ {m}] = h[s \ {m}]
        BY <2>2, <2>4
      <4>3. g[s] = WriteBlock(h[s \ {m}], seq[m])
        BY <3>2
      <4>. HIDE DEF g
      <4> QED BY <3>2, <4>1, <4>2, <4>3
    <3>3. CASE s # {} /\ m \notin s
      <4>1. s \in SUBSET (1..n) /\ s \ {Max(s)} \in SUBSET (1..n)
        BY <2>2, <3>3
      <4>. HIDE DEF g
      <4> QED BY <2>3, <2>4, <3>3, <4>1
    <3> QED BY <3>1, <3>2, <3>3
  <2>6. Iterates(g, base, seq, m)
    <3>1. g = [s \in SUBSET (1..m) |-> g[s]]
      BY Zenon
    <3>. HIDE DEF g
    <3> QED BY <2>5, <3>1, Zenon DEF Iterates
  <2> QED BY <2>6 DEF m
<1>3. Nat \subseteq X
  <2>. HIDE DEF X
  <2> QED BY <1>1, <1>2, SetInduction
<1> QED BY <1>3

\* The table gives the writes one by one.
LEMMA IteratesTurn ==
  ASSUME NEW base, NEW S, NEW seq \in Seq(S), NEW h, Iterates(h, base, seq, Len(seq))
  PROVE  Turns([i \in 0..Len(seq) |-> h[1..i]], base, seq)
<1>. DEFINE N == Len(seq)
            f == [i \in 0..N |-> h[1..i]]
<1>1. N \in Nat
  BY LenProperties
<1>. HIDE DEF N
<1>2. \A s \in SUBSET (1..N) :
         h[s] = IF s = {} THEN base ELSE WriteBlock(h[s \ {Max(s)}], seq[Max(s)])
  BY Zenon DEF Iterates, N
<1>3. f[0] = base
  <2>1. 1..0 = {} /\ 0 \in 0..N
    BY <1>1
  <2> QED BY <1>2, <2>1
<1>4. ASSUME NEW i \in 1..N PROVE f[i] = WriteBlock(f[i - 1], seq[i])
  <2>1. /\ 1..i \in SUBSET (1..N) /\ i \in 1..i /\ 1..i \subseteq Nat /\ \A x \in 1..i : x <= i
        /\ (1..i) \ {i} = 1..(i - 1) /\ i \in 0..N /\ i - 1 \in 0..N
    BY <1>1
  <2>2. Max(1..i) = i
    BY <2>1, MaxIs
  <2>3. h[1..i] = WriteBlock(h[1..(i - 1)], seq[i])
    BY <1>2, <2>1, <2>2
  <2> QED BY <2>1, <2>3
<1> QED BY <1>3, <1>4 DEF Turns, N

\* The writes, one by one.
LEMMA WriteTurns ==
  ASSUME NEW S, NEW seq \in Seq(S), NEW base
  PROVE  \E f : Turns(f, base, seq) /\ WriteBlocks(base, seq) = f[Len(seq)]
<1>. DEFINE Eq(h) == h = [s \in SUBSET (1..Len(seq)) |->
                     IF s = {} THEN base ELSE WriteBlock(h[s \ {Max(s)}], seq[Max(s)])]
            it == CHOOSE h : Eq(h)
<1>1. \A h : Eq(h) <=> Iterates(h, base, seq, Len(seq))
  BY DEF Iterates
<1>2. Len(seq) \in Nat /\ DOMAIN seq = 1..Len(seq)
  BY LenProperties
<1>3. Eq(it)
  BY <1>1, <1>2, IteratesExist
<1>4. WriteBlocks(base, seq) = it[1..Len(seq)]
  BY <1>2 DEF WriteBlocks, FoldLeft, MapThenFoldSet
<1>. HIDE DEF it
<1>5. Turns([i \in 0..Len(seq) |-> it[1..i]], base, seq)
  BY <1>1, <1>3, IteratesTurn
<1>6. [i \in 0..Len(seq) |-> it[1..i]][Len(seq)] = it[1..Len(seq)]
  BY <1>2
<1> QED BY <1>4, <1>5, <1>6

\* What a storage has after the first n writes: each block is the page of a write to it,
\* or was never written.
After(out, base, seq, n) ==
  /\ DOMAIN out = DOMAIN base \cup {seq[i].at : i \in 1..n}
  /\ \A k \in DOMAIN out :
       \/ \E i \in 1..n : seq[i].at = k /\ out[k] = seq[i].page
       \/ k \in DOMAIN base /\ out[k] = base[k] /\ \A i \in 1..n : seq[i].at # k

\* What the writes leave on the storage.
LEMMA WritesLeave ==
  ASSUME NEW S, NEW seq \in Seq(S), NEW base
  PROVE  After(WriteBlocks(base, seq), base, seq, Len(seq))
<1>1. PICK f : Turns(f, base, seq) /\ WriteBlocks(base, seq) = f[Len(seq)]
  BY WriteTurns
<1>2. PICK N \in Nat : N = Len(seq)
  BY LenProperties
<1>. DEFINE X == {n \in Nat : n <= N => After(f[n], base, seq, n)}
<1>3. 0 \in X
  <2>1. f[0] = base /\ 1..0 = {}
    BY <1>1 DEF Turns
  <2> QED BY <2>1 DEF After
<1>4. ASSUME NEW n \in Nat, n \in X PROVE n + 1 \in X
  <2>1. ASSUME n + 1 <= N PROVE After(f[n + 1], base, seq, n + 1)
    <3>1. PICK m \in 1..N : m = n + 1
      BY <2>1
    <3>2. f[m] = WriteBlock(f[n], seq[m])
      <4>1. m - 1 = n
        BY <3>1
      <4> QED BY <1>1, <1>2, <4>1 DEF Turns
    <3>3. After(f[n], base, seq, n)
      BY <1>4, <2>1
    <3>4. 1..m = (1..n) \cup {m}
      BY <3>1
    <3>5. DOMAIN f[m] = DOMAIN f[n] \cup {seq[m].at}
      BY <3>2 DEF WriteBlock
    <3>6. \A k \in DOMAIN f[m] : f[m][k] = IF k = seq[m].at THEN seq[m].page ELSE f[n][k]
      BY <3>2 DEF WriteBlock
    <3>7. DOMAIN f[m] = DOMAIN base \cup {seq[i].at : i \in 1..m}
      <4>1. {seq[i].at : i \in 1..m} = {seq[i].at : i \in 1..n} \cup {seq[m].at}
        BY <3>4
      <4>2. DOMAIN f[n] = DOMAIN base \cup {seq[i].at : i \in 1..n}
        BY <3>3 DEF After
      <4> QED BY <3>5, <4>1, <4>2
    <3>8. ASSUME NEW k \in DOMAIN f[m]
          PROVE  \/ \E i \in 1..m : seq[i].at = k /\ f[m][k] = seq[i].page
                 \/ k \in DOMAIN base /\ f[m][k] = base[k] /\ \A i \in 1..m : seq[i].at # k
      <4>1. CASE k = seq[m].at
        BY <3>4, <3>6, <4>1
      <4>2. CASE k # seq[m].at
        <5>1. k \in DOMAIN f[n] /\ f[m][k] = f[n][k]
          BY <3>5, <3>6, <4>2
        <5>2. \/ \E i \in 1..n : seq[i].at = k /\ f[n][k] = seq[i].page
              \/ k \in DOMAIN base /\ f[n][k] = base[k] /\ \A i \in 1..n : seq[i].at # k
          BY <3>3, <5>1 DEF After
        <5> QED BY <3>4, <4>2, <5>1, <5>2
      <4> QED BY <4>1, <4>2
    <3>9. After(f[m], base, seq, m)
      BY <3>7, <3>8 DEF After
    <3> QED BY <3>1, <3>9
  <2> QED BY <2>1
<1>5. Nat \subseteq X
  <2>. HIDE DEF X
  <2> QED BY <1>3, <1>4, SetInduction
<1>6. N \in X /\ N <= N
  <2>. HIDE DEF X
  <2> QED BY <1>5
<1> QED BY <1>1, <1>2, <1>6

\* The writes of a prompt: each layer's blocks.
Written(r, n, layers, S) ==
  /\ Writes(r, n, layers) \in Seq(S)
  /\ \A w \in Range(Writes(r, n, layers)) :
        \E l \in Range(layers), b \in 0..(HistoryBlocks(n) - 1) :
           w = [at |-> <<l, b>>, page |-> Block(r, n, b)]
  /\ \A l \in Range(layers), b \in 0..(HistoryBlocks(n) - 1) :
        [at |-> <<l, b>>, page |-> Block(r, n, b)] \in Range(Writes(r, n, layers))

\* These are the writes that are made.
LEMMA WritesAre ==
  ASSUME NEW r \in Nat, NEW n \in Nat \ {0}, NEW L, NEW layers \in Seq(L)
  PROVE  \E S : Written(r, n, layers, S)
<1>1. PICK H \in Nat, N \in Nat : H = HistoryBlocks(n) /\ N = Len(layers)
  BY BlocksTile, NoBlocks, LenProperties
<1>. DEFINE W(i, b) == [at |-> <<layers[i], b - 1>>, page |-> Block(r, n, b - 1)]
            S == {W(i, b) : i \in 1..N, b \in 1..H}
            seqs == [i \in 1..N |-> [b \in 1..H |-> W(i, b)]]
<1>2. Writes(r, n, layers) = FlattenSeq(seqs)
  BY <1>1 DEF Writes
<1>3. seqs \in Seq(Seq(S)) /\ Len(seqs) = N
  <2>1. \A i \in 1..N : [b \in 1..H |-> W(i, b)] \in [1..H -> S]
    <3>. HIDE DEF W
    <3> QED OBVIOUS
  <2>2. \A i \in 1..N : [b \in 1..H |-> W(i, b)] \in Seq(S)
    <3>. HIDE DEF S, W
    <3> QED BY <2>1
  <2>3. seqs \in [1..N -> Seq(S)]
    BY <2>2
  <2>. HIDE DEF seqs, S
  <2> QED BY <1>1, <2>3
<1>4. \A i \in 1..N : Range(seqs[i]) = {W(i, b) : b \in 1..H}
  BY DEF Range
<1>5. FlattenSeq(seqs) \in Seq(S) /\ Range(FlattenSeq(seqs)) = UNION {Range(seqs[i]) : i \in 1..N}
  <2>. HIDE DEF seqs, S
  <2> QED BY <1>3, FlattenElements
<1>6. DOMAIN layers = 1..N
  BY <1>1, LenProperties
<1>7. ASSUME NEW w \in Range(Writes(r, n, layers))
      PROVE  \E l \in Range(layers), b \in 0..(H - 1) : w = [at |-> <<l, b>>, page |-> Block(r, n, b)]
  <2>1. PICK i \in 1..N : w \in Range(seqs[i])
    <3>. HIDE DEF seqs, S
    <3> QED BY <1>2, <1>5
  <2>2. PICK b \in 1..H : w = W(i, b)
    <3>. HIDE DEF seqs, S, W
    <3> QED BY <1>4, <2>1
  <2>3. b - 1 \in 0..(H - 1) /\ layers[i] \in Range(layers)
    BY <1>1, <1>6 DEF Range
  <2> QED BY <2>2, <2>3
<1>8. ASSUME NEW l \in Range(layers), NEW b \in 0..(H - 1)
      PROVE  [at |-> <<l, b>>, page |-> Block(r, n, b)] \in Range(Writes(r, n, layers))
  <2>1. PICK i \in 1..N : l = layers[i]
    BY <1>6 DEF Range
  <2>2. PICK c \in 1..H : c = b + 1 /\ c - 1 = b
    BY <1>1
  <2>3. W(i, c) \in Range(seqs[i])
    <3>. HIDE DEF seqs, S, W
    <3> QED BY <1>4
  <2>4. W(i, c) \in Range(FlattenSeq(seqs))
    <3>. HIDE DEF seqs, S, W
    <3> QED BY <1>5, <2>3
  <2> QED BY <1>2, <2>1, <2>2, <2>4
<1>9. Writes(r, n, layers) \in Seq(S)
  BY <1>2, <1>5
<1>. HIDE DEF S
<1> QED BY <1>1, <1>7, <1>8, <1>9 DEF Written

\* Every page on the storage is a whole block.
PagesWhole(st) == \A k \in DOMAIN st : Len(st[k]) = TokensPerBlock

\* After a prompt every block of its layers is on the storage, whatever was there before, and
\* all pages are whole (transformer_kv.py:169-189).
LEMMA PromptWrites ==
  ASSUME NEW r \in Nat, NEW n \in Nat \ {0}, NEW L, NEW layers \in Seq(L),
         NEW st, PagesWhole(st), NEW out, out = WriteBlocks(st, Writes(r, n, layers))
  PROVE  /\ PagesWhole(out)
         /\ \A l \in Range(layers), b \in 0..(HistoryBlocks(n) - 1) :
               <<l, b>> \in DOMAIN out /\ out[<<l, b>>] = Block(r, n, b)
<1>0. PICK S : Written(r, n, layers, S)
  BY WritesAre
<1>1. PICK writes : writes = Writes(r, n, layers)
  OBVIOUS
<1>2. /\ writes \in Seq(S)
      /\ \A w \in Range(writes) :
            \E l \in Range(layers), b \in 0..(HistoryBlocks(n) - 1) :
               w = [at |-> <<l, b>>, page |-> Block(r, n, b)]
      /\ \A l \in Range(layers), b \in 0..(HistoryBlocks(n) - 1) :
            [at |-> <<l, b>>, page |-> Block(r, n, b)] \in Range(writes)
  BY <1>0, <1>1 DEF Written
<1>3. After(out, st, writes, Len(writes))
  BY <1>1, <1>2, WritesLeave
<1>4. PICK N \in Nat : N = Len(writes) /\ DOMAIN writes = 1..N
  BY <1>2, LenProperties
<1>5. \A b \in 0..(HistoryBlocks(n) - 1) : Len(Block(r, n, b)) = TokensPerBlock
  <2>1. ASSUME NEW b \in 0..(HistoryBlocks(n) - 1) PROVE Splits(n)
    BY NoBlocks
  <2> QED BY <2>1, PageIs
<1>6. \A i \in 1..N : writes[i] \in Range(writes)
  BY <1>4 DEF Range
<1>7. ASSUME NEW k \in DOMAIN out PROVE Len(out[k]) = TokensPerBlock
  <2>1. CASE k \in DOMAIN st /\ out[k] = st[k]
    BY <2>1 DEF PagesWhole
  <2>2. CASE \E i \in 1..N : writes[i].at = k /\ out[k] = writes[i].page
    <3>1. PICK i \in 1..N : out[k] = writes[i].page
      BY <2>2
    <3>2. PICK b \in 0..(HistoryBlocks(n) - 1) : writes[i].page = Block(r, n, b)
      BY <1>2, <1>6
    <3> QED BY <1>5, <3>1, <3>2
  <2> QED BY <1>3, <1>4, <2>1, <2>2 DEF After
<1>8. ASSUME NEW l \in Range(layers), NEW b \in 0..(HistoryBlocks(n) - 1)
      PROVE  <<l, b>> \in DOMAIN out /\ out[<<l, b>>] = Block(r, n, b)
  <2>1. PICK w : w = [at |-> <<l, b>>, page |-> Block(r, n, b)]
    OBVIOUS
  <2>2. PICK i \in 1..N : writes[i] = w
    <3>1. w \in Range(writes)
      BY <1>2, <2>1
    <3> QED BY <1>4, <3>1 DEF Range
  <2>3. <<l, b>> \in DOMAIN out
    BY <1>3, <1>4, <2>1, <2>2 DEF After
  <2>4. PICK j \in 1..N : writes[j].at = <<l, b>> /\ out[<<l, b>>] = writes[j].page
    <3>1. PICK k : k = <<l, b>> /\ k \in DOMAIN out /\ writes[i].at = k
      BY <2>1, <2>2, <2>3
    <3>2. \/ \E j \in 1..N : writes[j].at = k /\ out[k] = writes[j].page
          \/ \A j \in 1..N : writes[j].at # k
      BY <1>3, <1>4, <3>1 DEF After
    <3> QED BY <3>1, <3>2
  <2>5. PICK m \in Range(layers), c \in 0..(HistoryBlocks(n) - 1) :
          writes[j] = [at |-> <<m, c>>, page |-> Block(r, n, c)]
    BY <1>2, <1>6
  <2>6. c = b
    BY <2>4, <2>5
  <2> QED BY <2>3, <2>4, <2>5, <2>6
<1> QED BY <1>7, <1>8 DEF PagesWhole

\* When a prompt fails after some of its writes all pages are still whole.
LEMMA PromptFails ==
  ASSUME NEW r \in Nat, NEW n \in Nat \ {0}, NEW L, NEW layers \in Seq(L),
         NEW st, PagesWhole(st), NEW j \in 0..(Len(Writes(r, n, layers)) - 1),
         NEW out, out = WriteBlocks(st, SubSeq(Writes(r, n, layers), 1, j))
  PROVE  PagesWhole(out)
<1>0. PICK S : Written(r, n, layers, S)
  BY WritesAre
<1>1. PICK writes : writes = Writes(r, n, layers)
  OBVIOUS
<1>2. /\ writes \in Seq(S)
      /\ \A w \in Range(writes) :
            \E l \in Range(layers), b \in 0..(HistoryBlocks(n) - 1) :
               w = [at |-> <<l, b>>, page |-> Block(r, n, b)]
  BY <1>0, <1>1 DEF Written
<1>3. PICK N \in Nat : N = Len(writes) /\ DOMAIN writes = 1..N /\ j \in Nat /\ j <= N
  BY <1>1, <1>2, LenProperties
<1>4. PICK some : some = SubSeq(writes, 1, j)
  OBVIOUS
<1>5. some \in Seq(S) /\ Len(some) = j /\ \A i \in 1..j : some[i] = writes[i] /\ i \in 1..N
  <2>1. \A i \in 1..j : writes[i] \in S
    BY <1>2, <1>3, ElementOfSeq
  <2>2. some \in Seq(S) /\ Len(some) = j /\ \A i \in 1..j : some[i] = writes[1 + i - 1]
    BY <1>3, <1>4, <2>1, SubSeqProperties
  <2>3. \A i \in 1..j : 1 + i - 1 = i /\ i \in 1..N
    BY <1>3
  <2> QED BY <2>2, <2>3
<1>6. After(out, st, some, j)
  BY <1>1, <1>4, <1>5, WritesLeave
<1>7. \A b \in 0..(HistoryBlocks(n) - 1) : Len(Block(r, n, b)) = TokensPerBlock
  <2>1. ASSUME NEW b \in 0..(HistoryBlocks(n) - 1) PROVE Splits(n)
    BY NoBlocks
  <2> QED BY <2>1, PageIs
<1>8. ASSUME NEW k \in DOMAIN out PROVE Len(out[k]) = TokensPerBlock
  <2>1. CASE k \in DOMAIN st /\ out[k] = st[k]
    BY <2>1 DEF PagesWhole
  <2>2. CASE \E i \in 1..j : some[i].at = k /\ out[k] = some[i].page
    <3>1. PICK i \in 1..j : out[k] = some[i].page
      BY <2>2
    <3>2. writes[i] \in Range(writes) /\ some[i] = writes[i]
      BY <1>3, <1>5 DEF Range
    <3>3. PICK b \in 0..(HistoryBlocks(n) - 1) : writes[i].page = Block(r, n, b)
      BY <1>2, <3>2
    <3> QED BY <1>7, <3>1, <3>2, <3>3
  <2> QED BY <1>6, <2>1, <2>2 DEF After
<1> QED BY <1>8 DEF PagesWhole

-----------------------------------------------------------------------------
(***************************************************************************)
(* The inductive invariant of a run.                                       *)
(***************************************************************************)

\* The levels of the registry.
Levelled ==
  /\ \A k \in DOMAIN known : known[k].level \in Level
  /\ \A k \in DOMAIN LoadCustom : LoadCustom[k].level \in Level

\* The tokens of the layer at place k of so many, after so many turns of a prompt of n.
Seen(n, turns, layers, k) ==
  n + turns \div layers + IF k - 1 < turns % layers THEN 1 ELSE 0

\* The types, and that every page on the storage is whole.
RunTyped ==
  /\ phase \in {"idle", "wrapped", "decode", "dense"} /\ run \in 0..MaxRuns
  /\ model \in DOMAIN Hub \cup {"none"} /\ turn \in Nat
  /\ provider \in [kind : {"transformer", "sliding", "hybrid"}, percent : Percents,
                   normed : BOOLEAN] \cup {NoProvider}
  /\ prompt \in Prompts \cup {0}
  /\ PagesWhole(store)

\* Nothing of one run is there in the next.
AtRest ==
  /\ phase \in {"idle", "dense"} => patched = {}
  /\ phase = "wrapped" => patched = Mine /\ provider # NoProvider
  /\ phase # "decode" => layerData = None /\ resident = {}
  /\ phase \in {"idle", "wrapped"} => active.layer = -1

\* What attention was given last is an answer of the provider for the layer as it is.
Answered ==
  \/ active.layer = -1
  \/ /\ active.layer \in DOMAIN layerData /\ layerData[active.layer].total > prompt
     /\ \E got \in SelectAndFetch(provider.kind, layerData[active.layer], provider.percent,
                                  PagesOf(store, active.layer)) : active.tokens = got.active

\* The blocks of a layer are on the storage.
OnStorage(st, l, r, n) ==
  \A b \in 0..(HistoryBlocks(n) - 1) : <<l, b>> \in DOMAIN st /\ st[<<l, b>>] = Block(r, n, b)

\* A run that decodes.
Decoding ==
  phase = "decode" =>
    /\ prompt \in Prompts /\ provider # NoProvider
    /\ patched = Mine /\ DOMAIN layerData = Mine /\ resident = Layers \ Mine
    /\ provider.kind = "hybrid" =>
          \A l \in Layers : native[l] = IF l \in Mine THEN <<>> ELSE Tokens(run, 0, prompt)
    /\ \A l \in Mine : OnStorage(store, l, run, prompt)
    /\ \A k \in 1..Len(Attention) :
          layerData[Attention[k]] = LayerAt(run, prompt, Seen(prompt, turn, Len(Attention), k))
    /\ Answered

\* A baseline run.
Baseline ==
  phase = "dense" =>
    /\ prompt \in Prompts /\ DOMAIN native = Layers
    /\ \A k \in 1..Len(Attention) :
          native[Attention[k]] = Tokens(run, 0, Seen(prompt, turn, Len(Attention), k))
    /\ turn > 0 => active.tokens = Tokens(run, 0, prompt + 1 + (turn - 1) \div Len(Attention))

RunInv == Levelled /\ RunTyped /\ AtRest /\ Decoding /\ Baseline

\* Quotient and remainder are what they must be.
LEMMA DividedOnce ==
  ASSUME NEW n \in Nat \ {0}, NEW q \in Nat, NEW m \in 0..(n - 1), NEW x, x = q * n + m
  PROVE  x \in Nat /\ x \div n = q /\ x % n = m
<1>1. q * n \in Nat
  BY Commutes
<1>2. PICK a \in Nat : a = q * n /\ x = a + m /\ x \in Nat
  BY <1>1
<1>3. PICK d, r : d = x \div n /\ r = x % n
  OBVIOUS
<1>4. d \in Nat /\ r \in 0..(n - 1) /\ x = n * d + r
  BY <1>2, <1>3, Divided
<1>5. PICK b \in Nat : b = d * n /\ x = b + r
  <2>1. d * n = n * d /\ d * n \in Nat
    BY <1>4, Commutes
  <2> QED BY <1>4, <2>1
<1>6. ~(d < q)
  <2> SUFFICES ASSUME d < q PROVE FALSE
    OBVIOUS
  <2>1. b + n <= a
    BY <1>2, <1>4, <1>5, MultiplesGrow
  <2> QED BY <1>2, <1>4, <1>5, <2>1
<1>7. ~(q < d)
  <2> SUFFICES ASSUME q < d PROVE FALSE
    OBVIOUS
  <2>1. a + n <= b
    BY <1>2, <1>4, <1>5, MultiplesGrow
  <2> QED BY <1>2, <1>4, <1>5, <2>1
<1>8. d = q
  BY <1>4, <1>6, <1>7
<1> QED BY <1>2, <1>3, <1>4, <1>5, <1>8

\* The layers take turns: whose turn it is, what a turn does, and how far apart they are.
Rounds(n, t, N) ==
  /\ (t % N) + 1 \in 1..N
  /\ \A k \in 1..N : Seen(n, t, N, k) \in Nat /\ n <= Seen(n, t, N, k)
  /\ \A k \in 1..N : Seen(n, t + 1, N, k)
                       = IF k = (t % N) + 1 THEN Seen(n, t, N, k) + 1 ELSE Seen(n, t, N, k)
  /\ Seen(n, t, N, (t % N) + 1) = n + t \div N
  /\ \A k, l \in 1..N : Seen(n, t, N, k) - Seen(n, t, N, l) \in -1..1

\* Before the first turn a layer has seen the prompt.
LEMMA SeenAtFirst ==
  ASSUME NEW n \in Nat, NEW N \in Nat \ {0}, NEW k \in 1..N
  PROVE  Seen(n, 0, N, k) = n
<1>1. 0 \in 0..(N - 1) /\ 0 \in Nat /\ 0 = 0 * N + 0
  OBVIOUS
<1>2. 0 \div N = 0 /\ 0 % N = 0
  BY <1>1, DividedOnce
<1> QED BY <1>2 DEF Seen

LEMMA TurnsGoRound ==
  ASSUME NEW n \in Nat, NEW t \in Nat, NEW N \in Nat \ {0}
  PROVE  Rounds(n, t, N)
<1>1. PICK q, m : q = t \div N /\ m = t % N
  OBVIOUS
<1>2. q \in Nat /\ m \in 0..(N - 1) /\ t = N * q + m
  BY <1>1, Divided
<1>3. PICK a \in Nat : a = q * N /\ t = a + m
  <2>1. q * N = N * q /\ q * N \in Nat
    BY <1>2, Commutes
  <2> QED BY <1>2, <2>1
<1>4. ASSUME NEW k \in 1..N PROVE Seen(n, t, N, k) = n + q + IF k - 1 < m THEN 1 ELSE 0
  BY <1>1 DEF Seen
<1>5. ASSUME NEW k \in 1..N
      PROVE  Seen(n, t + 1, N, k) = IF k = m + 1 THEN Seen(n, t, N, k) + 1 ELSE Seen(n, t, N, k)
  <2>1. CASE m + 1 < N
    <3>1. PICK c \in 0..(N - 1) : c = m + 1
      BY <1>2, <2>1
    <3>2. PICK u : u = t + 1 /\ u = q * N + c
      <4>1. t + 1 = a + c
        BY <1>2, <1>3, <3>1
      <4> QED BY <1>3, <4>1
    <3>3. u \div N = q /\ u % N = c
      BY <1>2, <3>2, DividedOnce
    <3>4. Seen(n, u, N, k) = n + q + IF k - 1 < c THEN 1 ELSE 0
      BY <3>3 DEF Seen
    <3> QED BY <1>2, <1>4, <3>1, <3>2, <3>4
  <2>2. CASE ~(m + 1 < N)
    <3>1. m + 1 = N
      BY <1>2, <2>2
    <3>2. PICK d \in Nat : d = q + 1
      BY <1>2
    <3>3. d * N = a + N
      <4>1. d * N = N * d /\ q * N = N * q
        BY <1>2, Commutes
      <4>2. N * (q + 1) = N * q + N
        BY <1>2, Z3
      <4> QED BY <1>3, <3>2, <4>1, <4>2
    <3>4. PICK u : u = t + 1 /\ u = d * N + 0
      <4>1. t + 1 = a + N /\ a + N = (a + N) + 0
        BY <1>2, <1>3, <3>1
      <4> QED BY <3>3, <4>1
    <3>5. 0 \in 0..(N - 1)
      OBVIOUS
    <3>6. u \div N = d /\ u % N = 0
      BY <3>4, <3>5, DividedOnce
    <3>7. Seen(n, u, N, k) = n + d + IF k - 1 < 0 THEN 1 ELSE 0
      BY <3>6 DEF Seen
    <3> QED BY <1>2, <1>4, <3>1, <3>2, <3>4, <3>7
  <2> QED BY <2>1, <2>2
<1>6. \A k \in 1..N : Seen(n, t, N, k) \in {n + q, n + q + 1}
  BY <1>2, <1>4
<1>7. m + 1 \in 1..N /\ Seen(n, t, N, m + 1) = n + q
  <2>1. m + 1 \in 1..N /\ ~((m + 1) - 1 < m)
    BY <1>2
  <2>2. Seen(n, t, N, m + 1) = n + q + IF (m + 1) - 1 < m THEN 1 ELSE 0
    BY <1>4, <2>1
  <2> QED BY <1>2, <2>1, <2>2
<1>8. \A k, l \in 1..N : Seen(n, t, N, k) - Seen(n, t, N, l) \in -1..1
  <2>1. PICK y \in Nat : y = n + q
    BY <1>2
  <2>2. \A k \in 1..N : Seen(n, t, N, k) \in {y, y + 1}
    BY <1>6, <2>1
  <2> QED BY <2>2
<1>9. \A k \in 1..N : Seen(n, t, N, k) \in Nat /\ n <= Seen(n, t, N, k)
  BY <1>2, <1>6
<1> QED BY <1>1, <1>5, <1>6, <1>7, <1>8, <1>9 DEF Rounds

\* It is one layer's turn.
LEMMA TurnIs ==
  ASSUME NEW t \in Nat, NEW N \in Nat \ {0}
  PROVE  (t % N) + 1 \in 1..N
<1>1. Rounds(0, t, N)
  BY TurnsGoRound
<1> QED BY <1>1 DEF Rounds

\* A layer has seen the prompt at least.
LEMMA SeenIs ==
  ASSUME NEW n \in Nat, NEW t \in Nat, NEW N \in Nat \ {0}, NEW k \in 1..N
  PROVE  Seen(n, t, N, k) \in Nat /\ n <= Seen(n, t, N, k)
<1>1. Rounds(n, t, N)
  BY TurnsGoRound
<1> QED BY <1>1 DEF Rounds

\* No layer is more than a token ahead of another.
LEMMA SeenClose ==
  ASSUME NEW n \in Nat, NEW t \in Nat, NEW N \in Nat \ {0}, NEW k \in 1..N, NEW l \in 1..N
  PROVE  Seen(n, t, N, k) - Seen(n, t, N, l) \in -1..1
<1>1. Rounds(n, t, N)
  BY TurnsGoRound
<1> QED BY <1>1 DEF Rounds

\* A turn gives the layer that has it a token, and the others none.
LEMMA TurnMoves ==
  ASSUME NEW n \in Nat, NEW t \in Nat, NEW N \in Nat \ {0}, NEW k \in 1..N,
         NEW j, j = (t % N) + 1, NEW u, u = t + 1
  PROVE  /\ k = j => Seen(n, u, N, k) = Seen(n, t, N, k) + 1
         /\ k # j => Seen(n, u, N, k) = Seen(n, t, N, k)
<1>1. Rounds(n, t, N)
  BY TurnsGoRound
<1>2. \A i \in 1..N : Seen(n, t + 1, N, i)
                         = IF i = (t % N) + 1 THEN Seen(n, t, N, i) + 1 ELSE Seen(n, t, N, i)
  BY <1>1 DEF Rounds
<1> QED BY <1>2

\* The layer whose turn it is has seen as many tokens as there were rounds.
LEMMA TurnAt ==
  ASSUME NEW n \in Nat, NEW t \in Nat, NEW N \in Nat \ {0}
  PROVE  Seen(n, t, N, (t % N) + 1) = n + t \div N
<1>1. Rounds(n, t, N)
  BY TurnsGoRound
<1> QED BY <1>1 DEF Rounds

\* The layers of a model with attention, and those the provider takes over.
LEMMA LayersIn ==
  /\ \A id : /\ SelfAttn(id) \subseteq Layers /\ SelfAttn(id) \subseteq Int
             /\ IsFiniteSet(SelfAttn(id))
  /\ Mine \subseteq Layers /\ Mine \subseteq Int /\ IsFiniteSet(Mine)
  /\ -1 \notin Mine
<1>1. ASSUME NEW id PROVE SelfAttn(id) \subseteq Layers
  BY ModelAssumption DEF SelfAttn
<1>2. Mine \subseteq Layers
  BY <1>1 DEF Mine
<1>3. \A X \in SUBSET Layers : X \subseteq Int /\ IsFiniteSet(X) /\ -1 \notin X
  <2>1. ASSUME NEW X \in SUBSET Layers PROVE X \subseteq Int /\ IsFiniteSet(X) /\ -1 \notin X
    <3>1. X \subseteq Nat
      BY ModelAssumption
    <3>2. IsFiniteSet(X)
      BY ModelAssumption, FS_Subset
    <3> QED BY <3>1, <3>2
  <2> QED BY <2>1
<1> QED BY <1>1, <1>2, <1>3

\* The layers, in the order in which they take their turns.
LEMMA InOrder ==
  ASSUME NEW X, IsFiniteSet(X), X \subseteq Int
  PROVE  /\ Len(Ascending(X)) \in Nat
         /\ \A k \in 1..Len(Ascending(X)) : Ascending(X)[k] \in X
         /\ \A x \in X : \E k \in 1..Len(Ascending(X)) : Ascending(X)[k] = x
         /\ \A k, l \in 1..Len(Ascending(X)) : Ascending(X)[k] = Ascending(X)[l] => k = l
<1>1. PICK s, n : s = Ascending(X) /\ n = Len(s)
  OBVIOUS
<1>2. /\ s \in [1..n -> X] /\ n \in Nat /\ Range(s) = X /\ \A i, j \in 1..n : i < j => s[i] < s[j]
  BY <1>1, AscendingIs
<1>3. \A k, l \in 1..n : s[k] = s[l] => k = l
  <2>1. \A i \in 1..n : s[i] \in Int
    BY <1>2
  <2> QED BY <1>2, <2>1
<1>4. \A x \in X : \E k \in 1..n : s[k] = x
  BY <1>2 DEF Range
<1> QED BY <1>1, <1>2, <1>3, <1>4

-----------------------------------------------------------------------------
(***************************************************************************)
(* Every step keeps the invariant.                                         *)
(***************************************************************************)

\* An entry that the registry comes with, or makes, has a level.
LEMMA EntriesLevelled ==
  /\ \A k \in DOMAIN KnownModels : KnownModels[k].level \in Level
  /\ \A id : Inspected(id).level \in Level
<1>1. ASSUME NEW k \in DOMAIN KnownModels PROVE KnownModels[k].level \in Level
  BY <1>1 DEF KnownModels, Entry, Level
<1>2. ASSUME NEW id PROVE Inspected(id).level \in Level
  BY DEF Inspected, Entry, Level
<1> QED BY <1>1, <1>2

\* The run starts with nothing.
LEMMA InvInit == Init => RunInv
<1> SUFFICES ASSUME Init PROVE RunInv
  OBVIOUS
<1>1. known = KnownModels /\ LoadCustom = None
  BY DEF Init, RegistryInit, LoadCustom
<1>2. Levelled
  BY <1>1, EntriesLevelled, NoneEmpty DEF Levelled
<1>3. /\ phase = "idle" /\ run = 0 /\ model = "none" /\ provider = NoProvider /\ patched = {}
      /\ layerData = None /\ resident = {} /\ turn = 0 /\ prompt = 0 /\ store = None
      /\ active = [layer |-> -1, tokens |-> <<>>]
  BY DEF Init
<1>4. RunTyped
  <2>1. 0 \in 0..MaxRuns
    BY ModelAssumption
  <2>2. PagesWhole(store)
    BY <1>3, NoneEmpty DEF PagesWhole
  <2> QED BY <1>3, <2>1, <2>2 DEF RunTyped
<1>5. AtRest
  BY <1>3 DEF AtRest
<1>6. Decoding /\ Baseline
  BY <1>3 DEF Decoding, Baseline
<1> QED BY <1>2, <1>4, <1>5, <1>6 DEF RunInv

\* The registry's part of the invariant depends on the registry only, and the other parts not at all.
LEMMA RegistrySteps ==
  ASSUME Levelled
  PROVE  Onboard \/ NewProcess \/ UNCHANGED registryVars => Levelled'
<1>1. ASSUME CrashInSave PROVE Levelled'
  <2>1. known' = KnownModels /\ LoadCustom' = None
    BY <1>1 DEF CrashInSave, LoadCustom
  <2> QED BY <2>1, EntriesLevelled, NoneEmpty DEF Levelled
<1>2. ASSUME NEW o \in Onboarded, Register(o[1], o[2]) PROVE Levelled'
  <2>. DEFINE e == Inspected(o[1])
              k == o[2]
  <2>1. known' = With(known, k, e) /\ LoadCustom' = With(LoadCustom, k, e)
    BY <1>2 DEF Register, SaveCustom, LoadCustom
  <2>2. e.level \in Level
    BY EntriesLevelled
  <2>. HIDE DEF e, k
  <2>3. /\ DOMAIN known' = DOMAIN known \cup {k} /\ known'[k] = e
        /\ \A x \in DOMAIN known \ {k} : known'[x] = known[x]
    BY <2>1 DEF With
  <2>4. /\ DOMAIN LoadCustom' = DOMAIN LoadCustom \cup {k} /\ LoadCustom'[k] = e
        /\ \A x \in DOMAIN LoadCustom \ {k} : LoadCustom'[x] = LoadCustom[x]
    BY <2>1 DEF With
  <2> QED BY <2>2, <2>3, <2>4 DEF Levelled
<1>3. ASSUME Onboard PROVE Levelled'
  BY <1>1, <1>2, <1>3 DEF Onboard
<1>4. ASSUME NewProcess PROVE Levelled'
  <2>1. known' = KnownModels /\ LoadCustom' = LoadCustom
    BY <1>4 DEF NewProcess, Restart, LoadCustom
  <2> QED BY <2>1, EntriesLevelled DEF Levelled
<1>5. ASSUME UNCHANGED registryVars PROVE Levelled'
  <2>1. known' = known /\ LoadCustom' = LoadCustom
    BY <1>5 DEF registryVars, LoadCustom
  <2> QED BY <2>1 DEF Levelled
<1> QED BY <1>3, <1>4, <1>5

\* What does not touch the run keeps its part.
LEMMA RunUnchanged ==
  ASSUME RunTyped, AtRest, Decoding, Baseline, UNCHANGED runVars
  PROVE  RunTyped' /\ AtRest' /\ Decoding' /\ Baseline'
<1>1. /\ phase' = phase /\ run' = run /\ model' = model /\ provider' = provider
      /\ patched' = patched /\ layerData' = layerData /\ resident' = resident /\ native' = native
      /\ turn' = turn /\ prompt' = prompt /\ active' = active /\ store' = store
  BY DEF runVars
<1>2. Mine' = Mine /\ Attention' = Attention
  BY <1>1 DEF Mine, Attention
<1>3. RunTyped'
  BY <1>1 DEF RunTyped
<1>4. AtRest'
  BY <1>1, <1>2 DEF AtRest
<1>5. Answered' <=> Answered
  BY <1>1 DEF Answered
<1>6. Decoding'
  BY <1>1, <1>2, <1>5 DEF Decoding
<1>7. Baseline'
  BY <1>1, <1>2 DEF Baseline
<1> QED BY <1>3, <1>4, <1>6, <1>7

\* An adapter replaces the forwards of the layers whose state its provider takes over.
LEMMA AdapterTakes ==
  ASSUME NEW entry, NEW id
  PROVE  /\ AdapterOf(entry, id).kind \in {"transformer", "sliding", "hybrid"}
         /\ AdapterOf(entry, id).normed \in BOOLEAN
         /\ AdapterOf(entry, id).layers
              = IF AdapterOf(entry, id).kind = "hybrid" THEN SelfAttn(id) ELSE Layers
<1>1. GetAdapter(entry) \in {"Qwen", "Mistral", "Jamba", "Qwen35", "none"}
  BY DEF GetAdapter
<1> QED
  BY <1>1 DEF AdapterOf, QwenAdapter, MistralAdapter, JambaAdapter, Qwen35Adapter, GenericWrap

\* A run that starts with the provider.
LEMMA StartRunStep ==
  ASSUME RunTyped, AtRest, NEW name \in Names, NEW percent \in Percents, StartRun(name, percent)
  PROVE  RunTyped' /\ AtRest' /\ Decoding' /\ Baseline'
<1>1. PICK a, id : a = AdapterOf(Detect(Detect(name).id), Detect(name).id) /\ id = Detect(name).id
  OBVIOUS
<1>2. /\ a.kind \in {"transformer", "sliding", "hybrid"} /\ a.normed \in BOOLEAN
      /\ a.layers = IF a.kind = "hybrid" THEN SelfAttn(id) ELSE Layers
  BY <1>1, AdapterTakes
<1>3. /\ phase = "idle" /\ phase' = "wrapped" /\ run < MaxRuns /\ run' = run + 1
      /\ id \in DOMAIN Hub /\ model' = id
      /\ provider' = [kind |-> a.kind, percent |-> percent, normed |-> a.normed]
      /\ patched' = a.layers /\ layerData' = layerData /\ resident' = resident
      /\ turn' = turn /\ prompt' = prompt /\ active' = active /\ store' = store
  BY <1>1 DEF StartRun, Load
<1>4. Mine' = patched'
  BY <1>2, <1>3 DEF Mine
<1>5. provider' # NoProvider /\ provider' \in [kind : {"transformer", "sliding", "hybrid"},
                                              percent : Percents, normed : BOOLEAN]
  <2>1. provider'.kind # NoProvider.kind
    BY <1>2, <1>3 DEF NoProvider
  <2> QED BY <1>2, <1>3, <2>1
<1>6. RunTyped'
  <2>1. run' \in 0..MaxRuns
    BY <1>3, ModelAssumption DEF RunTyped
  <2> QED BY <1>3, <1>5, <2>1 DEF RunTyped
<1>7. AtRest'
  BY <1>3, <1>4, <1>5 DEF AtRest
<1>8. Decoding' /\ Baseline'
  BY <1>3 DEF Decoding, Baseline
<1> QED BY <1>6, <1>7, <1>8

\* A baseline run that starts.
LEMMA StartDenseStep ==
  ASSUME RunTyped, AtRest, NEW name \in Names, NEW n \in Prompts, StartDense(name, n)
  PROVE  RunTyped' /\ AtRest' /\ Decoding' /\ Baseline'
<1>1. /\ phase = "idle" /\ phase' = "dense" /\ run < MaxRuns /\ run' = run + 1
      /\ model' \in DOMAIN Hub /\ turn' = 0 /\ prompt' = n
      /\ native' = [l \in Layers |-> Tokens(run', 0, n)]
      /\ provider' = provider /\ patched' = patched /\ layerData' = layerData
      /\ resident' = resident /\ active' = active /\ store' = store
  BY DEF StartDense, Load
<1>2. RunTyped'
  <2>1. run' \in 0..MaxRuns
    BY <1>1, ModelAssumption DEF RunTyped
  <2> QED BY <1>1, <2>1 DEF RunTyped
<1>3. AtRest'
  BY <1>1 DEF AtRest
<1>4. Decoding'
  BY <1>1 DEF Decoding
<1>5. Baseline'
  <2>1. PICK s : s = Attention'
    OBVIOUS
  <2>2. s = Ascending(SelfAttn(model'))
    BY <1>1, <2>1 DEF Attention
  <2>3. Len(s) \in Nat /\ \A k \in 1..Len(s) : s[k] \in Layers
    BY <2>2, LayersIn, InOrder
  <2>4. n \in Nat
    BY ModelAssumption
  <2>5. ASSUME NEW k \in 1..Len(s) PROVE native'[s[k]] = Tokens(run', 0, Seen(n, 0, Len(s), k))
    <3>1. Len(s) \in Nat \ {0}
      BY <2>3
    <3>2. Seen(n, 0, Len(s), k) = n
      BY <2>4, <3>1, SeenAtFirst
    <3> QED BY <1>1, <2>3, <3>2
  <2> QED BY <1>1, <2>1, <2>5 DEF Baseline
<1> QED BY <1>2, <1>3, <1>4, <1>5

\* What ends a run leaves nothing of it in the model.
LEMMA RestoreStep ==
  ASSUME RunTyped, phase' = "idle", NoState, run' = run, model' = model, turn' = turn,
         prompt' \in Prompts \cup {0}, PagesWhole(store')
  PROVE  RunTyped' /\ AtRest' /\ Decoding' /\ Baseline'
<1>1. /\ provider' = NoProvider /\ patched' = {} /\ layerData' = None /\ resident' = {}
      /\ active' = [layer |-> -1, tokens |-> <<>>]
  BY DEF NoState
<1>2. RunTyped'
  BY <1>1 DEF RunTyped
<1>3. AtRest'
  BY <1>1 DEF AtRest
<1>4. Decoding' /\ Baseline'
  BY DEF Decoding, Baseline
<1> QED BY <1>2, <1>3, <1>4

\* The pages of a layer whose blocks are on the storage.
LEMMA PagesAreGood ==
  ASSUME NEW st, NEW l, NEW r, NEW n, OnStorage(st, l, r, n)
  PROVE  PagesGood(PagesOf(st, l), r, n)
<1>1. ASSUME NEW b \in 0..(HistoryBlocks(n) - 1) PROVE PagesOf(st, l)[b] = Block(r, n, b)
  <2>1. PICK k : k = <<l, b>> /\ k[1] = l /\ k[2] = b /\ k \in DOMAIN st
    BY DEF OnStorage
  <2>2. b \in {j[2] : j \in {i \in DOMAIN st : i[1] = l}}
    BY <2>1
  <2> QED BY <2>2 DEF PagesOf, OnStorage
<1> QED BY <1>1 DEF PagesGood

\* A prompt.
LEMMA PrefillStep ==
  ASSUME RunTyped, AtRest, NEW n \in Prompts, Prefill(n)
  PROVE  RunTyped' /\ AtRest' /\ Decoding' /\ Baseline'
<1>1. /\ phase = "wrapped" /\ phase' = "decode" /\ turn' = 0 /\ prompt' = n
      /\ layerData' = [l \in Mine |-> LayerData(run, n)]
      /\ store' = WriteBlocks(store, Writes(run, n, Ascending(Mine)))
      /\ resident' = Layers \ Mine
      /\ provider.kind = "hybrid" =>
            native' = [l \in Layers |-> IF l \in Mine THEN <<>> ELSE Tokens(run, 0, n)]
      /\ run' = run /\ model' = model /\ provider' = provider /\ patched' = patched
      /\ active' = active
  BY DEF Prefill
<1>2. /\ patched = Mine /\ provider # NoProvider /\ active.layer = -1
  BY <1>1 DEF AtRest
<1>3. Mine' = Mine
  BY <1>1 DEF Mine
<1>4. run \in Nat /\ n \in Nat \ {0}
  <2>1. MaxRuns \in Nat /\ n \in Nat \ {0}
    BY ModelAssumption
  <2> QED BY <2>1 DEF RunTyped
<1>5. PICK M, s : M = Mine /\ s = Ascending(M)
  OBVIOUS
<1>6. IsFiniteSet(M) /\ M \subseteq Int /\ -1 \notin M
  BY <1>5, LayersIn
<1>7. s \in Seq(M) /\ Range(s) = M
  BY <1>5, <1>6, AscendingIs
<1>8. PagesWhole(store)
  BY DEF RunTyped
<1>9. PICK out : out = store' /\ out = WriteBlocks(store, Writes(run, n, s))
  BY <1>1, <1>5
<1>10. /\ PagesWhole(out)
       /\ \A l \in Range(s), b \in 0..(HistoryBlocks(n) - 1) :
             <<l, b>> \in DOMAIN out /\ out[<<l, b>>] = Block(run, n, b)
  <2>1. PagesWhole(out)
    BY <1>4, <1>7, <1>8, <1>9, PromptWrites
  <2>2. ASSUME NEW l \in Range(s), NEW b \in 0..(HistoryBlocks(n) - 1)
        PROVE  <<l, b>> \in DOMAIN out /\ out[<<l, b>>] = Block(run, n, b)
    BY <1>4, <1>7, <1>8, <1>9, PromptWrites
  <2> QED BY <2>1, <2>2
<1>11. \A l \in M : OnStorage(out, l, run, n)
  BY <1>7, <1>10 DEF OnStorage
<1>12. RunTyped'
  BY <1>1, <1>9, <1>10 DEF RunTyped
<1>13. AtRest'
  BY <1>1 DEF AtRest
<1>14. Attention' = s
  <2>1. DOMAIN layerData' = M
    BY <1>1, <1>5
  <2> QED BY <1>1, <1>5, <2>1 DEF Attention
<1>15. ASSUME NEW k \in 1..Len(s)
       PROVE  layerData'[s[k]] = LayerAt(run, n, Seen(n, 0, Len(s), k))
  <2>1. Len(s) \in Nat /\ s[k] \in M
    BY <1>5, <1>6, InOrder
  <2>2. Len(s) \in Nat \ {0}
    BY <2>1
  <2>3. Seen(n, 0, Len(s), k) = n
    BY <1>4, <2>2, SeenAtFirst
  <2>4. layerData'[s[k]] = LayerData(run, n)
    BY <1>1, <1>5, <2>1
  <2>5. LayerData(run, n) = LayerAt(run, n, n)
    BY <1>4, PromptMakes
  <2> QED BY <2>3, <2>4, <2>5
<1>16. Answered'
  BY <1>1, <1>2 DEF Answered
<1>17. DOMAIN layerData' = Mine
  BY <1>1
<1>18. provider.kind = "hybrid" =>
          \A l \in Layers : native'[l] = IF l \in Mine THEN <<>> ELSE Tokens(run, 0, n)
  BY <1>1
<1>19. Decoding'
  <2>1. prompt' \in Prompts /\ provider' # NoProvider
    BY <1>1, <1>2
  <2>2. patched' = Mine' /\ DOMAIN layerData' = Mine' /\ resident' = Layers \ Mine'
    BY <1>1, <1>2, <1>3, <1>17
  <2>3. provider'.kind = "hybrid" =>
          \A l \in Layers : native'[l] = IF l \in Mine' THEN <<>> ELSE Tokens(run', 0, prompt')
    BY <1>1, <1>3, <1>18
  <2>4. \A l \in Mine' : OnStorage(store', l, run', prompt')
    BY <1>1, <1>3, <1>5, <1>9, <1>11
  <2>5. \A k \in 1..Len(Attention') :
          layerData'[Attention'[k]]
            = LayerAt(run', prompt', Seen(prompt', turn', Len(Attention'), k))
    BY <1>1, <1>14, <1>15
  <2> QED BY <1>16, <2>1, <2>2, <2>3, <2>4, <2>5 DEF Decoding
<1>20. Baseline'
  BY <1>1 DEF Baseline
<1> QED BY <1>12, <1>13, <1>19, <1>20

\* A prompt that fails.
LEMMA PrefillFailsStep ==
  ASSUME RunTyped, AtRest, PrefillFails
  PROVE  RunTyped' /\ AtRest' /\ Decoding' /\ Baseline'
<1>1. /\ phase' = "idle" /\ NoState /\ run' = run /\ model' = model /\ turn' = turn
      /\ prompt' \in Prompts
  BY DEF PrefillFails, RestoreForwards
<1>2. PICK n, M, s : n \in Prompts /\ n = prompt' /\ M = Mine /\ s = Ascending(M)
  BY <1>1
<1>3. PICK j \in 0..(Len(Writes(run, n, s)) - 1) :
        store' = WriteBlocks(store, SubSeq(Writes(run, n, s), 1, j))
  BY <1>2 DEF PrefillFails
<1>4. run \in Nat /\ n \in Nat \ {0}
  <2>1. MaxRuns \in Nat /\ n \in Nat \ {0}
    BY <1>2, ModelAssumption
  <2> QED BY <2>1 DEF RunTyped
<1>5. IsFiniteSet(M) /\ M \subseteq Int
  BY <1>2, LayersIn
<1>6. s \in Seq(M)
  BY <1>2, <1>5, AscendingIs
<1>7. PICK out : out = store'
  OBVIOUS
<1>8. PagesWhole(out)
  <2>1. PagesWhole(store)
    BY DEF RunTyped
  <2> QED BY <1>3, <1>4, <1>6, <1>7, <2>1, PromptFails
<1>9. PagesWhole(store')
  BY <1>7, <1>8
<1> QED BY <1>1, <1>9, RestoreStep

\* A layer is asked for a token.
LEMMA DecodeStep ==
  ASSUME RunTyped, AtRest, Decoding, DecodeLayer
  PROVE  RunTyped' /\ AtRest' /\ Decoding' /\ Baseline'
<1>1. PICK s, N : s = Attention /\ N = Len(s)
  OBVIOUS
<1>2. /\ phase = "decode" /\ turn < Steps * N /\ turn' = turn + 1
      /\ phase' = phase /\ run' = run /\ model' = model /\ provider' = provider
      /\ patched' = patched /\ resident' = resident /\ native' = native /\ prompt' = prompt
      /\ store' = store
  BY <1>1 DEF DecodeLayer
<1>3. PICK l, ld : /\ l = s[(turn % N) + 1]
                   /\ ld = AppendNewToken(layerData[l], <<run, layerData[l].total>>)
  OBVIOUS
<1>4. PICK got \in SelectAndFetch(provider.kind, ld, provider.percent, PagesOf(store, l)) :
        /\ layerData' = [layerData EXCEPT ![l] = got.ld]
        /\ active' = [layer |-> l, tokens |-> got.active]
  BY <1>1, <1>3 DEF DecodeLayer
<1>5. PICK n, r, M : n = prompt /\ r = run /\ M = Mine
  OBVIOUS
<1>6. /\ n \in Prompts /\ provider # NoProvider /\ patched = M /\ DOMAIN layerData = M
      /\ resident = Layers \ M
      /\ provider.kind = "hybrid" =>
            \A x \in Layers : native[x] = IF x \in M THEN <<>> ELSE Tokens(r, 0, n)
      /\ \A x \in M : OnStorage(store, x, r, n)
      /\ \A k \in 1..N : layerData[s[k]] = LayerAt(r, n, Seen(n, turn, N, k))
  BY <1>1, <1>2, <1>5 DEF Decoding
<1>7. r \in Nat /\ n \in Nat \ {0} /\ turn \in Nat
  <2>1. MaxRuns \in Nat /\ n \in Nat \ {0}
    BY <1>6, ModelAssumption
  <2> QED BY <1>5, <2>1 DEF RunTyped
<1>8. s = Ascending(M) /\ IsFiniteSet(M) /\ M \subseteq Int /\ M \subseteq Layers
  BY <1>1, <1>2, <1>5, <1>6, LayersIn DEF Attention
<1>9. /\ N \in Nat /\ \A k \in 1..N : s[k] \in M
      /\ \A k, m \in 1..N : s[k] = s[m] => k = m
  <2>1. N \in Nat /\ \A k \in 1..N : s[k] \in M
    BY <1>1, <1>8, InOrder
  <2>2. \A k, m \in 1..Len(Ascending(M)) : Ascending(M)[k] = Ascending(M)[m] => k = m
    BY <1>8, InOrder, Zenon
  <2> QED BY <1>1, <1>8, <2>1, <2>2
<1>10. N \in Nat \ {0}
  <2>1. CASE N = 0
    <3>1. Steps \in Nat /\ Steps * 0 = 0
      BY ModelAssumption
    <3> QED BY <1>2, <1>7, <2>1, <3>1
  <2> QED BY <1>9, <2>1
<1>11. PICK j \in 1..N : j = (turn % N) + 1 /\ l = s[j] /\ l \in M
  <2>1. (turn % N) + 1 \in 1..N
    BY <1>7, <1>10, TurnIs
  <2> QED BY <1>3, <1>9, <2>1
<1>12. PICK t \in Nat : t = Seen(n, turn, N, j) /\ n <= t
  BY <1>7, <1>10, <1>11, SeenIs
<1>13. ld = LayerAt(r, n, t + 1)
  <2>1. layerData[l] = LayerAt(r, n, t)
    BY <1>6, <1>11, <1>12
  <2>2. layerData[l].total = t
    BY <2>1 DEF LayerAt
  <2>3. AppendNewToken(LayerAt(r, n, t), <<r, t>>) = LayerAt(r, n, t + 1)
    BY <1>7, <1>12, TokenMoves
  <2> QED BY <1>3, <1>5, <2>1, <2>2, <2>3
<1>14. PICK u \in Nat : u = t + 1 /\ n <= u /\ n < u
  BY <1>7, <1>12
<1>15. provider.percent \in Nat
  <2>1. Percents \subseteq Nat
    BY ModelAssumption
  <2> QED BY <1>6, <2>1 DEF RunTyped
<1>16. got.ld = ld
  <2>1. got \in SelectAndFetch(provider.kind, LayerAt(r, n, u), provider.percent, PagesOf(store, l))
    BY <1>13, <1>14
  <2>2. got.ld = LayerAt(r, n, u)
    BY <1>7, <1>14, <1>15, <2>1, Selected
  <2> QED BY <1>13, <1>14, <2>2
<1>17. DOMAIN layerData' = M /\ layerData'[l] = ld /\ \A x \in M : x # l => layerData'[x] = layerData[x]
  BY <1>4, <1>6, <1>11, <1>16
<1>18. Mine' = M /\ Attention' = s
  <2>1. Mine' = M
    BY <1>2, <1>5 DEF Mine
  <2>2. Attention' = s
    BY <1>2, <1>8, <1>17 DEF Attention
  <2> QED BY <2>1, <2>2
<1>19. ASSUME NEW k \in 1..N PROVE layerData'[s[k]] = LayerAt(r, n, Seen(n, turn + 1, N, k))
  <2>1. /\ k = j => Seen(n, turn + 1, N, k) = Seen(n, turn, N, k) + 1
        /\ k # j => Seen(n, turn + 1, N, k) = Seen(n, turn, N, k)
    <3>1. n \in Nat /\ j = (turn % N) + 1 /\ turn \in Nat
      BY <1>7, <1>11
    <3>2. PICK v : v = turn + 1
      OBVIOUS
    <3>3. k = j => Seen(n, v, N, k) = Seen(n, turn, N, k) + 1
      BY <1>10, <3>1, <3>2, TurnMoves
    <3>4. k # j => Seen(n, v, N, k) = Seen(n, turn, N, k)
      BY <1>10, <3>1, <3>2, TurnMoves
    <3> QED BY <3>2, <3>3, <3>4
  <2>2. CASE k = j
    BY <1>11, <1>12, <1>13, <1>17, <2>1, <2>2
  <2>3. CASE k # j
    <3>1. s[k] # l /\ s[k] \in M
      BY <1>9, <1>11, <2>3
    <3> QED BY <1>6, <1>17, <2>1, <2>3, <3>1
  <2> QED BY <2>2, <2>3
<1>20. Answered'
  <2>1. active'.layer = l /\ active'.tokens = got.active
    BY <1>4
  <2>2. ld.total = u
    BY <1>13, <1>14 DEF LayerAt
  <2>3. l \in DOMAIN layerData' /\ layerData'[l].total > prompt'
    BY <1>2, <1>5, <1>11, <1>14, <1>17, <2>2
  <2>4. \E g \in SelectAndFetch(provider'.kind, layerData'[l], provider'.percent, PagesOf(store', l)) :
           active'.tokens = g.active
    BY <1>2, <1>17, <2>1
  <2> QED BY <2>1, <2>3, <2>4 DEF Answered
<1>21. RunTyped'
  BY <1>2, <1>7 DEF RunTyped
<1>22. AtRest'
  BY <1>2 DEF AtRest
<1>23. Decoding'
  <2>1. /\ prompt' \in Prompts /\ provider' # NoProvider
        /\ patched' = Mine' /\ DOMAIN layerData' = Mine' /\ resident' = Layers \ Mine'
    BY <1>2, <1>5, <1>6, <1>17, <1>18
  <2>2. provider'.kind = "hybrid" =>
          \A x \in Layers : native'[x] = IF x \in Mine' THEN <<>> ELSE Tokens(run', 0, prompt')
    BY <1>2, <1>5, <1>6, <1>18
  <2>3. \A x \in Mine' : OnStorage(store', x, run', prompt')
    BY <1>2, <1>5, <1>6, <1>18
  <2>4. \A k \in 1..Len(Attention') :
          layerData'[Attention'[k]]
            = LayerAt(run', prompt', Seen(prompt', turn', Len(Attention'), k))
    BY <1>1, <1>2, <1>5, <1>18, <1>19
  <2> QED BY <1>20, <2>1, <2>2, <2>3, <2>4 DEF Decoding
<1>24. Baseline'
  BY <1>2 DEF Baseline
<1> QED BY <1>21, <1>22, <1>23, <1>24

\* A layer of a baseline run.
LEMMA DenseStep ==
  ASSUME RunTyped, AtRest, Baseline, DenseLayer
  PROVE  RunTyped' /\ AtRest' /\ Decoding' /\ Baseline'
<1>1. PICK s, N : s = Attention /\ N = Len(s)
  OBVIOUS
<1>2. PICK l : l = s[(turn % N) + 1]
  OBVIOUS
<1>3. /\ phase = "dense" /\ turn < Steps * N /\ turn' = turn + 1
      /\ phase' = phase /\ run' = run /\ model' = model /\ provider' = provider
      /\ patched' = patched /\ layerData' = layerData /\ resident' = resident /\ prompt' = prompt
      /\ store' = store
      /\ native' = [native EXCEPT ![l] = Append(native[l], <<run, Len(native[l])>>)]
      /\ active' = [layer |-> l, tokens |-> native'[l]]
  BY <1>1, <1>2 DEF DenseLayer
<1>4. PICK n, r : n = prompt /\ r = run
  OBVIOUS
<1>5. /\ n \in Prompts /\ DOMAIN native = Layers
      /\ \A k \in 1..N : native[s[k]] = Tokens(r, 0, Seen(n, turn, N, k))
  BY <1>1, <1>3, <1>4 DEF Baseline
<1>6. r \in Nat /\ n \in Nat \ {0} /\ turn \in Nat
  <2>1. MaxRuns \in Nat /\ n \in Nat \ {0}
    BY <1>5, ModelAssumption
  <2> QED BY <1>4, <2>1 DEF RunTyped
<1>7. s = Ascending(SelfAttn(model))
  BY <1>1, <1>3 DEF Attention
<1>8. /\ N \in Nat /\ \A k \in 1..N : s[k] \in Layers
      /\ \A k, m \in 1..N : s[k] = s[m] => k = m
  <2>1. PICK X : X = SelfAttn(model) /\ X \subseteq Layers /\ X \subseteq Int /\ IsFiniteSet(X)
    BY LayersIn
  <2> QED BY <1>1, <1>7, <2>1, InOrder
<1>9. N \in Nat \ {0}
  <2>1. CASE N = 0
    <3>1. Steps \in Nat /\ Steps * 0 = 0
      BY ModelAssumption
    <3> QED BY <1>3, <1>6, <2>1, <3>1
  <2> QED BY <1>8, <2>1
<1>10. PICK j \in 1..N : j = (turn % N) + 1 /\ l = s[j] /\ l \in Layers
  <2>1. (turn % N) + 1 \in 1..N
    BY <1>6, <1>9, TurnIs
  <2> QED BY <1>2, <1>8, <2>1
<1>11. PICK t \in Nat : t = Seen(n, turn, N, j) /\ t = n + turn \div N
  <2>1. Seen(n, turn, N, (turn % N) + 1) = n + turn \div N
    BY <1>6, <1>9, TurnAt
  <2>2. Seen(n, turn, N, j) \in Nat
    BY <1>6, <1>9, <1>10, SeenIs
  <2> QED BY <1>10, <2>1, <2>2
<1>12. native'[l] = Tokens(r, 0, t + 1)
  <2>1. native[l] = Tokens(r, 0, t)
    BY <1>5, <1>10, <1>11
  <2>2. 0 \in Nat /\ 0 <= t
    OBVIOUS
  <2>3. Len(Tokens(r, 0, t)) = t - 0
    BY <1>6, <2>2, TokensLen
  <2>4. Append(Tokens(r, 0, t), <<r, t>>) = Tokens(r, 0, t + 1)
    BY <1>6, <2>2, TokensAppend
  <2>5. native'[l] = Append(native[l], <<run, Len(native[l])>>)
    BY <1>3, <1>5, <1>10
  <2> QED BY <1>4, <2>1, <2>3, <2>4, <2>5
<1>13. Attention' = s
  BY <1>3, <1>7 DEF Attention
<1>14. ASSUME NEW k \in 1..N PROVE native'[s[k]] = Tokens(r, 0, Seen(n, turn + 1, N, k))
  <2>1. /\ k = j => Seen(n, turn + 1, N, k) = Seen(n, turn, N, k) + 1
        /\ k # j => Seen(n, turn + 1, N, k) = Seen(n, turn, N, k)
    <3>1. n \in Nat /\ j = (turn % N) + 1 /\ turn \in Nat
      BY <1>6, <1>10
    <3>2. PICK u : u = turn + 1
      OBVIOUS
    <3>3. k = j => Seen(n, u, N, k) = Seen(n, turn, N, k) + 1
      BY <1>9, <3>1, <3>2, TurnMoves
    <3>4. k # j => Seen(n, u, N, k) = Seen(n, turn, N, k)
      BY <1>9, <3>1, <3>2, TurnMoves
    <3> QED BY <3>2, <3>3, <3>4
  <2>2. CASE k = j
    BY <1>10, <1>11, <1>12, <2>1, <2>2
  <2>3. CASE k # j
    <3>1. s[k] # l /\ s[k] \in Layers
      BY <1>8, <1>10, <2>3
    <3>2. native'[s[k]] = native[s[k]]
      BY <1>3, <1>5, <3>1
    <3> QED BY <1>5, <2>1, <2>3, <3>2
  <2> QED BY <2>2, <2>3
<1>15. active'.tokens = Tokens(r, 0, n + 1 + ((turn + 1) - 1) \div N)
  <2>1. (turn + 1) - 1 = turn
    BY <1>6
  <2>2. turn \div N \in Nat
    BY <1>6, <1>9, Divided
  <2>3. t + 1 = n + 1 + turn \div N
    BY <1>6, <1>11, <2>2
  <2> QED BY <1>3, <1>12, <2>1, <2>3
<1>16. DOMAIN native' = Layers
  BY <1>3, <1>5
<1>17. RunTyped'
  BY <1>3, <1>6 DEF RunTyped
<1>18. AtRest'
  BY <1>3 DEF AtRest
<1>19. Decoding'
  BY <1>3 DEF Decoding
<1>20. Baseline'
  BY <1>1, <1>3, <1>4, <1>5, <1>13, <1>14, <1>15, <1>16 DEF Baseline
<1> QED BY <1>17, <1>18, <1>19, <1>20

\* Every step keeps the invariant.
LEMMA InvStep == RunInv /\ [Next]_vars => RunInv'
<1> SUFFICES ASSUME RunInv, [Next]_vars PROVE RunInv'
  OBVIOUS
<1>1. Levelled /\ RunTyped /\ AtRest /\ Decoding /\ Baseline
  BY DEF RunInv
<1>2. Levelled'
  <2>1. Onboard \/ NewProcess \/ UNCHANGED registryVars
    BY DEF Next, vars, StartRun, StartDense, Prefill, DecodeLayer, DenseLayer, Finish, PrefillFails,
           DecodeFails
  <2> QED BY <1>1, <2>1, RegistrySteps
<1>3. RunTyped' /\ AtRest' /\ Decoding' /\ Baseline'
  <2>1. CASE Onboard \/ NewProcess \/ UNCHANGED vars
    <3>1. UNCHANGED runVars
      BY <2>1 DEF Onboard, NewProcess, vars
    <3> QED BY <1>1, <3>1, RunUnchanged
  <2>2. CASE \E name \in Names, percent \in Percents : StartRun(name, percent)
    BY <1>1, <2>2, StartRunStep
  <2>3. CASE \E name \in Names, n \in Prompts : StartDense(name, n)
    BY <1>1, <2>3, StartDenseStep
  <2>4. CASE \E n \in Prompts : Prefill(n)
    BY <1>1, <2>4, PrefillStep
  <2>5. CASE DecodeLayer
    BY <1>1, <2>5, DecodeStep
  <2>6. CASE DenseLayer
    BY <1>1, <2>6, DenseStep
  <2>7. CASE Finish \/ DecodeFails
    <3>1. /\ phase' = "idle" /\ NoState /\ run' = run /\ model' = model /\ turn' = turn
          /\ prompt' = prompt /\ store' = store
      BY <2>7 DEF Finish, DecodeFails, RestoreForwards
    <3>2. prompt' \in Prompts \cup {0} /\ PagesWhole(store')
      BY <1>1, <3>1 DEF RunTyped
    <3> QED BY <1>1, <3>1, <3>2, RestoreStep
  <2>8. CASE PrefillFails
    BY <1>1, <2>8, PrefillFailsStep
  <2> QED BY <2>1, <2>2, <2>3, <2>4, <2>5, <2>6, <2>7, <2>8 DEF Next
<1> QED BY <1>2, <1>3 DEF RunInv

-----------------------------------------------------------------------------
(***************************************************************************)
(* What the invariant says of the layers.                                  *)
(***************************************************************************)

\* Every layer of a run that decodes is where its turns have brought it.
LEMMA LayersAre ==
  ASSUME RunTyped, Decoding, phase = "decode"
  PROVE  /\ run \in Nat /\ prompt \in Nat \ {0} /\ provider.percent \in Nat
         /\ \A l \in Mine : \E t \in Nat : prompt <= t /\ layerData[l] = LayerAt(run, prompt, t)
         /\ \A l, m \in Mine : layerData[l].total - layerData[m].total \in -1..1
<1>1. run \in Nat /\ prompt \in Nat \ {0} /\ provider.percent \in Nat /\ turn \in Nat
  <2>1. MaxRuns \in Nat /\ prompt \in Nat \ {0} /\ Percents \subseteq Nat
    BY ModelAssumption DEF Decoding
  <2>2. provider # NoProvider
    BY DEF Decoding
  <2>3. run \in Nat /\ turn \in Nat
    BY <2>1 DEF RunTyped
  <2>4. provider.percent \in Nat
    BY <2>1, <2>2 DEF RunTyped
  <2> QED BY <2>1, <2>3, <2>4
<1>2. PICK s, N, M : s = Attention /\ N = Len(s) /\ M = Mine
  OBVIOUS
<1>3. DOMAIN layerData = M /\ \A k \in 1..N : layerData[s[k]] = LayerAt(run, prompt, Seen(prompt, turn, N, k))
  BY <1>2 DEF Decoding
<1>4. s = Ascending(M) /\ IsFiniteSet(M) /\ M \subseteq Int
  BY <1>2, <1>3, LayersIn DEF Attention
<1>5. N \in Nat /\ \A x \in M : \E k \in 1..N : s[k] = x
  <2>1. N \in Nat
    BY <1>2, <1>4, InOrder
  <2>2. \A x \in M : \E k \in 1..Len(Ascending(M)) : Ascending(M)[k] = x
    BY <1>4, InOrder, Zenon
  <2> QED BY <1>2, <1>4, <2>1, <2>2
<1>6. ASSUME NEW k \in 1..N
      PROVE  /\ Seen(prompt, turn, N, k) \in Nat /\ prompt <= Seen(prompt, turn, N, k)
             /\ \A j \in 1..N : Seen(prompt, turn, N, k) - Seen(prompt, turn, N, j) \in -1..1
  <2>1. N \in Nat \ {0} /\ prompt \in Nat
    BY <1>1, <1>5
  <2>2. Seen(prompt, turn, N, k) \in Nat /\ prompt <= Seen(prompt, turn, N, k)
    BY <1>1, <2>1, SeenIs
  <2>3. \A i, j \in 1..N : Seen(prompt, turn, N, i) - Seen(prompt, turn, N, j) \in -1..1
    BY <1>1, <2>1, SeenClose
  <2> QED BY <2>2, <2>3
<1>7. ASSUME NEW l \in M PROVE \E t \in Nat : prompt <= t /\ layerData[l] = LayerAt(run, prompt, t)
  <2>1. PICK k \in 1..N : s[k] = l
    BY <1>5
  <2> QED BY <1>3, <1>6, <2>1
<1>8. ASSUME NEW l \in M, NEW m \in M PROVE layerData[l].total - layerData[m].total \in -1..1
  <2>1. PICK k \in 1..N, j \in 1..N : s[k] = l /\ s[j] = m
    BY <1>5
  <2>2. layerData[l].total = Seen(prompt, turn, N, k) /\ layerData[m].total = Seen(prompt, turn, N, j)
    <3>1. \A n, x : LayerAt(run, n, x).total = x
      BY DEF LayerAt
    <3> QED BY <1>3, <2>1, <3>1
  <2> QED BY <1>6, <2>2
<1> QED BY <1>1, <1>2, <1>7, <1>8

\* What is stored of a block, and what is held of a layer.
LEMMA HeldIs ==
  ASSUME RunTyped, Decoding, phase = "decode", NEW l \in Mine, NEW t \in Nat, prompt <= t,
         layerData[l] = LayerAt(run, prompt, t)
  PROVE  /\ \A c \in Candidates(prompt) : Stored(l, c) = BlockTokens(run, prompt, c.bid)
         /\ Held(l) = Given(run, prompt, t, Candidates(prompt))
<1>1. run \in Nat /\ prompt \in Nat \ {0}
  BY LayersAre
<1>2. OnStorage(store, l, run, prompt)
  BY DEF Decoding
<1>3. ASSUME NEW c \in Candidates(prompt) PROVE Stored(l, c) = BlockTokens(run, prompt, c.bid)
  <2>1. PICK b \in 0..(HistoryBlocks(prompt) - 1) :
           b = c.bid /\ c.actual = ActualTokens(prompt, b) /\ Splits(prompt)
    BY <1>1, CandidateIs
  <2>2. store[<<l, b>>] = Block(run, prompt, b)
    BY <1>2 DEF OnStorage
  <2>3. SubSeq(Block(run, prompt, b), 1, ActualTokens(prompt, b)) = Tokens(run, First(b), End(prompt, b))
    BY <1>1, <2>1, PageIs
  <2>4. First(b) \in Nat /\ End(prompt, b) \in Nat /\ First(b) <= End(prompt, b)
    <3>1. First(b) < End(prompt, b) /\ First(b) \in Nat /\ End(prompt, b) \in Nat
      BY <1>1, CutInOrder
    <3> QED BY <3>1
  <2>5. Range(Tokens(run, First(b), End(prompt, b))) = BlockTokens(run, prompt, b)
    BY <1>1, <2>4, TokensRange DEF BlockTokens
  <2> QED BY <2>1, <2>2, <2>3, <2>5 DEF Stored
<1>4. PICK S \in Nat, W \in Nat : S = SinkEnd(prompt) /\ W = WindowStart(prompt, t) /\ W <= t
  BY <1>1, CutInOrder
<1>5. /\ layerData[l].sink = Tokens(run, 0, S) /\ layerData[l].recent = Tokens(run, W, t)
      /\ layerData[l].candidates = Candidates(prompt)
  BY <1>4 DEF LayerAt
<1>6. Range(Tokens(run, 0, S)) = {<<run, p>> : p \in 0..(S - 1)}
  BY <1>1, <1>4, SinksAre
<1>7. Range(Tokens(run, W, t)) = {<<run, p>> : p \in W..(t - 1)}
  <2>1. W <= t
    BY <1>4
  <2> QED BY <1>1, <2>1, TokensRange
<1>8. {Stored(l, c) : c \in Candidates(prompt)}
         = {BlockTokens(run, prompt, c.bid) : c \in Candidates(prompt)}
  BY <1>3
<1>9. Held(l) = {<<run, p>> : p \in 0..(S - 1)} \cup {<<run, p>> : p \in W..(t - 1)}
                  \cup UNION {BlockTokens(run, prompt, c.bid) : c \in Candidates(prompt)}
  <2>1. PICK C : C = Candidates(prompt)
    OBVIOUS
  <2>2. PICK A, B : A = Range(Tokens(run, 0, S)) /\ B = Range(Tokens(run, W, t))
    OBVIOUS
  <2>3. Held(l) = A \cup B \cup UNION {Stored(l, c) : c \in C}
    BY <1>5, <2>1, <2>2 DEF Held
  <2>4. UNION {Stored(l, c) : c \in C} = UNION {BlockTokens(run, prompt, c.bid) : c \in C}
    BY <1>8, <2>1
  <2> QED BY <1>6, <1>7, <2>1, <2>2, <2>3, <2>4
<1> QED BY <1>3, <1>4, <1>9 DEF Given

\* The invariant gives the types.
LEMMA InvTypes == RunInv => TypeOK
<1> SUFFICES ASSUME RunInv PROVE TypeOK
  OBVIOUS
<1>1. Levelled /\ RunTyped /\ AtRest /\ Decoding
  BY DEF RunInv
<1>2. Mine \subseteq Layers
  BY LayersIn
<1>3. patched \cup resident \subseteq Layers /\ DOMAIN layerData \subseteq Layers
  <2>1. CASE phase = "decode"
    <3>1. patched = Mine /\ DOMAIN layerData = Mine /\ resident = Layers \ Mine
      BY <1>1, <2>1 DEF Decoding
    <3> QED BY <1>2, <3>1
  <2>2. CASE phase # "decode"
    <3>1. layerData = None /\ resident = {}
      BY <1>1, <2>2 DEF AtRest
    <3>2. patched = {} \/ patched = Mine
      BY <1>1, <2>2 DEF AtRest, RunTyped
    <3> QED BY <1>2, <3>1, <3>2, NoneEmpty
  <2> QED BY <2>1, <2>2
<1>4. ASSUME NEW l \in DOMAIN layerData PROVE Len(layerData[l].recent) <= RecentTokens
  <2>1. phase = "decode"
    <3>1. phase # "decode" => layerData = None
      BY <1>1 DEF AtRest
    <3> QED BY <3>1, NoneEmpty
  <2>2. run \in Nat /\ prompt \in Nat \ {0} /\ l \in Mine
    BY <1>1, <2>1, LayersAre DEF Decoding
  <2>3. PICK t \in Nat : prompt <= t /\ layerData[l] = LayerAt(run, prompt, t)
    BY <1>1, <2>1, <2>2, LayersAre
  <2>4. PICK W \in Nat : W = WindowStart(prompt, t) /\ W <= t
    BY <2>2, <2>3, CutInOrder
  <2>5. layerData[l].recent = Tokens(run, W, t)
    BY <2>3, <2>4 DEF LayerAt
  <2>6. Len(Tokens(run, W, t)) = t - W
    <3>1. W <= t
      BY <2>4
    <3> QED BY <2>2, <3>1, TokensLen
  <2>7. t - W <= RecentTokens
    <3>1. RecentTokens \in Nat \ {0} /\ prompt \in Nat
      BY <2>2, ProviderAssumption
    <3> QED BY <2>4, <3>1 DEF WindowStart
  <2> QED BY <2>5, <2>6, <2>7
<1>5. \A k \in DOMAIN store : Len(store[k]) = TokensPerBlock
  BY <1>1 DEF RunTyped, PagesWhole
<1>6. \A e \in {ListModels[k] : k \in DOMAIN ListModels} : e.level \in Level
  <2>1. /\ DOMAIN ListModels = DOMAIN known \cup DOMAIN LoadCustom
        /\ \A k \in DOMAIN ListModels :
              ListModels[k] = IF k \in DOMAIN known THEN known[k] ELSE LoadCustom[k]
    BY DEF ListModels, Over
  <2> QED BY <1>1, <2>1 DEF Levelled
<1>7. /\ phase \in {"idle", "wrapped", "decode", "dense"} /\ run \in 0..MaxRuns
      /\ model \in DOMAIN Hub \cup {"none"} /\ turn \in Nat
      /\ provider \in [kind : {"transformer", "sliding", "hybrid"}, percent : Percents,
                       normed : BOOLEAN] \cup {NoProvider}
      /\ prompt \in Prompts \cup {0}
  BY <1>1 DEF RunTyped
<1> QED BY <1>3, <1>4, <1>5, <1>6, <1>7 DEF TypeOK

\* The invariant says what attention is given.
LEMMA InvActive == RunInv => ActiveExact
<1> SUFFICES ASSUME RunInv PROVE ActiveExact
  OBVIOUS
<1>1. RunTyped /\ AtRest /\ Decoding /\ Baseline
  BY DEF RunInv
<1>2. ASSUME phase = "dense", turn > 0
      PROVE  active.tokens = Tokens(run, 0, prompt + 1 + (turn - 1) \div Len(Attention))
  BY <1>1, <1>2 DEF Baseline
<1>3. ASSUME active.layer \in DOMAIN layerData
      PROVE  LET ld == layerData[active.layer]
                 t  == active.tokens
             IN  /\ \A i \in 1..Len(t) : t[i][1] = run
                 /\ \A i, j \in 1..Len(t) : i < j => t[i][2] < t[j][2]
                 /\ t[Len(t)] = <<run, ld.total - 1>>
                 /\ Range(ld.sink) \subseteq Range(t)
                 /\ \A c \in ld.candidates :
                      LET block == Stored(active.layer, c)
                      IN  /\ block \subseteq Range(t) \/ block \cap Range(t) = {}
                          /\ provider.kind = "sliding" /\ block \subseteq Range(t) =>
                                \E x \in block : x[2] >= ld.total - SlidingWindow
                 /\ provider.percent >= 100 /\ provider.kind # "sliding" =>
                      Range(t) = Held(active.layer)
  <2>1. phase = "decode"
    <3>1. phase # "decode" => layerData = None
      BY <1>1 DEF AtRest
    <3> QED BY <1>3, <3>1, NoneEmpty
  <2>2. PICK l, a, n, r : l = active.layer /\ a = active.tokens /\ n = prompt /\ r = run
    OBVIOUS
  <2>3. DOMAIN layerData = Mine /\ l \in Mine /\ l # -1 /\ OnStorage(store, l, r, n) /\ Answered
    BY <1>1, <1>3, <2>1, <2>2, LayersIn DEF Decoding
  <2>4. r \in Nat /\ n \in Nat \ {0} /\ provider.percent \in Nat
    BY <1>1, <2>1, <2>2, LayersAre
  <2>5. PICK t \in Nat : n <= t /\ layerData[l] = LayerAt(r, n, t)
    BY <1>1, <2>1, <2>2, <2>3, LayersAre
  <2>6. /\ layerData[l].total > n
        /\ \E got \in SelectAndFetch(provider.kind, layerData[l], provider.percent,
                                     PagesOf(store, l)) : a = got.active
    BY <2>2, <2>3 DEF Answered
  <2>7. n < t
    BY <2>4, <2>5, <2>6 DEF LayerAt
  <2>8. PICK pages : pages = PagesOf(store, l) /\ PagesGood(pages, r, n)
    BY <2>3, PagesAreGood
  <2>9. PICK got \in SelectAndFetch(provider.kind, LayerAt(r, n, t), provider.percent, pages) :
           a = got.active
    BY <2>5, <2>6, <2>8
  <2>10. PICK top : /\ Chosen(provider.kind, provider.percent, n, t, Range(top))
                    /\ a = Reassembled(LayerAt(r, n, t), top, pages)
    <3>1. PICK kind, percent : kind = provider.kind /\ percent = provider.percent
      OBVIOUS
    <3>2. got \in SelectAndFetch(kind, LayerAt(r, n, t), percent, pages) /\ percent \in Nat
      BY <2>4, <2>9, <3>1
    <3>3. \E top : /\ Chosen(kind, percent, n, t, Range(top))
                   /\ got.active = Reassembled(LayerAt(r, n, t), top, pages)
      BY <2>4, <2>5, <3>2, Selected
    <3> QED BY <2>9, <3>1, <3>3
  <2>11. /\ \A c \in Candidates(n) : Stored(l, c) = BlockTokens(r, n, c.bid)
         /\ Held(l) = Given(r, n, t, Candidates(n))
    BY <1>1, <2>1, <2>2, <2>3, <2>5, HeldIs
  <2>12. /\ layerData[l].total = t /\ layerData[l].candidates = Candidates(n)
         /\ layerData[l].sink = LayerAt(r, n, t).sink
    BY <2>5 DEF LayerAt
  <2>13. /\ \A i \in 1..Len(a) : a[i][1] = r
         /\ \A i, j \in 1..Len(a) : i < j => a[i][2] < a[j][2]
         /\ a[Len(a)] = <<r, t - 1>>
         /\ Range(LayerAt(r, n, t).sink) \subseteq Range(a)
         /\ \A c \in Candidates(n) :
              LET block == BlockTokens(r, n, c.bid)
              IN  /\ block \subseteq Range(a) \/ block \cap Range(a) = {}
                  /\ provider.kind = "sliding" /\ block \subseteq Range(a) =>
                        \E x \in block : x[2] >= t - SlidingWindow
         /\ provider.percent >= 100 /\ provider.kind # "sliding" =>
              Range(a) = Given(r, n, t, Candidates(n))
    <3>1. PICK kind, percent :
             kind = provider.kind /\ percent = provider.percent /\ percent \in Nat
      BY <2>4
    <3>2. Chosen(kind, percent, n, t, Range(top)) /\ PagesGood(pages, r, n)
      BY <2>8, <2>10, <3>1
    <3>3. a = Reassembled(LayerAt(r, n, t), top, pages)
      BY <2>10
    <3>4. r \in Nat /\ n \in Nat \ {0} /\ t \in Nat /\ n < t
      BY <2>4, <2>7
    <3>5. WellGiven(a, r, n, t, kind, percent)
      BY <3>2, <3>1, <3>3, <3>4, ActiveGood
    <3> QED BY <3>1, <3>5 DEF WellGiven
  <2>14. \A c \in layerData[l].candidates :
           LET block == Stored(l, c)
           IN  /\ block \subseteq Range(a) \/ block \cap Range(a) = {}
               /\ provider.kind = "sliding" /\ block \subseteq Range(a) =>
                     \E x \in block : x[2] >= t - SlidingWindow
    BY <2>11, <2>12, <2>13
  <2> QED BY <2>2, <2>11, <2>12, <2>13, <2>14
<1> QED BY <1>2, <1>3 DEF ActiveExact

\* The invariant says where the state is.
LEMMA InvOwner == RunInv => StateHasOneOwner
<1> SUFFICES ASSUME RunInv PROVE StateHasOneOwner
  OBVIOUS
<1>1. RunTyped /\ AtRest /\ Decoding
  BY DEF RunInv
<1>2. phase \in {"idle", "dense"} => patched = {}
  BY <1>1 DEF AtRest
<1>3. ASSUME phase = "decode"
      PROVE  /\ DOMAIN layerData = patched /\ resident = Layers \ patched
             /\ provider.kind = "hybrid" => \A l \in Layers : native[l] = <<>> <=> l \in patched
             /\ \A l \in patched :
                  LET ld == layerData[l]
                      slid == IF Splits(prompt) THEN (prompt - RecentTokens)..(ld.total - 1)
                                                ELSE prompt..(ld.total - 1)
                  IN  /\ {<<run, p>> : p \in 0..(ld.total - 1) \ slid} \subseteq Held(l)
                      /\ <<run, ld.total - 1>> \in Held(l)
                      /\ Cardinality(Held(l)) = Len(ld.sink) + Len(ld.recent)
                            + MapThenSumSet(LAMBDA c : c.actual, ld.candidates)
                      /\ \A m \in patched : ld.total - layerData[m].total \in -1..1
  <2>1. /\ DOMAIN layerData = Mine /\ patched = Mine /\ resident = Layers \ Mine
        /\ provider.kind = "hybrid" =>
              \A l \in Layers : native[l] = IF l \in Mine THEN <<>> ELSE Tokens(run, 0, prompt)
    BY <1>1, <1>3 DEF Decoding
  <2>2. PICK n, r : n = prompt /\ r = run
    OBVIOUS
  <2>3. /\ r \in Nat /\ n \in Nat \ {0}
        /\ \A l \in Mine : \E t \in Nat : n <= t /\ layerData[l] = LayerAt(r, n, t)
        /\ \A l, m \in Mine : layerData[l].total - layerData[m].total \in -1..1
    BY <1>1, <1>3, <2>2, LayersAre
  <2>4. Tokens(r, 0, n) # <<>>
    <3>1. 0 \in Nat /\ 0 <= n /\ n \in Nat
      BY <2>3
    <3>2. Len(Tokens(r, 0, n)) = n - 0
      BY <2>3, <3>1, TokensLen
    <3> QED BY <2>3, <3>2
  <2>5. provider.kind = "hybrid" => \A l \in Layers : native[l] = <<>> <=> l \in patched
    BY <2>1, <2>2, <2>4
  <2>6. ASSUME NEW l \in Mine
        PROVE  LET ld == layerData[l]
                   slid == IF Splits(prompt) THEN (prompt - RecentTokens)..(ld.total - 1)
                                             ELSE prompt..(ld.total - 1)
               IN  /\ {<<run, p>> : p \in 0..(ld.total - 1) \ slid} \subseteq Held(l)
                   /\ <<run, ld.total - 1>> \in Held(l)
                   /\ Cardinality(Held(l)) = Len(ld.sink) + Len(ld.recent)
                         + MapThenSumSet(LAMBDA c : c.actual, ld.candidates)
    <3>1. PICK t \in Nat : n <= t /\ layerData[l] = LayerAt(r, n, t)
      BY <2>3
    <3>2. layerData[l].total = t
      BY <3>1 DEF LayerAt
    <3>3. Held(l) = Given(r, n, t, Candidates(n))
      BY <1>1, <1>3, <2>2, <3>1, HeldIs
    <3>4. PICK E \in Nat, W \in Nat :
             /\ E = KeptEnd(n) /\ W = WindowStart(n, t) /\ E <= W /\ W <= t
             /\ Held(l) = {<<r, p>> : p \in (0..(E - 1)) \cup (W..(t - 1))}
      <4>1. n <= t
        BY <3>1
      <4>2. /\ KeptEnd(n) \in Nat /\ WindowStart(n, t) \in Nat
            /\ KeptEnd(n) <= WindowStart(n, t) /\ WindowStart(n, t) <= t
        <5>1. EndsBefore(n, t)
          BY <2>3, <4>1, KeptEnds
        <5> QED BY <5>1 DEF EndsBefore
      <4>3. Given(r, n, t, Candidates(n))
              = {<<r, p>> : p \in (0..(KeptEnd(n) - 1)) \cup (WindowStart(n, t)..(t - 1))}
        BY <2>3, <4>1, GivenAll
      <4> QED BY <3>3, <4>2, <4>3, Zenon
    <3>5. Cardinality(Held(l)) = Len(layerData[l].sink) + Len(layerData[l].recent)
            + MapThenSumSet(LAMBDA c : c.actual, layerData[l].candidates)
      <4>1. n <= t
        BY <3>1
      <4>2. Cardinality(Given(r, n, t, Candidates(n)))
              = Len(LayerAt(r, n, t).sink) + Len(LayerAt(r, n, t).recent)
                  + MapThenSumSet(LAMBDA c : c.actual, LayerAt(r, n, t).candidates)
        BY <2>3, <4>1, KeptCounted, Zenon
      <4>3. layerData[l] = LayerAt(r, n, t)
        BY <3>1
      <4> QED BY <3>3, <4>2, <4>3, Zenon
    <3>6. PICK slid : slid = IF Splits(prompt) THEN (prompt - RecentTokens)..(t - 1)
                                               ELSE prompt..(t - 1)
      OBVIOUS
    <3>7. slid = E..(t - 1)
      BY <2>2, <3>4, <3>6 DEF KeptEnd
    <3>8. {<<r, p>> : p \in 0..(t - 1) \ slid} \subseteq Held(l)
      <4>1. \A p \in 0..(t - 1) \ slid : p \in 0..(E - 1)
        BY <3>4, <3>7
      <4> QED BY <3>4, <4>1
    <3>9. <<r, t - 1>> \in Held(l)
      <4>1. CASE W < t
        BY <3>4, <4>1
      <4>2. CASE W = t
        <5>1. RecentTokens \in Nat \ {0}
          BY ProviderAssumption
        <5>2. ~Splits(n) /\ t = n /\ E = n
          BY <2>3, <3>1, <3>4, <4>2, <5>1 DEF WindowStart, KeptEnd
        <5>3. t - 1 \in 0..(E - 1)
          BY <2>3, <5>2
        <5> QED BY <3>4, <5>3
      <4> QED BY <3>4, <4>1, <4>2
    <3> QED BY <2>2, <3>2, <3>5, <3>6, <3>8, <3>9
  <2> QED BY <2>1, <2>3, <2>5, <2>6
<1> QED BY <1>2, <1>3 DEF StateHasOneOwner

\* Every variable of a run has its type, the window of a layer is never longer than
\* recent_tokens (transformer_kv.py:201-206), every page on the storage is a whole block
\* (transformer_kv.py:169-189) and every entry of the registry has a level
\* (registry.py:229-309).
THEOREM TypesAlways == Spec => []TypeOK
BY InvInit, InvStep, InvTypes, PTL DEF Spec

\* What attention is given for a token (transformer_kv.py:208-372, sliding_window_kv.py:60-86):
\* tokens of this run in the order of the text, none twice and no padding, from the sinks to
\* the token itself; a block whole or not at all; none that ends before the sliding window; at
\* 100 % without one all that is kept; and in a baseline run every token there is
\* (aissd_inference.py:477-480): whatever earlier runs left on the storage.
THEOREM ActiveAlways == Spec => []ActiveExact
BY InvInit, InvStep, InvActive, PTL DEF Spec

\* Every layer's state has one owner and every token one place (transformer_kv.py:119-199,
\* hybrid_state.py:134-158, model_adapter.py:143-146): the provider has the patched layers and
\* the model the others; of a patched layer all is kept that the window has not slid over,
\* nothing twice; the layers move abreast; and no forward stays patched after a run, also
\* after one that failed.
THEOREM OwnerAlways == Spec => []StateHasOneOwner
BY InvInit, InvStep, InvOwner, PTL DEF Spec
=============================================================================
