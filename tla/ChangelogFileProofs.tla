------------------------- MODULE ChangelogFileProofs -------------------------
(* The shape of the changelog, and that a full build never lists a folded     *)
(* release twice, for any releases, chains, files and numbers of commands.    *)
EXTENDS ChangelogFile, SequenceTheorems, FiniteSetTheorems, WellFoundedInduction,
        TLAPS

-----------------------------------------------------------------------------
(* Numbers.                                                                *)

LEMMA LeastNat ==
    ASSUME NEW T \in SUBSET Nat, T # {}
    PROVE  \E n \in T : \A m \in T : n <= m
<1> PICK k \in T : TRUE
  OBVIOUS
<1> DEFINE U == {m \in T : m <= k}
           All == {0 .. m : m \in U}
<1>1. IsFiniteSet(0 .. k)
  BY FS_Interval
<1>2. \A m \in U : 0 .. m \in FiniteSubsetsOf(0 .. k)
  <2>1. \A m \in U : 0 .. m \in SUBSET (0 .. k) /\ IsFiniteSet(0 .. m)
    BY FS_Interval
  <2>2. QED
    BY <2>1 DEF FiniteSubsetsOf
<1>3. All \subseteq FiniteSubsetsOf(0 .. k) /\ All # {}
  BY <1>2
<1>4. PICK B \in All : \A C \in All : ~(<<C, B>> \in StrictSubsetOrdering(0 .. k))
  BY <1>1, <1>3, FS_StrictSubsetOrderingWellFounded, WFMin
<1>5. PICK n \in U : B = 0 .. n
  BY <1>4
<1>6. ASSUME NEW m \in T, m < n PROVE FALSE
  <2>1. m \in U /\ 0 .. m \in All
    BY <1>6
  <2>2. <<0 .. m, 0 .. n>> \in StrictSubsetOrdering(0 .. k)
    <3>1. 0 .. m \in SUBSET (0 .. k) /\ 0 .. n \in SUBSET (0 .. k)
      BY <2>1
    <3>2. 0 .. m \subseteq 0 .. n /\ n \in 0 .. n /\ n \notin 0 .. m
      BY <1>6
    <3>3. QED
      BY <3>1, <3>2 DEF StrictSubsetOrdering
  <2>3. QED
    BY <1>4, <1>5, <2>1, <2>2
<1>7. QED
  BY <1>6

LEMMA NatSets ==
    ASSUME NEW T \in SUBSET Nat, 0 \in T, \A n \in T : n + 1 \in T
    PROVE  \A n \in Nat : n \in T
<1>1. SUFFICES ASSUME Nat \ T # {} PROVE FALSE
  OBVIOUS
<1>2. PICK n \in Nat \ T : \A m \in Nat \ T : n <= m
  BY <1>1, LeastNat
<1>3. n - 1 \in Nat /\ n - 1 \notin Nat \ T
  BY <1>2
<1>4. n - 1 \in T /\ (n - 1) + 1 = n
  BY <1>2, <1>3
<1>5. QED
  BY <1>2, <1>4

LEMMA MinIsLeast ==
    ASSUME NEW T \in SUBSET Nat, T # {}
    PROVE  Min(T) \in T /\ \A m \in T : Min(T) <= m
<1>1. \E x \in T : \A y \in T : x <= y
  BY LeastNat
<1>2. QED
  BY <1>1 DEF Min

LEMMA MaxIsLargest ==
    ASSUME NEW n \in Nat, NEW T \in SUBSET (0 .. n), T # {}
    PROVE  Max(T) \in T /\ \A m \in T : m <= Max(T)
<1> DEFINE U == {n - m : m \in T}
<1>1. U \in SUBSET Nat /\ U # {}
  <2>1. \A m \in T : m \in Nat /\ m <= n
    OBVIOUS
  <2>2. \A m \in T : n - m \in Nat
    BY <2>1
  <2>3. QED
    BY <2>2
<1>2. PICK u \in U : \A m \in U : u <= m
  BY <1>1, LeastNat
<1>3. PICK t \in T : u = n - t
  OBVIOUS
<1>4. ASSUME NEW m \in T PROVE m <= t
  <2>1. n - m \in U
    OBVIOUS
  <2>2. n - t <= n - m
    BY <1>2, <1>3, <2>1
  <2>3. QED
    BY <2>2
<1>5. \E x \in T : \A y \in T : x >= y
  BY <1>4
<1>6. QED
  BY <1>5 DEF Max

-----------------------------------------------------------------------------
(* Flattened sequences.                                                    *)

\* The recursive function of FlattenSeq.
Flat(ss) ==
    CHOOSE flatten : flatten = [i \in 1 .. Len(ss) |->
        IF i = 1 THEN ss[i] ELSE flatten[i - 1] \o ss[i]]

\* g is right up to m.
FlatTo(g, ss, m) ==
    \A i \in 1 .. m : g[i] = IF i = 1 THEN ss[i] ELSE g[i - 1] \o ss[i]

LEMMA FlatStep ==
    ASSUME NEW S, NEW ss \in Seq(Seq(S)), NEW m \in Nat, m + 1 <= Len(ss),
           NEW g \in [1 .. m -> Seq(S)], FlatTo(g, ss, m)
    PROVE  \E h \in [1 .. m + 1 -> Seq(S)] : FlatTo(h, ss, m + 1)
<1> DEFINE next == IF m = 0 THEN ss[m + 1] ELSE g[m] \o ss[m + 1]
           h == [i \in 1 .. m + 1 |-> IF i = m + 1 THEN next ELSE g[i]]
<1>3. next \in Seq(S)
  <2>1. ss[m + 1] \in Seq(S)
    BY LenProperties
  <2>2. m # 0 => g[m] \in Seq(S)
    OBVIOUS
  <2>3. QED
    BY <2>1, <2>2, ConcatProperties
<1> HIDE DEF next
<1>4. h \in [1 .. m + 1 -> Seq(S)]
  BY <1>3
<1>5. \A i \in 1 .. m : h[i] = g[i]
  OBVIOUS
<1>6. h[m + 1] = next
  OBVIOUS
<1> HIDE DEF h
<1>7. ASSUME NEW i \in 1 .. m + 1
      PROVE  h[i] = IF i = 1 THEN ss[i] ELSE h[i - 1] \o ss[i]
  <2>1. CASE i = m + 1
    <3>1. CASE m = 0
      BY <1>6, <2>1, <3>1 DEF next
    <3>2. CASE m # 0
      <4>1. i - 1 = m /\ h[i - 1] = g[m] /\ i # 1
        BY <1>5, <2>1, <3>2
      <4>2. QED
        BY <1>6, <2>1, <3>2, <4>1 DEF next
    <3>3. QED
      BY <3>1, <3>2
  <2>2. CASE i # m + 1
    <3>1. i \in 1 .. m /\ (i # 1 => i - 1 \in 1 .. m)
      BY <2>2
    <3>2. g[i] = IF i = 1 THEN ss[i] ELSE g[i - 1] \o ss[i]
      BY <3>1 DEF FlatTo
    <3>3. QED
      BY <1>5, <3>1, <3>2
  <2>3. QED
    BY <2>1, <2>2
<1>8. QED
  BY <1>4, <1>7 DEF FlatTo

LEMMA FlatExists ==
    ASSUME NEW S, NEW ss \in Seq(Seq(S))
    PROVE  Flat(ss) \in [1 .. Len(ss) -> Seq(S)] /\ FlatTo(Flat(ss), ss, Len(ss))
<1> DEFINE N == Len(ss)
           T == {m \in Nat : m <= N => \E g \in [1 .. m -> Seq(S)] : FlatTo(g, ss, m)}
<1>1. N \in Nat /\ \A i \in 1 .. N : ss[i] \in Seq(S)
  BY LenProperties
<1>2. 0 \in T
  <2>1. [i \in 1 .. 0 |-> <<>>] \in [1 .. 0 -> Seq(S)]
    OBVIOUS
  <2>2. \A g : FlatTo(g, ss, 0)
    BY DEF FlatTo
  <2>3. QED
    BY <2>1, <2>2
<1>3. ASSUME NEW m \in T PROVE m + 1 \in T
  <2>1. CASE m + 1 <= N
    <3>1. PICK g \in [1 .. m -> Seq(S)] : FlatTo(g, ss, m)
      BY <1>1, <2>1
    <3>2. QED
      BY <2>1, <3>1, FlatStep
  <2>2. CASE ~(m + 1 <= N)
    BY <2>2
  <2>3. QED
    BY <2>1, <2>2
<1>4. PICK g \in [1 .. N -> Seq(S)] : FlatTo(g, ss, N)
  <2>1. T \in SUBSET Nat
    OBVIOUS
  <2> HIDE DEF T
  <2>2. N \in T
    BY <1>1, <1>2, <1>3, <2>1, NatSets
  <2>3. QED
    BY <1>1, <2>2 DEF T
<1>5. g = [i \in 1 .. N |-> IF i = 1 THEN ss[i] ELSE g[i - 1] \o ss[i]]
  BY <1>4 DEF FlatTo
<1>6. Flat(ss) = [i \in 1 .. N |-> IF i = 1 THEN ss[i] ELSE Flat(ss)[i - 1] \o ss[i]]
  BY <1>5 DEF Flat
<1>7. FlatTo(Flat(ss), ss, N)
  BY <1>6 DEF FlatTo
<1> DEFINE U == {m \in Nat : m \in 1 .. N => Flat(ss)[m] \in Seq(S)}
<1>8. U \in SUBSET Nat /\ 0 \in U
  OBVIOUS
<1>9. ASSUME NEW m \in U PROVE m + 1 \in U
  <2>1. CASE m + 1 \in 1 .. N
    <3>1. ss[m + 1] \in Seq(S)
      BY <1>1, <2>1
    <3>2. Flat(ss)[m + 1] = IF m + 1 = 1 THEN ss[m + 1] ELSE Flat(ss)[m + 1 - 1] \o ss[m + 1]
      BY <1>7, <2>1 DEF FlatTo
    <3>3. CASE m = 0
      BY <3>1, <3>2, <3>3
    <3>4. CASE m # 0
      <4>1. m + 1 - 1 = m /\ m \in 1 .. N /\ m + 1 # 1
        BY <2>1, <3>4
      <4>2. Flat(ss)[m] \in Seq(S)
        BY <4>1
      <4>3. Flat(ss)[m + 1] = Flat(ss)[m] \o ss[m + 1]
        BY <3>2, <4>1
      <4>4. Flat(ss)[m] \o ss[m + 1] \in Seq(S)
        BY <3>1, <4>2, ConcatProperties
      <4>5. Flat(ss)[m + 1] \in Seq(S)
        BY <4>3, <4>4
      <4>6. QED
        BY <4>5
    <3>5. QED
      BY <3>3, <3>4
  <2>2. CASE m + 1 \notin 1 .. N
    BY <2>2
  <2>3. QED
    BY <2>1, <2>2
<1>10. \A m \in 1 .. N : Flat(ss)[m] \in Seq(S)
  <2> HIDE DEF U
  <2>1. \A m \in Nat : m \in U
    BY <1>8, <1>9, NatSets
  <2>2. QED
    BY <1>1, <2>1 DEF U
<1>11. Flat(ss) \in [1 .. N -> Seq(S)]
  BY <1>6, <1>10
<1>12. QED
  BY <1>7, <1>11

LEMMA FlattenIs ==
    ASSUME NEW ss
    PROVE  FlattenSeq(ss) = IF Len(ss) = 0 THEN ss ELSE Flat(ss)[Len(ss)]
BY DEF FlattenSeq, Flat

\* A sequence of sequences of elements of S flattens to one of them.
LEMMA FlattenType ==
    ASSUME NEW S, NEW ss \in Seq(Seq(S))
    PROVE  FlattenSeq(ss) \in Seq(S)
<1>1. Len(ss) \in Nat /\ (Len(ss) = 0 => ss = <<>>)
  BY LenProperties, EmptySeq
<1>2. CASE Len(ss) = 0
  BY <1>1, <1>2, FlattenIs, EmptySeq
<1>3. CASE Len(ss) # 0
  <2>1. FlattenSeq(ss) = Flat(ss)[Len(ss)]
    BY <1>3, FlattenIs
  <2>2. Len(ss) \in 1 .. Len(ss)
    BY <1>1, <1>3
  <2>3. Flat(ss) \in [1 .. Len(ss) -> Seq(S)]
    BY FlatExists
  <2>4. Flat(ss)[Len(ss)] \in Seq(S)
    BY <2>2, <2>3
  <2>5. QED
    BY <2>1, <2>4
<1>4. QED
  BY <1>2, <1>3

-----------------------------------------------------------------------------
(* The releases in order.                                                  *)

LEMMA AmongType ==
    ASSUME NEW S, NEW s \in Seq(S), NEW T
    PROVE  Among(s, T) \in Seq(S \cap T)
<1> DEFINE n == Len(s)
           X == S \cap T
           ss == [i \in DOMAIN s |-> IF s[i] \in T THEN <<s[i]>> ELSE <<>>]
<1>1. n \in Nat /\ DOMAIN s = 1 .. n /\ \A i \in 1 .. n : s[i] \in S
  BY LenProperties
<1>2. ASSUME NEW i \in 1 .. n PROVE ss[i] \in Seq(X)
  <2>1. s[i] \in X \/ s[i] \notin T
    BY <1>1
  <2> HIDE DEF X
  <2>2. <<>> \in Seq(X) /\ \A x \in X : <<x>> \in Seq(X)
    OBVIOUS
  <2>3. QED
    BY <1>1, <2>1, <2>2
<1> HIDE DEF X
<1>3. ss \in [1 .. n -> Seq(X)]
  BY <1>1, <1>2
<1> HIDE DEF ss
<1>4. ss \in Seq(Seq(X))
  BY <1>1, <1>3, SeqDef
<1>5. FlattenSeq(ss) \in Seq(X)
  BY <1>4, FlattenType
<1>6. QED
  BY <1>5 DEF Among, ss, X

LEMMA FirstsType ==
    ASSUME NEW S, NEW s \in Seq(S)
    PROVE  Firsts(s) \in Seq(S)
<1> DEFINE n == Len(s)
           places == [i \in DOMAIN s |-> i]
           T == {i \in DOMAIN s : \A j \in 1 .. i - 1 : s[j] # s[i]}
           first == Among(places, T)
<1>1. n \in Nat /\ DOMAIN s = 1 .. n /\ \A i \in 1 .. n : s[i] \in S
  BY LenProperties
<1>2. places \in Seq(1 .. n)
  <2>1. places \in [1 .. n -> 1 .. n]
    BY <1>1
  <2>2. QED
    BY <1>1, <2>1, SeqDef
<1> HIDE DEF places, T
<1>3. first \in Seq((1 .. n) \cap T)
  BY <1>2, AmongType
<1>4. first \in Seq(1 .. n)
  BY <1>3, SeqMonotonic
<1> HIDE DEF first
<1>5. Len(first) \in Nat /\ DOMAIN first = 1 .. Len(first)
      /\ \A k \in 1 .. Len(first) : first[k] \in 1 .. n
  BY <1>4, LenProperties
<1>6. [k \in DOMAIN first |-> s[first[k]]] \in [1 .. Len(first) -> S]
  BY <1>1, <1>5
<1>7. [k \in DOMAIN first |-> s[first[k]]] \in Seq(S)
  BY <1>5, <1>6, SeqDef
<1>8. QED
  BY <1>7 DEF Firsts, first, places, T

\* The values that the links of a chain take.
ChainAt(v, records) ==
    CHOOSE at : at = [n \in 0 .. Len(Newest) |->
        IF n = 0 THEN v
        ELSE IF at[n - 1] \in records THEN Previous[at[n - 1]] ELSE NoVersion]

LEMMA ChainType ==
    ASSUME NEW v, NEW records
    PROVE  Chain(v, records) \in Seq(ToSet(Chain(v, records)))
<1> DEFINE at == ChainAt(v, records)
           ends == {n \in 0 .. Len(Newest) :
                       at[n] \notin records \/ \E m \in 0 .. n - 1 : at[m] = at[n]}
           length == Min(ends \cup {Len(Newest)})
           chain == [k \in 1 .. length |-> at[k - 1]]
<1>1. Len(Newest) \in Nat
  BY ChangelogAssumption, LenProperties
<1>2. length \in Nat
  <2>1. ends \cup {Len(Newest)} \in SUBSET Nat /\ ends \cup {Len(Newest)} # {}
    BY <1>1
  <2> HIDE DEF ends
  <2>2. QED
    BY <2>1, MinIsLeast
<1>3. Chain(v, records) = chain
  BY DEF Chain, ChainAt
<1> HIDE DEF length
<1>4. chain \in [1 .. length -> ToSet(chain)]
  BY DEF ToSet
<1> HIDE DEF chain
<1>5. chain \in Seq(ToSet(chain))
  BY <1>2, <1>4, SeqDef
<1>6. QED
  BY <1>3, <1>5

\* The order of a document is a sequence.
LEMMA OrderType ==
    ASSUME NEW records
    PROVE  \E S : Order(records) \in Seq(S)
<1> DEFINE dated == {v \in records : status[v] = "released"}
           fallback == Among(Newest, dated) \o Among(Newest, records \ dated)
           heads == Among(fallback, {v \in records : \A w \in records : Previous[w] # v})
           chains == [k \in DOMAIN heads |-> Chain(heads[k], records)]
           S == UNION {ToSet(Chain(v, records)) : v \in Versions}
<1>1. fallback \in Seq(Versions)
  <2>1. ASSUME NEW T PROVE Among(Newest, T) \in Seq(Versions)
    <3>1. Among(Newest, T) \in Seq(Versions \cap T)
      BY ChangelogAssumption, AmongType
    <3>2. QED
      BY <3>1, SeqMonotonic
  <2>2. QED
    BY <2>1, ConcatProperties
<1> HIDE DEF fallback
<1>2. heads \in Seq(Versions)
  <2>1. ASSUME NEW T PROVE Among(fallback, T) \in Seq(Versions)
    <3>1. Among(fallback, T) \in Seq(Versions \cap T)
      BY <1>1, AmongType
    <3>2. QED
      BY <3>1, SeqMonotonic
  <2>2. QED
    BY <2>1
<1> HIDE DEF heads
<1>3. Len(heads) \in Nat /\ DOMAIN heads = 1 .. Len(heads)
      /\ \A k \in 1 .. Len(heads) : heads[k] \in Versions
  BY <1>2, LenProperties
<1>4. \A v \in Versions : Chain(v, records) \in Seq(S)
  <2>1. \A v \in Versions : ToSet(Chain(v, records)) \subseteq S
    OBVIOUS
  <2> HIDE DEF S
  <2>2. QED
    BY <2>1, ChainType, SeqMonotonic
<1> HIDE DEF S
<1>5. chains \in [1 .. Len(heads) -> Seq(S)]
  BY <1>3, <1>4
<1> HIDE DEF chains
<1>6. chains \in Seq(Seq(S))
  BY <1>3, <1>5, SeqDef
<1>7. FlattenSeq(chains) \in Seq(S \cup Versions)
  BY <1>6, FlattenType, SeqMonotonic
<1>8. fallback \in Seq(S \cup Versions)
  BY <1>1, SeqMonotonic
<1>9. FlattenSeq(chains) \o fallback \in Seq(S \cup Versions)
  BY <1>7, <1>8, ConcatProperties
<1>10. Firsts(FlattenSeq(chains) \o fallback) \in Seq(S \cup Versions)
  BY <1>9, FirstsType
<1>11. Order(records) = Firsts(FlattenSeq(chains) \o fallback)
  BY DEF Order, chains, heads, fallback
<1>12. QED
  BY <1>10, <1>11

\* The releases with a section of their own are other than the folded one.
LEMMA SelectedType ==
    ASSUME NEW names, NEW fold
    PROVE  Selected(names, fold) \in Seq(Versions \ {fold})
<1> DEFINE r == {v \in Active : status[v] \in names}
<1>1. PICK S : Order(r) \in Seq(S)
  BY OrderType
<1> HIDE DEF r
<1>2. Among(Order(r), Versions \ {fold}) \in Seq(S \cap (Versions \ {fold}))
  BY <1>1, AmongType
<1>3. Among(Order(r), Versions \ {fold}) \in Seq(Versions \ {fold})
  BY <1>2, SeqMonotonic
<1>4. QED
  BY <1>3 DEF Selected, r

-----------------------------------------------------------------------------
(* The spans in the order of the file.                                     *)

Sorts(p, n, at) ==
    \A i, j \in 1 .. n : i < j => p[i] # p[j] /\ at[p[i]] <= at[p[j]]

Sortable(n) == \A b \in [1 .. n -> Nat] : \E p \in [1 .. n -> 1 .. n] : Sorts(p, n, b)

\* The least place first, and before it the order of the others; the last
\* place takes the index of the least one among them.
LEMMA SortStep ==
    ASSUME NEW n \in Nat, NEW at \in [1 .. n + 1 -> Nat],
           Sortable(n)
    PROVE  \E p \in [1 .. n + 1 -> 1 .. n + 1] : Sorts(p, n + 1, at)
<1>1. PICK m \in 1 .. n + 1 : \A i \in 1 .. n + 1 : at[m] <= at[i]
  <2> DEFINE T == {at[i] : i \in 1 .. n + 1}
  <2>1. T \in SUBSET Nat /\ T # {}
    OBVIOUS
  <2>2. PICK t \in T : \A u \in T : t <= u
    BY <2>1, LeastNat
  <2>3. QED
    BY <2>2
<1> DEFINE q == [x \in 1 .. n |-> IF x = m THEN n + 1 ELSE x]
           b == [x \in 1 .. n |-> at[q[x]]]
<1>2. q \in [1 .. n -> 1 .. n + 1]
  OBVIOUS
<1>3. \A x, y \in 1 .. n : q[x] # m /\ (x # y => q[x] # q[y])
  OBVIOUS
<1> HIDE DEF q
<1>4. b \in [1 .. n -> Nat] /\ \A x \in 1 .. n : b[x] = at[q[x]]
  BY <1>2
<1> HIDE DEF b
<1>5. PICK p \in [1 .. n -> 1 .. n] : Sorts(p, n, b)
  BY <1>4 DEF Sortable
<1> DEFINE r == [k \in 1 .. n + 1 |-> IF k = 1 THEN m ELSE q[p[k - 1]]]
<1>6. r[1] = m /\ \A k \in 2 .. n + 1 : k - 1 \in 1 .. n /\ r[k] = q[p[k - 1]]
  OBVIOUS
<1>7. r \in [1 .. n + 1 -> 1 .. n + 1]
  <2>1. ASSUME NEW k \in 2 .. n + 1 PROVE r[k] \in 1 .. n + 1
    <3>1. p[k - 1] \in 1 .. n
      BY <1>6
    <3>2. q[p[k - 1]] \in 1 .. n + 1
      BY <1>2, <3>1
    <3>3. QED
      BY <1>6, <3>2
  <2>2. \A k \in 1 .. n + 1 : k = 1 \/ k \in 2 .. n + 1
    OBVIOUS
  <2>3. DOMAIN r = 1 .. n + 1 /\ r = [k \in 1 .. n + 1 |-> r[k]]
    OBVIOUS
  <2> HIDE DEF r
  <2>4. ASSUME NEW k \in 1 .. n + 1 PROVE r[k] \in 1 .. n + 1
    <3>1. CASE k = 1
      BY <1>6, <3>1
    <3>2. CASE k # 1
      BY <2>1, <2>2, <3>2
    <3>3. QED
      BY <3>1, <3>2
  <2>5. QED
    BY <2>3, <2>4
<1> HIDE DEF r
<1>8. ASSUME NEW i \in 1 .. n + 1, NEW j \in 1 .. n + 1, i < j
      PROVE  r[i] # r[j] /\ at[r[i]] <= at[r[j]]
  <2>0. \A k \in 2 .. n + 1 : k - 1 \in 1 .. n /\ p[k - 1] \in 1 .. n /\ r[k] = q[p[k - 1]]
    <3> SUFFICES ASSUME NEW k \in 2 .. n + 1
                 PROVE  k - 1 \in 1 .. n /\ p[k - 1] \in 1 .. n /\ r[k] = q[p[k - 1]]
      OBVIOUS
    <3>1. k - 1 \in 1 .. n /\ r[k] = q[p[k - 1]]
      BY <1>6
    <3>2. p[k - 1] \in 1 .. n
      BY <3>1
    <3>3. QED
      BY <3>1, <3>2
  <2>1. j \in 2 .. n + 1 /\ j - 1 \in 1 .. n /\ p[j - 1] \in 1 .. n /\ r[j] = q[p[j - 1]]
    <3>1. j \in 2 .. n + 1
      BY <1>8
    <3>2. QED
      BY <2>0, <3>1
  <2>2. CASE i = 1
    BY <1>1, <1>3, <1>6, <1>7, <2>1, <2>2
  <2>3. CASE i # 1
    <3>1. i \in 2 .. n + 1 /\ i - 1 \in 1 .. n /\ p[i - 1] \in 1 .. n /\ r[i] = q[p[i - 1]]
      <4>1. i \in 2 .. n + 1
        BY <2>3
      <4>2. QED
        BY <2>0, <4>1
    <3>2. i - 1 < j - 1
      BY <1>8
    <3>3. p[i - 1] # p[j - 1] /\ b[p[i - 1]] <= b[p[j - 1]]
      BY <1>5, <2>1, <3>1, <3>2 DEF Sorts
    <3>4. QED
      BY <1>3, <1>4, <2>1, <3>1, <3>3
  <2>4. QED
    BY <2>2, <2>3
<1>9. QED
  BY <1>7, <1>8 DEF Sorts

LEMMA SortExists ==
    ASSUME NEW n \in Nat, NEW at \in [1 .. n -> Nat]
    PROVE  \E p \in [1 .. n -> 1 .. n] : Sorts(p, n, at)
<1> DEFINE T == {m \in Nat : Sortable(m)}
<1>1. 0 \in T
  <2>1. \A p, b : Sorts(p, 0, b)
    BY DEF Sorts
  <2>2. [i \in 1 .. 0 |-> i] \in [1 .. 0 -> 1 .. 0]
    OBVIOUS
  <2>3. Sortable(0)
    BY <2>1, <2>2 DEF Sortable
  <2>4. QED
    BY <2>3
<1>2. ASSUME NEW m \in T PROVE m + 1 \in T
  <2>1. ASSUME NEW b \in [1 .. m + 1 -> Nat]
        PROVE  \E p \in [1 .. m + 1 -> 1 .. m + 1] : Sorts(p, m + 1, b)
    BY SortStep
  <2>2. Sortable(m + 1)
    BY <2>1 DEF Sortable
  <2>3. QED
    BY <2>2
<1>3. T \in SUBSET Nat
  OBVIOUS
<1> HIDE DEF T
<1>4. n \in T
  BY <1>1, <1>2, <1>3, NatSets
<1>5. QED
  BY <1>4 DEF T, Sortable

\* The spans in the order of the file are the spans, and in order.
LEMMA InFileOrderIs ==
    ASSUME NEW n \in Nat, NEW spans \in [1 .. n -> Nat \X Nat]
    PROVE  /\ DOMAIN InFileOrder(spans) = 1 .. n
           /\ \A k \in 1 .. n : \E i \in 1 .. n : InFileOrder(spans)[k] = spans[i]
           /\ \A j, k \in 1 .. n : j < k => InFileOrder(spans)[j][1] <= InFileOrder(spans)[k][1]
<1> DEFINE at == [k \in 1 .. n |-> spans[k][1]]
           P == DOMAIN spans
           order == CHOOSE p \in [P -> P] :
                       \A i, j \in P : i < j =>
                           p[i] # p[j] /\ spans[p[i]][1] <= spans[p[j]][1]
<1>1. at \in [1 .. n -> Nat] /\ \A k \in 1 .. n : at[k] = spans[k][1]
  <2>1. \A k \in 1 .. n : spans[k] \in Nat \X Nat
    OBVIOUS
  <2>2. \A k \in 1 .. n : spans[k][1] \in Nat
    BY <2>1
  <2>3. QED
    BY <2>2
<1> HIDE DEF at
<1>2. PICK p \in [1 .. n -> 1 .. n] : Sorts(p, n, at)
  BY <1>1, SortExists
<1>3. \A i, j \in 1 .. n : i < j => p[i] # p[j] /\ spans[p[i]][1] <= spans[p[j]][1]
  BY <1>1, <1>2 DEF Sorts
<1>4. InFileOrder(spans) = [k \in P |-> spans[order[k]]]
  BY DEF InFileOrder
<1>5. P = 1 .. n
  OBVIOUS
<1> HIDE DEF P
<1>6. /\ order \in [P -> P]
      /\ \A i, j \in P : i < j =>
            order[i] # order[j] /\ spans[order[i]][1] <= spans[order[j]][1]
  <2>1. p \in [P -> P]
    BY <1>5
  <2>2. \A i, j \in P : i < j => p[i] # p[j] /\ spans[p[i]][1] <= spans[p[j]][1]
    BY <1>3, <1>5
  <2>3. QED
    BY <2>1, <2>2
<1> HIDE DEF order
<1>7. \A k \in 1 .. n : order[k] \in 1 .. n /\ InFileOrder(spans)[k] = spans[order[k]]
  BY <1>4, <1>5, <1>6
<1>8. QED
  BY <1>4, <1>5, <1>6, <1>7

-----------------------------------------------------------------------------
(* Lines that are put into a file, and where it is cut.                    *)

Simple == {l \in Lines : l.kind \in {"heading", "note", "sentinel", "ref"}}

\* What precedes a can end a file.
EndsAt(f, a) ==
    /\ a \in 2 .. Len(f) + 1
    /\ \A i \in DOMAIN f : f[i].kind = "start" => a \notin {i + 1, i + 2}

\* What begins at b can follow another line.
CutAt(f, b) ==
    /\ b \in 2 .. Len(f) + 1
    /\ \A i \in DOMAIN f : f[i].kind = "start" => b \notin {i, i + 1, i + 2}

LEMMA ShapedDomain ==
    ASSUME NEW f, Shaped(f)
    PROVE  /\ f \in Seq(Lines) /\ Len(f) \in Nat /\ DOMAIN f = 1 .. Len(f)
           /\ \A i \in 1 .. Len(f) : f[i] \in Lines /\ f[i].kind \in LineKinds
<1>1. f \in Seq(Lines)
  BY DEF Shaped
<1>2. Len(f) \in Nat /\ DOMAIN f = 1 .. Len(f) /\ \A i \in 1 .. Len(f) : f[i] \in Lines
  BY <1>1, LenProperties
<1>3. \A l \in Lines : l.kind \in LineKinds
  BY DEF Lines
<1>4. QED
  BY <1>1, <1>2, <1>3

LEMMA CutAtKind ==
    ASSUME NEW f, Shaped(f), NEW b \in 2 .. Len(f) + 1,
           b = Len(f) + 1 \/ f[b].kind \in {"unreleased", "heading", "sentinel", "ref"}
    PROVE  CutAt(f, b)
<1>1. Len(f) \in Nat /\ DOMAIN f = 1 .. Len(f)
  BY ShapedDomain
<1>2. ASSUME NEW i \in DOMAIN f, f[i].kind = "start" PROVE b \notin {i, i + 1, i + 2}
  <2>1. i \in 1 .. Len(f) /\ i + 2 <= Len(f) /\ f[i + 1].kind = "note" /\ f[i + 2].kind = "end"
    BY <1>1, <1>2 DEF Shaped
  <2>2. CASE b = Len(f) + 1
    BY <1>1, <2>1, <2>2
  <2>3. CASE b # Len(f) + 1
    BY <1>2, <2>1, <2>3
  <2>4. QED
    BY <2>2, <2>3
<1>3. QED
  BY <1>2 DEF CutAt

LEMMA CutsEnd ==
    ASSUME NEW f, NEW b, CutAt(f, b)
    PROVE  EndsAt(f, b)
BY DEF CutAt, EndsAt

LEMMA ConcatIs ==
    ASSUME NEW S, NEW l \in Seq(S), NEW r \in Seq(S)
    PROVE  /\ Len(l) \in Nat /\ Len(r) \in Nat
           /\ l \o r \in Seq(S) /\ Len(l \o r) = Len(l) + Len(r)
           /\ \A i \in 1 .. Len(l) : (l \o r)[i] = l[i]
           /\ \A i \in Len(l) + 1 .. Len(l) + Len(r) : (l \o r)[i] = r[i - Len(l)]
<1>1. /\ l \o r \in Seq(S) /\ Len(l \o r) = Len(l) + Len(r)
      /\ \A i \in 1 .. Len(l) + Len(r) :
            (l \o r)[i] = IF i <= Len(l) THEN l[i] ELSE r[i - Len(l)]
  BY ConcatProperties
<1>2. Len(l) \in Nat /\ Len(r) \in Nat
  BY LenProperties
<1>3. \A i \in 1 .. Len(l) : (l \o r)[i] = l[i]
  BY <1>1, <1>2
<1>4. \A i \in Len(l) + 1 .. Len(l) + Len(r) : (l \o r)[i] = r[i - Len(l)]
  BY <1>1, <1>2
<1>5. QED
  BY <1>1, <1>2, <1>3, <1>4

\* t is f with s in place of the lines from a up to b.
IsSplice(t, f, a, b, s) ==
    /\ Len(t) = Len(f) + Len(s) + a - b
    /\ \A i \in 1 .. a - 1 : t[i] = f[i]
    /\ \A i \in a .. a + Len(s) - 1 : t[i] = s[i - a + 1]
    /\ \A i \in a + Len(s) .. Len(f) + Len(s) + a - b : t[i] = f[i - a - Len(s) + b]

LEMMA SpliceIs ==
    ASSUME NEW S, NEW f \in Seq(S), NEW s \in Seq(S),
           NEW a \in 1 .. Len(f) + 1, NEW b \in a .. Len(f) + 1
    PROVE  /\ Splice(f, <<a, b>>, s) \in Seq(S)
           /\ IsSplice(Splice(f, <<a, b>>, s), f, a, b, s)
<1> DEFINE l == SubSeq(f, 1, a - 1)
           r == SubSeq(f, b, Len(f))
           t == Splice(f, <<a, b>>, s)
<1>1. Len(f) \in Nat /\ Len(s) \in Nat /\ \A i \in 1 .. Len(f) : f[i] \in S
  BY LenProperties
<1>2. l \in Seq(S) /\ Len(l) = a - 1 /\ \A i \in 1 .. a - 1 : l[i] = f[i]
  <2>1. \A i \in 1 .. a - 1 : f[i] \in S
    BY <1>1
  <2>2. /\ l \in Seq(S) /\ Len(l) = IF 1 <= a - 1 THEN a - 1 - 1 + 1 ELSE 0
        /\ \A i \in 1 .. a - 1 - 1 + 1 : l[i] = f[1 + i - 1]
    BY <1>1, <2>1, SubSeqProperties
  <2> HIDE DEF l
  <2>3. QED
    BY <1>1, <2>2
<1>3. r \in Seq(S) /\ Len(r) = Len(f) - b + 1 /\ \A i \in 1 .. Len(f) - b + 1 : r[i] = f[b + i - 1]
  <2>1. \A i \in b .. Len(f) : f[i] \in S
    BY <1>1
  <2>2. /\ r \in Seq(S) /\ Len(r) = IF b <= Len(f) THEN Len(f) - b + 1 ELSE 0
        /\ \A i \in 1 .. Len(f) - b + 1 : r[i] = f[b + i - 1]
    BY <1>1, <2>1, SubSeqProperties
  <2> HIDE DEF r
  <2>3. QED
    BY <1>1, <2>2
<1>4. t = (l \o s) \o r
  BY DEF Splice
<1> HIDE DEF l, r, t
<1> DEFINE k == Len(s)
           m == a - 1
           n == Len(f) - b + 1
<1>5. m \in Nat /\ k \in Nat /\ n \in Nat /\ m + k \in Nat
  BY <1>1
<1> HIDE DEF k, m, n
<1>6. /\ l \o s \in Seq(S) /\ Len(l \o s) = m + k
      /\ \A i \in 1 .. m : (l \o s)[i] = l[i]
      /\ \A i \in m + 1 .. m + k : (l \o s)[i] = s[i - m]
  <2>1. Len(l) = m /\ Len(s) = k
    BY <1>2 DEF m, k
  <2>2. /\ l \o s \in Seq(S) /\ Len(l \o s) = Len(l) + Len(s)
        /\ \A i \in 1 .. Len(l) : (l \o s)[i] = l[i]
        /\ \A i \in Len(l) + 1 .. Len(l) + Len(s) : (l \o s)[i] = s[i - Len(l)]
    BY <1>2, ConcatIs
  <2>3. QED
    BY <2>1, <2>2
<1>7. /\ t \in Seq(S) /\ Len(t) = (m + k) + n
      /\ \A i \in 1 .. m + k : t[i] = (l \o s)[i]
      /\ \A i \in (m + k) + 1 .. (m + k) + n : t[i] = r[i - (m + k)]
  <2> DEFINE ls == l \o s
  <2>1. Len(r) = n /\ Len(ls) = m + k /\ ls \in Seq(S) /\ t = ls \o r
    BY <1>3, <1>4, <1>6 DEF n
  <2> HIDE DEF ls
  <2>2. /\ ls \o r \in Seq(S) /\ Len(ls \o r) = Len(ls) + Len(r)
        /\ \A i \in 1 .. Len(ls) : (ls \o r)[i] = ls[i]
        /\ \A i \in Len(ls) + 1 .. Len(ls) + Len(r) : (ls \o r)[i] = r[i - Len(ls)]
    BY <1>3, <2>1, ConcatIs
  <2>3. QED
    BY <2>1, <2>2 DEF ls
<1>8. ASSUME NEW i \in 1 .. a - 1 PROVE t[i] = f[i]
  <2>1. i \in 1 .. m /\ i \in 1 .. m + k
    BY <1>5 DEF m
  <2>2. t[i] = (l \o s)[i]
    BY <1>7, <2>1
  <2>3. (l \o s)[i] = l[i]
    BY <1>6, <2>1
  <2>4. l[i] = f[i]
    BY <1>2
  <2>5. QED
    BY <2>2, <2>3, <2>4
<1>9. ASSUME NEW i \in a .. a + Len(s) - 1 PROVE t[i] = s[i - a + 1]
  <2>1. i \in m + 1 .. m + k /\ i \in 1 .. m + k /\ i - m = i - a + 1
    BY <1>1, <1>5 DEF m, k
  <2>2. t[i] = (l \o s)[i]
    BY <1>7, <2>1
  <2>3. (l \o s)[i] = s[i - m]
    BY <1>6, <2>1
  <2>4. QED
    BY <2>1, <2>2, <2>3
<1>10. ASSUME NEW i \in a + Len(s) .. Len(f) + Len(s) + a - b
       PROVE  t[i] = f[i - a - Len(s) + b]
  <2>1. /\ i \in (m + k) + 1 .. (m + k) + n
        /\ i - (m + k) \in 1 .. Len(f) - b + 1
        /\ b + (i - (m + k)) - 1 = i - a - Len(s) + b
    BY <1>1, <1>5 DEF m, k, n
  <2>2. r[i - (m + k)] = f[b + (i - (m + k)) - 1]
    BY <1>3, <2>1
  <2>3. QED
    BY <1>7, <2>1, <2>2
<1>11. Len(t) = Len(f) + Len(s) + a - b
  BY <1>1, <1>7 DEF m, k, n
<1>12. QED
  BY <1>7, <1>8, <1>9, <1>10, <1>11 DEF t, IsSplice

\* Simple lines may replace what lies between two cuts.
LEMMA SpliceShaped ==
    ASSUME NEW f, Shaped(f), NEW s \in Seq(Simple), NEW a, NEW b,
           EndsAt(f, a), CutAt(f, b), a <= b
    PROVE  Shaped(Splice(f, <<a, b>>, s)) /\ Splice(f, <<a, b>>, s) # <<>>
<1> DEFINE N == Len(f)
           k == Len(s)
           d == k + a - b
           t == Splice(f, <<a, b>>, s)
<1>1. /\ f \in Seq(Lines) /\ N \in Nat /\ DOMAIN f = 1 .. N
      /\ a \in 2 .. N + 1 /\ b \in 2 .. N + 1 /\ a <= b
  BY ShapedDomain DEF EndsAt, CutAt
<1>2. s \in Seq(Lines) /\ k \in Nat /\ \A i \in 1 .. k : s[i] \in Simple
  <2>1. Simple \subseteq Lines
    BY DEF Simple
  <2>2. s \in Seq(Lines)
    BY <2>1, SeqMonotonic
  <2>3. QED
    BY <2>2, LenProperties
<1>3. /\ t \in Seq(Lines) /\ Len(t) = N + k + a - b
      /\ \A i \in 1 .. a - 1 : t[i] = f[i]
      /\ \A i \in a .. a + k - 1 : t[i] = s[i - a + 1]
      /\ \A i \in a + k .. N + k + a - b : t[i] = f[i - a - k + b]
  <2>1. a \in 1 .. Len(f) + 1 /\ b \in a .. Len(f) + 1
    BY <1>1
  <2>2. f \in Seq(Lines) /\ s \in Seq(Lines)
    BY <1>1, <1>2
  <2>3. t \in Seq(Lines) /\ IsSplice(t, f, a, b, s)
    BY <2>1, <2>2, SpliceIs
  <2> HIDE DEF t
  <2>4. QED
    BY <2>3 DEF IsSplice
<1> HIDE DEF t
<1>4. d \in Int /\ Len(t) = N + d /\ N + d \in Nat /\ DOMAIN t = 1 .. N + d
  <2>1. Len(t) \in Nat /\ DOMAIN t = 1 .. Len(t)
    BY <1>3, LenProperties
  <2>2. QED
    BY <1>1, <1>2, <1>3, <2>1
<1>5. ASSUME NEW i \in a .. a + k - 1 PROVE t[i].kind \in {"heading", "note", "sentinel", "ref"}
  <2>1. i - a + 1 \in 1 .. k
    BY <1>1, <1>2
  <2>2. t[i] \in Simple
    BY <1>2, <1>3, <2>1
  <2>3. QED
    BY <2>2 DEF Simple
<1>6. ASSUME NEW i \in a + k .. N + d PROVE i - d \in b .. N /\ t[i] = f[i - d]
  <2>1. i - d = i - a - k + b /\ i \in a + k .. N + k + a - b
    BY <1>1, <1>2
  <2>2. i - d \in b .. N
    BY <1>1, <1>2
  <2>3. QED
    BY <1>3, <2>1, <2>2
<1>7. a + k = b + d /\ k \in Nat
  BY <1>1, <1>2
<1> HIDE DEF k, d, N
<1>8. \A i \in 1 .. N + d : i \in 1 .. a - 1 \/ i \in a .. a + k - 1 \/ i \in a + k .. N + d
  BY <1>1, <1>2, <1>4
<1>9. ASSUME NEW i \in DOMAIN t PROVE (t[i].kind = "title") = (i = 1)
  <2>1. CASE i \in 1 .. a - 1
    BY <1>1, <1>3, <2>1 DEF Shaped
  <2>2. CASE i \in a .. a + k - 1
    BY <1>1, <1>5, <1>7, <2>2
  <2>3. CASE i \in a + k .. N + d
    <3>1. i - d \in b .. N /\ t[i] = f[i - d]
      BY <1>6, <2>3
    <3>2. i - d \in DOMAIN f /\ i - d # 1 /\ i # 1
      BY <1>1, <1>7, <2>3, <3>1
    <3>3. f[i - d].kind # "title"
      BY <3>2 DEF Shaped
    <3>4. QED
      BY <3>1, <3>2, <3>3
  <2>4. QED
    BY <1>4, <1>8, <2>1, <2>2, <2>3
\* Where an unreleased heading or a marker comes from.
<1>10. ASSUME NEW i \in DOMAIN t, t[i].kind \in {"unreleased", "start", "end"}
       PROVE  \/ i \in 1 .. a - 1 /\ i \in DOMAIN f /\ t[i] = f[i]
              \/ i \in a + k .. N + d /\ i - d \in b .. N /\ i - d \in DOMAIN f /\ t[i] = f[i - d]
  <2>1. i \in 1 .. a - 1 \/ i \in a + k .. N + d
    BY <1>4, <1>5, <1>8, <1>10
  <2>2. CASE i \in 1 .. a - 1
    BY <1>1, <1>3, <2>2
  <2>3. CASE i \in a + k .. N + d
    <3>1. i - d \in b .. N /\ t[i] = f[i - d]
      BY <1>6, <2>3
    <3>2. i - d \in DOMAIN f
      BY <1>1, <3>1
    <3>3. QED
      BY <2>3, <3>1, <3>2
  <2>4. QED
    BY <2>1, <2>2, <2>3
<1>11. ASSUME NEW i \in DOMAIN t, NEW j \in DOMAIN t,
              t[i].kind = "unreleased", t[j].kind = "unreleased"
       PROVE  i = j
  <2> DEFINE o(x) == IF x \in 1 .. a - 1 THEN x ELSE x - d
  <2>1. o(i) \in DOMAIN f /\ f[o(i)].kind = "unreleased"
    BY <1>7, <1>10, <1>11, <1>1
  <2>2. o(j) \in DOMAIN f /\ f[o(j)].kind = "unreleased"
    BY <1>7, <1>10, <1>11, <1>1
  <2>3. o(i) = o(j)
    <3> HIDE DEF o
    <3>1. QED
      BY <2>1, <2>2 DEF Shaped
  <2>4. i \in 1 .. a - 1 \/ (i \in a + k .. N + d /\ i - d \in b .. N)
    BY <1>10, <1>11
  <2>5. j \in 1 .. a - 1 \/ (j \in a + k .. N + d /\ j - d \in b .. N)
    BY <1>10, <1>11
  <2>6. QED
    BY <1>1, <1>4, <1>7, <2>3, <2>4, <2>5
<1>12. ASSUME NEW i \in DOMAIN t, t[i].kind = "start"
       PROVE  /\ i > 1 /\ i + 2 <= Len(t)
              /\ t[i - 1].kind = "unreleased" /\ t[i + 1].kind = "note" /\ t[i + 2].kind = "end"
  <2>1. CASE i \in 1 .. a - 1 /\ i \in DOMAIN f /\ t[i] = f[i]
    <3>1. /\ i > 1 /\ i + 2 <= N
          /\ f[i - 1].kind = "unreleased" /\ f[i + 1].kind = "note" /\ f[i + 2].kind = "end"
      BY <1>12, <2>1 DEF Shaped, N
    <3>2. a # i + 1 /\ a # i + 2
      BY <1>12, <2>1 DEF EndsAt
    <3>3. i - 1 \in 1 .. a - 1 /\ i + 1 \in 1 .. a - 1 /\ i + 2 \in 1 .. a - 1
      BY <1>1, <2>1, <3>1, <3>2
    <3>4. a - 1 <= N + d
      BY <1>1, <1>4, <1>7
    <3>5. QED
      BY <1>1, <1>3, <1>4, <2>1, <3>1, <3>3, <3>4
  <2>2. CASE i \in a + k .. N + d /\ i - d \in b .. N /\ i - d \in DOMAIN f /\ t[i] = f[i - d]
    <3> DEFINE q == i - d
    <3>1. q \in DOMAIN f /\ q \in b .. N /\ f[q].kind = "start"
      BY <1>12, <2>2
    <3>2. i = q + d /\ q \in Int
      BY <1>4, <2>2
    <3> HIDE DEF q
    <3>3. /\ q > 1 /\ q + 2 <= N
          /\ f[q - 1].kind = "unreleased" /\ f[q + 1].kind = "note" /\ f[q + 2].kind = "end"
      BY <3>1 DEF Shaped, N
    <3>4. b # q
      BY <3>1 DEF CutAt
    <3>5. q - 1 \in b .. N /\ q + 1 \in b .. N /\ q + 2 \in b .. N
      BY <1>1, <3>1, <3>3, <3>4
    <3>7. \A x \in b .. N : t[x + d] = f[x]
      <4> SUFFICES ASSUME NEW x \in b .. N PROVE t[x + d] = f[x]
        OBVIOUS
      <4> DEFINE y == x + d
      <4>1. y \in a + k .. N + d /\ y - d = x
        BY <1>1, <1>4, <1>7
      <4> HIDE DEF y
      <4>2. t[y] = f[y - d]
        BY <1>6, <4>1
      <4>3. QED
        BY <4>1, <4>2 DEF y
    <3>8. i - 1 = (q - 1) + d /\ i + 1 = (q + 1) + d /\ i + 2 = (q + 2) + d
      BY <1>4, <3>2
    <3>9. t[i - 1] = f[q - 1] /\ t[i + 1] = f[q + 1] /\ t[i + 2] = f[q + 2]
      BY <3>5, <3>7, <3>8
    <3>10. i > 1 /\ i + 2 <= N + d
      BY <1>1, <1>4, <1>7, <2>2, <3>2, <3>3
    <3>11. QED
      BY <1>4, <3>3, <3>9, <3>10
  <2>3. QED
    BY <1>10, <1>12, <2>1, <2>2
<1>13. ASSUME NEW i \in DOMAIN t, t[i].kind = "end"
       PROVE  i > 2 /\ t[i - 2].kind = "start"
  <2>1. CASE i \in 1 .. a - 1 /\ i \in DOMAIN f /\ t[i] = f[i]
    <3>1. i > 2 /\ f[i - 2].kind = "start"
      BY <1>13, <2>1 DEF Shaped
    <3>2. i - 2 \in 1 .. a - 1
      BY <1>1, <2>1, <3>1
    <3>3. QED
      BY <1>3, <3>1, <3>2
  <2>2. CASE i \in a + k .. N + d /\ i - d \in b .. N /\ i - d \in DOMAIN f /\ t[i] = f[i - d]
    <3> DEFINE q == i - d
    <3>1. q \in DOMAIN f /\ q \in b .. N /\ f[q].kind = "end"
      BY <1>13, <2>2
    <3>2. i = q + d /\ q \in Int
      BY <1>4, <2>2
    <3> HIDE DEF q
    <3>3. q > 2 /\ f[q - 2].kind = "start"
      BY <3>1 DEF Shaped
    <3>4. q - 2 \in DOMAIN f
      BY <1>1, <3>1, <3>3
    <3>5. b # q - 2 /\ b # q - 2 + 1 /\ b # q - 2 + 2
      BY <3>3, <3>4 DEF CutAt
    <3>6. q - 2 \in b .. N
      BY <1>1, <3>1, <3>2, <3>5
    <3> DEFINE y == i - 2
    <3>7. y \in a + k .. N + d /\ y - d = q - 2
      BY <1>1, <1>4, <1>7, <3>2, <3>6
    <3> HIDE DEF y
    <3>8. t[y] = f[q - 2]
      BY <1>6, <3>7
    <3>9. i > 2
      BY <1>1, <1>4, <1>7, <3>2, <3>6
    <3>10. QED
      BY <3>3, <3>8, <3>9 DEF y
  <2>3. QED
    BY <1>10, <1>13, <2>1, <2>2
<1>14. t # <<>>
  BY <1>1, <1>4, <1>7
<1>15. Shaped(t)
  BY <1>3, <1>9, <1>11, <1>12, <1>13 DEF Shaped
<1>16. QED
  BY <1>14, <1>15 DEF t

-----------------------------------------------------------------------------
(* What the commands find, and the lines they render.                      *)

LEMMA FirstOfIs ==
    ASSUME NEW f, Len(f) \in Nat, NEW kinds, NEW i \in Nat \ {0}
    PROVE  /\ FirstOf(f, kinds, i) \in Nat /\ FirstOf(f, kinds, i) <= Len(f) + 1
           /\ i <= Len(f) + 1 => i <= FirstOf(f, kinds, i)
           /\ i > Len(f) => FirstOf(f, kinds, i) = Len(f) + 1
           /\ \/ FirstOf(f, kinds, i) = Len(f) + 1
              \/ f[FirstOf(f, kinds, i)].kind \in kinds
           /\ \A j \in i .. Len(f) :
                 f[j].kind \in kinds =>
                    FirstOf(f, kinds, i) <= j /\ f[FirstOf(f, kinds, i)].kind \in kinds
<1> DEFINE T == {j \in i .. Len(f) : f[j].kind \in kinds} \cup {Len(f) + 1}
           m == FirstOf(f, kinds, i)
<1>1. T \in SUBSET Nat /\ T # {}
  OBVIOUS
<1>2. m = Min(T)
  BY DEF FirstOf
<1>3. m \in T /\ \A j \in T : m <= j
  <2> HIDE DEF T, m
  <2>1. QED
    BY <1>1, <1>2, MinIsLeast
<1> HIDE DEF m
<1>4. m \in Nat /\ m <= Len(f) + 1
  BY <1>3
<1>5. i <= Len(f) + 1 => i <= m
  BY <1>3
<1>6. i > Len(f) => m = Len(f) + 1
  BY <1>3
<1>7. m = Len(f) + 1 \/ f[m].kind \in kinds
  BY <1>3
<1>8. \A j \in i .. Len(f) : f[j].kind \in kinds => m <= j /\ f[m].kind \in kinds
  BY <1>3
<1>9. QED
  BY <1>4, <1>5, <1>6, <1>7, <1>8 DEF m

\* What a section that was found spans.
IsSection(f, span) ==
    \E i \in 1 .. Len(f), b \in Nat :
        /\ span = <<i, b>> /\ i < b /\ b <= Len(f) + 1
        /\ f[i].kind = "heading"
        /\ b = Len(f) + 1 \/ f[b].kind \in Level2
        /\ \A j \in i + 1 .. b - 1 : f[j].kind \notin Level2

LEMMA FindSectionIs ==
    ASSUME NEW f, f \in Seq(Lines), NEW v, FindSection(f, v) # NoSpan
    PROVE  IsSection(f, FindSection(f, v))
<1> DEFINE i == FoundAt(f, v)
           b == FirstOf(f, Level2, i + 1)
           T == {j \in DOMAIN f : f[j].kind = "heading" /\ IsPrefix(v, f[j].of)}
<1>1. Len(f) \in Nat /\ DOMAIN f = 1 .. Len(f)
  BY LenProperties
<1>2. i \in T \cup {Len(f) + 1}
  <2> HIDE DEF T
  <2>1. i = Min(T \cup {Len(f) + 1})
    BY DEF FoundAt, T
  <2>2. T \cup {Len(f) + 1} \in SUBSET Nat /\ T \cup {Len(f) + 1} # {}
    BY <1>1 DEF T
  <2> HIDE DEF i
  <2>3. QED
    BY <2>1, <2>2, MinIsLeast
<1>3. FindSection(f, v) = IF i > Len(f) THEN NoSpan ELSE <<i, b>>
  BY DEF FindSection
<1> HIDE DEF i
<1>4. i \in 1 .. Len(f) /\ f[i].kind = "heading"
  BY <1>1, <1>2, <1>3
<1>5. FindSection(f, v) = <<i, b>>
  BY <1>1, <1>3, <1>4
<1>6. /\ b \in Nat /\ b <= Len(f) + 1 /\ i + 1 <= b
      /\ b = Len(f) + 1 \/ f[b].kind \in Level2
      /\ \A j \in i + 1 .. Len(f) : f[j].kind \in Level2 => b <= j
  <2>1. i + 1 \in Nat \ {0} /\ i + 1 <= Len(f) + 1
    BY <1>1, <1>4
  <2>2. QED
    BY <1>1, <2>1, FirstOfIs
<1> HIDE DEF b
<1>7. \A j \in i + 1 .. b - 1 : f[j].kind \notin Level2
  BY <1>1, <1>4, <1>6
<1>8. QED
  BY <1>1, <1>4, <1>5, <1>6, <1>7 DEF IsSection

\* A section can be cut out of a file.
LEMMA SectionCuts ==
    ASSUME NEW f, Shaped(f), NEW v, FindSection(f, v) # NoSpan
    PROVE  \E a, b \in Nat :
              FindSection(f, v) = <<a, b>> /\ EndsAt(f, a) /\ CutAt(f, b) /\ a <= b
<1>1. f \in Seq(Lines) /\ Len(f) \in Nat /\ DOMAIN f = 1 .. Len(f)
  BY ShapedDomain
<1>2. PICK a \in 1 .. Len(f), b \in Nat :
        /\ FindSection(f, v) = <<a, b>> /\ a < b /\ b <= Len(f) + 1
        /\ f[a].kind = "heading"
        /\ b = Len(f) + 1 \/ f[b].kind \in Level2
  BY <1>1, FindSectionIs DEF IsSection
<1>3. a # 1
  BY <1>1, <1>2 DEF Shaped
<1>4. a \in 2 .. Len(f) + 1 /\ b \in 2 .. Len(f) + 1
  BY <1>1, <1>2, <1>3
<1>5. CutAt(f, a) /\ CutAt(f, b)
  BY <1>2, <1>4, CutAtKind DEF Level2
<1>6. QED
  BY <1>1, <1>2, <1>5, CutsEnd

LEMMA LinesOf ==
    ASSUME NEW v \in Versions \cup {NoVersion}
    PROVE  /\ Heading(v) \in Simple /\ Note(v) \in Simple /\ Ref(v) \in Simple
           /\ Title \in Lines /\ Unreleased \in Lines /\ Sentinel \in Simple
           /\ Line("start", v) \in Lines /\ Line("end", NoVersion) \in Lines
<1>1. NoVersion \in Seq(STRING) /\ v \in Seq(STRING)
  BY ChangelogAssumption, EmptySeq DEF NoVersion
<1>2. \A k \in LineKinds : \A w \in Seq(STRING) : Line(k, w) \in Lines /\ Line(k, w).kind = k
  BY DEF Line, Lines
<1>3. {"title", "unreleased", "heading", "note", "start", "end", "sentinel", "ref"} = LineKinds
  BY DEF LineKinds
<1>4. QED
  BY <1>1, <1>2, <1>3 DEF Heading, Note, Ref, Title, Unreleased, Sentinel, Simple

LEMMA SectionType ==
    ASSUME NEW S, NEW v, Heading(v) \in S, Note(v) \in S
    PROVE  Section(v) \in Seq(S)
<1>1. <<Heading(v)>> \in Seq(S) /\ <<Note(v)>> \in Seq(S) /\ <<>> \in Seq(S)
  <2> DEFINE h == Heading(v)
             n == Note(v)
  <2>1. h \in S /\ n \in S
    OBVIOUS
  <2> HIDE DEF h, n
  <2>2. <<h>> \in Seq(S) /\ <<n>> \in Seq(S) /\ <<>> \in Seq(S)
    BY <2>1
  <2>3. QED
    BY <2>2 DEF h, n
<1> DEFINE rest == IF v \in Empty THEN <<>> ELSE <<Note(v)>>
<1>2. rest \in Seq(S)
  BY <1>1
<1> HIDE DEF rest
<1>3. <<Heading(v)>> \o rest \in Seq(S)
  BY <1>1, <1>2, ConcatProperties
<1>4. QED
  BY <1>3 DEF Section, rest

LEMMA RefLinesType ==
    ASSUME NEW names
    PROVE  RefLines(names) \in Seq({Ref(v) : v \in Versions \cup {NoVersion}})
<1> DEFINE X == Versions \cup {NoVersion}
           R == {Ref(v) : v \in X}
           all == <<NoVersion>> \o Newest
           listed == Among(all, names)
<1>1. all \in Seq(X)
  <2>1. Newest \in Seq(X)
    BY ChangelogAssumption, SeqMonotonic
  <2>2. <<NoVersion>> \in Seq(X)
    <3> DEFINE n == NoVersion
    <3>1. n \in X
      OBVIOUS
    <3> HIDE DEF n, X
    <3>2. <<n>> \in Seq(X)
      BY <3>1
    <3>3. QED
      BY <3>2 DEF n
  <2>3. QED
    BY <2>1, <2>2, ConcatProperties
<1> HIDE DEF X, all
<1>2. listed \in Seq(X)
  <2>1. listed \in Seq(X \cap names)
    BY <1>1, AmongType
  <2>2. QED
    BY <2>1, SeqMonotonic
<1> HIDE DEF listed
<1>3. Len(listed) \in Nat /\ DOMAIN listed = 1 .. Len(listed)
      /\ \A k \in 1 .. Len(listed) : listed[k] \in X
  BY <1>2, LenProperties
<1>4. [k \in DOMAIN listed |-> Ref(listed[k])] \in [1 .. Len(listed) -> R]
  BY <1>3
<1> HIDE DEF R
<1>5. [k \in DOMAIN listed |-> Ref(listed[k])] \in Seq(R)
  BY <1>3, <1>4, SeqDef
<1>6. QED
  BY <1>5 DEF RefLines, listed, all, R, X

-----------------------------------------------------------------------------
(* Commands on one section.                                                *)

LEMMA FirstIsTitle ==
    ASSUME NEW f, Shaped(f), f # <<>>
    PROVE  1 \in DOMAIN f /\ f[1].kind = "title"
<1>1. f \in Seq(Lines) /\ Len(f) \in Nat /\ DOMAIN f = 1 .. Len(f)
  BY ShapedDomain
<1>2. Len(f) # 0
  BY <1>1, EmptySeq
<1>3. 1 \in DOMAIN f
  BY <1>1, <1>2
<1>4. QED
  BY <1>3 DEF Shaped

LEMMA RefLinesSimple ==
    ASSUME NEW names
    PROVE  RefLines(names) \in Seq(Simple)
<1>1. {Ref(v) : v \in Versions \cup {NoVersion}} \subseteq Simple
  BY LinesOf
<1>2. QED
  BY <1>1, RefLinesType, SeqMonotonic

LEMMA SectionSimple ==
    ASSUME NEW v \in Versions
    PROVE  Section(v) \in Seq(Simple)
BY LinesOf, SectionType

LEMMA SpliceParts ==
    ASSUME NEW f, NEW a, NEW b, NEW s
    PROVE  Splice(f, <<a, b>>, s) = (SubSeq(f, 1, a - 1) \o s) \o SubSeq(f, b, Len(f))
BY DEF Splice

LEMMA UpdateRefsShaped ==
    ASSUME NEW f, Shaped(f), f # <<>>, NEW names
    PROVE  Shaped(UpdateRefs(f, names))
<1> DEFINE T == {i \in DOMAIN f : f[i].kind # "ref"}
           last == Max(T \cup {0})
           old == {f[i].of : i \in last + 1 .. Len(f)}
           s == RefLines(old \cup names)
           N == Len(f)
<1>1. f \in Seq(Lines) /\ N \in Nat /\ DOMAIN f = 1 .. N
  BY ShapedDomain
<1>2. 1 \in T
  BY FirstIsTitle
<1>3. last \in T /\ \A i \in T : i <= last
  <2>1. T \cup {0} \in SUBSET (0 .. N) /\ T \cup {0} # {}
    BY <1>1
  <2> HIDE DEF T
  <2>2. Max(T \cup {0}) \in T \cup {0} /\ \A i \in T \cup {0} : i <= Max(T \cup {0})
    BY <1>1, <2>1, MaxIsLargest
  <2>3. last # 0
    <3> HIDE DEF last
    <3>1. 1 <= Max(T \cup {0})
      BY <1>2, <2>2
    <3>2. last = Max(T \cup {0})
      BY DEF last
    <3>3. QED
      BY <3>1, <3>2
  <2>4. QED
    BY <2>2, <2>3
<1> HIDE DEF last
<1>4. last \in 1 .. N
  BY <1>1, <1>3
<1>5. last + 1 = N + 1 \/ f[last + 1].kind = "ref"
  <2>1. CASE last + 1 \in 1 .. N
    <3>1. last + 1 \notin T
      BY <1>3, <1>4
    <3>2. QED
      BY <1>1, <2>1, <3>1
  <2>2. CASE last + 1 \notin 1 .. N
    BY <1>1, <1>4, <2>2
  <2>3. QED
    BY <2>1, <2>2
<1>6. CutAt(f, last + 1) /\ CutAt(f, N + 1) /\ EndsAt(f, last + 1)
  <2>1. last + 1 \in 2 .. N + 1 /\ N + 1 \in 2 .. N + 1
    BY <1>1, <1>4
  <2>2. CutAt(f, last + 1) /\ CutAt(f, N + 1)
    BY <1>5, <2>1, CutAtKind
  <2>3. QED
    BY <2>2, CutsEnd
<1>7. s \in Seq(Simple)
  BY RefLinesSimple
<1> HIDE DEF s
<1> DEFINE m == last + 1
           n == N + 1
<1>8. m - 1 = last /\ n = N + 1 /\ m <= n /\ CutAt(f, n) /\ EndsAt(f, m)
  BY <1>1, <1>4, <1>6
<1> HIDE DEF m, n
<1>9. Shaped(Splice(f, <<m, n>>, s))
  BY <1>7, <1>8, SpliceShaped
<1>10. Splice(f, <<m, n>>, s) = SubSeq(f, 1, last) \o s
  <2>1. SubSeq(f, n, N) = <<>>
    BY <1>1, <1>8, SubSeqEmpty
  <2>2. SubSeq(f, 1, last) \in Seq(Lines) /\ s \in Seq(Lines)
    <3>1. \A i \in 1 .. last : f[i] \in Lines
      BY <1>1, <1>4, LenProperties
    <3>2. Simple \subseteq Lines
      BY DEF Simple
    <3>3. QED
      BY <1>4, <1>7, <3>1, <3>2, SubSeqProperties, SeqMonotonic
  <2>3. (SubSeq(f, 1, last) \o s) \o <<>> = SubSeq(f, 1, last) \o s
    BY <2>2, ConcatProperties, ConcatEmptySeq
  <2>4. Splice(f, <<m, n>>, s) = (SubSeq(f, 1, m - 1) \o s) \o SubSeq(f, n, N)
    BY SpliceParts
  <2>5. QED
    BY <1>8, <2>1, <2>3, <2>4
<1>11. UpdateRefs(f, names) = SubSeq(f, 1, last) \o s
  BY DEF UpdateRefs, last, T, s, old
<1>12. QED
  BY <1>9, <1>10, <1>11

\* Where a new section goes.
LEMMA InsertAtCut ==
    ASSUME NEW f, Shaped(f), f # <<>>
    PROVE  LET under == FirstOf(f, {"unreleased"}, 1)
               at == IF Has(f, "unreleased") THEN FirstOf(f, Level2, under + 1)
                     ELSE IF Has(f, "heading") THEN FirstOf(f, Level2, 1)
                     ELSE FirstOf(f, {"title"}, 1) + 1
           IN  CutAt(f, at)
<1> DEFINE under == FirstOf(f, {"unreleased"}, 1)
           at == IF Has(f, "unreleased") THEN FirstOf(f, Level2, under + 1)
                 ELSE IF Has(f, "heading") THEN FirstOf(f, Level2, 1)
                 ELSE FirstOf(f, {"title"}, 1) + 1
<1>1. f \in Seq(Lines) /\ Len(f) \in Nat /\ DOMAIN f = 1 .. Len(f)
  BY ShapedDomain
<1>2. 1 \in DOMAIN f /\ f[1].kind = "title"
  BY FirstIsTitle
<1>3. CASE Has(f, "unreleased")
  <2>1. PICK i \in DOMAIN f : f[i].kind = "unreleased"
    BY <1>3 DEF Has
  <2>2. under \in Nat /\ under <= Len(f) /\ 1 <= under
    <3>1. /\ under \in Nat /\ (1 <= Len(f) + 1 => 1 <= under)
          /\ \A j \in 1 .. Len(f) : f[j].kind \in {"unreleased"} => under <= j
      BY <1>1, FirstOfIs
    <3>2. QED
      BY <1>1, <2>1, <3>1
  <2> HIDE DEF under
  <2>3. /\ at = FirstOf(f, Level2, under + 1)
        /\ under + 1 \in Nat \ {0} /\ under + 1 <= Len(f) + 1
    BY <1>1, <1>3, <2>2
  <2>4. /\ at \in Nat /\ at <= Len(f) + 1 /\ under + 1 <= at
        /\ at = Len(f) + 1 \/ f[at].kind \in Level2
    BY <1>1, <2>3, FirstOfIs
  <2> HIDE DEF at
  <2>5. at \in 2 .. Len(f) + 1
    BY <1>1, <2>2, <2>4
  <2>6. QED
    BY <2>4, <2>5, CutAtKind DEF Level2, at, under
<1>4. CASE ~Has(f, "unreleased") /\ Has(f, "heading")
  <2>1. at = FirstOf(f, Level2, 1)
    BY <1>4
  <2>2. /\ at \in Nat /\ at <= Len(f) + 1 /\ 1 <= at
        /\ at = Len(f) + 1 \/ f[at].kind \in Level2
    <3>1. /\ at \in Nat /\ at <= Len(f) + 1 /\ (1 <= Len(f) + 1 => 1 <= at)
          /\ at = Len(f) + 1 \/ f[at].kind \in Level2
      BY <1>1, <2>1, FirstOfIs
    <3> HIDE DEF at
    <3>2. QED
      BY <1>1, <3>1
  <2> HIDE DEF at
  <2>3. at # 1
    BY <1>1, <1>2, <2>2 DEF Level2
  <2>4. at \in 2 .. Len(f) + 1
    BY <1>1, <2>2, <2>3
  <2>5. QED
    BY <2>2, <2>4, CutAtKind DEF Level2, at, under
<1>5. CASE ~Has(f, "unreleased") /\ ~Has(f, "heading")
  <2>1. FirstOf(f, {"title"}, 1) = 1
    <3> DEFINE m == FirstOf(f, {"title"}, 1)
    <3>1. /\ m \in Nat /\ (1 <= Len(f) + 1 => 1 <= m)
          /\ \A j \in 1 .. Len(f) : f[j].kind \in {"title"} => m <= j
      BY <1>1, FirstOfIs
    <3> HIDE DEF m
    <3>2. m = 1
      BY <1>1, <1>2, <3>1
    <3>3. QED
      BY <3>2 DEF m
  <2>2. at = 2
    BY <1>5, <2>1
  <2>3. \A i \in DOMAIN f : f[i].kind # "start"
    <3> SUFFICES ASSUME NEW i \in DOMAIN f, f[i].kind = "start" PROVE FALSE
      OBVIOUS
    <3>1. i > 1 /\ f[i - 1].kind = "unreleased"
      BY DEF Shaped
    <3>2. i - 1 \in DOMAIN f
      BY <1>1, <3>1
    <3>3. QED
      BY <1>5, <3>1, <3>2 DEF Has
  <2>4. CutAt(f, 2)
    BY <1>1, <1>2, <2>3 DEF CutAt
  <2>5. QED
    BY <2>2, <2>4
<1>6. QED
  BY <1>3, <1>4, <1>5

LEMMA AppendShaped ==
    ASSUME NEW g, Shaped(g), g # <<>>, NEW s \in Seq(Simple)
    PROVE  Shaped(g \o s) /\ g \o s # <<>>
<1> DEFINE N == Len(g)
           n == N + 1
<1>1. g \in Seq(Lines) /\ N \in Nat
  BY ShapedDomain
<1>2. N # 0
  BY <1>1, EmptySeq
<1>3. n = N + 1 /\ n \in 2 .. N + 1 /\ n - 1 = N /\ n <= n
  BY <1>1, <1>2
<1> HIDE DEF n
<1>4. CutAt(g, n) /\ EndsAt(g, n)
  BY <1>3, CutAtKind, CutsEnd
<1>5. Shaped(Splice(g, <<n, n>>, s)) /\ Splice(g, <<n, n>>, s) # <<>>
  BY <1>3, <1>4, SpliceShaped
<1>6. Splice(g, <<n, n>>, s) = g \o s
  <2>1. SubSeq(g, n, N) = <<>>
    BY <1>1, <1>3, SubSeqEmpty
  <2>2. SubSeq(g, 1, N) = g
    BY <1>1, SubSeqFull
  <2>3. g \o s \in Seq(Lines)
    <3>1. Simple \subseteq Lines
      BY DEF Simple
    <3>2. s \in Seq(Lines)
      BY <3>1, SeqMonotonic
    <3>3. QED
      BY <1>1, <3>2, ConcatProperties
  <2>4. (g \o s) \o <<>> = g \o s
    BY <2>3, ConcatEmptySeq
  <2>5. Splice(g, <<n, n>>, s) = (SubSeq(g, 1, n - 1) \o s) \o SubSeq(g, n, N)
    BY SpliceParts
  <2>6. QED
    BY <1>3, <2>1, <2>2, <2>4, <2>5
<1>7. QED
  BY <1>5, <1>6

\* What may stand under the Unreleased heading.
BodyShaped(B) ==
    /\ B \in Seq(Lines)
    /\ \A i \in DOMAIN B :
          /\ B[i].kind \in {"note", "start", "end", "sentinel"}
          /\ B[i].kind = "start" => i = 1 /\ Len(B) >= 3 /\ B[2].kind = "note" /\ B[3].kind = "end"
          /\ B[i].kind = "end" => i = 3 /\ B[1].kind = "start"

LEMMA HeadShaped ==
    ASSUME NEW B, BodyShaped(B)
    PROVE  /\ Shaped(<<Title>> \o (<<Unreleased>> \o B))
           /\ <<Title>> \o (<<Unreleased>> \o B) # <<>>
           /\ \A i \in DOMAIN (<<Title>> \o (<<Unreleased>> \o B)) :
                 (<<Title>> \o (<<Unreleased>> \o B))[i] \in {Title, Unreleased} \cup ToSet(B)
<1> DEFINE n == Len(B)
           title == Title
           unreleased == Unreleased
           h == <<unreleased>> \o B
           t == <<title>> \o h
<1>1. /\ title \in Lines /\ title.kind = "title"
      /\ unreleased \in Lines /\ unreleased.kind = "unreleased"
  BY LinesOf DEF Title, Unreleased, Line
<1>2. B \in Seq(Lines) /\ n \in Nat /\ DOMAIN B = 1 .. n
  <2>1. B \in Seq(Lines)
    BY DEF BodyShaped
  <2>2. QED
    BY <2>1, LenProperties
<1> HIDE DEF title, unreleased
<1>3. <<unreleased>> \in Seq(Lines) /\ Len(<<unreleased>>) = 1 /\ <<unreleased>>[1] = unreleased
  BY <1>1
<1>4. <<title>> \in Seq(Lines) /\ Len(<<title>>) = 1 /\ <<title>>[1] = title
  BY <1>1
<1>5. /\ h \in Seq(Lines) /\ Len(h) = 1 + n /\ h[1] = unreleased
      /\ \A i \in 2 .. 1 + n : h[i] = B[i - 1]
  <2> DEFINE u == <<unreleased>>
  <2>1. u \in Seq(Lines) /\ Len(u) = 1 /\ u[1] = unreleased
    BY <1>3
  <2> HIDE DEF u
  <2>2. /\ u \o B \in Seq(Lines) /\ Len(u \o B) = Len(u) + Len(B)
        /\ \A i \in 1 .. Len(u) : (u \o B)[i] = u[i]
        /\ \A i \in Len(u) + 1 .. Len(u) + Len(B) : (u \o B)[i] = B[i - Len(u)]
    BY <1>2, <2>1, ConcatIs
  <2>3. h = u \o B
    BY DEF u
  <2> HIDE DEF h
  <2>4. QED
    BY <1>2, <2>1, <2>2, <2>3
<1> HIDE DEF h
<1>6. /\ t \in Seq(Lines) /\ Len(t) = 2 + n /\ t[1] = title
      /\ \A i \in 2 .. 2 + n : t[i] = h[i - 1]
  <2> DEFINE u == <<title>>
  <2>1. u \in Seq(Lines) /\ Len(u) = 1 /\ u[1] = title
    BY <1>4
  <2>2. h \in Seq(Lines)
    BY <1>5
  <2> HIDE DEF u, t
  <2>3. /\ u \o h \in Seq(Lines) /\ Len(u \o h) = Len(u) + Len(h)
        /\ \A i \in 1 .. Len(u) : (u \o h)[i] = u[i]
        /\ \A i \in Len(u) + 1 .. Len(u) + Len(h) : (u \o h)[i] = h[i - Len(u)]
    BY <2>1, <2>2, ConcatIs
  <2>4. t = u \o h
    BY DEF u, t
  <2>5. QED
    BY <1>2, <1>5, <2>1, <2>3, <2>4
<1> HIDE DEF t
<1>7. t[2] = unreleased /\ \A i \in 3 .. 2 + n : i - 2 \in DOMAIN B /\ t[i] = B[i - 2]
  <2>1. t[2] = unreleased
    BY <1>2, <1>5, <1>6
  <2>2. ASSUME NEW i \in 3 .. 2 + n PROVE i - 2 \in DOMAIN B /\ t[i] = B[i - 2]
    <3>1. i - 1 \in 2 .. 1 + n /\ i \in 2 .. 2 + n /\ i - 1 - 1 = i - 2 /\ i - 2 \in 1 .. n
      BY <1>2
    <3>2. t[i] = h[i - 1] /\ h[i - 1] = B[i - 1 - 1]
      BY <1>5, <1>6, <3>1
    <3>3. QED
      BY <1>2, <3>1, <3>2
  <2>3. QED
    BY <2>1, <2>2
<1>8. DOMAIN t = 1 .. 2 + n /\ \A i \in DOMAIN t : i = 1 \/ i = 2 \/ i \in 3 .. 2 + n
  BY <1>2, <1>6, LenProperties
<1>9. \A i \in 3 .. 2 + n : t[i].kind \in {"note", "start", "end", "sentinel"}
  BY <1>7 DEF BodyShaped
<1>10. ASSUME NEW i \in DOMAIN t PROVE (t[i].kind = "title") = (i = 1)
  BY <1>1, <1>6, <1>7, <1>8, <1>9
<1>11. \A i \in DOMAIN t : t[i].kind = "unreleased" => i = 2
  BY <1>1, <1>6, <1>7, <1>8, <1>9
<1>12. ASSUME NEW i \in DOMAIN t, t[i].kind = "start"
       PROVE  /\ i > 1 /\ i + 2 <= Len(t)
              /\ t[i - 1].kind = "unreleased" /\ t[i + 1].kind = "note" /\ t[i + 2].kind = "end"
  <2>1. i \in 3 .. 2 + n
    BY <1>1, <1>6, <1>7, <1>8, <1>12
  <2>2. i - 2 = 1 /\ n >= 3 /\ B[2].kind = "note" /\ B[3].kind = "end"
    BY <1>7, <1>12, <2>1 DEF BodyShaped
  <2>3. i = 3
    BY <2>1, <2>2
  <2>4. t[4] = B[2] /\ t[5] = B[3]
    BY <1>2, <1>7, <2>2
  <2>5. i - 1 = 2 /\ i + 1 = 4 /\ i + 2 = 5 /\ i + 2 <= Len(t)
    BY <1>2, <1>6, <2>2, <2>3
  <2>6. QED
    BY <1>1, <1>7, <2>2, <2>3, <2>4, <2>5
<1>13. ASSUME NEW i \in DOMAIN t, t[i].kind = "end" PROVE i > 2 /\ t[i - 2].kind = "start"
  <2>1. i \in 3 .. 2 + n
    BY <1>1, <1>6, <1>7, <1>8, <1>13
  <2>2. i - 2 = 3 /\ B[1].kind = "start"
    BY <1>7, <1>13, <2>1 DEF BodyShaped
  <2>3. i = 5 /\ i - 2 = 3 /\ t[3] = B[1]
    BY <1>2, <1>7, <2>1, <2>2
  <2>4. QED
    BY <2>2, <2>3
<1>14. Shaped(t)
  BY <1>6, <1>10, <1>11, <1>12, <1>13 DEF Shaped
<1>15. t # <<>>
  BY <1>2, <1>6
<1>16. \A i \in DOMAIN t : t[i] \in {title, unreleased} \cup ToSet(B)
  BY <1>6, <1>7, <1>8 DEF ToSet
<1>17. t = <<Title>> \o (<<Unreleased>> \o B)
  BY DEF t, h, title, unreleased
<1>18. QED
  BY <1>14, <1>15, <1>16, <1>17 DEF title, unreleased

LEMMA InsertShaped ==
    ASSUME NEW f, Shaped(f), NEW v \in Versions
    PROVE  Shaped(Insert(f, v)) /\ Insert(f, v) # <<>>
<1> DEFINE none == {f[i].kind : i \in DOMAIN f} \cap (Level2 \cup {"title"}) = {}
           under == FirstOf(f, {"unreleased"}, 1)
           at == IF Has(f, "unreleased") THEN FirstOf(f, Level2, under + 1)
                 ELSE IF Has(f, "heading") THEN FirstOf(f, Level2, 1)
                 ELSE FirstOf(f, {"title"}, 1) + 1
           new == <<Title, Unreleased>> \o Section(v) \o RefLines({NoVersion, v})
<1>1. Insert(f, v) = IF none THEN new ELSE Splice(f, <<at, at>>, Section(v))
  BY DEF Insert
<1>2. CASE none
  <2>1. BodyShaped(<<>>)
    BY EmptySeq DEF BodyShaped
  <2>2. <<Title>> \o (<<Unreleased>> \o <<>>) = <<Title, Unreleased>>
    <3> DEFINE t == Title
               u == Unreleased
    <3> HIDE DEF t, u
    <3>1. <<u>> \in Seq({t, u}) /\ <<t>> \in Seq({t, u})
      OBVIOUS
    <3>2. <<u>> \o <<>> = <<u>>
      BY <3>1, ConcatEmptySeq
    <3> DEFINE l == <<t>>
               r == <<u>>
               q == <<t, u>>
    <3>3. /\ q \in Seq({t, u}) /\ Len(q) = 2 /\ q[1] = t /\ q[2] = u
          /\ Len(l) = 1 /\ Len(r) = 1 /\ l[1] = t /\ r[1] = u
      OBVIOUS
    <3>4. l \in Seq({t, u}) /\ r \in Seq({t, u})
      BY <3>1
    <3> HIDE DEF l, r, q
    <3>5. /\ l \o r \in Seq({t, u}) /\ Len(l \o r) = Len(l) + Len(r)
          /\ \A x \in 1 .. Len(l) + Len(r) :
                (l \o r)[x] = IF x <= Len(l) THEN l[x] ELSE r[x - Len(l)]
      BY <3>4, ConcatProperties
    <3>6. Len(l \o r) = 2 /\ (l \o r)[1] = t /\ (l \o r)[2] = u
      BY <3>3, <3>5
    <3>7. l \o r = q
      <4>1. \A x \in 1 .. Len(q) : x = 1 \/ x = 2
        BY <3>3
      <4>2. \A x \in 1 .. Len(q) : (l \o r)[x] = q[x]
        BY <3>3, <3>6, <4>1
      <4>3. QED
        BY <3>3, <3>5, <3>6, <4>2, SeqEqual
    <3>8. QED
      BY <3>2, <3>7 DEF l, r, q, t, u
  <2> DEFINE g == <<Title, Unreleased>>
  <2>3. Shaped(g) /\ g # <<>>
    BY <2>1, <2>2, HeadShaped
  <2> HIDE DEF g
  <2>4. Shaped(g \o Section(v)) /\ g \o Section(v) # <<>>
    BY <2>3, AppendShaped, SectionSimple
  <2> DEFINE h == g \o Section(v)
  <2> HIDE DEF h
  <2>5. Shaped(h) /\ h # <<>>
    BY <2>4 DEF h
  <2>6. Shaped(h \o RefLines({NoVersion, v})) /\ h \o RefLines({NoVersion, v}) # <<>>
    BY <2>5, AppendShaped, RefLinesSimple
  <2>7. new = h \o RefLines({NoVersion, v})
    BY DEF h, g
  <2> HIDE DEF new, none, at
  <2>8. QED
    BY <1>1, <1>2, <2>6, <2>7
<1>3. CASE ~none
  <2>1. f # <<>>
    <3>1. ASSUME f = <<>> PROVE FALSE
      <4>1. DOMAIN f = {}
        BY <3>1
      <4>2. none
        BY <4>1
      <4>3. QED
        BY <1>3, <4>2
    <3>2. QED
      BY <3>1
  <2>2. CutAt(f, at)
    BY <2>1, InsertAtCut
  <2> HIDE DEF at
  <2>3. EndsAt(f, at) /\ at <= at
    BY <2>2, CutsEnd DEF CutAt
  <2>4. Section(v) \in Seq(Simple)
    BY SectionSimple
  <2>5. Shaped(Splice(f, <<at, at>>, Section(v))) /\ Splice(f, <<at, at>>, Section(v)) # <<>>
    BY <2>2, <2>3, <2>4, SpliceShaped
  <2> HIDE DEF new, none
  <2>6. QED
    BY <1>1, <1>3, <2>5
<1>4. QED
  BY <1>2, <1>3

LEMMA SectionSpliced ==
    ASSUME NEW f, Shaped(f), NEW v, FindSection(f, v) # NoSpan, NEW s \in Seq(Simple)
    PROVE  Shaped(Splice(f, FindSection(f, v), s)) /\ Splice(f, FindSection(f, v), s) # <<>>
<1>1. PICK a, b \in Nat :
          FindSection(f, v) = <<a, b>> /\ EndsAt(f, a) /\ CutAt(f, b) /\ a <= b
  BY SectionCuts
<1>2. Shaped(Splice(f, <<a, b>>, s)) /\ Splice(f, <<a, b>>, s) # <<>>
  BY <1>1, SpliceShaped
<1>3. QED
  BY <1>1, <1>2

LEMMA RemovedShaped ==
    ASSUME NEW f, Shaped(f), NEW v
    PROVE  Shaped(Removed(f, v))
<1>1. <<>> \in Seq(Simple)
  BY EmptySeq
<1>2. CASE FindSection(f, v) = NoSpan
  BY <1>2 DEF Removed
<1>3. CASE FindSection(f, v) # NoSpan
  <2>1. Shaped(Splice(f, FindSection(f, v), <<>>))
    BY <1>1, <1>3, SectionSpliced
  <2>2. QED
    BY <1>3, <2>1 DEF Removed
<1>4. QED
  BY <1>2, <1>3

\* The shape is a matter of the kinds.
LEMMA SameKinds ==
    ASSUME NEW f, Shaped(f), NEW t \in Seq(Lines), Len(t) = Len(f),
           \A i \in 1 .. Len(f) : t[i].kind = f[i].kind
    PROVE  Shaped(t)
<1> DEFINE N == Len(f)
<1>1. N \in Nat /\ DOMAIN f = 1 .. N /\ DOMAIN t = 1 .. N
  BY ShapedDomain, LenProperties
<1>2. ASSUME NEW i \in DOMAIN t
      PROVE  /\ (t[i].kind = "title") = (i = 1)
             /\ \A j \in DOMAIN t :
                   t[i].kind = "unreleased" /\ t[j].kind = "unreleased" => i = j
             /\ t[i].kind = "start" =>
                   /\ i > 1 /\ i + 2 <= Len(t)
                   /\ t[i - 1].kind = "unreleased" /\ t[i + 1].kind = "note"
                   /\ t[i + 2].kind = "end"
             /\ t[i].kind = "end" => i > 2 /\ t[i - 2].kind = "start"
  <2>1. i \in DOMAIN f /\ t[i].kind = f[i].kind
    BY <1>1
  <2>2. (t[i].kind = "title") = (i = 1)
    BY <2>1 DEF Shaped
  <2>3. ASSUME NEW j \in DOMAIN t, t[i].kind = "unreleased", t[j].kind = "unreleased"
        PROVE  i = j
    <3>1. j \in DOMAIN f /\ t[j].kind = f[j].kind
      BY <1>1
    <3>2. f[i].kind = "unreleased" /\ f[j].kind = "unreleased"
      BY <2>1, <2>3, <3>1
    <3>3. QED
      BY <2>1, <3>1, <3>2 DEF Shaped
  <2>4. ASSUME t[i].kind = "start"
        PROVE  /\ i > 1 /\ i + 2 <= Len(t)
               /\ t[i - 1].kind = "unreleased" /\ t[i + 1].kind = "note"
               /\ t[i + 2].kind = "end"
    <3>1. /\ i > 1 /\ i + 2 <= N
          /\ f[i - 1].kind = "unreleased" /\ f[i + 1].kind = "note" /\ f[i + 2].kind = "end"
      BY <2>1, <2>4 DEF Shaped
    <3>2. i - 1 \in 1 .. N /\ i + 1 \in 1 .. N /\ i + 2 \in 1 .. N
      BY <1>1, <3>1
    <3>3. QED
      BY <3>1, <3>2
  <2>5. ASSUME t[i].kind = "end" PROVE i > 2 /\ t[i - 2].kind = "start"
    <3>1. i > 2 /\ f[i - 2].kind = "start"
      BY <2>1, <2>5 DEF Shaped
    <3>2. i - 2 \in 1 .. N
      BY <1>1, <3>1
    <3>3. QED
      BY <3>1, <3>2
  <2>6. QED
    BY <2>2, <2>3, <2>4, <2>5
<1>3. QED
  BY <1>2 DEF Shaped

LEMMA RenamedShaped ==
    ASSUME NEW f, Shaped(f), NEW v \in Versions, NEW w \in Versions
    PROVE  Shaped(Renamed(f, v, w))
<1> DEFINE i == FindSection(f, v)[1]
           name == w \o SubSeq(f[i].of, Len(v) + 1, Len(f[i].of))
           t == [f EXCEPT ![i] = Heading(name)]
<1>1. CASE FindSection(f, v) = NoSpan
  <2>1. i = 0
    BY <1>1 DEF NoSpan
  <2> HIDE DEF i, t
  <2>2. Renamed(f, v, w) = IF i = 0 THEN f ELSE t
    BY DEF Renamed, i, t
  <2>3. QED
    BY <2>1, <2>2
<1>2. CASE FindSection(f, v) # NoSpan
  <2>1. f \in Seq(Lines) /\ Len(f) \in Nat /\ DOMAIN f = 1 .. Len(f)
        /\ \A x \in 1 .. Len(f) : f[x] \in Lines
    BY ShapedDomain
  <2>2. i \in 1 .. Len(f) /\ f[i].kind = "heading"
    BY <1>2, <2>1, FindSectionIs DEF IsSection
  <2> HIDE DEF i
  <2>3. f[i].of \in Seq(STRING) /\ v \in Seq(STRING) /\ w \in Seq(STRING)
    BY <2>1, <2>2, ChangelogAssumption DEF Lines
  <2>4. SubSeq(f[i].of, Len(v) + 1, Len(f[i].of)) \in Seq(STRING)
    <3> DEFINE o == f[i].of
               m == Len(v) + 1
               n == Len(o)
    <3>1. o \in Seq(STRING) /\ m \in Nat \ {0} /\ n \in Nat
          /\ \A x \in 1 .. n : o[x] \in STRING
      BY <2>3, LenProperties
    <3>2. n = Len(o)
      OBVIOUS
    <3> HIDE DEF o, m, n
    <3>3. \A x \in m .. n : o[x] \in STRING
      BY <3>1
    <3>4. SubSeq(o, m, n) \in Seq(STRING)
      BY <3>1, <3>3, SubSeqProperties
    <3>5. QED
      BY <3>4 DEF o, m, n
  <2>5. name \in Seq(STRING)
    BY <2>3, <2>4, ConcatProperties
  <2> HIDE DEF name
  <2>6. Heading(name) \in Lines /\ Heading(name).kind = "heading"
    BY <2>5 DEF Heading, Line, Lines, LineKinds
  <2> DEFINE h == Heading(name)
  <2>7. t = [f EXCEPT ![i] = h] /\ h \in Lines /\ h.kind = "heading"
    BY <2>6
  <2> HIDE DEF h, t
  <2>8. /\ t \in Seq(Lines) /\ Len(t) = Len(f)
        /\ \A x \in 1 .. Len(f) : t[x] = IF x = i THEN h ELSE f[x]
    BY <2>1, <2>2, <2>7, ExceptSeq
  <2>9. \A x \in 1 .. Len(f) : t[x].kind = f[x].kind
    BY <2>2, <2>7, <2>8
  <2>10. Shaped(t)
    BY <2>8, <2>9, SameKinds
  <2>11. i # 0
    BY <2>2
  <2>12. Renamed(f, v, w) = t
    BY <2>11 DEF Renamed, i, t, name
  <2>13. QED
    BY <2>10, <2>12
<1>3. QED
  BY <1>1, <1>2

-----------------------------------------------------------------------------
(* The Unreleased body, and the whole document.                            *)

\* The span of the body, and what it is cut out of.
LEMMA BodySpanIs ==
    ASSUME NEW f, Shaped(f), Has(f, "unreleased")
    PROVE  \E u \in DOMAIN f, e \in Nat :
              /\ f[u].kind = "unreleased" /\ BodySpan(f) = <<u + 1, e>>
              /\ u + 1 <= e /\ e <= Len(f) + 1
              /\ e = Len(f) + 1 \/ f[e].kind \in Level2 \cup {"ref"}
              /\ \A j \in u + 1 .. e - 1 : f[j].kind \notin Level2 \cup {"ref"}
<1> DEFINE u == FirstOf(f, {"unreleased"}, 1)
           ends == Level2 \cup {"ref"}
           e == FirstOf(f, ends, u + 1)
<1>1. Len(f) \in Nat /\ DOMAIN f = 1 .. Len(f)
  BY ShapedDomain
<1>2. u \in DOMAIN f /\ f[u].kind = "unreleased"
  <2>1. PICK i \in DOMAIN f : f[i].kind = "unreleased"
    BY DEF Has
  <2>2. /\ u \in Nat /\ (1 <= Len(f) + 1 => 1 <= u)
        /\ \A j \in 1 .. Len(f) :
              f[j].kind \in {"unreleased"} => u <= j /\ f[u].kind \in {"unreleased"}
    BY <1>1, FirstOfIs
  <2> HIDE DEF u
  <2>3. QED
    BY <1>1, <2>1, <2>2
<1> HIDE DEF u
<1>3. /\ e \in Nat /\ e <= Len(f) + 1 /\ u + 1 <= e
      /\ e = Len(f) + 1 \/ f[e].kind \in ends
      /\ \A j \in u + 1 .. Len(f) : f[j].kind \in ends => e <= j
  <2>1. u + 1 \in Nat \ {0} /\ u + 1 <= Len(f) + 1
    BY <1>1, <1>2
  <2> HIDE DEF ends
  <2>2. QED
    BY <1>1, <2>1, FirstOfIs
<1>4. BodySpan(f) = <<u + 1, e>>
  BY DEF BodySpan, BodyAt, u
<1> HIDE DEF e
<1>5. \A j \in u + 1 .. e - 1 : f[j].kind \notin ends
  BY <1>1, <1>2, <1>3
<1>6. QED
  BY <1>2, <1>3, <1>4, <1>5

LEMMA ClearBodyShaped ==
    ASSUME NEW f, Shaped(f)
    PROVE  Shaped(ClearBody(f))
<1>1. CASE ~Has(f, "unreleased")
  BY <1>1 DEF ClearBody
<1>2. CASE Has(f, "unreleased")
  <2>1. PICK u \in DOMAIN f, e \in Nat :
              /\ f[u].kind = "unreleased" /\ BodySpan(f) = <<u + 1, e>>
              /\ u + 1 <= e /\ e <= Len(f) + 1
              /\ e = Len(f) + 1 \/ f[e].kind \in Level2 \cup {"ref"}
    BY <1>2, BodySpanIs
  <2>2. Len(f) \in Nat /\ DOMAIN f = 1 .. Len(f)
    BY ShapedDomain
  <2>3. CutAt(f, e)
    <3>1. e \in 2 .. Len(f) + 1
      BY <2>1, <2>2
    <3>2. QED
      BY <2>1, <3>1, CutAtKind DEF Level2
  <2>4. EndsAt(f, u + 1)
    <3>1. ASSUME NEW i \in DOMAIN f, f[i].kind = "start" PROVE u + 1 \notin {i + 1, i + 2}
      <4>1. u # i
        BY <2>1, <3>1
      <4>2. u # i + 1
        BY <2>1, <3>1 DEF Shaped
      <4>3. QED
        BY <2>2, <4>1, <4>2
    <3>2. u + 1 \in 2 .. Len(f) + 1
      BY <2>2
    <3>3. QED
      BY <3>1, <3>2 DEF EndsAt
  <2> DEFINE a == u + 1
  <2>5. a = u + 1
    OBVIOUS
  <2> HIDE DEF a
  <2>6. <<>> \in Seq(Simple) /\ EndsAt(f, a) /\ a <= e
    BY <2>1, <2>4, <2>5, EmptySeq
  <2>7. Shaped(Splice(f, <<a, e>>, <<>>))
    BY <2>3, <2>6, SpliceShaped
  <2>8. BodySpan(f) = <<a, e>>
    BY <2>1, <2>5
  <2>9. ClearBody(f) = Splice(f, BodySpan(f), <<>>)
    BY <1>2 DEF ClearBody
  <2>10. QED
    BY <2>7, <2>8, <2>9
<1>3. QED
  BY <1>1, <1>2

LEMMA EmptyBody == BodyShaped(<<>>)
BY EmptySeq DEF BodyShaped

LEMMA BodyIs ==
    ASSUME NEW f, Shaped(f)
    PROVE  BodyShaped(Body(f))
<1>1. CASE ~Has(f, "unreleased")
  BY <1>1, EmptyBody DEF Body
<1>2. CASE Has(f, "unreleased")
  <2>1. PICK u \in DOMAIN f, e \in Nat :
              /\ f[u].kind = "unreleased" /\ BodySpan(f) = <<u + 1, e>>
              /\ u + 1 <= e /\ e <= Len(f) + 1
              /\ e = Len(f) + 1 \/ f[e].kind \in Level2 \cup {"ref"}
              /\ \A j \in u + 1 .. e - 1 : f[j].kind \notin Level2 \cup {"ref"}
    BY <1>2, BodySpanIs
  <2>2. /\ Len(f) \in Nat /\ DOMAIN f = 1 .. Len(f)
        /\ \A j \in 1 .. Len(f) : f[j] \in Lines /\ f[j].kind \in LineKinds
    BY ShapedDomain
  <2> DEFINE a == u + 1
             z == e - 1
             B == SubSeq(f, a, z)
  <2>3. Body(f) = B
    <3> HIDE DEF a
    <3>1. BodySpan(f) = <<a, e>>
      BY <2>1 DEF a
    <3>2. Body(f) = SubSeq(f, BodySpan(f)[1], BodySpan(f)[2] - 1)
      BY <1>2 DEF Body
    <3>3. BodySpan(f)[1] = a /\ BodySpan(f)[2] = e
      BY <3>1
    <3>4. SubSeq(f, BodySpan(f)[1], BodySpan(f)[2] - 1) = SubSeq(f, a, e - 1)
      BY <3>3
    <3>5. QED
      BY <3>2, <3>4
  <2>4. /\ a = u + 1 /\ z = e - 1 /\ u \in 1 .. Len(f)
        /\ a - 1 <= z /\ z <= Len(f) /\ a \in Int /\ z \in Int
    BY <2>1, <2>2
  <2> HIDE DEF a, z
  <2>5. /\ B \in Seq(Lines) /\ Len(B) = IF a <= z THEN z - a + 1 ELSE 0
        /\ \A i \in 1 .. z - a + 1 : B[i] = f[a + i - 1]
    <3>1. \A j \in a .. z : f[j] \in Lines
      BY <2>2, <2>4
    <3>2. QED
      BY <2>4, <3>1, SubSeqProperties
  <2> HIDE DEF B
  <2>6. /\ Len(B) = z - u /\ DOMAIN B = 1 .. z - u
        /\ \A i \in 1 .. z - u : u + i \in DOMAIN f /\ u + i \in u + 1 .. e - 1 /\ B[i] = f[u + i]
    <3>1. Len(B) = z - u /\ z - u \in Nat /\ z - a + 1 = z - u
      BY <2>4, <2>5
    <3>2. DOMAIN B = 1 .. z - u
      BY <2>5, <3>1, LenProperties
    <3>3. ASSUME NEW i \in 1 .. z - u
          PROVE  u + i \in DOMAIN f /\ u + i \in u + 1 .. e - 1 /\ B[i] = f[u + i]
      <4>1. a + i - 1 = u + i /\ i \in 1 .. z - a + 1
        BY <2>4, <3>1
      <4>2. B[i] = f[a + i - 1]
        BY <2>5, <4>1
      <4>3. u + i \in DOMAIN f /\ u + i \in u + 1 .. e - 1
        BY <2>1, <2>2, <2>4
      <4>4. QED
        BY <4>1, <4>2, <4>3
    <3>4. QED
      BY <3>1, <3>2, <3>3
  <2>7. ASSUME NEW i \in DOMAIN B, B[i].kind = "start"
        PROVE  i = 1 /\ Len(B) >= 3 /\ B[2].kind = "note" /\ B[3].kind = "end"
    <3> DEFINE x == u + i
    <3>1. x \in DOMAIN f /\ f[x].kind = "start" /\ x \in u + 1 .. e - 1
      BY <2>6, <2>7
    <3>2. x = u + i /\ i \in 1 .. z - u
      BY <2>6
    <3> HIDE DEF x
    <3>3. /\ x > 1 /\ x + 2 <= Len(f)
          /\ f[x - 1].kind = "unreleased" /\ f[x + 1].kind = "note" /\ f[x + 2].kind = "end"
      BY <3>1 DEF Shaped
    <3>4. x - 1 = u
      <4>1. x - 1 \in DOMAIN f
        BY <2>2, <3>1, <3>3
      <4>2. QED
        BY <2>1, <3>3, <4>1 DEF Shaped
    <3>5. i = 1 /\ x = u + 1
      BY <2>2, <2>4, <3>2, <3>4
    <3>6. e # x /\ e # x + 1 /\ e # x + 2
      BY <2>1, <2>2, <3>1, <3>3 DEF Level2
    <3>7. x + 2 <= z
      BY <2>1, <2>2, <2>4, <3>1, <3>6
    <3>8. 2 \in 1 .. z - u /\ 3 \in 1 .. z - u /\ u + 2 = x + 1 /\ u + 3 = x + 2
      BY <2>2, <2>4, <3>5, <3>7
    <3>9. B[2] = f[x + 1] /\ B[3] = f[x + 2]
      BY <2>6, <3>8
    <3>10. Len(B) >= 3
      BY <2>4, <2>6, <3>8
    <3>11. QED
      BY <3>3, <3>5, <3>9, <3>10
  <2>8. ASSUME NEW i \in DOMAIN B, B[i].kind = "end" PROVE i = 3 /\ B[1].kind = "start"
    <3> DEFINE x == u + i
    <3>1. x \in DOMAIN f /\ f[x].kind = "end" /\ x = u + i /\ i \in 1 .. z - u
      BY <2>6, <2>8
    <3> HIDE DEF x
    <3>2. x > 2 /\ f[x - 2].kind = "start"
      BY <3>1 DEF Shaped
    <3>3. x - 2 \in DOMAIN f
      BY <2>2, <3>1, <3>2
    <3>4. x - 2 > 1 /\ f[x - 2 - 1].kind = "unreleased"
      BY <3>2, <3>3 DEF Shaped
    <3>5. x - 2 - 1 = u
      <4>1. x - 2 - 1 \in DOMAIN f
        BY <2>2, <3>3, <3>4
      <4>2. QED
        BY <2>1, <3>4, <4>1 DEF Shaped
    <3>6. i = 3 /\ x - 2 = u + 1 /\ 1 \in 1 .. z - u
      <4>1. u \in Int /\ x \in Int /\ i \in Int /\ z - u \in Int /\ 1 <= i /\ i <= z - u
        BY <2>2, <2>4, <3>1
      <4>2. i = 3 /\ x - 2 = u + 1
        BY <3>1, <3>5, <4>1
      <4>3. QED
        BY <4>1, <4>2
    <3>7. B[1] = f[x - 2]
      BY <2>6, <3>6
    <3>8. QED
      BY <3>2, <3>6, <3>7
  <2>9. ASSUME NEW i \in DOMAIN B PROVE B[i].kind \in {"note", "start", "end", "sentinel"}
    <3>1. B[i] = f[u + i] /\ u + i \in DOMAIN f /\ u + i \in u + 1 .. e - 1
      BY <2>6
    <3>2. f[u + i].kind \notin Level2 \cup {"ref"} /\ f[u + i].kind \in LineKinds
      BY <2>1, <2>2, <3>1
    <3>3. u + i # 1
      BY <2>2, <2>6
    <3>4. f[u + i].kind # "title"
      BY <3>1, <3>3 DEF Shaped
    <3>5. QED
      BY <3>1, <3>2, <3>4 DEF Level2, LineKinds
  <2>10. BodyShaped(B)
    BY <2>5, <2>7, <2>8, <2>9 DEF BodyShaped
  <2>11. QED
    BY <2>3, <2>10
<1>3. QED
  BY <1>1, <1>2

\* A body that was stripped has no marker of a selected release.
LEMMA StripIs ==
    ASSUME NEW B, BodyShaped(B), NEW selected
    PROVE  /\ BodyShaped(StripGenerated(B, selected))
           /\ \A x \in DOMAIN StripGenerated(B, selected) :
                 StripGenerated(B, selected)[x].kind = "start"
                 => StripGenerated(B, selected)[x].of \notin selected
<1> DEFINE N == Len(B)
           i == FirstOf(B, {"start"}, 1)
           j == FirstOf(B, {"end"}, i + 1)
           b == j + 1
           t == Splice(B, <<i, b>>, <<>>)
<1>1. B \in Seq(Lines) /\ N \in Nat /\ DOMAIN B = 1 .. N
  <2>1. B \in Seq(Lines)
    BY DEF BodyShaped
  <2>2. QED
    BY <2>1, LenProperties
<1>2. /\ i \in Nat /\ i <= N + 1 /\ 1 <= i
      /\ i = N + 1 \/ B[i].kind = "start"
      /\ \A x \in 1 .. N : B[x].kind = "start" => i <= x
  <2>1. /\ i \in Nat /\ i <= Len(B) + 1 /\ (1 <= Len(B) + 1 => 1 <= i)
        /\ i = Len(B) + 1 \/ B[i].kind \in {"start"}
        /\ \A x \in 1 .. Len(B) : B[x].kind \in {"start"} => i <= x
    BY <1>1, FirstOfIs
  <2> HIDE DEF i
  <2>2. QED
    BY <1>1, <2>1
<1>3. StripGenerated(B, selected) = IF j <= N /\ B[i].of \in selected THEN t ELSE B
  BY DEF StripGenerated
<1> HIDE DEF i
<1>4. /\ j \in Nat /\ (i + 1 > N => j = N + 1)
      /\ (i + 1 <= N + 1 => i + 1 <= j)
      /\ j = N + 1 \/ B[j].kind = "end"
      /\ \A x \in i + 1 .. N : B[x].kind = "end" => j <= x
  <2>1. i + 1 \in Nat \ {0}
    BY <1>2
  <2>2. /\ j \in Nat /\ (i + 1 > Len(B) => j = Len(B) + 1)
        /\ (i + 1 <= Len(B) + 1 => i + 1 <= j)
        /\ j = Len(B) + 1 \/ B[j].kind \in {"end"}
        /\ \A x \in i + 1 .. Len(B) : B[x].kind \in {"end"} => j <= x
    BY <1>1, <2>1, FirstOfIs
  <2> HIDE DEF j
  <2>3. QED
    BY <2>2
<1> HIDE DEF j
<1>5. CASE \A x \in 1 .. N : B[x].kind # "start"
  <2>1. i = N + 1
    BY <1>1, <1>2, <1>5
  <2>2. ~(j <= N)
    BY <1>1, <1>4, <2>1
  <2>3. StripGenerated(B, selected) = B
    BY <1>3, <2>2
  <2>4. QED
    BY <1>1, <1>5, <2>3
<1>6. CASE \E x \in 1 .. N : B[x].kind = "start"
  <2>1. PICK x \in 1 .. N : B[x].kind = "start"
    BY <1>6
  <2>2. x = 1 /\ N >= 3 /\ B[2].kind = "note" /\ B[3].kind = "end"
    BY <1>1, <2>1 DEF BodyShaped
  <2>3. i = 1
    BY <1>2, <2>1, <2>2
  <2>4. j <= 3 /\ 2 <= j
    <3>1. 3 \in i + 1 .. N /\ i + 1 <= N + 1 /\ i + 1 = 2
      BY <1>1, <2>2, <2>3
    <3>2. QED
      BY <1>4, <2>2, <3>1
  <2>5. j = 3
    <3>1. j = 2 \/ j = 3
      BY <1>4, <2>4
    <3>2. j # 2
      BY <1>1, <1>4, <2>2
    <3>3. QED
      BY <3>1, <3>2
  <2>6. b = 4
    BY <2>5
  <2> HIDE DEF b
  <2>7. CASE B[i].of \notin selected
    <3>1. StripGenerated(B, selected) = B
      BY <1>3, <2>7
    <3>2. \A y \in DOMAIN B : B[y].kind = "start" => y = 1
      BY DEF BodyShaped
    <3>3. QED
      BY <2>3, <2>7, <3>1, <3>2
  <2>8. CASE B[i].of \in selected
    <3>1. StripGenerated(B, selected) = t
      BY <1>1, <1>3, <2>2, <2>5, <2>8
    <3>2. t \in Seq(Lines) /\ IsSplice(t, B, i, b, <<>>)
      <4>1. i \in 1 .. Len(B) + 1 /\ b \in i .. Len(B) + 1
        BY <1>1, <2>2, <2>3, <2>6
      <4>2. <<>> \in Seq(Lines)
        BY EmptySeq
      <4>3. QED
        BY <1>1, <4>1, <4>2, SpliceIs
    <3> HIDE DEF t
    <3>3. /\ Len(t) = N - 3
          /\ \A y \in 1 .. N - 3 : t[y] = B[y + 3] /\ y + 3 \in DOMAIN B
      <4>1. Len(<<>>) = 0
        BY EmptySeq
      <4> DEFINE k == Len(<<>>)
      <4>2. /\ Len(t) = N + k + i - b
            /\ \A y \in i + k .. N + k + i - b : t[y] = B[y - i - k + b]
        BY <3>2 DEF IsSplice
      <4>3. k = 0
        BY <4>1
      <4> HIDE DEF k
      <4>4. Len(t) = N - 3
        BY <1>1, <2>3, <2>6, <4>2, <4>3
      <4>5. ASSUME NEW y \in 1 .. N - 3 PROVE t[y] = B[y + 3] /\ y + 3 \in DOMAIN B
        <5>1. y \in i + k .. N + k + i - b /\ y - i - k + b = y + 3 /\ y + 3 \in 1 .. N
          BY <1>1, <2>3, <2>6, <4>3
        <5>2. QED
          BY <1>1, <4>2, <5>1
      <4>6. QED
        BY <4>4, <4>5
    <3>4. DOMAIN t = 1 .. N - 3
      BY <3>2, <3>3, LenProperties
    <3>5. ASSUME NEW y \in DOMAIN t
          PROVE  t[y].kind \in {"note", "sentinel"}
      <4>1. t[y] = B[y + 3] /\ y + 3 \in DOMAIN B
        BY <3>3, <3>4
      <4>2. y + 3 # 1 /\ y + 3 # 3
        BY <1>1, <3>4
      <4>3. B[y + 3].kind \in {"note", "start", "end", "sentinel"}
        BY <4>1 DEF BodyShaped
      <4>4. B[y + 3].kind # "start" /\ B[y + 3].kind # "end"
        BY <4>1, <4>2 DEF BodyShaped
      <4>5. QED
        BY <4>1, <4>3, <4>4
    <3>6. BodyShaped(t) /\ \A y \in DOMAIN t : t[y].kind # "start"
      BY <3>2, <3>5 DEF BodyShaped
    <3>7. QED
      BY <3>1, <3>6
  <2>9. QED
    BY <2>7, <2>8
<1>7. QED
  BY <1>5, <1>6

LEMMA GeneratedIs ==
    ASSUME NEW v \in Versions
    PROVE  /\ BodyShaped(Generated(v))
           /\ \A i \in DOMAIN Generated(v) :
                 Generated(v)[i].kind = "start" => Generated(v)[i].of = v
<1> DEFINE a == Line("start", v)
           b == Note(v)
           c == Line("end", NoVersion)
           B == <<a, b, c>>
<1>1. a \in Lines /\ b \in Lines /\ c \in Lines
  BY LinesOf DEF Simple
<1>2. a.kind = "start" /\ a.of = v /\ b.kind = "note" /\ c.kind = "end"
  BY DEF Line, Note
<1> HIDE DEF a, b, c
<1>3. B \in Seq(Lines) /\ Len(B) = 3 /\ DOMAIN B = 1 .. 3 /\ B[1] = a /\ B[2] = b /\ B[3] = c
  BY <1>1
<1> HIDE DEF B
<1>4. \A i \in DOMAIN B : i = 1 \/ i = 2 \/ i = 3
  BY <1>3
<1>5. BodyShaped(B) /\ \A i \in DOMAIN B : B[i].kind = "start" => B[i].of = v
  BY <1>2, <1>3, <1>4 DEF BodyShaped
<1>6. Generated(v) = B
  BY DEF Generated, B, a, b, c
<1>7. QED
  BY <1>5, <1>6

LEMMA TitleShaped == Shaped(<<Title>>) /\ <<Title>> # <<>>
<1> DEFINE t == Title
           f == <<t>>
<1>1. t \in Lines /\ t.kind = "title"
  BY LinesOf DEF Title, Line
<1> HIDE DEF t
<1>2. f \in Seq(Lines) /\ Len(f) = 1 /\ DOMAIN f = {1} /\ f[1] = t /\ f # <<>>
  BY <1>1
<1> HIDE DEF f
<1>3. Shaped(f)
  BY <1>1, <1>2 DEF Shaped
<1>4. QED
  BY <1>2, <1>3 DEF f, t

\* Headings are of selected releases, and markers of others.
Telling(selected) ==
    {l \in Lines : /\ l.kind = "start" => l.of \notin selected
                   /\ l.kind = "heading" => l.of \in selected}

LEMMA SectionsType ==
    ASSUME NEW S \in SUBSET Versions, NEW selected \in Seq(S)
    PROVE  FlattenSeq([k \in DOMAIN selected |-> Section(selected[k])])
           \in Seq(Simple \cap Telling(ToSet(selected)))
<1> DEFINE n == Len(selected)
           X == Simple \cap Telling(ToSet(selected))
           ss == [k \in DOMAIN selected |-> Section(selected[k])]
<1>1. n \in Nat /\ DOMAIN selected = 1 .. n /\ \A k \in 1 .. n : selected[k] \in Versions
  BY LenProperties
<1>2. ASSUME NEW k \in 1 .. n PROVE Section(selected[k]) \in Seq(X)
  <2> DEFINE v == selected[k]
  <2>1. v \in Versions /\ v \in ToSet(selected)
    BY <1>1 DEF ToSet
  <2> HIDE DEF v
  <2>2. Heading(v) \in Simple /\ Note(v) \in Simple
    BY <2>1, LinesOf
  <2>3. Heading(v) \in Telling(ToSet(selected)) /\ Note(v) \in Telling(ToSet(selected))
    <3>1. Heading(v) \in Lines /\ Note(v) \in Lines
      BY <2>2 DEF Simple
    <3>2. Heading(v).kind = "heading" /\ Heading(v).of = v /\ Note(v).kind = "note"
      BY DEF Heading, Note, Line
    <3>3. QED
      BY <2>1, <3>1, <3>2 DEF Telling
  <2>4. Heading(v) \in X /\ Note(v) \in X
    BY <2>2, <2>3
  <2> HIDE DEF X
  <2>5. Section(v) \in Seq(X)
    BY <2>4, SectionType
  <2>6. QED
    BY <2>5 DEF v
<1> HIDE DEF X
<1>3. ss \in [1 .. n -> Seq(X)]
  BY <1>1, <1>2
<1> HIDE DEF ss
<1>4. ss \in Seq(Seq(X))
  BY <1>1, <1>3, SeqDef
<1>5. FlattenSeq(ss) \in Seq(X)
  BY <1>4, FlattenType
<1>6. QED
  BY <1>5 DEF ss, X

\* What a full build puts under Unreleased.
Fresh(f, names, fold, preserve) ==
    LET selected == Selected(names, fold)
        kept == IF preserve THEN Body(f) ELSE <<>>
        body == IF fold # NoVersion /\ fold \notin Empty THEN Generated(fold) ELSE kept
    IN IF preserve THEN StripGenerated(body, ToSet(selected)) ELSE body

LEMMA FreshIs ==
    ASSUME NEW f, Shaped(f), NEW names, NEW fold \in Versions \cup {NoVersion},
           NEW preserve \in BOOLEAN
    PROVE  /\ BodyShaped(Fresh(f, names, fold, preserve))
           /\ ToSet(Fresh(f, names, fold, preserve)) \subseteq Telling(ToSet(Selected(names, fold)))
<1> DEFINE selected == Selected(names, fold)
           kept == IF preserve THEN Body(f) ELSE <<>>
           body == IF fold # NoVersion /\ fold \notin Empty THEN Generated(fold) ELSE kept
           fresh == IF preserve THEN StripGenerated(body, ToSet(selected)) ELSE body
<1>1. Fresh(f, names, fold, preserve) = fresh
  BY DEF Fresh
<1>2. fold \notin ToSet(selected)
  <2>1. selected \in Seq(Versions \ {fold})
    BY SelectedType
  <2>2. \A i \in DOMAIN selected : selected[i] \in Versions \ {fold}
    BY <2>1, LenProperties
  <2>3. QED
    BY <2>2 DEF ToSet
<1> HIDE DEF selected
<1>3. BodyShaped(kept)
  BY BodyIs, EmptyBody
<1> HIDE DEF kept
<1>4. BodyShaped(body)
  <2>1. CASE fold # NoVersion /\ fold \notin Empty
    <3>1. BodyShaped(Generated(fold))
      BY <2>1, GeneratedIs
    <3>2. QED
      BY <2>1, <3>1
  <2>2. CASE ~(fold # NoVersion /\ fold \notin Empty)
    BY <1>3, <2>2
  <2>3. QED
    BY <2>1, <2>2
<1>5. BodyShaped(fresh)
      /\ \A i \in DOMAIN fresh : fresh[i].kind = "start" => fresh[i].of \notin ToSet(selected)
  <2>1. CASE preserve
    <3> HIDE DEF body
    <3>1. fresh = StripGenerated(body, ToSet(selected))
      BY <2>1
    <3> HIDE DEF fresh
    <3>2. QED
      BY <1>4, <3>1, StripIs
  <2>2. CASE ~preserve
    <3>1. fresh = body
      BY <2>2
    <3>2. CASE fold # NoVersion /\ fold \notin Empty
      <4>1. body = Generated(fold) /\ fold \in Versions
        BY <3>2
      <4> HIDE DEF fresh, body
      <4>2. \A i \in DOMAIN Generated(fold) :
               Generated(fold)[i].kind = "start" => Generated(fold)[i].of = fold
        BY <4>1, GeneratedIs
      <4>3. QED
        BY <1>2, <1>4, <3>1, <4>1, <4>2
    <3>3. CASE ~(fold # NoVersion /\ fold \notin Empty)
      <4>1. body = <<>>
        BY <2>2, <3>3 DEF kept
      <4>2. DOMAIN <<>> = {}
        OBVIOUS
      <4> HIDE DEF fresh, body
      <4>3. QED
        BY <1>4, <3>1, <4>1, <4>2
    <3>4. QED
      BY <3>2, <3>3
  <2>3. QED
    BY <2>1, <2>2
<1> HIDE DEF fresh
<1>6. ASSUME NEW i \in DOMAIN fresh PROVE fresh[i] \in Telling(ToSet(selected))
  <2>1. fresh \in Seq(Lines) /\ fresh[i].kind \in {"note", "start", "end", "sentinel"}
    BY <1>5 DEF BodyShaped
  <2>2. fresh[i] \in Lines
    BY <2>1, LenProperties
  <2>3. fresh[i].kind # "heading"
    BY <2>1
  <2>4. QED
    BY <1>5, <2>2, <2>3 DEF Telling
<1>7. QED
  BY <1>1, <1>5, <1>6 DEF ToSet, selected

\* A full build writes a file of that shape, in which no folded release has a
\* section of its own.
LEMMA FullIs ==
    ASSUME NEW f, Shaped(f), NEW names, NEW fold \in Versions \cup {NoVersion},
           NEW preserve \in BOOLEAN
    PROVE  /\ Shaped(Full(f, names, fold, preserve))
           /\ Full(f, names, fold, preserve) \in Seq(Telling(ToSet(Selected(names, fold))))
<1> DEFINE selected == Selected(names, fold)
           X == Telling(ToSet(selected))
           fresh == Fresh(f, names, fold, preserve)
           head == IF fresh = <<>> THEN <<>> ELSE <<Unreleased>> \o fresh
           sections == FlattenSeq([k \in DOMAIN selected |-> Section(selected[k])])
           refs == RefLines(ToSet(selected) \cup (IF fresh = <<>> THEN {} ELSE {NoVersion}))
           g == <<Title>> \o head
<1>1. Full(f, names, fold, preserve) = ((g \o sections) \o <<Sentinel>>) \o refs
  BY DEF Full, Fresh
<1>2. BodyShaped(fresh) /\ ToSet(fresh) \subseteq X
  BY FreshIs
<1>3. sections \in Seq(Simple) /\ sections \in Seq(X)
  <2>1. selected \in Seq(Versions \ {fold}) /\ Versions \ {fold} \in SUBSET Versions
    BY SelectedType
  <2> HIDE DEF selected
  <2>2. sections \in Seq(Simple \cap X)
    BY <2>1, SectionsType
  <2> HIDE DEF sections, X
  <2>3. Simple \cap X \subseteq Simple /\ Simple \cap X \subseteq X
    OBVIOUS
  <2>4. QED
    BY <2>2, <2>3, SeqMonotonic
<1>4. refs \in Seq(Simple) /\ refs \in Seq(X)
  <2> DEFINE R == {Ref(v) : v \in Versions \cup {NoVersion}}
  <2>1. \A v \in Versions \cup {NoVersion} : Ref(v) \in Simple /\ Ref(v) \in X
    <3>1. \A v \in Versions \cup {NoVersion} : Ref(v) \in Simple /\ Ref(v).kind = "ref"
      BY LinesOf DEF Ref, Line
    <3>2. QED
      BY <3>1 DEF Telling, Simple
  <2>2. R \subseteq Simple /\ R \subseteq X
    BY <2>1
  <2>3. refs \in Seq(R)
    BY RefLinesType
  <2> HIDE DEF refs, R, X
  <2>4. QED
    BY <2>2, <2>3, SeqMonotonic
<1>5. Title \in X /\ Unreleased \in X /\ Sentinel \in X /\ Sentinel \in Simple
  <2>1. /\ Title \in Lines /\ Unreleased \in Lines /\ Sentinel \in Simple /\ Sentinel \in Lines
        /\ Title.kind = "title" /\ Unreleased.kind = "unreleased" /\ Sentinel.kind = "sentinel"
    BY LinesOf DEF Title, Unreleased, Sentinel, Simple, Line
  <2>2. QED
    BY <2>1 DEF Telling
<1>6. <<Sentinel>> \in Seq(Simple) /\ <<Sentinel>> \in Seq(X)
  <2> DEFINE s == Sentinel
  <2>1. s \in X /\ s \in Simple
    BY <1>5
  <2> HIDE DEF s, X
  <2>2. <<s>> \in Seq(Simple) /\ <<s>> \in Seq(X)
    BY <2>1
  <2>3. QED
    BY <2>2 DEF s
<1> HIDE DEF sections, refs, X
<1>7. Shaped(g) /\ g # <<>> /\ g \in Seq(X)
  <2>1. CASE fresh = <<>>
    <3>1. head = <<>>
      BY <2>1
    <3> DEFINE t == Title
    <3>2. t \in X
      BY <1>5
    <3> HIDE DEF t, head
    <3>3. <<t>> \in Seq(X)
      BY <3>2
    <3>4. <<t>> \o <<>> = <<t>>
      BY <3>3, ConcatEmptySeq
    <3>5. g = <<Title>> /\ <<Title>> \in Seq(X)
      BY <3>1, <3>3, <3>4 DEF t
    <3> HIDE DEF g
    <3>6. QED
      BY <3>5, TitleShaped
  <2>2. CASE fresh # <<>>
    <3> HIDE DEF fresh
    <3>1. g = <<Title>> \o (<<Unreleased>> \o fresh)
      BY <2>2
    <3>2. /\ Shaped(<<Title>> \o (<<Unreleased>> \o fresh))
          /\ <<Title>> \o (<<Unreleased>> \o fresh) # <<>>
          /\ \A i \in DOMAIN (<<Title>> \o (<<Unreleased>> \o fresh)) :
                (<<Title>> \o (<<Unreleased>> \o fresh))[i] \in {Title, Unreleased} \cup ToSet(fresh)
      BY <1>2, HeadShaped
    <3> HIDE DEF g
    <3>3. /\ Shaped(g) /\ g # <<>>
          /\ \A i \in DOMAIN g : g[i] \in {Title, Unreleased} \cup ToSet(fresh)
      BY <3>1, <3>2
    <3>4. \A i \in DOMAIN g : g[i] \in X
      BY <1>2, <1>5, <3>3
    <3>5. Len(g) \in Nat /\ DOMAIN g = 1 .. Len(g) /\ g \in Seq(Lines)
      BY <3>3, ShapedDomain
    <3>6. g \in [1 .. Len(g) -> X]
      BY <3>4, <3>5
    <3>7. g \in Seq(X)
      BY <3>5, <3>6, SeqDef
    <3>8. QED
      BY <3>3, <3>7
  <2>3. QED
    BY <2>1, <2>2
<1> HIDE DEF g
<1> DEFINE g1 == g \o sections
<1>8. Shaped(g1) /\ g1 # <<>> /\ g1 \in Seq(X)
  BY <1>3, <1>7, AppendShaped, ConcatProperties
<1> HIDE DEF g1
<1> DEFINE s == <<Sentinel>>
           g2 == g1 \o s
<1>9. s \in Seq(Simple) /\ s \in Seq(X)
  BY <1>6
<1> HIDE DEF s
<1>10. Shaped(g2) /\ g2 # <<>> /\ g2 \in Seq(X)
  BY <1>8, <1>9, AppendShaped, ConcatProperties
<1> HIDE DEF g2
<1>11. Shaped(g2 \o refs) /\ g2 \o refs \in Seq(X)
  BY <1>4, <1>10, AppendShaped, ConcatProperties
<1>12. Full(f, names, fold, preserve) = g2 \o refs
  BY <1>1 DEF g1, g2, s
<1>13. QED
  BY <1>11, <1>12 DEF X

-----------------------------------------------------------------------------
(* Sections that change places.                                            *)

\* The lines from a up to b.
LEMMA CutOut ==
    ASSUME NEW f, f \in Seq(Lines), NEW a \in Nat \ {0}, NEW b \in Nat, b <= Len(f) + 1
    PROVE  /\ SubSeq(f, a, b - 1) \in Seq(Lines)
           /\ Len(SubSeq(f, a, b - 1)) = IF a <= b THEN b - a ELSE 0
           /\ \A i \in 1 .. b - a : SubSeq(f, a, b - 1)[i] = f[a + i - 1]
<1> DEFINE z == b - 1
           g == SubSeq(f, a, z)
<1>1. Len(f) \in Nat /\ \A i \in 1 .. Len(f) : f[i] \in Lines
  BY LenProperties
<1>2. z = b - 1 /\ z \in Int /\ a \in Int /\ z - a + 1 = b - a
  OBVIOUS
<1> HIDE DEF z
<1>3. \A i \in a .. z : f[i] \in Lines
  BY <1>1, <1>2
<1>4. /\ g \in Seq(Lines) /\ Len(g) = IF a <= z THEN z - a + 1 ELSE 0
      /\ \A i \in 1 .. z - a + 1 : g[i] = f[a + i - 1]
  BY <1>2, <1>3, SubSeqProperties
<1> HIDE DEF g
<1>5. Len(g) = IF a <= b THEN b - a ELSE 0
  BY <1>2, <1>4
<1>6. \A i \in 1 .. b - a : g[i] = f[a + i - 1]
  BY <1>2, <1>4
<1>7. QED
  BY <1>4, <1>5, <1>6 DEF g, z

\* A section has none of the lines that the shape is about.
LEMMA SectionLines ==
    ASSUME NEW f, Shaped(f), NEW span, IsSection(f, span)
    PROVE  SubSeq(f, span[1], span[2] - 1) \in Seq(Simple)
<1>1. PICK i \in 1 .. Len(f), b \in Nat :
        /\ span = <<i, b>> /\ i < b /\ b <= Len(f) + 1
        /\ f[i].kind = "heading"
        /\ \A j \in i + 1 .. b - 1 : f[j].kind \notin Level2
  BY DEF IsSection
<1>2. Len(f) \in Nat /\ DOMAIN f = 1 .. Len(f) /\ f \in Seq(Lines)
      /\ \A j \in 1 .. Len(f) : f[j] \in Lines /\ f[j].kind \in LineKinds
  BY ShapedDomain
<1>3. ASSUME NEW j \in i .. b - 1 PROVE f[j] \in Simple
  <2>1. j \in DOMAIN f /\ j \in 1 .. Len(f)
    BY <1>1, <1>2
  <2>2. j = i \/ j \in i + 1 .. b - 1
    OBVIOUS
  <2>3. f[j].kind # "unreleased"
    BY <1>1, <2>2 DEF Level2
  <2>4. f[j].kind # "title"
    <3>1. ASSUME f[j].kind = "title" PROVE FALSE
      <4>1. j = 1
        BY <2>1, <3>1 DEF Shaped
      <4>2. j = i
        BY <1>1, <4>1
      <4>3. QED
        BY <1>1, <3>1, <4>2
    <3>2. QED
      BY <3>1
  <2>5. \A x \in i .. b - 1 : f[x].kind # "start"
    <3> SUFFICES ASSUME NEW x \in i .. b - 1, f[x].kind = "start" PROVE FALSE
      OBVIOUS
    <3>1. x \in DOMAIN f /\ x # i
      BY <1>1, <1>2
    <3>2. f[x - 1].kind = "unreleased"
      BY <3>1 DEF Shaped
    <3>3. x - 1 = i \/ x - 1 \in i + 1 .. b - 1
      BY <3>1
    <3>4. QED
      BY <1>1, <3>2, <3>3 DEF Level2
  <2>6. f[j].kind # "end"
    <3>1. ASSUME f[j].kind = "end" PROVE FALSE
      <4>1. j > 2 /\ f[j - 2].kind = "start"
        BY <2>1, <3>1 DEF Shaped
      <4>2. j - 2 \in DOMAIN f
        BY <1>2, <2>1, <4>1
      <4>3. f[j - 2 + 1].kind = "note"
        BY <4>1, <4>2 DEF Shaped
      <4>4. j # i
        BY <1>1, <3>1
      <4>5. j # i + 1
        <5>1. ASSUME j = i + 1 PROVE FALSE
          <6>1. j - 2 + 1 = i
            BY <5>1
          <6>2. QED
            BY <1>1, <4>3, <6>1
        <5>2. QED
          BY <5>1
      <4>6. j - 2 \in i .. b - 1
        BY <4>4, <4>5
      <4>7. QED
        BY <2>5, <4>1, <4>6
    <3>2. QED
      BY <3>1
  <2>7. QED
    BY <1>2, <2>1, <2>3, <2>4, <2>5, <2>6 DEF Simple, LineKinds
<1> DEFINE z == b - 1
<1>4. z \in Int /\ i \in Int /\ \A j \in i .. z : f[j] \in Simple
  BY <1>3
<1> HIDE DEF z
<1>5. SubSeq(f, i, z) \in Seq(Simple)
  BY <1>4, SubSeqProperties
<1>6. span[1] = i /\ span[2] = b
  BY <1>1
<1>7. QED
  BY <1>5, <1>6 DEF z

\* A part of the file between two cuts may follow another one.
LEMMA GapAppended ==
    ASSUME NEW f, Shaped(f), NEW P, Shaped(P), P # <<>>,
           NEW a \in Nat, NEW b \in Nat, CutAt(f, a), EndsAt(f, b), a <= b,
           \A i \in DOMAIN P, j \in a .. b - 1 :
              ~(P[i].kind = "unreleased" /\ f[j].kind = "unreleased")
    PROVE  /\ Shaped(P \o SubSeq(f, a, b - 1)) /\ P \o SubSeq(f, a, b - 1) # <<>>
           /\ \A i \in DOMAIN (P \o SubSeq(f, a, b - 1)) :
                 \/ i \in DOMAIN P /\ (P \o SubSeq(f, a, b - 1))[i] = P[i]
                 \/ \E j \in a .. b - 1 : (P \o SubSeq(f, a, b - 1))[i] = f[j]
<1> DEFINE L == Len(P)
           N == Len(f)
           G == SubSeq(f, a, b - 1)
           t == P \o G
<1>1. /\ f \in Seq(Lines) /\ N \in Nat /\ DOMAIN f = 1 .. N
      /\ P \in Seq(Lines) /\ L \in Nat /\ DOMAIN P = 1 .. L /\ L # 0
      /\ a \in 2 .. N + 1 /\ b \in 2 .. N + 1
  BY ShapedDomain, EmptySeq DEF CutAt, EndsAt
<1>2. G \in Seq(Lines) /\ Len(G) = b - a /\ \A i \in 1 .. b - a : G[i] = f[a + i - 1]
  <2>1. a \in Nat \ {0} /\ b <= Len(f) + 1
    BY <1>1
  <2>2. /\ G \in Seq(Lines) /\ Len(G) = IF a <= b THEN b - a ELSE 0
        /\ \A i \in 1 .. b - a : G[i] = f[a + i - 1]
    BY <1>1, <2>1, CutOut
  <2> HIDE DEF G
  <2>3. QED
    BY <2>2
<1> HIDE DEF G
<1>3. /\ t \in Seq(Lines) /\ Len(t) = L + Len(G)
      /\ \A i \in 1 .. L : t[i] = P[i]
      /\ \A i \in L + 1 .. L + Len(G) : t[i] = G[i - L]
  BY <1>1, <1>2, ConcatIs
<1> HIDE DEF t
<1> DEFINE M == L + b - a
           d == a - 1 - L
<1>4. Len(t) = M /\ M \in Nat /\ DOMAIN t = 1 .. M /\ d \in Int /\ M + d = b - 1 /\ L + d = a - 1
  <2>1. Len(t) = M /\ M \in Nat /\ d \in Int /\ M + d = b - 1 /\ L + d = a - 1
    BY <1>1, <1>2, <1>3
  <2>2. DOMAIN t = 1 .. Len(t)
    BY <1>3, LenProperties
  <2>3. QED
    BY <2>1, <2>2
<1>5. ASSUME NEW i \in L + 1 .. M PROVE i + d \in a .. b - 1 /\ i + d \in DOMAIN f /\ t[i] = f[i + d]
  <2>1. i \in L + 1 .. L + Len(G) /\ i - L \in 1 .. b - a /\ a + (i - L) - 1 = i + d
    BY <1>1, <1>2
  <2>2. t[i] = G[i - L]
    BY <1>3, <2>1
  <2>3. G[i - L] = f[a + (i - L) - 1]
    BY <1>2, <2>1
  <2>4. i + d \in a .. b - 1 /\ i + d \in DOMAIN f
    BY <1>1, <2>1
  <2>5. QED
    BY <2>1, <2>2, <2>3, <2>4
<1>6. \A i \in 1 .. M : i \in 1 .. L \/ i \in L + 1 .. M
  BY <1>1
<1> HIDE DEF M, d, N
<1>7. ASSUME NEW i \in DOMAIN t PROVE (t[i].kind = "title") = (i = 1)
  <2>1. CASE i \in 1 .. L
    BY <1>1, <1>3, <2>1 DEF Shaped
  <2>2. CASE i \in L + 1 .. M
    <3> DEFINE x == i + d
    <3>1. x \in DOMAIN f /\ t[i] = f[x] /\ x \in a .. b - 1
      BY <1>5, <2>2
    <3> HIDE DEF x
    <3>2. x # 1 /\ i # 1
      BY <1>1, <2>2, <3>1
    <3>3. f[x].kind # "title"
      BY <3>1, <3>2 DEF Shaped
    <3>4. QED
      BY <3>1, <3>2, <3>3
  <2>3. QED
    BY <1>4, <1>6, <2>1, <2>2
<1>8. ASSUME NEW i \in DOMAIN t, NEW j \in DOMAIN t,
             t[i].kind = "unreleased", t[j].kind = "unreleased"
      PROVE  i = j
  <2>1. CASE i \in 1 .. L /\ j \in 1 .. L
    <3>1. i \in DOMAIN P /\ j \in DOMAIN P
      BY <1>1, <2>1
    <3>2. P[i].kind = "unreleased" /\ P[j].kind = "unreleased"
      BY <1>3, <1>8, <2>1
    <3>3. QED
      BY <3>1, <3>2 DEF Shaped
  <2>2. CASE i \in L + 1 .. M /\ j \in L + 1 .. M
    <3> DEFINE x == i + d
               y == j + d
    <3>1. x \in DOMAIN f /\ f[x].kind = "unreleased" /\ y \in DOMAIN f /\ f[y].kind = "unreleased"
      BY <1>5, <1>8, <2>2
    <3>2. x = y
      <4> HIDE DEF x, y
      <4>1. QED
        BY <3>1 DEF Shaped
    <3>3. QED
      BY <1>1, <1>4, <2>2, <3>2
  <2>3. ASSUME NEW p \in 1 .. L, NEW q \in L + 1 .. M,
               t[p].kind = "unreleased", t[q].kind = "unreleased"
        PROVE  FALSE
    <3>1. p \in DOMAIN P /\ P[p].kind = "unreleased"
      BY <1>1, <1>3, <2>3
    <3> DEFINE x == q + d
    <3>2. x \in a .. b - 1 /\ f[x].kind = "unreleased"
      BY <1>5, <2>3
    <3> HIDE DEF x
    <3>3. QED
      BY <3>1, <3>2
  <2>4. QED
    BY <1>4, <1>6, <1>8, <2>1, <2>2, <2>3
<1>9. ASSUME NEW i \in DOMAIN t, t[i].kind = "start"
      PROVE  /\ i > 1 /\ i + 2 <= Len(t)
             /\ t[i - 1].kind = "unreleased" /\ t[i + 1].kind = "note" /\ t[i + 2].kind = "end"
  <2>1. CASE i \in 1 .. L
    <3>1. i \in DOMAIN P /\ P[i].kind = "start"
      BY <1>1, <1>3, <1>9, <2>1
    <3>2. /\ i > 1 /\ i + 2 <= L
          /\ P[i - 1].kind = "unreleased" /\ P[i + 1].kind = "note" /\ P[i + 2].kind = "end"
      BY <3>1 DEF Shaped
    <3>3. i - 1 \in 1 .. L /\ i + 1 \in 1 .. L /\ i + 2 \in 1 .. L
      BY <1>1, <2>1, <3>2
    <3>4. L <= M
      BY <1>1, <1>4
    <3>5. i + 2 <= Len(t)
      BY <1>1, <1>4, <2>1, <3>2, <3>4
    <3>6. QED
      BY <1>3, <3>2, <3>3, <3>5
  <2>2. CASE i \in L + 1 .. M
    <3> DEFINE x == i + d
    <3>1. x \in DOMAIN f /\ f[x].kind = "start" /\ x \in a .. b - 1 /\ x = i + d
      BY <1>5, <1>9, <2>2
    <3> HIDE DEF x
    <3>2. /\ x > 1 /\ x + 2 <= N
          /\ f[x - 1].kind = "unreleased" /\ f[x + 1].kind = "note" /\ f[x + 2].kind = "end"
      BY <3>1 DEF Shaped, N
    <3>3. a # x /\ b # x + 1 /\ b # x + 2
      BY <3>1 DEF CutAt, EndsAt
    <3>4. x - 1 \in a .. b - 1 /\ x + 2 \in a .. b - 1
      BY <1>1, <3>1, <3>3
    <3>5. i - 1 \in L + 1 .. M /\ i + 1 \in L + 1 .. M /\ i + 2 \in L + 1 .. M
      <4>1. /\ i \in Int /\ d \in Int /\ a \in Int /\ b \in Int /\ L \in Int /\ M \in Int
            /\ M + d = b - 1 /\ L + d = a - 1 /\ x = i + d /\ L + 1 <= i
            /\ a <= x - 1 /\ x + 2 <= b - 1
        BY <1>1, <1>4, <2>2, <3>1, <3>4
      <4>2. L + 1 <= i - 1 /\ i + 2 <= M
        BY <4>1
      <4>3. QED
        BY <4>1, <4>2
    <3>6. i - 1 + d = x - 1 /\ i + 1 + d = x + 1 /\ i + 2 + d = x + 2
      BY <1>4, <2>2, <3>1
    <3>7. t[i - 1] = f[x - 1]
      <4>1. t[i - 1] = f[i - 1 + d]
        BY <1>5, <3>5
      <4>2. QED
        BY <3>6, <4>1
    <3>8. t[i + 1] = f[x + 1]
      <4>1. t[i + 1] = f[i + 1 + d]
        BY <1>5, <3>5
      <4>2. QED
        BY <3>6, <4>1
    <3>9. t[i + 2] = f[x + 2]
      <4>1. t[i + 2] = f[i + 2 + d]
        BY <1>5, <3>5
      <4>2. QED
        BY <3>6, <4>1
    <3>10. i > 1 /\ i + 2 <= Len(t)
      BY <1>1, <1>4, <2>2, <3>5
    <3>11. QED
      BY <3>2, <3>7, <3>8, <3>9, <3>10
  <2>3. QED
    BY <1>4, <1>6, <2>1, <2>2
<1>10. ASSUME NEW i \in DOMAIN t, t[i].kind = "end"
       PROVE  i > 2 /\ t[i - 2].kind = "start"
  <2>1. CASE i \in 1 .. L
    <3>1. i \in DOMAIN P /\ P[i].kind = "end"
      BY <1>1, <1>3, <1>10, <2>1
    <3>2. i > 2 /\ P[i - 2].kind = "start"
      BY <3>1 DEF Shaped
    <3>3. i - 2 \in 1 .. L
      BY <1>1, <2>1, <3>2
    <3>4. QED
      BY <1>3, <3>2, <3>3
  <2>2. CASE i \in L + 1 .. M
    <3> DEFINE x == i + d
    <3>1. x \in DOMAIN f /\ f[x].kind = "end" /\ x \in a .. b - 1 /\ x = i + d
      BY <1>5, <1>10, <2>2
    <3> HIDE DEF x
    <3>2. x > 2 /\ f[x - 2].kind = "start"
      BY <3>1 DEF Shaped
    <3>3. x - 2 \in DOMAIN f
      BY <1>1, <3>1, <3>2
    <3>4. a # x - 2 /\ a # x - 2 + 1 /\ a # x - 2 + 2
      BY <3>2, <3>3 DEF CutAt
    <3>5. i - 2 \in L + 1 .. M
      BY <1>1, <1>4, <2>2, <3>1, <3>4
    <3>6. i - 2 + d = x - 2
      BY <1>4, <2>2, <3>1
    <3>7. t[i - 2] = f[i - 2 + d]
      BY <1>5, <3>5
    <3>8. i > 2
      <4>1. i \in Int /\ L \in Nat /\ L + 1 <= i - 2
        BY <1>1, <2>2, <3>5
      <4>2. QED
        BY <4>1
    <3>9. QED
      BY <3>2, <3>6, <3>7, <3>8
  <2>3. QED
    BY <1>4, <1>6, <2>1, <2>2
<1>11. Shaped(t)
  BY <1>3, <1>7, <1>8, <1>9, <1>10 DEF Shaped
<1>12. t # <<>>
  BY <1>1, <1>4
<1>13. ASSUME NEW i \in DOMAIN t
       PROVE  (i \in DOMAIN P /\ t[i] = P[i]) \/ \E j \in a .. b - 1 : t[i] = f[j]
  <2>1. CASE i \in 1 .. L
    BY <1>1, <1>3, <2>1
  <2>2. CASE i \in L + 1 .. M
    BY <1>5, <2>2
  <2>3. QED
    BY <1>4, <1>6, <2>1, <2>2
<1>14. QED
  BY <1>11, <1>12, <1>13 DEF t, G

\* P is a file so far, and its Unreleased heading one of f before z.
SoFar(f, P, z) ==
    /\ Shaped(P) /\ P # <<>>
    /\ \A i \in DOMAIN P :
          P[i].kind = "unreleased" => \E j \in 1 .. z - 1 : f[j].kind = "unreleased"

\* Where the cuts of a section are.
LEMMA SpanCuts ==
    ASSUME NEW f, Shaped(f), NEW span, IsSection(f, span)
    PROVE  /\ span[1] \in 2 .. Len(f) /\ span[2] \in span[1] + 1 .. Len(f) + 1
           /\ EndsAt(f, span[1]) /\ CutAt(f, span[2])
           /\ f[span[1]].kind = "heading"
           /\ span[2] = Len(f) + 1 \/ f[span[2]].kind \in Level2
           /\ \A j \in span[1] + 1 .. span[2] - 1 : f[j].kind \notin Level2
<1>1. PICK i \in 1 .. Len(f), b \in Nat :
        /\ span = <<i, b>> /\ i < b /\ b <= Len(f) + 1
        /\ f[i].kind = "heading"
        /\ b = Len(f) + 1 \/ f[b].kind \in Level2
        /\ \A j \in i + 1 .. b - 1 : f[j].kind \notin Level2
  BY DEF IsSection
<1>2. span[1] = i /\ span[2] = b
  BY <1>1
<1>3. Len(f) \in Nat /\ DOMAIN f = 1 .. Len(f)
  BY ShapedDomain
<1>4. i # 1
  BY <1>1, <1>3 DEF Shaped
<1>5. i \in 2 .. Len(f) /\ b \in i + 1 .. Len(f) + 1 /\ i \in 2 .. Len(f) + 1 /\ b \in 2 .. Len(f) + 1
  BY <1>1, <1>3, <1>4
<1>6. EndsAt(f, i) /\ CutAt(f, b)
  BY <1>1, <1>5, CutAtKind, CutsEnd DEF Level2
<1>7. QED
  BY <1>1, <1>2, <1>5, <1>6

\* The beginning of the file with the first section that takes a place in it.
LEMMA FirstChunk ==
    ASSUME NEW f, Shaped(f), NEW y, IsSection(f, y), NEW s \in Seq(Simple)
    PROVE  SoFar(f, SubSeq(f, 1, y[1] - 1) \o s, y[2])
<1> DEFINE a == y[1]
           N == Len(f)
           n == N + 1
           g == SubSeq(f, 1, a - 1)
           P == g \o s
<1>1. /\ f \in Seq(Lines) /\ N \in Nat /\ DOMAIN f = 1 .. N
      /\ a \in 2 .. N /\ y[2] \in a + 1 .. N + 1 /\ EndsAt(f, a)
  BY SpanCuts, ShapedDomain
<1>2. n = N + 1 /\ n \in 2 .. N + 1 /\ a <= n
  BY <1>1
<1> HIDE DEF n
<1>3. /\ g \in Seq(Lines) /\ Len(g) = a - 1 /\ \A i \in 1 .. a - 1 : g[i] = f[i]
  <2>1. a \in Nat /\ a <= Len(f) + 1 /\ 1 \in Nat \ {0} /\ 1 <= a
    BY <1>1
  <2> HIDE DEF a
  <2>2. /\ g \in Seq(Lines) /\ Len(g) = IF 1 <= a THEN a - 1 ELSE 0
        /\ \A i \in 1 .. a - 1 : g[i] = f[1 + i - 1]
    BY <1>1, <2>1, CutOut
  <2> HIDE DEF g
  <2>3. QED
    BY <2>1, <2>2
<1> HIDE DEF a
<1>4. Shaped(g)
  <2>1. CutAt(f, n) /\ <<>> \in Seq(Simple)
    BY <1>2, CutAtKind, EmptySeq
  <2>2. Shaped(Splice(f, <<a, n>>, <<>>))
    BY <1>1, <1>2, <2>1, SpliceShaped
  <2>3. Splice(f, <<a, n>>, <<>>) = (g \o <<>>) \o SubSeq(f, n, N)
    BY SpliceParts
  <2>4. SubSeq(f, n, N) = <<>>
    BY <1>1, <1>2, SubSeqEmpty
  <2> HIDE DEF g
  <2>5. (g \o <<>>) \o <<>> = g
    BY <1>3, ConcatEmptySeq
  <2>6. QED
    BY <2>2, <2>3, <2>4, <2>5
<1>5. g # <<>>
  BY <1>1, <1>3
<1> HIDE DEF g
<1>6. Shaped(P) /\ P # <<>>
  BY <1>4, <1>5, AppendShaped
<1>7. s \in Seq(Lines) /\ Len(s) \in Nat /\ \A i \in 1 .. Len(s) : s[i] \in Simple
  <2>1. Simple \subseteq Lines
    BY DEF Simple
  <2>2. QED
    BY <2>1, SeqMonotonic, LenProperties
<1>8. /\ DOMAIN P = 1 .. (a - 1) + Len(s)
      /\ \A i \in 1 .. a - 1 : P[i] = g[i]
      /\ \A i \in a .. (a - 1) + Len(s) : P[i] = s[i - (a - 1)]
  <2>1. /\ P \in Seq(Lines) /\ Len(P) = Len(g) + Len(s)
        /\ \A i \in 1 .. Len(g) : P[i] = g[i]
        /\ \A i \in Len(g) + 1 .. Len(g) + Len(s) : P[i] = s[i - Len(g)]
    BY <1>3, <1>7, ConcatIs
  <2>2. DOMAIN P = 1 .. Len(P)
    BY <2>1, LenProperties
  <2>3. a - 1 + 1 = a
    BY <1>1
  <2> HIDE DEF P
  <2>4. QED
    BY <1>3, <2>1, <2>2, <2>3
<1> HIDE DEF P
<1>9. ASSUME NEW i \in DOMAIN P, P[i].kind = "unreleased"
      PROVE  \E j \in 1 .. y[2] - 1 : f[j].kind = "unreleased"
  <2>1. CASE i \in 1 .. a - 1
    <3>1. P[i] = f[i]
      BY <1>3, <1>8, <2>1
    <3>2. i \in 1 .. y[2] - 1
      BY <1>1, <2>1
    <3>3. QED
      BY <1>9, <3>1, <3>2
  <2>2. CASE i \in a .. (a - 1) + Len(s)
    <3>1. i - (a - 1) \in 1 .. Len(s)
      BY <1>1, <1>7, <2>2
    <3>2. P[i] \in Simple
      BY <1>7, <1>8, <2>2, <3>1
    <3>3. QED
      BY <1>9, <3>2 DEF Simple
  <2>3. i \in 1 .. a - 1 \/ i \in a .. (a - 1) + Len(s)
    BY <1>1, <1>7, <1>8
  <2>4. QED
    BY <2>1, <2>2, <2>3
<1>10. SoFar(f, P, y[2])
  BY <1>6, <1>9 DEF SoFar
<1>11. QED
  BY <1>10 DEF P, g, a

\* The lines from one section to the next, and the section that takes its place.
LEMMA NextChunk ==
    ASSUME NEW f, Shaped(f), NEW x, NEW y, IsSection(f, x), IsSection(f, y), x[1] <= y[1],
           NEW P, SoFar(f, P, x[2]), NEW s \in Seq(Simple)
    PROVE  SoFar(f, P \o (SubSeq(f, x[2], y[1] - 1) \o s), y[2])
<1> DEFINE a == x[2]
           b == y[1]
           z == y[2]
           G == SubSeq(f, a, b - 1)
           t == P \o G
<1>1. /\ f \in Seq(Lines) /\ Len(f) \in Nat /\ DOMAIN f = 1 .. Len(f)
      /\ x[1] \in 2 .. Len(f) /\ a \in x[1] + 1 .. Len(f) + 1 /\ CutAt(f, a)
      /\ a = Len(f) + 1 \/ f[a].kind \in Level2
      /\ \A j \in x[1] + 1 .. a - 1 : f[j].kind \notin Level2
  BY SpanCuts, ShapedDomain
<1>2. /\ b \in 2 .. Len(f) /\ z \in b + 1 .. Len(f) + 1 /\ EndsAt(f, b)
      /\ f[b].kind \in Level2
      /\ z = Len(f) + 1 \/ f[z].kind \in Level2
  BY SpanCuts DEF Level2
<1>3. P \in Seq(Lines) /\ Shaped(P) /\ P # <<>>
  BY ShapedDomain DEF SoFar
<1>4. x[1] <= b
  OBVIOUS
<1>5. a <= z
  <2>1. CASE x[1] = b
    <3>1. z \notin x[1] + 1 .. a - 1
      <4>1. CASE z = Len(f) + 1
        BY <1>1, <1>2, <4>1
      <4>2. CASE f[z].kind \in Level2
        BY <1>1, <4>2
      <4>3. QED
        BY <1>2, <4>1, <4>2
    <3>2. QED
      BY <1>1, <1>2, <2>1, <3>1
  <2>2. CASE x[1] # b
    <3>1. b \notin x[1] + 1 .. a - 1
      BY <1>1, <1>2
    <3>2. QED
      BY <1>1, <1>2, <1>4, <2>2, <3>1
  <2>3. QED
    BY <2>1, <2>2
<1>6. SoFar(f, t, z)
  <2>1. CASE a > b
    <3>1. b - 1 < a /\ a \in Int /\ b - 1 \in Int
      BY <1>1, <1>2, <2>1
    <3> HIDE DEF a, b
    <3>2. G = <<>>
      BY <3>1, SubSeqEmpty
    <3> HIDE DEF G
    <3>3. t = P
      BY <1>3, <3>2, ConcatEmptySeq
    <3>4. ASSUME NEW i \in DOMAIN P, P[i].kind = "unreleased"
          PROVE  \E j \in 1 .. z - 1 : f[j].kind = "unreleased"
      <4>1. PICK j \in 1 .. a - 1 : f[j].kind = "unreleased"
        BY <3>4 DEF SoFar, a
      <4>2. j \in 1 .. z - 1
        BY <1>1, <1>2, <1>5
      <4>3. QED
        BY <4>1, <4>2
    <3>5. SoFar(f, P, z)
      BY <1>3, <3>4 DEF SoFar
    <3>6. QED
      BY <3>3, <3>5
  <2>2. CASE ~(a > b)
    <3>1. a <= b /\ a \in Nat /\ b \in Nat
      BY <1>1, <1>2, <2>2
    <3>2. ASSUME NEW i \in DOMAIN P, NEW j \in a .. b - 1,
                 P[i].kind = "unreleased", f[j].kind = "unreleased"
          PROVE  FALSE
      <4>1. PICK k \in 1 .. a - 1 : f[k].kind = "unreleased"
        BY <3>2 DEF SoFar
      <4>2. k \in DOMAIN f /\ j \in DOMAIN f /\ k # j
        BY <1>1, <1>2, <3>1
      <4>3. QED
        BY <3>2, <4>1, <4>2 DEF Shaped
    <3> HIDE DEF a, b, z
    <3>3. /\ Shaped(t) /\ t # <<>>
          /\ \A i \in DOMAIN t :
                (i \in DOMAIN P /\ t[i] = P[i]) \/ \E j \in a .. b - 1 : t[i] = f[j]
      <4>1. \A i \in DOMAIN P, j \in a .. b - 1 :
               ~(P[i].kind = "unreleased" /\ f[j].kind = "unreleased")
        BY <3>2
      <4>2. CutAt(f, a) /\ EndsAt(f, b) /\ Shaped(P) /\ P # <<>>
        BY <1>1, <1>2, <1>3
      <4>3. /\ Shaped(P \o SubSeq(f, a, b - 1)) /\ P \o SubSeq(f, a, b - 1) # <<>>
            /\ \A i \in DOMAIN (P \o SubSeq(f, a, b - 1)) :
                  \/ i \in DOMAIN P /\ (P \o SubSeq(f, a, b - 1))[i] = P[i]
                  \/ \E j \in a .. b - 1 : (P \o SubSeq(f, a, b - 1))[i] = f[j]
        BY <3>1, <4>1, <4>2, GapAppended
      <4>4. QED
        BY <4>3
    <3> HIDE DEF t
    <3>4. ASSUME NEW i \in DOMAIN t, t[i].kind = "unreleased"
          PROVE  \E j \in 1 .. z - 1 : f[j].kind = "unreleased"
      <4>1. CASE i \in DOMAIN P /\ t[i] = P[i]
        <5>1. PICK j \in 1 .. a - 1 : f[j].kind = "unreleased"
          BY <3>4, <4>1 DEF SoFar, a
        <5>2. j \in 1 .. z - 1
          BY <1>1, <1>2, <1>5
        <5>3. QED
          BY <5>1, <5>2
      <4>2. CASE \E j \in a .. b - 1 : t[i] = f[j]
        <5>1. PICK j \in a .. b - 1 : t[i] = f[j]
          BY <4>2
        <5>2. j \in 1 .. z - 1
          BY <1>1, <1>2, <3>1
        <5>3. QED
          BY <3>4, <5>1, <5>2
      <4>3. QED
        BY <3>3, <4>1, <4>2
    <3>5. QED
      BY <3>3, <3>4 DEF SoFar
  <2>3. QED
    BY <2>1, <2>2
<1>7. G \in Seq(Lines)
  <2>1. a \in Nat \ {0} /\ b \in Nat /\ b <= Len(f) + 1
    BY <1>1, <1>2
  <2> HIDE DEF a, b
  <2>2. QED
    BY <1>1, <2>1, CutOut
<1> HIDE DEF G
<1>8. t \in Seq(Lines) /\ Shaped(t) /\ t # <<>>
  BY <1>6, ShapedDomain DEF SoFar
<1>9. s \in Seq(Lines) /\ Len(s) \in Nat /\ \A i \in 1 .. Len(s) : s[i] \in Simple
  <2>1. Simple \subseteq Lines
    BY DEF Simple
  <2>2. QED
    BY <2>1, SeqMonotonic, LenProperties
<1>10. P \o (G \o s) = t \o s
  BY <1>3, <1>7, <1>9, ConcatAssociative
<1> HIDE DEF t
<1>11. Shaped(t \o s) /\ t \o s # <<>>
  BY <1>8, AppendShaped
<1> DEFINE u == t \o s
<1>12. /\ Len(t) \in Nat /\ u \in Seq(Lines) /\ Len(u) = Len(t) + Len(s)
       /\ \A i \in 1 .. Len(t) : u[i] = t[i]
       /\ \A i \in Len(t) + 1 .. Len(t) + Len(s) : u[i] = s[i - Len(t)]
  BY <1>8, <1>9, ConcatIs
<1>13. DOMAIN u = 1 .. Len(u) /\ DOMAIN t = 1 .. Len(t)
  BY <1>8, <1>12, LenProperties
<1> HIDE DEF u
<1>14. ASSUME NEW i \in DOMAIN u, u[i].kind = "unreleased"
       PROVE  \E j \in 1 .. z - 1 : f[j].kind = "unreleased"
  <2>1. CASE i \in 1 .. Len(t)
    <3>1. i \in DOMAIN t /\ t[i].kind = "unreleased"
      BY <1>12, <1>13, <1>14, <2>1
    <3>2. QED
      BY <1>6, <3>1 DEF SoFar
  <2>2. CASE i \in Len(t) + 1 .. Len(t) + Len(s)
    <3>1. i - Len(t) \in 1 .. Len(s)
      BY <1>9, <1>12, <2>2
    <3>2. u[i] \in Simple
      BY <1>9, <1>12, <2>2, <3>1
    <3>3. QED
      BY <1>14, <3>2 DEF Simple
  <2>3. i \in 1 .. Len(t) \/ i \in Len(t) + 1 .. Len(t) + Len(s)
    BY <1>9, <1>12, <1>13
  <2>4. QED
    BY <2>1, <2>2, <2>3
<1>15. SoFar(f, u, z)
  BY <1>11, <1>14 DEF SoFar, u
<1>16. QED
  BY <1>10, <1>15 DEF u, z, a, b, G

LEMMA ReorderShaped ==
    ASSUME NEW f, Shaped(f), f # <<>>, NEW records
    PROVE  Shaped(Reorder(f, records)) /\ Reorder(f, records) # <<>>
<1> DEFINE found == {v \in Versions : FindSection(f, v) # NoSpan}
           present == Among(Order(records), found)
           n == Len(present)
           span == [k \in DOMAIN present |-> FindSection(f, present[k])]
           slots == InFileOrder(span)
           Moved(k) == SubSeq(f, span[k][1], span[k][2] - 1)
           Gap(k) == SubSeq(f, IF k = 1 THEN 1 ELSE slots[k - 1][2], slots[k][1] - 1)
           chunks == [k \in DOMAIN present |-> Gap(k) \o Moved(k)]
<1>1. Reorder(f, records) =
         IF n < 2 THEN f ELSE FlattenSeq(chunks) \o SubSeq(f, slots[n][2], Len(f))
  BY DEF Reorder
<1>2. f \in Seq(Lines) /\ Len(f) \in Nat /\ DOMAIN f = 1 .. Len(f)
  BY ShapedDomain
<1>3. present \in Seq(found)
  <2>1. PICK S : Order(records) \in Seq(S)
    BY OrderType
  <2> HIDE DEF found
  <2>2. Among(Order(records), found) \in Seq(S \cap found)
    BY <2>1, AmongType
  <2>3. QED
    BY <2>2, SeqMonotonic
<1>4. n \in Nat /\ DOMAIN present = 1 .. n /\ \A k \in 1 .. n : present[k] \in found
  BY <1>3, LenProperties
<1> HIDE DEF present
<1>5. DOMAIN span = 1 .. n /\ \A k \in 1 .. n : IsSection(f, span[k])
  BY <1>2, <1>4, FindSectionIs
<1>6. span \in [1 .. n -> Nat \X Nat]
  <2>1. \A s : IsSection(f, s) => s \in Nat \X Nat
    BY <1>2 DEF IsSection
  <2>2. \A k \in 1 .. n : span[k] \in Nat \X Nat
    BY <1>5, <2>1
  <2>3. span = [k \in 1 .. n |-> span[k]]
    BY <1>4
  <2> HIDE DEF span
  <2>4. QED
    BY <2>2, <2>3
<1> HIDE DEF span
<1>7. /\ \A k \in 1 .. n : IsSection(f, slots[k])
      /\ \A j, k \in 1 .. n : j < k => slots[j][1] <= slots[k][1]
  <2>1. /\ \A k \in 1 .. n : \E i \in 1 .. n : slots[k] = span[i]
        /\ \A j, k \in 1 .. n : j < k => slots[j][1] <= slots[k][1]
    BY <1>4, <1>6, InFileOrderIs
  <2> HIDE DEF slots
  <2>2. QED
    BY <1>5, <2>1
<1> HIDE DEF slots
<1>8. ASSUME NEW k \in 1 .. n PROVE Moved(k) \in Seq(Simple)
  BY <1>5, SectionLines
<1>9. ASSUME NEW k \in 1 .. n PROVE Gap(k) \in Seq(Lines)
  <2> DEFINE a == IF k = 1 THEN 1 ELSE slots[k - 1][2]
             b == slots[k][1]
  <2>1. b \in Nat /\ b <= Len(f) + 1
    <3>1. b \in 2 .. Len(f)
      BY <1>7, SpanCuts
    <3>2. QED
      BY <1>2, <3>1
  <2>2. a \in Nat \ {0}
    <3>1. CASE k = 1
      BY <3>1
    <3>2. CASE k # 1
      <4>1. k - 1 \in 1 .. n
        BY <1>4, <3>2
      <4>2. slots[k - 1][1] \in 2 .. Len(f) /\ slots[k - 1][2] \in slots[k - 1][1] + 1 .. Len(f) + 1
        BY <1>7, <4>1, SpanCuts
      <4>3. slots[k - 1][2] \in Nat \ {0}
        BY <1>2, <4>2
      <4>4. QED
        BY <3>2, <4>3
    <3>3. QED
      BY <3>1, <3>2
  <2> HIDE DEF a, b
  <2>3. SubSeq(f, a, b - 1) \in Seq(Lines)
    BY <1>2, <2>1, <2>2, CutOut
  <2>4. QED
    BY <2>3 DEF a, b
<1>10. chunks \in Seq(Seq(Lines)) /\ Len(chunks) = n
       /\ \A k \in 1 .. n : chunks[k] = Gap(k) \o Moved(k)
  <2>1. ASSUME NEW k \in 1 .. n PROVE Gap(k) \o Moved(k) \in Seq(Lines)
    <3>1. Simple \subseteq Lines
      BY DEF Simple
    <3> HIDE DEF Gap, Moved
    <3>2. Moved(k) \in Seq(Lines)
      BY <1>8, <3>1, SeqMonotonic
    <3>3. QED
      BY <1>9, <3>2, ConcatProperties
  <2> HIDE DEF Gap, Moved
  <2>2. chunks \in [1 .. n -> Seq(Lines)] /\ \A k \in 1 .. n : chunks[k] = Gap(k) \o Moved(k)
    BY <1>4, <2>1
  <2> HIDE DEF chunks
  <2>3. QED
    BY <1>4, <2>2, SeqDef
<1> HIDE DEF chunks
<1>gaps. \A i, j \in Nat : i = j + 1 /\ i # 1 => Gap(i) = SubSeq(f, slots[j][2], slots[i][1] - 1)
  <2> SUFFICES ASSUME NEW i \in Nat, NEW j \in Nat, i = j + 1, i # 1
               PROVE  Gap(i) = SubSeq(f, slots[j][2], slots[i][1] - 1)
    OBVIOUS
  <2>1. i - 1 = j
    OBVIOUS
  <2>2. (IF i = 1 THEN 1 ELSE slots[i - 1][2]) = slots[j][2]
    BY <2>1
  <2>3. QED
    BY <2>2
<1>11. CASE n < 2
  BY <1>1, <1>11
<1>12. CASE ~(n < 2)
  <2> DEFINE flat == Flat(chunks)
             T == {k \in Nat : k \in 1 .. n => SoFar(f, flat[k], slots[k][2])}
  <2>1. FlatTo(flat, chunks, n)
    BY <1>10, FlatExists
  <2> HIDE DEF flat
  <2>2. SoFar(f, flat[1], slots[1][2])
    <3>1. 1 \in 1 .. n
      BY <1>4, <1>12
    <3>2. flat[1] = chunks[1]
      BY <2>1, <3>1 DEF FlatTo
    <3>3. chunks[1] = SubSeq(f, 1, slots[1][1] - 1) \o Moved(1)
      BY <1>10, <3>1
    <3> HIDE DEF Moved
    <3>4. SoFar(f, SubSeq(f, 1, slots[1][1] - 1) \o Moved(1), slots[1][2])
      BY <1>7, <1>8, <3>1, FirstChunk
    <3>5. QED
      BY <3>2, <3>3, <3>4
  <2>3. ASSUME NEW k \in T PROVE k + 1 \in T
    <3>1. k \in Nat
      OBVIOUS
    <3>2. ASSUME k + 1 \in 1 .. n PROVE SoFar(f, flat[k + 1], slots[k + 1][2])
      <4>1. CASE k = 0
        <5>1. k + 1 = 1
          BY <4>1
        <5>2. QED
          BY <2>2, <5>1
      <4>2. CASE k # 0
        <5>1. k \in 1 .. n /\ k + 1 - 1 = k /\ k + 1 # 1 /\ k < k + 1
          BY <1>4, <3>1, <3>2, <4>2
        <5>2. SoFar(f, flat[k], slots[k][2])
          BY <5>1
        <5>3. flat[k + 1] = flat[k] \o chunks[k + 1]
          <6>1. flat[k + 1] = IF k + 1 = 1 THEN chunks[k + 1]
                              ELSE flat[k + 1 - 1] \o chunks[k + 1]
            BY <2>1, <3>2 DEF FlatTo
          <6>2. k + 1 - 1 = k
            BY <5>1
          <6>3. k + 1 # 1
            BY <5>1
          <6>4. QED
            BY <6>1, <6>2, <6>3
        <5>4. chunks[k + 1] = SubSeq(f, slots[k][2], slots[k + 1][1] - 1) \o Moved(k + 1)
          <6> HIDE DEF Gap
          <6>1. Gap(k + 1) = SubSeq(f, slots[k][2], slots[k + 1][1] - 1)
            <7> DEFINE i == k + 1
            <7>1. i \in Nat /\ i = k + 1 /\ i # 1
              BY <3>1, <5>1
            <7> HIDE DEF i
            <7>2. Gap(i) = SubSeq(f, slots[k][2], slots[i][1] - 1)
              BY <1>gaps, <3>1, <7>1
            <7>3. QED
              BY <7>1, <7>2
          <6> HIDE DEF Gap, Moved
          <6>2. chunks[k + 1] = Gap(k + 1) \o Moved(k + 1)
            BY <1>10, <3>2
          <6>3. QED
            BY <6>1, <6>2
        <5> DEFINE x == slots[k]
                   y == slots[k + 1]
                   s == Moved(k + 1)
                   P == flat[k]
        <5>5. IsSection(f, x) /\ IsSection(f, y) /\ x[1] <= y[1]
          BY <1>7, <3>2, <5>1
        <5>6. s \in Seq(Simple)
          BY <1>8, <3>2
        <5>7. SoFar(f, P, x[2])
          BY <5>2
        <5> HIDE DEF x, y, s, P
        <5>8. SoFar(f, P \o (SubSeq(f, x[2], y[1] - 1) \o s), y[2])
          BY <5>5, <5>6, <5>7, NextChunk
        <5> HIDE DEF Moved, Gap
        <5>9. QED
          BY <5>3, <5>4, <5>8 DEF x, y, s, P
      <4>3. QED
        BY <4>1, <4>2
    <3>3. QED
      BY <3>1, <3>2
  <2>4. SoFar(f, flat[n], slots[n][2])
    <3>1. T \in SUBSET Nat /\ 0 \in T
      OBVIOUS
    <3> HIDE DEF T
    <3>2. n \in T
      BY <1>4, <2>3, <3>1, NatSets
    <3>3. n \in 1 .. n
      BY <1>4, <1>12
    <3>4. QED
      BY <3>2, <3>3 DEF T
  <2> DEFINE P == flat[n]
             a == slots[n][2]
             N == Len(f)
             b == N + 1
  <2>5. SoFar(f, P, a)
    BY <2>4
  <2>6. n \in 1 .. n
    BY <1>4, <1>12
  <2>7. CutAt(f, a) /\ a \in Nat /\ a <= b
    <3>1. slots[n][1] \in 2 .. N /\ a \in slots[n][1] + 1 .. N + 1 /\ CutAt(f, a)
      BY <1>7, <2>6, SpanCuts
    <3>2. QED
      BY <1>2, <3>1
  <2>8. FlattenSeq(chunks) = P
    <3>1. Len(chunks) # 0 /\ Len(chunks) = n
      BY <1>10, <2>6
    <3>2. FlattenSeq(chunks) = Flat(chunks)[Len(chunks)]
      BY <3>1, FlattenIs
    <3>3. QED
      BY <3>1, <3>2 DEF flat
  <2> HIDE DEF P, a
  <2>9. b = N + 1 /\ b - 1 = N /\ b \in Nat /\ b \in 2 .. N + 1
    BY <1>2, <2>7 DEF CutAt
  <2> HIDE DEF b
  <2>10. EndsAt(f, b)
    BY <2>9, CutAtKind, CutsEnd
  <2>11. \A i \in DOMAIN P, j \in a .. b - 1 :
            ~(P[i].kind = "unreleased" /\ f[j].kind = "unreleased")
    <3> SUFFICES ASSUME NEW i \in DOMAIN P, NEW j \in a .. b - 1,
                        P[i].kind = "unreleased", f[j].kind = "unreleased"
                 PROVE  FALSE
      OBVIOUS
    <3>1. PICK k \in 1 .. a - 1 : f[k].kind = "unreleased"
      BY <2>5 DEF SoFar
    <3>2. k \in DOMAIN f /\ j \in DOMAIN f /\ k # j
      BY <1>2, <2>7, <2>9 DEF CutAt
    <3>3. QED
      BY <3>1, <3>2 DEF Shaped
  <2>12. Shaped(P) /\ P # <<>>
    BY <2>5 DEF SoFar
  <2>13. Shaped(P \o SubSeq(f, a, b - 1)) /\ P \o SubSeq(f, a, b - 1) # <<>>
    <3>1. a \in Nat /\ b \in Nat /\ a <= b /\ CutAt(f, a)
      BY <2>7, <2>9
    <3>2. /\ Shaped(P \o SubSeq(f, a, b - 1)) /\ P \o SubSeq(f, a, b - 1) # <<>>
          /\ \A i \in DOMAIN (P \o SubSeq(f, a, b - 1)) :
                \/ i \in DOMAIN P /\ (P \o SubSeq(f, a, b - 1))[i] = P[i]
                \/ \E j \in a .. b - 1 : (P \o SubSeq(f, a, b - 1))[i] = f[j]
      BY <2>10, <2>11, <2>12, <3>1, GapAppended
    <3>3. QED
      BY <3>2
  <2>14. Reorder(f, records) = P \o SubSeq(f, a, N)
    BY <1>1, <1>12, <2>8 DEF a
  <2>15. QED
    BY <2>9, <2>13, <2>14
<1>13. QED
  BY <1>11, <1>12

-----------------------------------------------------------------------------
(* The commands, and what they have planned to write.                      *)

LEMMA BuiltShaped ==
    ASSUME NEW f, Shaped(f), NEW v \in Versions, NEW replace
    PROVE  Shaped(Built(f, v, replace))
<1> DEFINE merged == IF replace /\ FindSection(f, v) # NoSpan
                     THEN Splice(f, FindSection(f, v), Section(v))
                     ELSE Insert(f, v)
           sorted == Reorder(merged, Active)
<1>1. Built(f, v, replace) = UpdateRefs(sorted, {NoVersion, v})
  BY DEF Built
<1>2. Shaped(merged) /\ merged # <<>>
  <2>1. CASE replace /\ FindSection(f, v) # NoSpan
    <3>1. Section(v) \in Seq(Simple)
      BY SectionSimple
    <3>2. /\ Shaped(Splice(f, FindSection(f, v), Section(v)))
          /\ Splice(f, FindSection(f, v), Section(v)) # <<>>
      BY <2>1, <3>1, SectionSpliced
    <3>3. QED
      BY <2>1, <3>2
  <2>2. CASE ~(replace /\ FindSection(f, v) # NoSpan)
    <3>1. Shaped(Insert(f, v)) /\ Insert(f, v) # <<>>
      BY InsertShaped
    <3>2. QED
      BY <2>2, <3>1
  <2>3. QED
    BY <2>1, <2>2
<1> HIDE DEF merged
<1>3. Shaped(sorted) /\ sorted # <<>>
  BY <1>2, ReorderShaped
<1> HIDE DEF sorted
<1>4. Shaped(UpdateRefs(sorted, {NoVersion, v}))
  BY <1>3, UpdateRefsShaped
<1>5. QED
  BY <1>1, <1>4

\* No release is folded and listed in f.
ListedOnce(f) == ~\E i \in DOMAIN f : f[i].kind = "start" /\ f[i].of \in Headings(f)

LEMMA FullListedOnce ==
    ASSUME NEW f, Shaped(f), NEW names, NEW fold \in Versions \cup {NoVersion},
           NEW preserve \in BOOLEAN
    PROVE  ListedOnce(Full(f, names, fold, preserve))
<1> DEFINE t == Full(f, names, fold, preserve)
           T == ToSet(Selected(names, fold))
<1>1. t \in Seq(Telling(T))
  BY FullIs
<1> HIDE DEF t, T
<1>2. \A i \in DOMAIN t : t[i] \in Telling(T)
  BY <1>1, LenProperties
<1>3. Headings(t) \subseteq T
  BY <1>2 DEF Headings, Telling
<1>4. \A i \in DOMAIN t : t[i].kind = "start" => t[i].of \notin T
  BY <1>2 DEF Telling
<1>5. ListedOnce(t)
  BY <1>3, <1>4 DEF ListedOnce
<1>6. QED
  BY <1>5 DEF t

\* What a command that has read will write keeps the shape, and lists a release
\* once if it is a full build.
Planned ==
    /\ DOMAIN job = Procs
    /\ \A p \in Procs : pc[p] = "write" =>
          Shaped(job[p].text) /\ (job[p].command = "all" => ListedOnce(job[p].text))

IInv == TypeOK /\ Planned

IsJob(j) ==
    j = [command |-> j.command, version |-> j.version, to |-> j.to, option |-> j.option,
         names |-> j.names, base |-> j.base, records |-> j.records, text |-> j.text]

LEMMA JobIs ==
    ASSUME NEW c, NEW v, NEW names, NEW x
    PROVE  /\ IsJob(Job(c, v, names)) /\ Job(c, v, names).command = c
           /\ IsJob([Job(c, v, names) EXCEPT !.option = x])
           /\ [Job(c, v, names) EXCEPT !.option = x].command = c
           /\ IsJob([Job(c, v, names) EXCEPT !.to = x])
           /\ [Job(c, v, names) EXCEPT !.to = x].command = c
BY DEF Job, IsJob

LEMMA StartKeeps ==
    ASSUME IInv, NEW p \in Procs, NEW j, IsJob(j), NEW text, Start(p, j, text),
           Shaped(text), j.command = "all" => ListedOnce(text)
    PROVE  IInv'
<1> DEFINE k == [j EXCEPT !.base = file, !.records = Active, !.text = text]
<1>1. k.command = j.command /\ k.text = text
  BY DEF IsJob
<1>2. job' = [job EXCEPT ![p] = k] /\ pc' = [pc EXCEPT ![p] = "write"]
      /\ runs' = runs + 1 /\ runs < MaxRuns
      /\ file' = file /\ status' = status /\ changes' = changes
  BY DEF Start
<1> HIDE DEF k
<1>3. DOMAIN job = Procs /\ pc \in [Procs -> {"idle", "write"}]
  BY DEF IInv, Planned, TypeOK
<1>4. DOMAIN job' = Procs /\ job'[p] = k /\ \A q \in Procs : q # p => job'[q] = job[q]
  BY <1>2, <1>3
<1>5. /\ pc' \in [Procs -> {"idle", "write"}] /\ pc'[p] = "write"
      /\ \A q \in Procs : q # p => pc'[q] = pc[q]
  BY <1>2, <1>3
<1>6. TypeOK'
  <2>1. runs' \in 0 .. MaxRuns
    BY <1>2, ChangelogAssumption DEF IInv, TypeOK
  <2>2. \A q \in Procs : pc'[q] = "idle" => job'[q] = NoJob
    <3> SUFFICES ASSUME NEW q \in Procs, pc'[q] = "idle" PROVE job'[q] = NoJob
      OBVIOUS
    <3>1. q # p
      BY <1>5
    <3>2. pc[q] = "idle" => job[q] = NoJob
      BY DEF IInv, TypeOK
    <3>3. QED
      BY <1>4, <1>5, <3>1, <3>2
  <2>3. Shaped(file)'
    BY <1>2 DEF IInv, TypeOK, Shaped
  <2>4. status' \in [Versions -> Statuses] /\ changes' \in 0 .. MaxChanges
    BY <1>2 DEF IInv, TypeOK
  <2>5. QED
    BY <1>5, <2>1, <2>2, <2>3, <2>4 DEF TypeOK
<1>7. Planned'
  <2>1. ASSUME NEW q \in Procs, pc'[q] = "write"
        PROVE  Shaped(job'[q].text) /\ (job'[q].command = "all" => ListedOnce(job'[q].text))
    <3>1. CASE q = p
      BY <1>1, <1>4, <3>1
    <3>2. CASE q # p
      <4>1. pc[q] = "write" /\ job'[q] = job[q]
        BY <1>4, <1>5, <2>1, <3>2
      <4>2. Shaped(job[q].text) /\ (job[q].command = "all" => ListedOnce(job[q].text))
        BY <4>1 DEF IInv, Planned
      <4>3. QED
        BY <4>1, <4>2
    <3>3. QED
      BY <3>1, <3>2
  <2>2. QED
    BY <1>4, <2>1 DEF Planned, Shaped, ListedOnce, Headings
<1>8. QED
  BY <1>6, <1>7 DEF IInv

LEMMA PlannedInit == Init => IInv
<1> SUFFICES ASSUME Init PROVE IInv
  OBVIOUS
<1>1. file \in FirstFiles
  BY DEF Init
<1>2. Shaped(file)
  BY <1>1, ShapeAssumption
<1>3. status \in [Versions -> Statuses]
  BY DEF Init, Statuses
<1>4. pc = [p \in Procs |-> "idle"] /\ job = [p \in Procs |-> NoJob]
  BY DEF Init
<1>5. runs \in 0 .. MaxRuns /\ changes \in 0 .. MaxChanges
  BY ChangelogAssumption DEF Init
<1>6. TypeOK
  BY <1>2, <1>3, <1>4, <1>5 DEF TypeOK
<1>7. Planned
  BY <1>4 DEF Planned
<1>8. QED
  BY <1>6, <1>7 DEF IInv

LEMMA BuildKeeps ==
    ASSUME IInv, NEW p \in Procs, NEW v \in Versions, NEW replace \in BOOLEAN, NEW policy,
           Build(p, v, replace, policy)
    PROVE  IInv'
<1> DEFINE text == IF policy = "consume" THEN ClearBody(file) ELSE file
           j == [Job("build", v, NoNames) EXCEPT !.option = policy]
<1>1. Shaped(file)
  BY DEF IInv, TypeOK
<1>2. Shaped(text)
  BY <1>1, ClearBodyShaped
<1>3. Start(p, j, Built(text, v, replace))
  BY DEF Build
<1> HIDE DEF text
<1>4. Shaped(Built(text, v, replace))
  BY <1>2, BuiltShaped
<1>5. IsJob(j) /\ j.command = "build"
  <2>1. IsJob(j)
    BY JobIs
  <2>2. j.command = "build"
    BY DEF Job
  <2>3. QED
    BY <2>1, <2>2
<1> HIDE DEF j
<1>6. QED
  BY <1>3, <1>4, <1>5, StartKeeps

LEMMA BuildAllKeeps ==
    ASSUME IInv, NEW p \in Procs, NEW names, NEW fold \in Versions \cup {NoVersion},
           NEW preserve \in BOOLEAN, BuildAll(p, names, fold, preserve)
    PROVE  IInv'
<1> DEFINE text == Full(file, names, fold, preserve)
           o == IF preserve THEN "preserve" ELSE "drop"
           j == [Job("all", fold, names) EXCEPT !.option = o]
<1>1. Shaped(file)
  BY DEF IInv, TypeOK
<1>2. Shaped(text) /\ ListedOnce(text)
  BY <1>1, FullIs, FullListedOnce
<1>3. Start(p, j, text)
  BY DEF BuildAll
<1> HIDE DEF text, o
<1>4. IsJob(j)
  BY JobIs
<1> HIDE DEF j
<1>5. QED
  BY <1>2, <1>3, <1>4, StartKeeps

LEMMA RemoveKeeps ==
    ASSUME IInv, NEW p \in Procs, NEW v \in Versions, NEW ignore, RemoveSection(p, v, ignore)
    PROVE  IInv'
<1> DEFINE j == Job("remove", v, NoNames)
<1>1. Shaped(file)
  BY DEF IInv, TypeOK
<1>2. Shaped(Removed(file, v))
  BY <1>1, RemovedShaped
<1>3. Start(p, j, Removed(file, v))
  BY DEF RemoveSection
<1>4. IsJob(j) /\ j.command = "remove"
  BY JobIs
<1> HIDE DEF j
<1>5. QED
  BY <1>2, <1>3, <1>4, StartKeeps

LEMMA RenameKeeps ==
    ASSUME IInv, NEW p \in Procs, NEW v \in Versions, NEW w \in Versions, NEW replace,
           RenameSection(p, v, w, replace)
    PROVE  IInv'
<1> DEFINE j == [Job("rename", v, NoNames) EXCEPT !.to = w]
<1>1. Shaped(file)
  BY DEF IInv, TypeOK
<1>2. Shaped(Renamed(file, v, w))
  BY <1>1, RenamedShaped
<1>3. Start(p, j, Renamed(file, v, w))
  BY DEF RenameSection
<1>4. IsJob(j) /\ j.command = "rename"
  <2>1. IsJob(j)
    BY JobIs
  <2>2. j.command = "rename"
    BY DEF Job
  <2>3. QED
    BY <2>1, <2>2
<1> HIDE DEF j
<1>5. QED
  BY <1>2, <1>3, <1>4, StartKeeps

LEMMA WriteKeeps ==
    ASSUME IInv, NEW p \in Procs, Write(p)
    PROVE  IInv'
<1>1. /\ pc[p] = "write" /\ file' = job[p].text
      /\ pc' = [pc EXCEPT ![p] = "idle"] /\ job' = [job EXCEPT ![p] = NoJob]
      /\ status' = status /\ runs' = runs /\ changes' = changes
  BY DEF Write
<1>2. DOMAIN job = Procs /\ pc \in [Procs -> {"idle", "write"}]
  BY DEF IInv, Planned, TypeOK
<1>3. DOMAIN job' = Procs /\ job'[p] = NoJob /\ \A q \in Procs : q # p => job'[q] = job[q]
  BY <1>1, <1>2
<1>4. /\ pc' \in [Procs -> {"idle", "write"}] /\ pc'[p] = "idle"
      /\ \A q \in Procs : q # p => pc'[q] = pc[q]
  BY <1>1, <1>2
<1>5. Shaped(job[p].text)
  BY <1>1 DEF IInv, Planned
<1>6. Shaped(file)'
  BY <1>1, <1>5 DEF Shaped
<1>7. \A q \in Procs : pc'[q] = "idle" => job'[q] = NoJob
  BY <1>3, <1>4 DEF IInv, TypeOK
<1>8. /\ status' \in [Versions -> Statuses]
      /\ runs' \in 0 .. MaxRuns /\ changes' \in 0 .. MaxChanges
  BY <1>1 DEF IInv, TypeOK
<1>9. TypeOK'
  BY <1>4, <1>6, <1>7, <1>8 DEF TypeOK
<1>10. ASSUME NEW q \in Procs, pc'[q] = "write"
       PROVE  Shaped(job'[q].text) /\ (job'[q].command = "all" => ListedOnce(job'[q].text))
  <2>1. q # p
    BY <1>4, <1>10
  <2>2. pc[q] = "write" /\ job'[q] = job[q]
    BY <1>3, <1>4, <1>10, <2>1
  <2>3. Shaped(job[q].text) /\ (job[q].command = "all" => ListedOnce(job[q].text))
    BY <2>2 DEF IInv, Planned
  <2>4. QED
    BY <2>2, <2>3
<1>11. Planned'
  BY <1>3, <1>10 DEF Planned, Shaped, ListedOnce, Headings
<1>12. QED
  BY <1>9, <1>11 DEF IInv

\* Commands on the records leave the files and the plans alone.
LEMMA UnchangedKeeps ==
    ASSUME IInv, UNCHANGED <<file, pc, job>>,
           status' \in [Versions -> Statuses], runs' = runs, changes' \in 0 .. MaxChanges
    PROVE  IInv'
<1>1. TypeOK'
  BY DEF IInv, TypeOK, Shaped
<1>2. Planned'
  BY DEF IInv, Planned, Shaped, ListedOnce, Headings
<1>3. QED
  BY <1>1, <1>2 DEF IInv

LEMMA PlannedStep == IInv /\ [Next]_vars => IInv'
<1> SUFFICES ASSUME IInv, [Next]_vars PROVE IInv'
  OBVIOUS
<1>0. /\ status \in [Versions -> Statuses] /\ changes \in 0 .. MaxChanges
  BY DEF IInv, TypeOK
<1>1. CASE UNCHANGED vars
  <2>1. UNCHANGED <<file, pc, job>> /\ status' = status /\ runs' = runs /\ changes' = changes
    BY <1>1 DEF vars
  <2>2. QED
    BY <1>0, <2>1, UnchangedKeeps
<1>2. ASSUME NEW p \in Procs, Write(p) PROVE IInv'
  BY <1>2, WriteKeeps
<1>3. ASSUME NEW p \in Procs, NEW v \in Versions, NEW replace \in BOOLEAN,
             NEW policy \in {"preserve", "consume"}, Build(p, v, replace, policy)
      PROVE  IInv'
  BY <1>3, BuildKeeps
<1>4. ASSUME NEW p \in Procs, NEW names \in {{"released"}, {"released", "candidate"}},
             NEW fold \in Versions \cup {NoVersion}, NEW preserve \in BOOLEAN,
             BuildAll(p, names, fold, preserve)
      PROVE  IInv'
  BY <1>4, BuildAllKeeps
<1>5. ASSUME NEW p \in Procs, NEW v \in Versions, NEW ignore \in BOOLEAN,
             RemoveSection(p, v, ignore)
      PROVE  IInv'
  BY <1>5, RemoveKeeps
<1>6. ASSUME NEW p \in Procs, NEW v \in Versions, NEW w \in Versions,
             NEW replace \in BOOLEAN, RenameSection(p, v, w, replace)
      PROVE  IInv'
  BY <1>6, RenameKeeps
<1>7. ASSUME NEW v \in Versions, NEW s \in Statuses, ChangeStatus(v, s) PROVE IInv'
  <2>1. /\ UNCHANGED <<file, pc, job>> /\ runs' = runs
        /\ changes < MaxChanges /\ changes' = changes + 1
        /\ status' = [status EXCEPT ![v] = s]
    BY <1>7 DEF ChangeStatus
  <2>2. status' \in [Versions -> Statuses] /\ changes' \in 0 .. MaxChanges
    BY <1>0, <2>1, ChangelogAssumption
  <2>3. QED
    BY <2>1, <2>2, UnchangedKeeps
<1>8. CASE Rest
  <2>1. UNCHANGED vars
    BY <1>8 DEF Rest
  <2>2. QED
    BY <1>1, <2>1
<1>9. QED
  BY <1>1, <1>2, <1>3, <1>4, <1>5, <1>6, <1>7, <1>8 DEF Next

LEMMA AlwaysPlanned == Spec => []IInv
<1>1. QED
  BY PlannedInit, PlannedStep, PTL DEF Spec

\* For any releases, chains, processes and commands: the changelog keeps its
\* title, its one Unreleased heading and the markers of a folded release around
\* their bullet, in every order of reading and writing.
THEOREM ChangelogTypes == Spec => []TypeOK
<1>1. IInv => TypeOK
  BY DEF IInv
<1>2. QED
  BY <1>1, AlwaysPlanned, PTL

LEMMA WritesPlanned ==
    ASSUME IInv, [Next]_vars, NEW p \in Procs, Writes(p)
    PROVE  Write(p)
<1>1. pc[p] = "write" /\ pc'[p] = "idle" /\ pc'[p] # pc[p]
  BY DEF Writes
<1>2. pc \in [Procs -> {"idle", "write"}]
  BY DEF IInv, TypeOK
<1>3. CASE pc' = pc
  BY <1>1, <1>3
<1>4. ASSUME NEW q \in Procs, pc' = [pc EXCEPT ![q] = "write"] PROVE FALSE
  BY <1>1, <1>2, <1>4
<1>5. ASSUME NEW q \in Procs, Write(q) PROVE Write(p)
  <2>1. pc' = [pc EXCEPT ![q] = "idle"]
    BY <1>5 DEF Write
  <2>2. q = p
    BY <1>1, <1>2, <2>1
  <2>3. QED
    BY <1>5, <2>2
<1>6. QED
  BY <1>3, <1>4, <1>5 DEF Next, vars, Build, BuildAll, RemoveSection, RenameSection, Start,
     ChangeStatus, Rest

\* The same, for one step: the file a full build leaves lists no folded release.
LEMMA FoldedStep ==
    IInv /\ [Next]_vars =>
        (\A p \in Procs : Writes(p) /\ job[p].command = "all" =>
            ~\E i \in DOMAIN file' : file'[i].kind = "start" /\ file'[i].of \in Headings(file'))
<1> SUFFICES ASSUME IInv, [Next]_vars, NEW p \in Procs, Writes(p), job[p].command = "all"
             PROVE  ~\E i \in DOMAIN file' :
                        file'[i].kind = "start" /\ file'[i].of \in Headings(file')
  OBVIOUS
<1>1. Write(p)
  BY WritesPlanned
<1>2. pc[p] = "write" /\ file' = job[p].text
  BY <1>1 DEF Write
<1>3. ListedOnce(job[p].text)
  BY <1>2 DEF IInv, Planned
<1>4. ListedOnce(file')
  BY <1>2, <1>3
<1>5. QED
  BY <1>4 DEF ListedOnce

\* For any releases, chains, files, processes and commands: a full build never
\* leaves a release folded into Unreleased and listed with a section as well.
THEOREM FoldedListedOnce == Spec => FoldedOnce
<1>1. QED
  BY AlwaysPlanned, FoldedStep, PTL DEF Spec, FoldedOnce

=============================================================================
