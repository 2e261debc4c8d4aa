------------------------------ MODULE SequenceFacts ------------------------------
(***************************************************************************)
(* Facts about natural numbers, finite sets of them, and flattened          *)
(* sequences, on which proofs about this project's models rest.             *)
(*                                                                          *)
(* Induction is used in the form of sets: a non-empty set of numbers has a  *)
(* least one, which follows from the strict subsets of finite sets being    *)
(* well-founded.                                                            *)
(***************************************************************************)
EXTENDS SequencesExt, FiniteSetTheorems, SequenceTheorems, TLAPS

-------------------------------------------------------------------------------
(* Induction.                                                               *)

\* The least number of a set: the one whose smaller numbers are the fewest.
LEMMA LeastNat ==
  ASSUME NEW T, T \subseteq Nat, T # {} PROVE \E m \in T : \A k \in T : m <= k
<1> DEFINE R == StrictSubsetOrdering(Nat)
           F == {0 .. n : n \in T}
<1>1. IsWellFoundedOn(R, FiniteSubsetsOf(Nat)) BY FS_StrictSubsetOrderingWellFounded
<1>2. F \subseteq FiniteSubsetsOf(Nat)
  <2>1. ASSUME NEW n \in T PROVE 0 .. n \in FiniteSubsetsOf(Nat)
    <3>1. n \in Int /\ 0 \in Int /\ 0 .. n \subseteq Nat OBVIOUS
    <3>2. IsFiniteSet(0 .. n) BY <3>1, FS_Interval
    <3> QED BY <3>1, <3>2 DEF FiniteSubsetsOf
  <2> QED BY <2>1
<1>3. F # {} OBVIOUS
<1>4. \E x \in F : \A y \in F : ~ (<<y, x>> \in R)
  <2> HIDE DEF R, F
  <2> QED BY <1>1, <1>2, <1>3, WFMin
<1>5. PICK m \in T : \A y \in F : ~ (<<y, 0 .. m>> \in R) BY <1>4
<1>6. ASSUME NEW k \in T, k < m PROVE FALSE
  <2>1. /\ 0 .. k \subseteq 0 .. m /\ 0 .. k # 0 .. m
        /\ 0 .. k \in SUBSET Nat /\ 0 .. m \in SUBSET Nat
    <3>1. m \in 0 .. m /\ m \notin 0 .. k BY <1>6
    <3> QED BY <1>6, <3>1
  <2>2. <<0 .. k, 0 .. m>> \in R BY <2>1 DEF StrictSubsetOrdering
  <2> QED BY <1>5, <2>2
<1> QED BY <1>6

\* Induction over the numbers up to a bound.
LEMMA Induction ==
  ASSUME NEW n \in Nat, NEW T, 0 \in T, \A i \in 0 .. n - 1 : i \in T => i + 1 \in T
  PROVE  \A i \in 0 .. n : i \in T
<1> SUFFICES ASSUME (0 .. n) \ T # {} PROVE FALSE OBVIOUS
<1>1. PICK m \in (0 .. n) \ T : \A k \in (0 .. n) \ T : m <= k
  <2>1. (0 .. n) \ T \subseteq Nat OBVIOUS
  <2> QED BY <2>1, LeastNat
<1>2. m # 0 /\ m - 1 \in 0 .. n - 1 /\ m - 1 \in 0 .. n OBVIOUS
<1>3. m - 1 \in T BY <1>1, <1>2
<1>4. (m - 1) + 1 = m OBVIOUS
<1> QED BY <1>1, <1>2, <1>3, <1>4

-------------------------------------------------------------------------------
(* The greatest number of a finite set, and its members in order.           *)

LEMMA GreatestNat ==
  ASSUME NEW S, S \subseteq Nat, IsFiniteSet(S), S # {}
  PROVE  \E m \in S : \A k \in S : k <= m
<1> DEFINE above(x) == {y \in S : y > x}
           R == StrictSubsetOrdering(S)
           F == {above(x) : x \in S}
<1>1. IsWellFoundedOn(R, FiniteSubsetsOf(S)) BY FS_StrictSubsetOrderingWellFounded
<1>2. F \subseteq FiniteSubsetsOf(S)
  <2>1. ASSUME NEW x \in S PROVE above(x) \in FiniteSubsetsOf(S)
    <3>1. above(x) \in SUBSET S OBVIOUS
    <3>2. IsFiniteSet(above(x)) BY <3>1, FS_Subset
    <3> QED BY <3>1, <3>2 DEF FiniteSubsetsOf
  <2> QED BY <2>1
<1>3. F # {} OBVIOUS
<1>4. \E x \in F : \A y \in F : ~ (<<y, x>> \in R)
  <2> HIDE DEF R, F
  <2> QED BY <1>1, <1>2, <1>3, WFMin
<1>5. PICK m \in S : \A y \in F : ~ (<<y, above(m)>> \in R) BY <1>4
<1>6. ASSUME NEW k \in S, k > m PROVE FALSE
  <2>1. /\ above(k) \subseteq above(m) /\ k \in above(m) /\ k \notin above(k)
        /\ above(k) \in SUBSET S /\ above(m) \in SUBSET S
    <3>1. k \in Nat /\ m \in Nat /\ k > m BY <1>6
    <3>2. \A y \in S : y \in Nat /\ (y > k => y > m) BY <3>1
    <3>3. ~(k > k) BY <3>1
    <3> QED BY <3>1, <3>2, <3>3
  <2>2. <<above(k), above(m)>> \in R
    <3> HIDE DEF above
    <3> QED BY <2>1 DEF StrictSubsetOrdering
  <2>3. above(k) \in F OBVIOUS
  <2> QED BY <1>5, <2>2, <2>3
<1>7. \A k \in S : k <= m
  <2> SUFFICES ASSUME NEW k \in S PROVE k <= m OBVIOUS
  <2>1. k \in Nat /\ m \in Nat OBVIOUS
  <2> QED BY <1>6, <2>1
<1> QED BY <1>7

LEMMA MaxIs ==
  ASSUME NEW S, S \subseteq Nat, IsFiniteSet(S), S # {}
  PROVE  Max(S) \in S /\ \A k \in S : k <= Max(S)
<1>1. PICK m \in S : \A k \in S : k <= m BY GreatestNat
<1>2. \A k \in S : m >= k BY <1>1
<1>3. Max(S) \in S /\ \A k \in S : Max(S) >= k BY <1>2 DEF Max
<1> QED BY <1>3

LEMMA MinIs ==
  ASSUME NEW S, S \subseteq Nat, S # {}
  PROVE  Min(S) \in S /\ \A k \in S : Min(S) <= k
<1>1. PICK m \in S : \A k \in S : m <= k BY LeastNat
<1> QED BY <1>1 DEF Min

\* The values of a function on a finite set.
LEMMA ValuesFinite ==
  ASSUME NEW S, IsFiniteSet(S), NEW f, f = [x \in S |-> f[x]]
  PROVE  IsFiniteSet({f[x] : x \in S})
<1> DEFINE T == {f[x] : x \in S}
<1>1. f \in [S -> T] BY DEF T
<1>2. \A t \in T : \E x \in S : f[x] = t OBVIOUS
<1> HIDE DEF T
<1>3. f \in Surjection(S, T) BY <1>1, <1>2 DEF Surjection
<1> QED BY <1>3, FS_Surjection DEF T

\* How many members of a set are smaller tells its members apart, and counts them.
Rank(S, a) == Cardinality({b \in S : b < a})

LEMMA RankGrows ==
  ASSUME NEW S, S \subseteq Nat, IsFiniteSet(S), NEW a \in S, NEW b \in S, a < b
  PROVE  Rank(S, a) < Rank(S, b)
<1> DEFINE A == {c \in S : c < a}
           B == {c \in S : c < b}
<1>1. A \subseteq B /\ A # B
  <2>1. a \in Nat /\ b \in Nat OBVIOUS
  <2>2. \A c \in S : c \in Nat /\ (c < a => c < b) BY <2>1
  <2>3. a \in B /\ a \notin A BY <2>1
  <2> QED BY <2>2, <2>3
<1>2. IsFiniteSet(B)
  <2>1. B \in SUBSET S OBVIOUS
  <2> QED BY <2>1, FS_Subset
<1> HIDE DEF A, B
<1>3. Cardinality(A) <= Cardinality(B) /\ Cardinality(A) # Cardinality(B) /\ IsFiniteSet(A)
  BY <1>1, <1>2, FS_Subset
<1>4. Cardinality(A) \in Nat /\ Cardinality(B) \in Nat BY <1>2, <1>3, FS_CardinalityType
<1>5. Cardinality(A) < Cardinality(B) BY <1>3, <1>4
<1> QED BY <1>5 DEF Rank, A, B

LEMMA RankIs ==
  ASSUME NEW S, S \subseteq Nat, IsFiniteSet(S)
  PROVE  /\ \A a \in S : Rank(S, a) \in 0 .. Cardinality(S) - 1
         /\ \A a, b \in S : Rank(S, a) = Rank(S, b) => a = b
         /\ \A i \in 0 .. Cardinality(S) - 1 : \E a \in S : Rank(S, a) = i
<1>1. ASSUME NEW a \in S PROVE Rank(S, a) \in 0 .. Cardinality(S) - 1
  <2> DEFINE A == {c \in S : c < a}
  <2>1. A \in SUBSET S /\ a \notin A OBVIOUS
  <2>2. IsFiniteSet(A) BY <2>1, FS_Subset
  <2> HIDE DEF A
  <2>3. Cardinality(A) <= Cardinality(S) /\ Cardinality(A) # Cardinality(S)
    BY <2>1, FS_Subset
  <2>4. Cardinality(A) \in Nat /\ Cardinality(S) \in Nat BY <2>2, FS_CardinalityType
  <2>5. Cardinality(A) \in 0 .. Cardinality(S) - 1 BY <2>3, <2>4
  <2> QED BY <2>5 DEF Rank, A
<1>2. ASSUME NEW a \in S, NEW b \in S, Rank(S, a) = Rank(S, b) PROVE a = b
  <2>1. a \in Nat /\ b \in Nat /\ Rank(S, a) \in Int BY <1>1
  <2>2. ASSUME a < b PROVE FALSE
    <3>1. Rank(S, a) < Rank(S, b) BY <2>2, RankGrows
    <3> QED BY <1>2, <2>1, <3>1
  <2>3. ASSUME b < a PROVE FALSE
    <3>1. Rank(S, b) < Rank(S, a) BY <2>3, RankGrows
    <3> QED BY <1>2, <2>1, <3>1
  <2> QED BY <2>1, <2>2, <2>3
<1>3. ASSUME NEW i \in 0 .. Cardinality(S) - 1 PROVE \E a \in S : Rank(S, a) = i
  <2> DEFINE n == Cardinality(S)
             T == 0 .. n - 1
             f == [a \in S |-> Rank(S, a)]
  <2>1. n \in Nat BY FS_CardinalityType
  <2>2. n - 1 \in Int /\ 0 \in Int BY <2>1
  <2>3. IsFiniteSet(T) /\ Cardinality(T) = n
    <3> HIDE DEF n
    <3> QED BY <2>1, <2>2, FS_Interval
  <2>4. f \in Injection(S, T)
    <3>1. f \in [S -> T] BY <1>1
    <3>2. \A a, b \in S : f[a] = f[b] => a = b BY <1>2
    <3> HIDE DEF f, T
    <3> QED BY <3>1, <3>2 DEF Injection, IsInjective
  <2>5. f \in Surjection(S, T)
    <3> HIDE DEF f, T
    <3> QED BY <2>3, <2>4, FS_Injection DEF n
  <2>6. \E a \in S : f[a] = i
    <3> HIDE DEF f
    <3> QED BY <2>5 DEF Surjection
  <2> QED BY <2>6
<1> QED BY <1>1, <1>2, <1>3

-------------------------------------------------------------------------------
(* Multiples of a number.                                                   *)

LEMMA TimesGrows ==
  ASSUME NEW c \in Nat, NEW p \in Nat, NEW q \in Nat, p < q
  PROVE  p * c + c <= q * c
<1>1. PICK d \in Nat : q = p + 1 + d
  <2>1. q - (p + 1) \in Nat /\ q = p + 1 + (q - (p + 1)) OBVIOUS
  <2> QED BY <2>1
<1>2. q * c = p * c + c + d * c BY <1>1
<1>3. d * c >= 0 /\ d * c \in Int /\ p * c \in Int OBVIOUS
<1> QED BY <1>2, <1>3

LEMMA SameMultiple ==
  ASSUME NEW c \in Nat \ {0}, NEW p \in Nat, NEW q \in Nat, p * c <= q * c, q * c < p * c + c
  PROVE  p = q
<1>1. p * c \in Int /\ q * c \in Int OBVIOUS
<1>2. ASSUME q < p PROVE FALSE
  <2>1. q * c + c <= p * c BY <1>2, TimesGrows
  <2> QED BY <1>1, <2>1
<1>3. ASSUME p < q PROVE FALSE
  <2>1. p * c + c <= q * c BY <1>3, TimesGrows
  <2> QED BY <1>1, <2>1
<1> QED BY <1>2, <1>3

\* Each of the whole parts of size c that s divides into.
LEMMA PartFits ==
  ASSUME NEW c \in Nat \ {0}, NEW s \in Nat, NEW n \in 0 .. (s \div c) - 1
  PROVE  n * c + c <= s
<1> DEFINE d == s \div c
<1>1. d \in Nat /\ d * c <= s OBVIOUS
<1> HIDE DEF d
<1>2. n < d /\ n \in Nat BY <1>1 DEF d
<1>3. n * c + c <= d * c BY <1>1, <1>2, TimesGrows
<1>4. n * c \in Int /\ d * c \in Int BY <1>1, <1>2
<1> QED BY <1>1, <1>3, <1>4

LEMMA IsMultiple ==
  ASSUME NEW c \in Nat \ {0}, NEW s \in Nat, s % c = 0 PROVE \E q \in Nat : s = q * c
<1>1. s \div c \in Nat /\ s = (s \div c) * c OBVIOUS
<1> QED BY <1>1

-------------------------------------------------------------------------------
(* Flattened sequences (FlattenSeq of the community modules).               *)

\* What flattening a sequence of sequences goes through, up to its i-th.
Flattens(g, ss, n) ==
  \A i \in 1 .. n : g[i] = IF i = 1 THEN ss[i] ELSE g[i - 1] \o ss[i]
UpTo(ss, n) == UNION {ToSet(ss[i]) : i \in 1 .. n}

LEMMA ConcatHas ==
  ASSUME NEW S, NEW s \in Seq(S), NEW t \in Seq(S)
  PROVE  ToSet(s \o t) = ToSet(s) \cup ToSet(t)
<1>1. /\ Len(s) \in Nat /\ Len(t) \in Nat /\ DOMAIN s = 1 .. Len(s) /\ DOMAIN t = 1 .. Len(t)
      /\ DOMAIN (s \o t) = 1 .. Len(s) + Len(t)
      /\ \A i \in 1 .. Len(s) + Len(t) : (s \o t)[i] = IF i <= Len(s) THEN s[i] ELSE t[i - Len(s)]
  BY LenProperties, ConcatProperties
<1>2. ASSUME NEW i \in 1 .. Len(s) PROVE i \in 1 .. Len(s) + Len(t) /\ (s \o t)[i] = s[i]
  BY <1>1
<1>3. ASSUME NEW i \in 1 .. Len(t)
      PROVE  Len(s) + i \in 1 .. Len(s) + Len(t) /\ (s \o t)[Len(s) + i] = t[i]
  BY <1>1
<1>4. ASSUME NEW i \in 1 .. Len(s) + Len(t)
      PROVE  \/ i \in 1 .. Len(s) /\ (s \o t)[i] = s[i]
             \/ i - Len(s) \in 1 .. Len(t) /\ (s \o t)[i] = t[i - Len(s)]
  BY <1>1
<1> QED BY <1>1, <1>2, <1>3, <1>4 DEF ToSet

LEMMA FlattenExists ==
  ASSUME NEW S, NEW ss \in Seq(Seq(S))
  PROVE  \E g \in [1 .. Len(ss) -> Seq(S)] : Flattens(g, ss, Len(ss))
<1> DEFINE N == Len(ss)
           good(n) == \E g \in [1 .. n -> Seq(S)] : Flattens(g, ss, n)
           T == {n \in 0 .. N : good(n)}
<1>1. N \in Nat /\ \A i \in 1 .. N : ss[i] \in Seq(S) BY LenProperties, ElementOfSeq
<1> HIDE DEF N
<1>2. 0 \in T
  <2>1. [i \in 1 .. 0 |-> <<>>] \in [1 .. 0 -> Seq(S)] OBVIOUS
  <2>2. \A g : Flattens(g, ss, 0) BY DEF Flattens
  <2>3. good(0) BY <2>1, <2>2
  <2>4. 0 \in 0 .. N BY <1>1
  <2> QED BY <2>3, <2>4
<1>3. ASSUME NEW n \in 0 .. N - 1, n \in T PROVE n + 1 \in T
  <2>1. PICK g \in [1 .. n -> Seq(S)] : Flattens(g, ss, n) BY <1>3
  <2>2. n \in Nat /\ n + 1 \in 1 .. N /\ n + 1 \in 0 .. N BY <1>1
  <2> DEFINE s == ss[n + 1]
             last == IF n = 0 THEN s ELSE g[n] \o s
             h == [i \in 1 .. n + 1 |-> IF i <= n THEN g[i] ELSE last]
  <2>3. s \in Seq(S) BY <1>1, <2>2
  <2> HIDE DEF s
  <2>4. last \in Seq(S)
    <3>1. CASE n = 0 BY <2>3, <3>1
    <3>2. CASE n # 0
      <4>1. g[n] \in Seq(S) BY <2>2, <3>2
      <4> QED BY <2>3, <3>2, <4>1, ConcatProperties
    <3> QED BY <3>1, <3>2
  <2> HIDE DEF last
  <2>5. h \in [1 .. n + 1 -> Seq(S)]
    <3>1. \A i \in 1 .. n + 1 : i <= n => i \in 1 .. n BY <2>2
    <3> QED BY <2>4, <3>1
  <2>6. ASSUME NEW i \in 1 .. n + 1
        PROVE  h[i] = IF i = 1 THEN ss[i] ELSE h[i - 1] \o ss[i]
    <3>1. CASE i <= n
      <4>1. i \in 1 .. n /\ (i # 1 => i - 1 \in 1 .. n) BY <2>2, <3>1
      <4>2. h[i] = g[i] /\ (i # 1 => h[i - 1] = g[i - 1])
        <5>1. i # 1 => i - 1 \in 1 .. n + 1 /\ i - 1 <= n BY <2>2, <4>1
        <5> QED BY <3>1, <5>1
      <4>3. g[i] = IF i = 1 THEN ss[i] ELSE g[i - 1] \o ss[i] BY <2>1, <4>1 DEF Flattens
      <4> HIDE DEF h
      <4> QED BY <4>2, <4>3
    <3>2. CASE i = n + 1
      <4>1. h[i] = last BY <2>2, <3>2
      <4>2. n # 0 => h[i - 1] = g[n]
        <5>1. n # 0 => i - 1 \in 1 .. n + 1 /\ i - 1 = n /\ n <= n BY <2>2, <3>2
        <5> QED BY <5>1
      <4>3. ss[i] = s BY <3>2 DEF s
      <4>4. i = 1 <=> n = 0 BY <2>2, <3>2
      <4> HIDE DEF h
      <4> QED BY <4>1, <4>2, <4>3, <4>4 DEF last
    <3> QED BY <2>2, <3>1, <3>2
  <2>7. Flattens(h, ss, n + 1)
    <3> HIDE DEF h
    <3> QED BY <2>6 DEF Flattens
  <2>8. good(n + 1)
    <3> HIDE DEF h
    <3> QED BY <2>5, <2>7
  <2> HIDE DEF good
  <2> QED BY <2>2, <2>8
<1>4. \A i \in 0 .. N : i \in T
  <2> HIDE DEF T
  <2> QED BY <1>1, <1>2, <1>3, Induction
<1>5. N \in T
  <2>1. N \in 0 .. N BY <1>1
  <2> HIDE DEF T
  <2> QED BY <1>4, <2>1
<1> QED BY <1>5 DEF N

LEMMA FlattenIs ==
  ASSUME NEW S, NEW ss \in Seq(Seq(S)), ss # <<>>, NEW g, Flattens(g, ss, Len(ss))
  PROVE  FlattenSeq(ss) = g[Len(ss)]
<1> DEFINE n == Len(ss)
           step(f, i) == IF i = 1 THEN ss[i] ELSE f[i - 1] \o ss[i]
           f == CHOOSE f : f = [i \in 1 .. n |-> step(f, i)]
<1>1. n \in Nat \ {0} BY EmptySeq
<1>2. \E h : h = [i \in 1 .. n |-> step(h, i)]
  <2>1. PICK h \in [1 .. n -> Seq(S)] : Flattens(h, ss, n) BY FlattenExists
  <2>2. \A i \in 1 .. n : h[i] = step(h, i) BY <2>1 DEF Flattens
  <2>3. h = [i \in 1 .. n |-> step(h, i)]
    <3> HIDE DEF step
    <3> QED BY <2>1, <2>2
  <2> QED BY <2>3
<1>3. f = [i \in 1 .. n |-> step(f, i)]
  <2> HIDE DEF n, step
  <2> QED BY <1>2
<1>4. FlattenSeq(ss) = f[n]
  <2>1. n # 0 BY <1>1
  <2> QED BY <2>1 DEF FlattenSeq
<1> DEFINE same(i) == i = 0 \/ f[i] = g[i]
           T == {i \in 0 .. n : same(i)}
<1>5. 0 \in T
  <2>1. 0 \in 0 .. n BY <1>1
  <2> QED BY <2>1
<1>6. ASSUME NEW i \in 0 .. n - 1, i \in T PROVE i + 1 \in T
  <2>1. i \in Nat /\ i + 1 \in 1 .. n /\ i + 1 \in 0 .. n /\ (i + 1) - 1 = i BY <1>1
  <2>2. f[i + 1] = step(f, i + 1)
    <3> HIDE DEF f, step
    <3> QED BY <1>3, <2>1
  <2>3. g[i + 1] = step(g, i + 1) BY <2>1 DEF Flattens
  <2>4. i + 1 # 1 => f[i] = g[i] BY <1>6, <2>1
  <2>5. f[i + 1] = g[i + 1]
    <3> HIDE DEF f
    <3> QED BY <2>1, <2>2, <2>3, <2>4
  <2>6. same(i + 1)
    <3> HIDE DEF f
    <3> QED BY <2>5
  <2> HIDE DEF same
  <2> QED BY <2>1, <2>6
<1>7. \A i \in 0 .. n : i \in T
  <2> HIDE DEF T, n
  <2> QED BY <1>1, <1>5, <1>6, Induction
<1>8. n \in 0 .. n /\ n # 0 BY <1>1
<1> HIDE DEF f, n
<1>9. same(n) BY <1>7, <1>8
<1> QED BY <1>4, <1>8, <1>9 DEF n

\* What is in a flattened sequence: what is in one of the sequences.
LEMMA FlattenHas ==
  ASSUME NEW S, NEW ss \in Seq(Seq(S))
  PROVE  /\ FlattenSeq(ss) \in Seq(S)
         /\ ToSet(FlattenSeq(ss)) = UNION {ToSet(ss[i]) : i \in 1 .. Len(ss)}
<1> DEFINE N == Len(ss)
<1>1. N \in Nat /\ DOMAIN ss = 1 .. N /\ \A i \in 1 .. N : ss[i] \in Seq(S)
  BY LenProperties, ElementOfSeq
<1>2. CASE ss = <<>>
  <2>1. FlattenSeq(ss) = <<>> BY <1>2 DEF FlattenSeq
  <2>2. Len(ss) = 0 /\ ToSet(<<>>) = {} BY <1>2 DEF ToSet
  <2> QED BY <2>1, <2>2
<1>3. CASE ss # <<>>
  <2>1. PICK g \in [1 .. N -> Seq(S)] : Flattens(g, ss, N) BY FlattenExists
  <2>2. FlattenSeq(ss) = g[N] BY <1>3, <2>1, FlattenIs
  <2>3. N \in Nat \ {0} BY <1>3, EmptySeq
  <2> DEFINE same(i) == i = 0 \/ ToSet(g[i]) = UpTo(ss, i)
             T == {i \in 0 .. N : same(i)}
  <2> HIDE DEF N
  <2>4. 0 \in T
    <3>1. 0 \in 0 .. N BY <1>1
    <3> QED BY <3>1
  <2>5. ASSUME NEW i \in 0 .. N - 1, i \in T PROVE i + 1 \in T
    <3>1. i \in Nat /\ i + 1 \in 1 .. N /\ i + 1 \in 0 .. N BY <1>1
    <3>2. CASE i = 0
      <4>1. g[1] = ss[1]
        <5>1. 1 \in 1 .. N BY <3>1, <3>2
        <5> QED BY <2>1, <5>1 DEF Flattens
      <4>2. UpTo(ss, 1) = ToSet(ss[1]) BY DEF UpTo
      <4>3. i + 1 = 1 BY <3>2
      <4>4. same(i + 1) BY <4>1, <4>2, <4>3
      <4> HIDE DEF same
      <4> QED BY <3>1, <4>4
    <3>3. CASE i # 0
      <4>1. g[i] \in Seq(S) /\ ss[i + 1] \in Seq(S)
        <5>1. i \in 1 .. N BY <1>1, <3>1, <3>3
        <5> QED BY <1>1, <2>1, <3>1, <5>1
      <4>2. g[i + 1] = g[i] \o ss[i + 1]
        <5>1. i + 1 # 1 /\ (i + 1) - 1 = i BY <3>1, <3>3
        <5> QED BY <2>1, <3>1, <5>1 DEF Flattens
      <4>3. ToSet(g[i + 1]) = ToSet(g[i]) \cup ToSet(ss[i + 1]) BY <4>1, <4>2, ConcatHas
      <4>4. ToSet(g[i]) = UpTo(ss, i) BY <2>5, <3>3
      <4>5. UpTo(ss, i + 1) = UpTo(ss, i) \cup ToSet(ss[i + 1])
        <5>1. 1 .. i + 1 = (1 .. i) \cup {i + 1} BY <3>1
        <5> QED BY <5>1 DEF UpTo
      <4>6. same(i + 1) BY <4>3, <4>4, <4>5
      <4> HIDE DEF same
      <4> QED BY <3>1, <4>6
    <3> QED BY <3>2, <3>3
  <2>6. \A i \in 0 .. N : i \in T
    <3> HIDE DEF T
    <3> QED BY <1>1, <2>4, <2>5, Induction
  <2>7. ToSet(g[N]) = UpTo(ss, N)
    <3>1. N \in 0 .. N /\ N # 0 BY <2>3
    <3>2. same(N) BY <2>6, <3>1
    <3> QED BY <3>1, <3>2
  <2>8. g[N] \in Seq(S)
    <3>1. N \in 1 .. N BY <2>3
    <3> QED BY <2>1, <3>1
  <2> QED BY <2>2, <2>7, <2>8 DEF UpTo, N
<1> QED BY <1>2, <1>3

\* Sequences of one element each.
LEMMA FlattenSingles ==
  ASSUME NEW S, NEW e \in Seq(S)
  PROVE  FlattenSeq([i \in DOMAIN e |-> <<e[i]>>]) = e
<1> DEFINE ss == [i \in DOMAIN e |-> <<e[i]>>]
           g == [i \in 1 .. Len(e) |-> SubSeq(e, 1, i)]
<1>1. /\ Len(e) \in Nat /\ DOMAIN e = 1 .. Len(e) /\ \A i \in 1 .. Len(e) : e[i] \in S
  BY LenProperties, ElementOfSeq
<1>2. ss \in Seq(Seq(S)) /\ Len(ss) = Len(e)
  <2>1. ss \in [1 .. Len(e) -> Seq(S)] BY <1>1
  <2> HIDE DEF ss
  <2> QED BY <1>1, <2>1
<1>3. CASE e = <<>>
  <2>1. ss = <<>> BY <1>1, <1>2, <1>3, EmptySeq
  <2>2. FlattenSeq(<<>>) = <<>> BY DEF FlattenSeq
  <2> HIDE DEF ss
  <2>3. FlattenSeq(ss) = e BY <1>3, <2>1, <2>2
  <2> QED BY <2>3 DEF ss
<1>4. CASE e # <<>>
  <2>1. Len(e) \in Nat \ {0} BY <1>4, EmptySeq
  <2>2. ASSUME NEW i \in 1 .. Len(ss)
        PROVE  g[i] = IF i = 1 THEN ss[i] ELSE g[i - 1] \o ss[i]
    <3>1. i \in 1 .. Len(e) /\ ss[i] = <<e[i]>> /\ g[i] = SubSeq(e, 1, i) BY <1>1, <1>2
    <3>2. SubSeq(e, 1, i) = SubSeq(e, 1, i - 1) \o <<e[i]>>
      <4>1. 1 \in 1 .. Len(e) BY <2>1
      <4> QED BY <3>1, <4>1, SubSeqRecursiveSecond
    <3>3. CASE i = 1
      <4>1. SubSeq(e, 1, 0) = <<>> BY SubSeqEmpty
      <4>2. <<e[1]>> \in Seq(S) BY <1>1, <2>1
      <4>3. <<>> \o <<e[1]>> = <<e[1]>> BY <4>2, ConcatEmptySeq
      <4> QED BY <3>1, <3>2, <3>3, <4>1, <4>3
    <3>4. CASE i # 1
      <4>1. g[i - 1] = SubSeq(e, 1, i - 1) BY <3>1, <3>4
      <4> QED BY <3>1, <3>2, <3>4, <4>1
    <3> QED BY <3>3, <3>4
  <2>3. g[Len(e)] = e
    <3>1. SubSeq(e, 1, Len(e)) = e BY SubSeqFull
    <3> QED BY <2>1, <3>1
  <2>4. Flattens(g, ss, Len(ss))
    <3> HIDE DEF g, ss
    <3> QED BY <2>2 DEF Flattens
  <2>5. ss # <<>>
    <3> HIDE DEF ss
    <3> QED BY <1>2, <2>1
  <2>6. FlattenSeq(ss) = e
    <3> HIDE DEF g, ss
    <3> QED BY <1>2, <2>3, <2>4, <2>5, FlattenIs
  <2> QED BY <2>6
<1> QED BY <1>3, <1>4
===============================================================================
