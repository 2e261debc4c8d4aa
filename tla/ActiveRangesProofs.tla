---------------------------- MODULE ActiveRangesProofs ----------------------------
(***************************************************************************)
(* Proofs about ActiveRanges, for any documents, requests, devices, memory, *)
(* ranges and number of starts, with one to six checksums in a script.      *)
(*                                                                          *)
(* Two arguments meet in the invariant IInv.  One is about the session: its *)
(* two dictionaries are written in three places and never compared, and     *)
(* what an answer puts into them is what was asked for (PublicMerge,        *)
(* AnswerIs).  The other is about the search: in each pass, what always     *)
(* changes is in the ranges that have been found or in the batches that are *)
(* left (SearchOK), and the checksums that it has kept are those of the     *)
(* memory as the last script has seen it (Good).  Sessions that wait for    *)
(* such checksums are never refused (ScriptAnswers), so the memory does not *)
(* go on without them.                                                      *)
(***************************************************************************)
EXTENDS ActiveRanges, SequenceFacts

\* A session whose public variables are its visible ones.
Fits(s) == s = [env |-> s.env, public_env |-> PublicEnv(s.env), asked |-> s.asked]

-------------------------------------------------------------------------------
(* What a device returns.                                                   *)

\* Names of variables.
AreNames(keys) == IsSequence(keys) /\ None \notin ToSet(keys)

\* Of the segments with a key, the last one counts.
LEMMA LastCounts ==
  ASSUME NEW p, IsSequence(p), NEW k, k # None, NEW i \in DOMAIN p, p[i].key = k
  PROVE  /\ k \in DOMAIN Values(p)
         /\ \E j \in DOMAIN p : /\ p[j].key = k /\ Values(p)[k] = p[j].text
                                /\ \A l \in DOMAIN p : p[l].key = k => l <= j
<1> DEFINE T == {j \in DOMAIN p : p[j].key = k}
           last(j) == p[j].key = k /\ \A l \in DOMAIN p : l > j => p[l].key # k
           j0 == CHOOSE j \in DOMAIN p : last(j)
<1>1. DOMAIN p = 1 .. Len(p) /\ Len(p) \in Nat BY LenProperties DEF IsSequence
<1>2. k \in {p[j].key : j \in DOMAIN p} \ {None} OBVIOUS
<1>3. k \in DOMAIN Values(p) /\ Values(p)[k] = p[j0].text BY <1>2 DEF Values
<1>4. \E j \in DOMAIN p : last(j)
  <2>1. T \subseteq Nat /\ i \in T BY <1>1
  <2>2. IsFiniteSet(T)
    <3>1. IsFiniteSet(1 .. Len(p)) BY <1>1, FS_Interval
    <3>2. T \in SUBSET (1 .. Len(p)) BY <1>1
    <3> QED BY <3>1, <3>2, FS_Subset
  <2>3. PICK j \in T : \A l \in T : l <= j
    <3> HIDE DEF T
    <3> QED BY <2>1, <2>2, GreatestNat
  <2>4. \A l \in DOMAIN p : l > j => l \notin T BY <1>1, <2>3
  <2>5. last(j) BY <2>3, <2>4
  <2> QED BY <2>3, <2>5
<1>5. j0 \in DOMAIN p /\ last(j0)
  <2> HIDE DEF last
  <2> QED BY <1>4
<1> HIDE DEF j0
<1>6. \A l \in DOMAIN p : p[l].key = k => l <= j0 BY <1>1, <1>5
<1> QED BY <1>3, <1>5, <1>6

LEMMA ValuesDomain ==
  ASSUME NEW p PROVE DOMAIN Values(p) = {p[i].key : i \in DOMAIN p} \ {None}
BY DEF Values

\* A variable without a slash.
Single(vars0, k) == IsSequence(Expand(vars0, k)) /\ Len(Expand(vars0, k)) = 1
TextOf(vars0, k) == Head(Expand(vars0, k)).text

LEMMA ReturnedIs ==
  ASSUME NEW vs, NEW k, Single(vs, k) PROVE Returned(vs, k) = <<Segment(k, TextOf(vs, k))>>
<1> DEFINE x == Expand(vs, k)
           h == Segment(k, TextOf(vs, k))
<1>1. x \in Seq(ToSet(x)) /\ Len(x) = 1 BY DEF Single, IsSequence
<1>2. Tail(x) = <<>>
  <2> HIDE DEF x
  <2>1. x # <<>> BY <1>1
  <2>2. Tail(x) \in Seq(ToSet(x)) /\ Len(Tail(x)) = 0 BY <1>1, <2>1
  <2> QED BY <2>2, EmptySeq
<1>3. Returned(vs, k) = <<h>> \o Tail(x) BY DEF Returned, TextOf
<1> HIDE DEF x, h
<1>4. <<h>> \in Seq({h}) OBVIOUS
<1>5. <<h>> \o <<>> = <<h>> BY <1>4, ConcatEmptySeq
<1> QED BY <1>2, <1>3, <1>5 DEF h

AnswerTo(vs, keys) == [i \in DOMAIN keys |-> Segment(keys[i], TextOf(vs, keys[i]))]

LEMMA ContinueIs ==
  ASSUME NEW vs, NEW token, NEW keys, AreNames(keys), \A k \in ToSet(keys) : Single(vs, k)
  PROVE  ContinuePath(vs, token, keys) = <<Segment("token", token)>> \o AnswerTo(vs, keys)
<1> DEFINE e == AnswerTo(vs, keys)
           S == {e[i] : i \in DOMAIN keys}
<1>1. DOMAIN keys = 1 .. Len(keys) /\ Len(keys) \in Nat /\ DOMAIN e = DOMAIN keys
  BY LenProperties DEF AnswerTo, AreNames, IsSequence
<1>2. e \in Seq(S)
  <2>1. e \in [1 .. Len(keys) -> S] BY <1>1 DEF AnswerTo
  <2> HIDE DEF e, S
  <2> QED BY <1>1, <2>1
<1>3. FlattenSeq([i \in DOMAIN e |-> <<e[i]>>]) = e
  <2> HIDE DEF e, S
  <2> QED BY <1>2, FlattenSingles
<1>4. [i \in DOMAIN keys |-> Returned(vs, keys[i])] = [i \in DOMAIN e |-> <<e[i]>>]
  <2>1. ASSUME NEW i \in DOMAIN keys PROVE Returned(vs, keys[i]) = <<e[i]>>
    <3>1. keys[i] \in ToSet(keys) BY DEF ToSet
    <3>2. Returned(vs, keys[i]) = <<Segment(keys[i], TextOf(vs, keys[i]))>>
      BY <3>1, ReturnedIs
    <3>3. e[i] = Segment(keys[i], TextOf(vs, keys[i])) BY DEF AnswerTo
    <3> QED BY <3>2, <3>3
  <2> HIDE DEF e
  <2> QED BY <1>1, <2>1
<1> HIDE DEF e
<1> QED BY <1>3, <1>4 DEF ContinuePath, e

\* Each of the variables asked for, and the token.
LEMMA AnswerIs ==
  ASSUME NEW vs, NEW token, NEW keys, AreNames(keys), \A k \in ToSet(keys) : Single(vs, k)
  PROVE  LET v == Values(ContinuePath(vs, token, keys))
         IN  /\ DOMAIN v = {"token"} \cup ToSet(keys)
             /\ \A k \in ToSet(keys) \ {"token"} : v[k] = TextOf(vs, k)
             /\ "token" \notin ToSet(keys) => v["token"] = token
<1> DEFINE e == AnswerTo(vs, keys)
           t == Segment("token", token)
           p == <<t>> \o e
           S == {t} \cup {e[i] : i \in DOMAIN keys}
           n == Len(keys)
<1>1. ContinuePath(vs, token, keys) = p BY ContinueIs
<1>2. /\ n \in Nat /\ DOMAIN keys = 1 .. n /\ DOMAIN e = 1 .. n
      /\ \A i \in 1 .. n : e[i].key = keys[i] /\ e[i].text = TextOf(vs, keys[i])
  BY LenProperties DEF AnswerTo, Segment, AreNames, IsSequence
<1>3. t.key = "token" BY DEF Segment
<1>4. e \in Seq(S) /\ Len(e) = n /\ <<t>> \in Seq(S)
  <2>1. e \in [1 .. n -> S]
    <3>1. e = [i \in 1 .. n |-> e[i]] BY <1>2 DEF AnswerTo
    <3>2. \A i \in 1 .. n : e[i] \in S BY <1>2
    <3> HIDE DEF e, S
    <3> QED BY <3>1, <3>2
  <2>2. t \in S OBVIOUS
  <2> HIDE DEF e, n, t, S
  <2>3. e \in Seq(S) BY <1>2, <2>1
  <2>4. Len(e) = n BY <1>2, <2>3, LenProperties
  <2> QED BY <2>2, <2>3, <2>4
<1> HIDE DEF e, t, S, n
<1>5. /\ DOMAIN p = 1 .. n + 1 /\ p[1] = t /\ p \in Seq(S) /\ Len(p) = n + 1
      /\ \A i \in 2 .. n + 1 : p[i] = e[i - 1]
  <2>1. Len(<<t>>) = 1 /\ <<t>>[1] = t OBVIOUS
  <2>2. /\ p \in Seq(S) /\ Len(p) = 1 + n
        /\ \A i \in 1 .. 1 + n : p[i] = IF i <= 1 THEN <<t>>[i] ELSE e[i - 1]
    BY <1>4, <2>1, ConcatProperties
  <2>3. DOMAIN p = 1 .. 1 + n /\ 1 + n = n + 1
    <3>1. DOMAIN p = 1 .. Len(p) BY <2>2, LenProperties
    <3> HIDE DEF p
    <3> QED BY <1>2, <2>2, <3>1
  <2> HIDE DEF p
  <2>4. 1 \in 1 .. 1 + n BY <1>2
  <2> QED BY <1>2, <2>1, <2>2, <2>3, <2>4
<1> HIDE DEF p
<1>6. IsSequence(p)
  <2>1. p \in [1 .. n + 1 -> ToSet(p)] BY <1>2, <1>5 DEF ToSet
  <2>2. n + 1 \in Nat BY <1>2
  <2> QED BY <2>1, <2>2 DEF IsSequence
<1>7. {p[i].key : i \in DOMAIN p} = {"token"} \cup ToSet(keys)
  <2>1. ASSUME NEW i \in DOMAIN p PROVE p[i].key \in {"token"} \cup ToSet(keys)
    <3>1. CASE i = 1 BY <1>3, <1>5, <3>1
    <3>2. CASE i # 1
      <4>1. i \in 2 .. n + 1 /\ i - 1 \in 1 .. n BY <1>2, <1>5, <3>2
      <4>2. p[i].key = keys[i - 1] BY <1>2, <1>5, <4>1
      <4>3. keys[i - 1] \in ToSet(keys)
        <5>1. i - 1 \in DOMAIN keys BY <1>2, <4>1
        <5> QED BY <5>1 DEF ToSet
      <4> QED BY <4>2, <4>3
    <3> QED BY <3>1, <3>2
  <2>2. ASSUME NEW k \in ToSet(keys) PROVE \E i \in DOMAIN p : p[i].key = k
    <3>1. PICK i \in 1 .. n : keys[i] = k BY <1>2 DEF ToSet
    <3>2. i + 1 \in 2 .. n + 1 /\ i + 1 \in 1 .. n + 1 /\ (i + 1) - 1 = i BY <1>2
    <3>3. p[i + 1] = e[i] BY <1>5, <3>2
    <3> QED BY <1>2, <1>5, <3>1, <3>2, <3>3
  <2>3. 1 \in DOMAIN p /\ p[1].key = "token" BY <1>2, <1>3, <1>5
  <2> QED BY <2>1, <2>2, <2>3
<1>8. None \notin {"token"} \cup ToSet(keys) BY NoneIsNoName DEF AreNames
<1>9. DOMAIN Values(p) = {"token"} \cup ToSet(keys) BY <1>7, <1>8, ValuesDomain
<1>10. ASSUME NEW k \in ToSet(keys) \ {"token"} PROVE Values(p)[k] = TextOf(vs, k)
  <2>1. k # None /\ \E i \in DOMAIN p : p[i].key = k BY <1>7, <1>8
  <2>2. PICK j \in DOMAIN p : p[j].key = k /\ Values(p)[k] = p[j].text
    BY <1>6, <2>1, LastCounts
  <2>3. j # 1 BY <1>3, <1>5, <2>2
  <2>4. j \in 2 .. n + 1 /\ j - 1 \in 1 .. n BY <1>2, <1>5, <2>3
  <2> QED BY <1>2, <1>5, <2>2, <2>4
<1>11. ASSUME "token" \notin ToSet(keys) PROVE Values(p)["token"] = token
  <2>1. "token" # None BY <1>8
  <2>2. 1 \in DOMAIN p /\ p[1].key = "token" BY <1>2, <1>3, <1>5
  <2>3. PICK j \in DOMAIN p : p[j].key = "token" /\ Values(p)["token"] = p[j].text
    BY <1>6, <2>1, <2>2, LastCounts
  <2>4. ASSUME j # 1 PROVE FALSE
    <3>1. j \in 2 .. n + 1 /\ j - 1 \in 1 .. n BY <1>2, <1>5, <2>4
    <3>2. keys[j - 1] = "token" BY <1>2, <1>5, <2>3, <3>1
    <3>3. j - 1 \in DOMAIN keys BY <1>2, <3>1
    <3> QED BY <1>11, <3>2, <3>3 DEF ToSet
  <2>5. t.text = token BY DEF Segment, t
  <2> QED BY <1>5, <2>3, <2>4, <2>5
<1> QED BY <1>1, <1>9, <1>10, <1>11

-------------------------------------------------------------------------------
(* Merging.                                                                 *)

\* To hide the private keys of a merged dictionary is to merge without them.
LEMMA PublicMerge ==
  ASSUME NEW env, NEW values
  PROVE  Updated(PublicEnv(env), Without(values, Reserved \cup Hidden))
           = PublicEnv(Updated(env, Without(values, Reserved)))
<1> DEFINE v == Without(values, Reserved)
           w == Without(values, Reserved \cup Hidden)
           p == PublicEnv(env)
           all == Updated(env, v)
<1>1. /\ DOMAIN v = DOMAIN values \ Reserved
      /\ \A k \in DOMAIN v : v[k] = values[k]
  BY DEF Without
<1>2. /\ DOMAIN w = DOMAIN values \ (Reserved \cup Hidden)
      /\ \A k \in DOMAIN w : w[k] = values[k]
  BY DEF Without
<1>3. DOMAIN p = DOMAIN env \ Hidden /\ \A k \in DOMAIN p : p[k] = env[k]
  BY DEF PublicEnv, Without
<1> HIDE DEF v, w, p
<1>4. /\ DOMAIN all = DOMAIN v \cup DOMAIN env
      /\ \A k \in DOMAIN all : all[k] = IF k \in DOMAIN v THEN v[k] ELSE env[k]
  BY DEF Updated
<1> HIDE DEF all
<1>5. Updated(p, w) = [k \in DOMAIN w \cup DOMAIN p |-> IF k \in DOMAIN w THEN w[k] ELSE p[k]]
  BY DEF Updated
<1>6. PublicEnv(all) = [k \in DOMAIN all \ Hidden |-> all[k]] BY DEF PublicEnv, Without
<1>7. DOMAIN w \cup DOMAIN p = DOMAIN all \ Hidden BY <1>1, <1>2, <1>3, <1>4
<1>8. \A k \in DOMAIN all \ Hidden : (IF k \in DOMAIN w THEN w[k] ELSE p[k]) = all[k]
  BY <1>1, <1>2, <1>3, <1>4
<1>9. Updated(p, w) = PublicEnv(all) BY <1>5, <1>6, <1>7, <1>8
<1> QED BY <1>9 DEF v, w, p, all

\* What a device returns leaves a session fit.
LEMMA MergeIs ==
  ASSUME NEW s, Fits(s), NEW values
  PROVE  LET env == Updated(s.env, Without(values, Reserved))
         IN  /\ Merge(s, values) = [env |-> env, public_env |-> PublicEnv(env), asked |-> s.asked]
             /\ Merge(s, values).env = env /\ Merge(s, values).asked = s.asked
             /\ Merge(s, values).public_env = PublicEnv(env)
             /\ Fits(Merge(s, values))
<1> DEFINE env == Updated(s.env, Without(values, Reserved))
           m == [env |-> env, public_env |-> PublicEnv(env), asked |-> s.asked]
<1>1. s.public_env = PublicEnv(s.env) BY DEF Fits
<1>2. Updated(s.public_env, Without(values, Reserved \cup Hidden)) = PublicEnv(env)
  BY <1>1, PublicMerge
<1> HIDE DEF env
<1>3. Merge(s, values) = [s EXCEPT !.env = env, !.public_env = PublicEnv(env)]
  BY <1>2 DEF Merge, env
<1>4. [s EXCEPT !.env = env, !.public_env = PublicEnv(env)] = m
  <2> DEFINE p == PublicEnv(env)
             a == s.env
             b == PublicEnv(s.env)
             c == s.asked
  <2>1. s = [env |-> a, public_env |-> b, asked |-> c] BY DEF Fits
  <2> HIDE DEF p, a, b, c
  <2>2. s \in [env : {a}, public_env : {b}, asked : {c}] BY <2>1
  <2>3. [s EXCEPT !.env = env, !.public_env = p] \in [env : {env}, public_env : {p}, asked : {c}]
    BY <2>2
  <2>4. \A r \in [env : {env}, public_env : {p}, asked : {c}] :
          r = [env |-> env, public_env |-> p, asked |-> c]
    OBVIOUS
  <2> QED BY <2>3, <2>4 DEF p, c
<1>5. Merge(s, values) = m BY <1>3, <1>4
<1>6. m.env = env /\ m.asked = s.asked /\ m.public_env = PublicEnv(env) OBVIOUS
<1>7. Fits(m) BY DEF Fits
<1> QED BY <1>5, <1>6, <1>7 DEF env

-------------------------------------------------------------------------------
(* Batches of ranges.                                                       *)

LEMMA SixKeys == MaxRanges \in 1 .. 6 /\ Len(KeyNames) = 6
BY SizesAreNats DEF KeyNames

\* One batch after another, until the items are used up.
LEMMA BatchArithmetic ==
  ASSUME NEW n \in Nat
  PROVE  LET N == (n + MaxRanges - 1) \div MaxRanges
         IN  /\ N \in Nat /\ (n > 0 => N >= 1)
             /\ \A b \in 1 .. N : /\ (b - 1) * MaxRanges \in Nat /\ (b - 1) * MaxRanges + 1 <= n
                                  /\ b * MaxRanges = (b - 1) * MaxRanges + MaxRanges
                                  /\ (b + 1) - 1 = b
                                  /\ IF b < N THEN b * MaxRanges < n ELSE n <= b * MaxRanges
<1>1. CASE MaxRanges = 1 BY <1>1
<1>2. CASE MaxRanges = 2 BY <1>2
<1>3. CASE MaxRanges = 3 BY <1>3
<1>4. CASE MaxRanges = 4 BY <1>4
<1>5. CASE MaxRanges = 5 BY <1>5
<1>6. CASE MaxRanges = 6 BY <1>6
<1> QED BY <1>1, <1>2, <1>3, <1>4, <1>5, <1>6, SixKeys

\* The items from batch b on.
From(cur, b) == {cur[i] : i \in (b - 1) * MaxRanges + 1 .. Len(cur)}

LEMMA SubSeqHas ==
  ASSUME NEW S, NEW s \in Seq(S), NEW lo \in Nat, NEW hi \in Nat, 1 <= lo, lo <= hi, hi <= Len(s)
  PROVE  /\ SubSeq(s, lo, hi) \in Seq(S) /\ Len(SubSeq(s, lo, hi)) = hi - lo + 1
         /\ ToSet(SubSeq(s, lo, hi)) = {s[i] : i \in lo .. hi}
<1> DEFINE t == SubSeq(s, lo, hi)
<1>1. Len(s) \in Nat /\ DOMAIN s = 1 .. Len(s) BY LenProperties
<1>2. t \in Seq(S) /\ Len(t) = hi - lo + 1 /\ \A i \in 1 .. hi - lo + 1 : t[i] = s[lo + i - 1]
  <2>1. lo \in 1 .. Len(s) /\ hi \in 1 .. Len(s) BY <1>1
  <2>2. \A i \in lo .. hi : s[i] \in S BY <1>1, ElementOfSeq
  <2> QED BY <2>1, <2>2, SubSeqProperties
<1> HIDE DEF t
<1>3. DOMAIN t = 1 .. hi - lo + 1 BY <1>2, LenProperties
<1>4. ASSUME NEW i \in 1 .. hi - lo + 1 PROVE \E j \in lo .. hi : t[i] = s[j]
  <2>1. lo + i - 1 \in lo .. hi OBVIOUS
  <2> QED BY <1>2, <2>1
<1>5. ASSUME NEW j \in lo .. hi PROVE \E i \in 1 .. hi - lo + 1 : t[i] = s[j]
  <2>1. j - lo + 1 \in 1 .. hi - lo + 1 /\ lo + (j - lo + 1) - 1 = j OBVIOUS
  <2> QED BY <1>2, <2>1
<1>6. ToSet(t) = {s[i] : i \in lo .. hi}
  <2>1. ToSet(t) = {t[i] : i \in 1 .. hi - lo + 1} BY <1>3 DEF ToSet
  <2> DEFINE K == 1 .. hi - lo + 1
             L == lo .. hi
  <2>2. (\A i \in K : \E j \in L : t[i] = s[j]) /\ (\A j \in L : \E i \in K : t[i] = s[j])
    BY <1>4, <1>5
  <2> HIDE DEF K, L
  <2>3. {t[i] : i \in K} = {s[i] : i \in L} BY <2>2
  <2> QED BY <2>1, <2>3 DEF K, L
<1> QED BY <1>2, <1>6 DEF t

LEMMA BatchIs ==
  ASSUME NEW S, NEW cur \in Seq(S), NEW b \in 1 .. Len(batched(cur))
  PROVE  LET batch == batched(cur)[b]
         IN  /\ batch \in Seq(S) /\ Len(batch) \in 1 .. MaxRanges
             /\ ToSet(batch) \subseteq ToSet(cur)
             /\ IF b < Len(batched(cur)) THEN From(cur, b) \subseteq ToSet(batch) \cup From(cur, b + 1)
                                         ELSE From(cur, b) \subseteq ToSet(batch)
<1> DEFINE M == MaxRanges
           n == Len(cur)
           N == (n + M - 1) \div M
           p == b * M
           lo == (b - 1) * M + 1
           hi == IF p < n THEN p ELSE n
<1>1. n \in Nat /\ DOMAIN cur = 1 .. n BY LenProperties
<1>2. M \in 1 .. 6 BY SixKeys
<1>3. N \in Nat BY <1>1, BatchArithmetic
<1>4. Len(batched(cur)) = N
  <2> HIDE DEF N
  <2>1. N = (Len(cur) + MaxRanges - 1) \div MaxRanges BY DEF N
  <2>2. batched(cur) = [i \in 1 .. N |-> batched(cur)[i]] BY <2>1 DEF batched
  <2> QED BY <1>3, <2>2
<1>5. b \in 1 .. N BY <1>4
<1>6. /\ lo \in Nat /\ 1 <= lo /\ lo <= n /\ p = lo - 1 + M /\ (b + 1) - 1 = b
      /\ IF b < N THEN p < n ELSE n <= p
  <2> HIDE DEF n
  <2>1. /\ (b - 1) * MaxRanges \in Nat /\ (b - 1) * MaxRanges + 1 <= n
        /\ b * MaxRanges = (b - 1) * MaxRanges + MaxRanges
        /\ (b + 1) - 1 = b
        /\ IF b < N THEN b * MaxRanges < n ELSE n <= b * MaxRanges
    BY <1>1, <1>5, BatchArithmetic
  <2> DEFINE a == (b - 1) * MaxRanges
             c == b * MaxRanges
  <2> HIDE DEF a, c, N
  <2>2. /\ a \in Nat /\ a + 1 <= n /\ c = a + MaxRanges /\ (b + 1) - 1 = b
        /\ IF b < N THEN c < n ELSE n <= c
    BY <2>1 DEF a, c
  <2>3. /\ a + 1 \in Nat /\ 1 <= a + 1 /\ a + 1 <= n /\ c = (a + 1) - 1 + MaxRanges
    BY <1>2, <2>2
  <2> QED BY <2>2, <2>3 DEF a, c
<1>7. batched(cur)[b] = SubSeq(cur, lo, hi)
  <2> HIDE DEF N
  <2>1. N = (Len(cur) + MaxRanges - 1) \div MaxRanges BY DEF N
  <2> QED BY <1>5, <2>1 DEF batched
<1>8. (b + 1 - 1) * M + 1 = p + 1 BY <1>6
<1> HIDE DEF M, n, N, p, lo
<1>9. /\ hi \in Nat /\ lo <= hi /\ hi <= n /\ hi - lo + 1 \in 1 .. M
      /\ b < N => hi = p
      /\ ~(b < N) => hi = n
  BY <1>1, <1>2, <1>6
<1> HIDE DEF hi
<1>10. /\ SubSeq(cur, lo, hi) \in Seq(S) /\ Len(SubSeq(cur, lo, hi)) = hi - lo + 1
       /\ ToSet(SubSeq(cur, lo, hi)) = {cur[i] : i \in lo .. hi}
  BY <1>6, <1>9, SubSeqHas DEF n
<1>11. {cur[i] : i \in lo .. hi} \subseteq ToSet(cur)
  <2>1. lo .. hi \subseteq 1 .. n BY <1>1, <1>6, <1>9
  <2> QED BY <1>1, <2>1 DEF ToSet
<1>12. From(cur, b) = {cur[i] : i \in lo .. n} BY DEF From, lo, n, M
<1>13. CASE b < N
  <2>1. From(cur, b + 1) = {cur[i] : i \in p + 1 .. n} BY <1>8 DEF From, n, M
  <2>2. lo .. n \subseteq (lo .. hi) \cup (p + 1 .. n) BY <1>1, <1>6, <1>9, <1>13
  <2>3. From(cur, b) \subseteq {cur[i] : i \in lo .. hi} \cup From(cur, b + 1)
    BY <1>12, <2>1, <2>2
  <2> QED BY <1>4, <1>7, <1>9, <1>10, <1>11, <1>13, <2>3 DEF M
<1>14. CASE ~(b < N)
  <2>1. From(cur, b) \subseteq {cur[i] : i \in lo .. hi} BY <1>9, <1>12, <1>14
  <2> QED BY <1>4, <1>7, <1>9, <1>10, <1>11, <1>14, <2>1 DEF M
<1> QED BY <1>13, <1>14

LEMMA FirstBatch ==
  ASSUME NEW S, NEW cur \in Seq(S), cur # <<>>
  PROVE  1 \in 1 .. Len(batched(cur)) /\ From(cur, 1) = ToSet(cur)
<1> DEFINE n == Len(cur)
           N == (n + MaxRanges - 1) \div MaxRanges
<1>1. n \in Nat /\ n > 0 /\ DOMAIN cur = 1 .. n BY LenProperties, EmptySeq
<1>2. N \in Nat /\ N >= 1 BY <1>1, BatchArithmetic
<1>3. Len(batched(cur)) = N
  <2> HIDE DEF N
  <2>1. N = (Len(cur) + MaxRanges - 1) \div MaxRanges BY DEF N
  <2>2. batched(cur) = [i \in 1 .. N |-> batched(cur)[i]] BY <2>1 DEF batched
  <2> QED BY <1>2, <2>2
<1>4. (1 - 1) * MaxRanges + 1 = 1 BY SixKeys
<1>5. From(cur, 1) = {cur[i] : i \in 1 .. n} BY <1>4 DEF From
<1> HIDE DEF N, n
<1> QED BY <1>1, <1>2, <1>3, <1>5 DEF ToSet

LEMMA BatchesDomain ==
  ASSUME NEW S, NEW cur \in Seq(S) PROVE DOMAIN batched(cur) = 1 .. Len(batched(cur))
<1> DEFINE N == (Len(cur) + MaxRanges - 1) \div MaxRanges
<1>1. N \in Nat BY BatchArithmetic, LenProperties
<1> HIDE DEF N
<1>2. N = (Len(cur) + MaxRanges - 1) \div MaxRanges BY DEF N
<1>3. batched(cur) = [i \in 1 .. N |-> batched(cur)[i]] BY <1>2 DEF batched
<1>4. Len(batched(cur)) = N BY <1>1, <1>3
<1> QED BY <1>3, <1>4

-------------------------------------------------------------------------------
(* Merged ranges.                                                           *)

Span(R) == UNION {Within(r) : r \in R}
MergedEnds(all, a) ==
  {End(r) : r \in {s \in all : s.addr >= a /\ ~\E b \in Starts(all) : a < b /\ b <= s.addr}}
Merged(all, a) == [addr |-> a, size |-> Max(MergedEnds(all, a)) - a]

LEMMA RangesAre ==
  ASSUME NEW r \in MemoryRange
  PROVE  /\ r.addr \in Nat /\ r.size \in Nat /\ r.size > 0 /\ End(r) \in Nat /\ r.addr < End(r)
         /\ \A u : u \in Within(r) <=> u \in Nat /\ r.addr <= u /\ u < End(r)
BY DEF MemoryRange, End, Within

LEMMA StartsAre ==
  ASSUME NEW all, all \subseteq MemoryRange, IsFiniteSet(all)
  PROVE  Starts(all) \subseteq Nat /\ IsFiniteSet(Starts(all))
<1> DEFINE f == [r \in all |-> r.addr]
<1>1. {f[r] : r \in all} = {r.addr : r \in all} OBVIOUS
<1>2. IsFiniteSet({f[r] : r \in all})
  <2>1. f = [r \in all |-> f[r]] OBVIOUS
  <2> HIDE DEF f
  <2> QED BY <2>1, ValuesFinite
<1>3. Starts(all) \subseteq {r.addr : r \in all} BY DEF Starts
<1>4. \A r \in all : r.addr \in Nat BY RangesAre
<1> QED BY <1>1, <1>2, <1>3, <1>4, FS_Subset

LEMMA EndsAre ==
  ASSUME NEW all, all \subseteq MemoryRange, IsFiniteSet(all), NEW a \in Starts(all)
  PROVE  /\ MergedEnds(all, a) \subseteq Nat
         /\ Max(MergedEnds(all, a)) \in MergedEnds(all, a)
         /\ \A e \in MergedEnds(all, a) : e <= Max(MergedEnds(all, a))
         /\ a < Max(MergedEnds(all, a))
<1> DEFINE E == MergedEnds(all, a)
           f == [r \in all |-> End(r)]
<1>1. \A r \in all : End(r) \in Nat /\ r.addr \in Nat /\ r.addr < End(r) BY RangesAre
<1>2. E \subseteq {f[r] : r \in all} BY DEF MergedEnds
<1>3. IsFiniteSet({f[r] : r \in all})
  <2>1. f = [r \in all |-> f[r]] OBVIOUS
  <2> HIDE DEF f
  <2> QED BY <2>1, ValuesFinite
<1>4. E \subseteq Nat BY <1>1 DEF MergedEnds
<1>5. PICK r \in all : r.addr = a BY DEF Starts
<1>6. End(r) \in E
  <2>1. a \in Nat BY <1>1, <1>5
  <2>2. Starts(all) \subseteq Nat BY StartsAre
  <2>3. r.addr >= a BY <1>5, <2>1
  <2>4. ASSUME NEW b \in Starts(all), a < b, b <= r.addr PROVE FALSE
    <3>1. b \in Nat BY <2>2
    <3> QED BY <1>5, <2>1, <2>4, <3>1
  <2> QED BY <2>3, <2>4 DEF MergedEnds
<1>7. IsFiniteSet(E) BY <1>2, <1>3, FS_Subset
<1> HIDE DEF E
<1>8. Max(E) \in E /\ \A e \in E : e <= Max(E) BY <1>4, <1>6, <1>7, MaxIs
<1>9. a < Max(E)
  <2>1. End(r) <= Max(E) /\ a < End(r) BY <1>1, <1>5, <1>6, <1>8
  <2>2. a \in Nat /\ End(r) \in Nat /\ Max(E) \in Nat BY <1>1, <1>4, <1>5, <1>8
  <2> QED BY <2>1, <2>2
<1> QED BY <1>4, <1>8, <1>9 DEF E

\* A merged range has no gaps.
LEMMA MergedIs ==
  ASSUME NEW all, all \subseteq MemoryRange, IsFiniteSet(all), NEW a \in Starts(all)
  PROVE  /\ Merged(all, a) \in MemoryRange
         /\ \A x \in Within(Merged(all, a)) : \E r \in all : x \in Within(r)
<1> DEFINE m == Max(MergedEnds(all, a))
<1>1. m \in MergedEnds(all, a) /\ m \in Nat /\ a < m BY EndsAre
<1>2. a \in Nat /\ Starts(all) \subseteq Nat BY StartsAre
<1>3. /\ Merged(all, a) \in MemoryRange
      /\ Within(Merged(all, a)) = a .. m - 1
  <2> HIDE DEF m
  <2>1. Merged(all, a) = [addr |-> a, size |-> m - a] BY DEF Merged, m
  <2>2. m - a \in Nat \ {0} /\ a + (m - a) - 1 = m - 1 BY <1>1, <1>2
  <2> QED BY <1>2, <2>1, <2>2 DEF MemoryRange, Within
<1>4. PICK s \in all : /\ End(s) = m /\ s.addr >= a
                       /\ ~\E b \in Starts(all) : a < b /\ b <= s.addr
  BY <1>1 DEF MergedEnds
<1> HIDE DEF m
<1>5. \A r \in all : r.addr \in Nat /\ End(r) \in Nat /\ r.addr < End(r) BY RangesAre
<1>6. ASSUME NEW x \in a .. m - 1, \A r \in all : x \notin Within(r) PROVE FALSE
  <2>1. x \in Nat /\ a <= x /\ x < m BY <1>1, <1>2
  <2>2. ASSUME NEW r \in all, r.addr <= x PROVE End(r) <= x
    <3>1. ~(x \in Nat /\ r.addr <= x /\ x < End(r)) BY <1>6, RangesAre
    <3> QED BY <1>5, <2>1, <2>2, <3>1
  <2> DEFINE T == {b \in {r.addr : r \in all} : b > x}
  <2>3. s.addr \in T
    <3>1. ~(s.addr <= x)
      <4> SUFFICES ASSUME s.addr <= x PROVE FALSE OBVIOUS
      <4>1. End(s) <= x BY <2>2
      <4> QED BY <1>1, <1>4, <2>1, <4>1
    <3>2. s.addr \in Nat BY <1>5
    <3> QED BY <2>1, <3>1, <3>2
  <2>4. T \subseteq Nat BY <1>5
  <2>5. PICK b \in T : \A k \in T : b <= k
    <3> HIDE DEF T
    <3> QED BY <2>3, <2>4, LeastNat
  <2>6. b \in Nat /\ b > x /\ b <= s.addr /\ \E r \in all : r.addr = b BY <2>3, <2>4, <2>5
  <2>7. ASSUME NEW r \in all, r.addr < b PROVE End(r) < b
    <3>1. r.addr \in Nat /\ End(r) \in Nat BY <1>5
    <3>2. r.addr <= x
      <4>1. r.addr \notin T
        <5> SUFFICES ASSUME r.addr \in T PROVE FALSE OBVIOUS
        <5>1. b <= r.addr BY <2>5
        <5> QED BY <2>6, <2>7, <3>1, <5>1
      <4> QED BY <2>1, <3>1, <4>1
    <3>3. End(r) <= x BY <2>2, <3>2
    <3> QED BY <2>1, <2>6, <3>1, <3>3
  <2>8. b \in Starts(all) BY <2>6, <2>7 DEF Starts
  <2>9. a < b BY <1>2, <2>1, <2>6
  <2> QED BY <1>4, <2>6, <2>8, <2>9
<1>7. \A x \in a .. m - 1 : \E r \in all : x \in Within(r) BY <1>6
<1> QED BY <1>3, <1>7

\* Each range is in a merged one.
LEMMA MergedCovers ==
  ASSUME NEW all, all \subseteq MemoryRange, IsFiniteSet(all), NEW r \in all
  PROVE  \E a \in Starts(all) : Within(r) \subseteq Within(Merged(all, a))
<1> DEFINE A == {q.addr : q \in all}
           T == {b \in Starts(all) : b <= r.addr}
<1>1. \A q \in all : q.addr \in Nat /\ End(q) \in Nat /\ q.addr < End(q) BY RangesAre
<1>2. Starts(all) \subseteq Nat /\ IsFiniteSet(Starts(all)) BY StartsAre
<1>3. T # {}
  <2>1. A \subseteq Nat /\ r.addr \in A BY <1>1
  <2>2. PICK b \in A : \A k \in A : b <= k
    <3> HIDE DEF A
    <3> QED BY <2>1, LeastNat
  <2>3. ASSUME NEW q \in all, q.addr < b PROVE FALSE
    <3>1. b <= q.addr /\ b \in Nat /\ q.addr \in Nat BY <1>1, <2>1, <2>2
    <3> QED BY <2>3, <3>1
  <2>4. b \in Starts(all) BY <2>2, <2>3 DEF Starts
  <2>5. b <= r.addr BY <2>1, <2>2
  <2> QED BY <2>4, <2>5
<1>4. T \subseteq Nat /\ IsFiniteSet(T)
  <2>1. T \in SUBSET Starts(all) OBVIOUS
  <2> QED BY <1>2, <2>1, FS_Subset
<1>5. PICK a \in T : \A b \in T : b <= a
  <2> HIDE DEF T
  <2> QED BY <1>3, <1>4, GreatestNat
<1>6. a \in Starts(all) /\ a \in Nat /\ a <= r.addr /\ r.addr \in Nat BY <1>1, <1>4, <1>5
<1>7. ASSUME NEW b \in Starts(all), a < b, b <= r.addr PROVE FALSE
  <2>1. b \in T BY <1>7
  <2>2. b <= a /\ b \in Nat BY <1>4, <1>5, <2>1
  <2> QED BY <1>6, <1>7, <2>2
<1>8. End(r) \in MergedEnds(all, a)
  <2>1. r.addr >= a BY <1>6
  <2> QED BY <1>7, <2>1 DEF MergedEnds
<1> DEFINE m == Max(MergedEnds(all, a))
<1>9. m \in Nat /\ End(r) <= m /\ a < m BY <1>6, <1>8, EndsAre
<1>10. Within(Merged(all, a)) = a .. m - 1
  <2> HIDE DEF m
  <2>1. Merged(all, a) = [addr |-> a, size |-> m - a] BY DEF Merged, m
  <2>2. a + (m - a) - 1 = m - 1 BY <1>6, <1>9
  <2> QED BY <2>1, <2>2 DEF Within
<1> HIDE DEF m
<1>11. Within(r) \subseteq a .. m - 1
  <2> SUFFICES ASSUME NEW x \in Within(r) PROVE x \in a .. m - 1 OBVIOUS
  <2>1. x \in Nat /\ r.addr <= x /\ x < End(r) BY RangesAre
  <2> QED BY <1>1, <1>6, <1>9, <2>1
<1> QED BY <1>6, <1>10, <1>11

LEMMA FiniteElements == ASSUME NEW S, NEW s \in Seq(S) PROVE IsFiniteSet(ToSet(s)) /\ ToSet(s) \subseteq S
<1>1. Len(s) \in Nat /\ DOMAIN s = 1 .. Len(s) /\ \A i \in 1 .. Len(s) : s[i] \in S
  BY LenProperties, ElementOfSeq
<1>2. IsFiniteSet(1 .. Len(s)) BY <1>1, FS_Interval
<1>3. IsFiniteSet({s[i] : i \in 1 .. Len(s)})
  <2>1. s = [i \in 1 .. Len(s) |-> s[i]] BY <1>1
  <2> QED BY <1>2, <2>1, ValuesFinite
<1> QED BY <1>1, <1>3 DEF ToSet

LEMMA CoalesceHas ==
  ASSUME NEW ranges \in Seq(MemoryRange)
  PROVE  LET all == ToSet(ranges)
         IN  /\ coalesce_ranges(ranges) \in Seq(MemoryRange)
             /\ ToSet(coalesce_ranges(ranges)) = {Merged(all, a) : a \in Starts(all)}
<1> DEFINE all == ToSet(ranges)
           starts == Starts(all)
           n == Cardinality(starts)
           start(i) == CHOOSE a \in starts : Rank(starts, a) = i - 1
<1>1. all \subseteq MemoryRange /\ IsFiniteSet(all) BY FiniteElements
<1>2. starts \subseteq Nat /\ IsFiniteSet(starts)
  <2> HIDE DEF all
  <2> QED BY <1>1, StartsAre
<1>3. coalesce_ranges(ranges) = [i \in 1 .. n |-> Merged(all, start(i))]
  BY DEF coalesce_ranges, Merged, MergedEnds, Rank
<1> HIDE DEF all
<1>4. n \in Nat BY <1>2, FS_CardinalityType
<1> HIDE DEF starts, n
<1>5. ASSUME NEW i \in 1 .. n PROVE start(i) \in starts /\ Rank(starts, start(i)) = i - 1
  <2>1. i - 1 \in 0 .. n - 1 BY <1>4
  <2>2. \E a \in starts : Rank(starts, a) = i - 1 BY <1>2, <2>1, RankIs DEF n
  <2> QED BY <2>2
<1>6. ASSUME NEW a \in starts PROVE \E i \in 1 .. n : start(i) = a
  <2>1. Rank(starts, a) \in 0 .. n - 1 BY <1>2, RankIs DEF n
  <2> DEFINE i == Rank(starts, a) + 1
  <2>2. i \in 1 .. n /\ i - 1 = Rank(starts, a) BY <1>4, <2>1
  <2> HIDE DEF i
  <2>3. start(i) \in starts /\ Rank(starts, start(i)) = Rank(starts, a) BY <1>5, <2>2
  <2> HIDE DEF start
  <2>4. start(i) = a BY <1>2, <2>3, RankIs
  <2> QED BY <2>2, <2>4
<1> HIDE DEF start
<1>7. \A i \in 1 .. n : Merged(all, start(i)) \in MemoryRange BY <1>1, <1>5, MergedIs DEF starts
<1>8. coalesce_ranges(ranges) \in Seq(MemoryRange)
  <2>1. [i \in 1 .. n |-> Merged(all, start(i))] \in [1 .. n -> MemoryRange] BY <1>7
  <2> QED BY <1>3, <1>4, <2>1
<1>9. ToSet(coalesce_ranges(ranges)) = {Merged(all, start(i)) : i \in 1 .. n}
  BY <1>3 DEF ToSet
<1>10. {Merged(all, start(i)) : i \in 1 .. n} = {Merged(all, a) : a \in starts}
  BY <1>5, <1>6
<1> QED BY <1>8, <1>9, <1>10 DEF all, starts

-------------------------------------------------------------------------------
(* Halves of ranges, and words of memory.                                   *)

LEMMA SplitIs ==
  ASSUME NEW r \in MemoryRange, Divides(r)
  PROVE  /\ split_range(r) \in Seq(MemoryRange)
         /\ Span(ToSet(split_range(r))) = Within(r)
         /\ split_range(r) # <<>>
<1> DEFINE k == r.size \div 2
           a == [addr |-> r.addr, size |-> k]
           b == [addr |-> r.addr + k, size |-> k]
<1>1. r.addr \in Nat /\ r.size \in Nat /\ r.size > 0 BY RangesAre
<1>2. k \in Nat \ {0} /\ r.size = k + k BY <1>1 DEF Divides
<1> HIDE DEF k
<1>3. a \in MemoryRange /\ b \in MemoryRange BY <1>1, <1>2 DEF MemoryRange
<1>4. split_range(r) = <<a, b>> BY DEF split_range, k
<1>5. Within(r) = Within(a) \cup Within(b)
  <2>1. /\ Within(r) = r.addr .. r.addr + r.size - 1
        /\ Within(a) = r.addr .. r.addr + k - 1
        /\ Within(b) = r.addr + k .. r.addr + k + k - 1
    BY DEF Within
  <2> HIDE DEF a, b
  <2> QED BY <1>1, <1>2, <2>1
<1> HIDE DEF a, b
<1>6. ToSet(<<a, b>>) = {a, b} BY DEF ToSet
<1>7. Span({a, b}) = Within(a) \cup Within(b) BY DEF Span
<1> QED BY <1>3, <1>4, <1>5, <1>6, <1>7

LEMMA SplitAll ==
  ASSUME NEW changed \in Seq(MemoryRange), \A i \in DOMAIN changed : Divides(changed[i])
  PROVE  LET cur == FlattenSeq([i \in DOMAIN changed |-> split_range(changed[i])])
         IN  /\ cur \in Seq(MemoryRange)
             /\ ToSet(cur) = UNION {ToSet(split_range(r)) : r \in ToSet(changed)}
             /\ Span(ToSet(cur)) = Span(ToSet(changed))
             /\ changed # <<>> => cur # <<>>
<1> DEFINE ss == [i \in DOMAIN changed |-> split_range(changed[i])]
           cur == FlattenSeq(ss)
           n == Len(changed)
<1>1. n \in Nat /\ DOMAIN changed = 1 .. n /\ \A i \in 1 .. n : changed[i] \in MemoryRange
  BY LenProperties, ElementOfSeq
<1>2. ss \in Seq(Seq(MemoryRange)) /\ Len(ss) = n
  <2>1. \A i \in 1 .. n : split_range(changed[i]) \in Seq(MemoryRange) BY <1>1, SplitIs
  <2>2. ss \in [1 .. n -> Seq(MemoryRange)] BY <1>1, <2>1
  <2> HIDE DEF ss, n
  <2> QED BY <1>1, <2>2
<1>3. cur \in Seq(MemoryRange) /\ ToSet(cur) = UNION {ToSet(ss[i]) : i \in 1 .. n}
  <2> HIDE DEF ss, n
  <2> QED BY <1>2, FlattenHas
<1>4. \A i \in 1 .. n : ss[i] = split_range(changed[i]) BY <1>1
<1> HIDE DEF ss, cur, n
<1>5. ToSet(changed) = {changed[i] : i \in 1 .. n} BY <1>1 DEF ToSet
<1>6. ToSet(cur) = UNION {ToSet(split_range(r)) : r \in ToSet(changed)}
  BY <1>3, <1>4, <1>5
<1>7. \A r \in ToSet(changed) : r \in MemoryRange /\ Divides(r) BY <1>1, <1>5
<1>8. Span(ToSet(cur)) = Span(ToSet(changed))
  <2>1. Span(ToSet(cur)) = UNION {Span(ToSet(split_range(r))) : r \in ToSet(changed)}
    BY <1>6 DEF Span
  <2>2. \A r \in ToSet(changed) : Span(ToSet(split_range(r))) = Within(r) BY <1>7, SplitIs
  <2> QED BY <2>1, <2>2 DEF Span
<1>9. ASSUME changed # <<>> PROVE cur # <<>>
  <2>1. 1 \in 1 .. n BY <1>1, <1>9, EmptySeq DEF n
  <2>2. changed[1] \in ToSet(changed) BY <1>5, <2>1
  <2>3. split_range(changed[1]) \in Seq(MemoryRange) /\ split_range(changed[1]) # <<>>
    BY <1>7, <2>2, SplitIs
  <2>4. 1 \in DOMAIN split_range(changed[1]) BY <2>3, EmptySeq, LenProperties
  <2>5. split_range(changed[1])[1] \in ToSet(split_range(changed[1])) BY <2>4 DEF ToSet
  <2>6. ToSet(cur) # {} BY <1>6, <2>2, <2>5
  <2> QED BY <2>6 DEF ToSet
<1> QED BY <1>3, <1>6, <1>8, <1>9 DEF cur, ss

\* The ranges whose checksums differ.
LEMMA ChangedHas ==
  ASSUME NEW batch \in Seq(MemoryRange), NEW first, NEW second
  PROVE  /\ ChangedOf(batch, first, second) \in Seq(MemoryRange)
         /\ ToSet(ChangedOf(batch, first, second))
              = {batch[i] : i \in {j \in DOMAIN batch : first[j] # second[j]}}
<1> DEFINE one(i) == IF first[i] # second[i] THEN <<batch[i]>> ELSE <<>>
           ss == [i \in DOMAIN batch |-> one(i)]
           n == Len(batch)
<1>1. n \in Nat /\ DOMAIN batch = 1 .. n /\ \A i \in 1 .. n : batch[i] \in MemoryRange
  BY LenProperties, ElementOfSeq
<1>2. \A i \in 1 .. n : /\ one(i) \in Seq(MemoryRange)
                        /\ ToSet(one(i)) = IF first[i] # second[i] THEN {batch[i]} ELSE {}
  <2> SUFFICES ASSUME NEW i \in 1 .. n
               PROVE  /\ one(i) \in Seq(MemoryRange)
                      /\ ToSet(one(i)) = IF first[i] # second[i] THEN {batch[i]} ELSE {}
    OBVIOUS
  <2>1. batch[i] \in MemoryRange BY <1>1
  <2>2. CASE first[i] # second[i]
    <3>1. one(i) = <<batch[i]>> BY <2>2
    <3>2. <<batch[i]>> \in Seq(MemoryRange) BY <2>1
    <3>3. ToSet(<<batch[i]>>) = {batch[i]} BY DEF ToSet
    <3> QED BY <2>2, <3>1, <3>2, <3>3
  <2>3. CASE first[i] = second[i]
    <3>1. one(i) = <<>> BY <2>3
    <3>2. ToSet(<<>>) = {} BY DEF ToSet
    <3> QED BY <2>3, <3>1, <3>2
  <2> QED BY <2>2, <2>3
<1>3. \A i \in 1 .. n : ss[i] = one(i) BY <1>1
<1>4. ChangedOf(batch, first, second) = FlattenSeq(ss) BY DEF ChangedOf
<1>5. ss \in Seq(Seq(MemoryRange)) /\ Len(ss) = n
  <2>1. ss = [i \in 1 .. n |-> one(i)] BY <1>1
  <2> HIDE DEF one, n, ss
  <2>2. ss \in [1 .. n -> Seq(MemoryRange)] BY <1>2, <2>1
  <2> QED BY <1>1, <2>2
<1> HIDE DEF ss, n
<1>6. /\ FlattenSeq(ss) \in Seq(MemoryRange)
      /\ ToSet(FlattenSeq(ss)) = UNION {ToSet(ss[i]) : i \in 1 .. n}
  BY <1>5, FlattenHas
<1>7. UNION {ToSet(ss[i]) : i \in 1 .. n} = {batch[i] : i \in {j \in 1 .. n : first[j] # second[j]}}
  <2>1. \A i \in 1 .. n : ToSet(ss[i]) = IF first[i] # second[i] THEN {batch[i]} ELSE {}
    <3> HIDE DEF one
    <3> QED BY <1>2, <1>3
  <2> QED BY <2>1
<1> QED BY <1>1, <1>4, <1>6, <1>7

\* What the search makes of the checksum of a range.
Seen(le, m, r) == Unpack(IF le THEN Swapped(Word(m, r)) ELSE Word(m, r), TRUE)

LEMMA WordIs ==
  ASSUME NEW m, NEW r \in MemoryRange
  PROVE  LET w == Word(m, r)
         IN  /\ DOMAIN w = 1 .. r.size + 1 /\ w[1] = "right" /\ Swapped(Swapped(w)) = w
             /\ DOMAIN Swapped(w) = 1 .. r.size + 1
             /\ \A u \in Within(r) : /\ u - r.addr + 2 \in 1 .. r.size + 1
                                     /\ w[u - r.addr + 2] = m[u]
                                     /\ Swapped(w)[u - r.addr + 2] = m[u]
<1> DEFINE c == Contents(m, r)
           S == {"right"} \cup {c[i] : i \in 1 .. r.size}
           w == <<"right">> \o c
<1>1. r.addr \in Nat /\ r.size \in Nat /\ r.size > 0 BY RangesAre
<1>2. DOMAIN c = 1 .. r.size /\ \A i \in 1 .. r.size : c[i] = m[r.addr + i - 1] BY DEF Contents
<1>3. Word(m, r) = w BY DEF Word
<1>4. c = [i \in 1 .. r.size |-> c[i]] BY DEF Contents
<1> HIDE DEF c
<1>5. c \in Seq(S) /\ Len(c) = r.size
  <2>1. c \in [1 .. r.size -> S] BY <1>4
  <2> HIDE DEF S
  <2>2. c \in Seq(S) BY <1>1, <2>1
  <2> QED BY <1>1, <1>2, <2>2, LenProperties
<1>6. <<"right">> \in Seq(S) /\ Len(<<"right">>) = 1 OBVIOUS
<1> HIDE DEF S
<1>7. /\ w \in Seq(S) /\ Len(w) = 1 + r.size
      /\ \A i \in 1 .. 1 + r.size : w[i] = IF i <= 1 THEN <<"right">>[i] ELSE c[i - 1]
  BY <1>5, <1>6, ConcatProperties
<1>8. DOMAIN w = 1 .. 1 + r.size
  <2> HIDE DEF w
  <2> QED BY <1>7, LenProperties
<1> HIDE DEF w
<1>9. w[1] = "right"
  <2>1. 1 \in 1 .. 1 + r.size BY <1>1
  <2> QED BY <1>7, <2>1
<1>10. /\ DOMAIN Swapped(w) = DOMAIN w /\ Swapped(w)[1] = "swapped"
       /\ \A i \in DOMAIN w \ {1} : Swapped(w)[i] = w[i]
  <2>1. 1 \in DOMAIN w BY <1>1, <1>8
  <2> QED BY <1>9, <2>1 DEF Swapped
<1>11. Swapped(Swapped(w)) = w
  <2> DEFINE x == Swapped(w)
             y == Swapped(x)
  <2>1. DOMAIN y = DOMAIN x BY DEF Swapped
  <2>2. 1 \in DOMAIN x BY <1>1, <1>8, <1>10
  <2>3. y = [x EXCEPT ![1] = "right"] BY <1>10 DEF Swapped
  <2>4. w = [i \in DOMAIN w |-> w[i]]
    <3>1. w \in [1 .. 1 + r.size -> S] BY <1>7, <1>8, LenProperties, ElementOfSeq
    <3> QED BY <1>8, <3>1
  <2>5. y = [i \in DOMAIN x |-> IF i = 1 THEN "right" ELSE x[i]] BY <2>3 DEF Swapped
  <2> HIDE DEF x, y
  <2>6. \A i \in DOMAIN w : y[i] = w[i]
    BY <1>9, <1>10, <2>5 DEF x
  <2>7. DOMAIN y = DOMAIN w BY <1>10, <2>1 DEF x
  <2>8. y = w BY <2>4, <2>5, <2>6, <2>7
  <2> QED BY <2>8 DEF x, y
<1>12. ASSUME NEW u \in Within(r)
       PROVE  /\ u - r.addr + 2 \in 1 .. r.size + 1 /\ w[u - r.addr + 2] = m[u]
              /\ Swapped(w)[u - r.addr + 2] = m[u]
  <2>1. u \in Nat /\ r.addr <= u /\ u < r.addr + r.size BY RangesAre DEF End
  <2> DEFINE i == u - r.addr + 1
  <2>2. i \in 1 .. r.size /\ i + 1 \in 1 .. 1 + r.size /\ i + 1 # 1 /\ ~(i + 1 <= 1)
        /\ (i + 1) - 1 = i /\ r.addr + i - 1 = u /\ i + 1 = u - r.addr + 2
    BY <1>1, <2>1
  <2> HIDE DEF i
  <2>3. w[i + 1] = c[i] BY <1>7, <2>2
  <2>4. c[i] = m[u] BY <1>2, <2>2
  <2>5. Swapped(w)[i + 1] = w[i + 1] BY <1>8, <1>10, <2>2
  <2>6. 1 .. 1 + r.size = 1 .. r.size + 1 BY <1>1
  <2> QED BY <2>2, <2>3, <2>4, <2>5, <2>6
<1>13. 1 .. 1 + r.size = 1 .. r.size + 1 BY <1>1
<1> QED BY <1>3, <1>8, <1>9, <1>10, <1>11, <1>12, <1>13

\* Checksums differ where the memory does, and only there.
LEMMA SeenDiffers ==
  ASSUME NEW le, NEW m, NEW n, NEW r \in MemoryRange
  PROVE  /\ (\A u \in Within(r) : m[u] = n[u]) => Seen(le, m, r) = Seen(le, n, r)
         /\ \A u \in Within(r) : m[u] # n[u] => Seen(le, m, r) # Seen(le, n, r)
<1>1. ASSUME \A u \in Within(r) : m[u] = n[u] PROVE Seen(le, m, r) = Seen(le, n, r)
  <2>1. ASSUME NEW i \in 1 .. r.size PROVE m[r.addr + i - 1] = n[r.addr + i - 1]
    <3>1. r.addr + i - 1 \in Within(r)
      <4>1. r.addr \in Nat /\ r.size \in Nat BY RangesAre
      <4> QED BY <4>1 DEF Within
    <3> QED BY <1>1, <3>1
  <2>2. Contents(m, r) = Contents(n, r) BY <2>1 DEF Contents
  <2>3. Word(m, r) = Word(n, r) BY <2>2 DEF Word
  <2> QED BY <2>3 DEF Seen
<1>2. ASSUME NEW u \in Within(r), m[u] # n[u] PROVE Seen(le, m, r) # Seen(le, n, r)
  <2> DEFINE i == u - r.addr + 2
  <2>1. ASSUME NEW k PROVE Seen(le, k, r)[i] = k[u]
    <3>1. /\ Word(k, r)[i] = k[u] /\ Swapped(Word(k, r))[i] = k[u]
          /\ Swapped(Swapped(Word(k, r))) = Word(k, r)
      BY WordIs
    <3>2. Seen(le, k, r) = Swapped(Word(k, r)) \/ Seen(le, k, r) = Word(k, r)
      BY <3>1 DEF Seen, Unpack
    <3> QED BY <3>1, <3>2
  <2> QED BY <1>2, <2>1
<1> QED BY <1>1, <1>2

-------------------------------------------------------------------------------
(* The checksums of a script, as the handler gets them.                     *)

LEMMA KeyIs ==
  ASSUME NEW i \in 1 .. 6
  PROVE  /\ KeyIndex(Key(i)) = i
         /\ Key(i) \in ToSet(KeyNames) /\ Key(i) \notin {"token"} \cup Reserved \cup Hidden
<1>1. Len(KeyNames) = 6 /\ DOMAIN KeyNames = 1 .. 6 BY DEF KeyNames
<1>2. \A j \in 1 .. 6 : Key(j) = Key(i) => j = i
  <2>1. /\ Key(1) = "_0" /\ Key(2) = "_1" /\ Key(3) = "_2" /\ Key(4) = "_3" /\ Key(5) = "_4"
        /\ Key(6) = "_5"
    BY DEF Key, KeyNames
  <2>2. \A j \in 1 .. 6 : j \in {1, 2, 3, 4, 5, 6} OBVIOUS
  <2> QED BY <2>1, <2>2
<1>3. KeyIndex(Key(i)) = i BY <1>1, <1>2 DEF KeyIndex
<1>4. Key(i) \in ToSet(KeyNames) BY <1>1 DEF ToSet, Key
<1>5. Key(i) \in {"_0", "_1", "_2", "_3", "_4", "_5"}
  <2>1. i \in {1, 2, 3, 4, 5, 6} OBVIOUS
  <2> QED BY <2>1 DEF Key, KeyNames
<1>6. Key(i) \notin {"token"} \cup Reserved \cup Hidden BY <1>5 DEF Reserved, Hidden
<1> QED BY <1>3, <1>4, <1>6

LEMMA KeysAre ==
  ASSUME NEW S, NEW ranges \in Seq(S), Len(ranges) <= 6
  PROVE  /\ AreNames(Keys(ranges)) /\ DOMAIN ranges \subseteq 1 .. 6
         /\ ToSet(Keys(ranges)) = {Key(i) : i \in DOMAIN ranges}
<1> DEFINE n == Len(ranges)
           keys == Keys(ranges)
<1>1. n \in Nat /\ n <= 6 /\ DOMAIN ranges = 1 .. n BY LenProperties
<1>2. keys = [i \in 1 .. n |-> Key(i)] BY <1>1 DEF Keys
<1> HIDE DEF n, keys
<1>3. 1 .. n \subseteq 1 .. 6 BY <1>1
<1>4. ToSet(keys) = {Key(i) : i \in 1 .. n} BY <1>2 DEF ToSet
<1>5. keys \in Seq(ToSet(keys))
  <2>1. keys \in [1 .. n -> ToSet(keys)] BY <1>2, <1>4
  <2> QED BY <1>1, <2>1
<1>6. None \notin ToSet(keys)
  <2>1. \A i \in 1 .. n : Key(i) \in ToSet(KeyNames) BY <1>3, KeyIs
  <2> QED BY <1>4, <2>1, NoneIsNoName
<1> QED BY <1>1, <1>3, <1>4, <1>5, <1>6 DEF AreNames, IsSequence, keys

\* What a handler finds under a key that it has asked for.
Answer(vs, keys) == Values(ContinuePath(vs, Token, keys))
Returns(s, vs, keys) == Merge(s, Answer(vs, keys)).public_env

LEMMA MergedHas ==
  ASSUME NEW s, NEW vs, NEW keys,
         Fits(s), AreNames(keys), \A k \in ToSet(keys) : Single(vs, k)
  PROVE  /\ \A k : k \in DOMAIN Answer(vs, keys) <=> k = "token" \/ k \in ToSet(keys)
         /\ \A k \in ToSet(keys) \ {"token"} : Answer(vs, keys)[k] = TextOf(vs, k)
         /\ "token" \notin ToSet(keys) => Answer(vs, keys)["token"] = Token
         /\ \A k \in ToSet(keys) \ (Reserved \cup Hidden) : Returns(s, vs, keys)[k] = TextOf(vs, k)
<1> DEFINE v == Answer(vs, keys)
           env == Updated(s.env, Without(v, Reserved))
<1>1. /\ DOMAIN v = {"token"} \cup ToSet(keys)
      /\ \A k \in ToSet(keys) \ {"token"} : v[k] = TextOf(vs, k)
      /\ "token" \notin ToSet(keys) => v["token"] = Token
  BY AnswerIs DEF Answer
<1> HIDE DEF v
<1>2. \A k \in ToSet(keys) \ Reserved : k \in DOMAIN env /\ env[k] = TextOf(vs, k)
  BY <1>1 DEF Updated, Without, Reserved
<1>3. Returns(s, vs, keys) = PublicEnv(env) BY MergeIs DEF Returns, v
<1> HIDE DEF env
<1>4. \A k \in ToSet(keys) \ (Reserved \cup Hidden) : PublicEnv(env)[k] = TextOf(vs, k)
  BY <1>2 DEF PublicEnv, Without
<1> QED BY <1>1, <1>3, <1>4 DEF v

LEMMA PlainIs ==
  ASSUME NEW vs, NEW k, NEW text, k \in DOMAIN vs, vs[k] = Plain(text)
  PROVE  Single(vs, k) /\ TextOf(vs, k) = text
<1>1. Expand(vs, k) = <<Segment(None, text)>> BY DEF Expand, Plain
<1> DEFINE g == Segment(None, text)
<1>2. g.text = text BY DEF Segment
<1> HIDE DEF g
<1>3. <<g>> \in Seq({g}) /\ Len(<<g>>) = 1 /\ Head(<<g>>) = g /\ ToSet(<<g>>) = {g} BY DEF ToSet
<1> QED BY <1>1, <1>2, <1>3 DEF Single, TextOf, IsSequence, g

LEMMA ChecksumsAre ==
  ASSUME NEW s, Fits(s), NEW S, NEW ranges \in Seq(S), Len(ranges) <= 6, NEW vs, NEW words,
         \A i \in DOMAIN ranges : Key(i) \in DOMAIN vs /\ vs[Key(i)] = Plain(words[i])
  PROVE  \A i \in DOMAIN ranges : Returns(s, vs, Keys(ranges))[Key(i)] = words[i]
<1>1. /\ AreNames(Keys(ranges)) /\ DOMAIN ranges \subseteq 1 .. 6
      /\ ToSet(Keys(ranges)) = {Key(i) : i \in DOMAIN ranges}
  BY KeysAre
<1>2. \A i \in DOMAIN ranges : Single(vs, Key(i)) /\ TextOf(vs, Key(i)) = words[i]
  BY PlainIs
<1>3. \A k \in ToSet(Keys(ranges)) : Single(vs, k) BY <1>1, <1>2
<1>4. \A k \in ToSet(Keys(ranges)) \ (Reserved \cup Hidden) :
        Returns(s, vs, Keys(ranges))[k] = TextOf(vs, k)
  BY <1>1, <1>3, MergedHas
<1>5. \A i \in DOMAIN ranges : Key(i) \in ToSet(Keys(ranges)) \ (Reserved \cup Hidden)
  BY <1>1, KeyIs
<1> QED BY <1>2, <1>4, <1>5

\* The device puts the checksums there.
LEMMA CrcVarsAre ==
  ASSUME NEW ranges, DOMAIN ranges \subseteq 1 .. 6, NEW m, NEW vs, NEW ran,
         ran = Updated(vs, CrcVars(m, ranges))
  PROVE  \A i \in DOMAIN ranges : Key(i) \in DOMAIN ran /\ ran[Key(i)] = Plain(Stored(m, ranges[i]))
<1> SUFFICES ASSUME NEW i \in DOMAIN ranges
             PROVE  Key(i) \in DOMAIN ran /\ ran[Key(i)] = Plain(Stored(m, ranges[i]))
  OBVIOUS
<1>1. KeyIndex(Key(i)) = i BY KeyIs
<1> DEFINE c == CrcVars(m, ranges)
<1>2. Key(i) \in DOMAIN c /\ c[Key(i)] = Plain(Stored(m, ranges[i])) BY <1>1 DEF CrcVars
<1> HIDE DEF c
<1>3. ran = Updated(vs, c) BY DEF c
<1> QED BY <1>2, <1>3 DEF Updated

-------------------------------------------------------------------------------
(* The search.                                                              *)

\* Units that always change.
Active(w) == {u \in Span(ToSet(w.ranges)) : w.memory[u] = "always"}
Stirs(w, r) == \E u \in Within(r) : w.memory[u] # "still"
Lively(w, r) ==
  \A n \in 0 .. (r.size \div MinChunk) - 1 :
    Stirs(w, [addr |-> r.addr + n * MinChunk, size |-> MinChunk])

\* Ranges of the same size, at multiples of the smallest.
Grid(R, p) == \A r \in R : r.size = MinChunk * p /\ \E q \in Nat : r.addr = q * MinChunk
Aligned(R) == \E p \in Powers : Grid(R, p)

\* What is searched next, what has been found in this pass, and what is found in the end:
\* nothing active is lost, and of even ranges nothing is kept that is still.
ToSearch(w, cur) ==
  /\ cur \in Seq(MemoryRange) /\ Span(ToSet(cur)) \subseteq DOMAIN w.memory
  /\ Even(w.ranges) => Aligned(ToSet(cur))
SearchOK(w, h) ==
  /\ h = [at |-> h.at, cur |-> h.cur, b |-> h.b, changed |-> h.changed, crcs |-> h.crcs]
  /\ ToSearch(w, h.cur)
  /\ h.b \in 1 .. Len(batched(h.cur))
  /\ h.changed \in Seq(MemoryRange) /\ ToSet(h.changed) \subseteq ToSet(h.cur)
  /\ Active(w) \subseteq Span(ToSet(h.changed)) \cup Span(From(h.cur, h.b))
  /\ Even(w.ranges) => \A r \in ToSet(h.changed) : Stirs(w, r)
PassOK(w, changed) ==
  /\ ToSearch(w, changed)
  /\ Active(w) \subseteq Span(ToSet(changed))
  /\ Even(w.ranges) => \A r \in ToSet(changed) : Stirs(w, r)
FoundOK(w, ranges) ==
  /\ ranges \in Seq(MemoryRange)
  /\ Active(w) \subseteq Span(ToSet(ranges))
  /\ Even(w.ranges) => \A r \in ToSet(ranges) : Lively(w, r)

LEMMA EmptySet == ToSet(<<>>) = {} /\ Span({}) = {}
BY DEF ToSet, Span

\* Of even ranges that are all stirred, merging makes lively ones.
LEMMA MergedLively ==
  ASSUME NEW w, NEW all, all \subseteq MemoryRange, IsFiniteSet(all), Grid(all, 1),
         \A r \in all : Stirs(w, r), NEW a \in Starts(all)
  PROVE  Lively(w, Merged(all, a))
<1> DEFINE C == MinChunk
           g == Merged(all, a)
<1>1. C \in Nat \ {0} BY SizesAreNats
<1>2. g \in MemoryRange /\ \A x \in Within(g) : \E r \in all : x \in Within(r) BY MergedIs
<1>3. g.addr = a BY DEF Merged
<1>4. PICK q \in Nat : a = q * C BY DEF Starts, Grid
<1> HIDE DEF g
<1>5. SUFFICES ASSUME NEW n \in 0 .. (g.size \div C) - 1
               PROVE  Stirs(w, [addr |-> g.addr + n * C, size |-> C])
  BY DEF Lively, g
<1>6. g.size \in Nat /\ a \in Nat /\ End(g) = a + g.size BY <1>2, <1>3, RangesAre DEF End
<1>7. n * C + C <= g.size BY <1>1, <1>5, <1>6, PartFits
<1>8. n \in Nat
  <2> DEFINE d == g.size \div C
  <2>1. d \in Int BY <1>1, <1>6
  <2> HIDE DEF d
  <2> QED BY <1>5, <2>1 DEF d
<1> DEFINE x == a + n * C
<1>9. x \in Nat /\ a <= x /\ x + C <= End(g) /\ x = (q + n) * C
  <2>1. n * C \in Nat BY <1>1, <1>8
  <2>2. x = (q + n) * C BY <1>1, <1>4, <1>8
  <2> HIDE DEF C
  <2> DEFINE y == n * C
  <2> HIDE DEF y
  <2>3. y \in Nat /\ y + C <= g.size BY <1>7, <2>1 DEF y
  <2>4. a + y \in Nat /\ a <= a + y /\ a + y + C <= a + g.size BY <1>1, <1>6, <2>3
  <2> QED BY <1>6, <2>2, <2>4 DEF y
<1> HIDE DEF x
<1>10. x \in Within(g) BY <1>1, <1>2, <1>3, <1>6, <1>9, RangesAre
<1>11. PICK r \in all : x \in Within(r) BY <1>2, <1>10
<1>12. r.size = C
  <2>1. r.size = C * 1 BY DEF Grid
  <2> QED BY <1>1, <2>1
<1>13. PICK p \in Nat : r.addr = p * C BY DEF Grid
<1>14. r.addr <= x /\ x < r.addr + C BY <1>11, <1>12, RangesAre DEF End
<1>15. p = q + n
  <2>1. q + n \in Nat BY <1>8
  <2> DEFINE k == q + n
  <2> HIDE DEF k
  <2>2. k \in Nat /\ p * C <= k * C /\ k * C < p * C + C BY <1>9, <1>13, <1>14, <2>1 DEF k
  <2>3. p = k BY <1>1, <2>2, SameMultiple
  <2> QED BY <2>3 DEF k
<1>16. r.addr = x BY <1>9, <1>13, <1>15
<1>17. Within([addr |-> g.addr + n * C, size |-> C]) = Within(r)
  <2>1. g.addr + n * C = x BY <1>3 DEF x
  <2> QED BY <1>12, <1>16, <2>1 DEF Within
<1>18. Stirs(w, r) OBVIOUS
<1> QED BY <1>17, <1>18 DEF Stirs

\* Even ranges that are larger than the smallest have even halves.
LEMMA HalvesAligned ==
  ASSUME NEW R, R \subseteq MemoryRange, NEW p \in Powers, p # 1, Grid(R, p)
  PROVE  Aligned(UNION {ToSet(split_range(r)) : r \in R})
<1> DEFINE C == MinChunk
           k == p \div 2
           H == UNION {ToSet(split_range(r)) : r \in R}
<1>1. C \in Nat \ {0} BY SizesAreNats
<1>2. k \in Powers /\ k \in Nat /\ p = 2 * k BY DEF Powers
<1> HIDE DEF k
<1>3. ASSUME NEW r \in R PROVE \A h \in ToSet(split_range(r)) : /\ h.size = C * k
                                                                /\ \E q \in Nat : h.addr = q * C
  <2>1. r.size = C * p BY DEF Grid
  <2>2. PICK q \in Nat : r.addr = q * C BY DEF Grid
  <2> DEFINE s == C * k
             half == r.size \div 2
             a == [addr |-> r.addr, size |-> half]
             b == [addr |-> r.addr + half, size |-> half]
  <2>3. s \in Nat /\ C * p = 2 * s BY <1>1, <1>2
  <2>4. half = s
    <3> HIDE DEF s
    <3> QED BY <2>1, <2>3
  <2>5. r.addr + s = (q + k) * C BY <1>1, <1>2, <2>2
  <2>6. ToSet(split_range(r)) = {a, b} BY DEF split_range, ToSet
  <2>7. a.addr = r.addr /\ a.size = half /\ b.addr = r.addr + half /\ b.size = half OBVIOUS
  <2>8. q + k \in Nat BY <1>2
  <2> HIDE DEF a, b, half
  <2> QED BY <2>2, <2>4, <2>5, <2>6, <2>7, <2>8
<1>4. Grid(H, k) BY <1>3 DEF Grid
<1> QED BY <1>2, <1>4 DEF Aligned

LEMMA FindingOK ==
  ASSUME NEW w, NEW cur, ToSearch(w, cur), cur # <<>>, Active(w) \subseteq Span(ToSet(cur))
  PROVE  SearchOK(w, Finding(cur, 1, <<>>)) /\ Finding(cur, 1, <<>>).at = "first"
<1> DEFINE h == Finding(cur, 1, <<>>)
<1>1. /\ h = [at |-> h.at, cur |-> h.cur, b |-> h.b, changed |-> h.changed, crcs |-> h.crcs]
      /\ h.cur = cur /\ h.b = 1 /\ h.changed = <<>> /\ h.at = "first"
  BY DEF Finding
<1> HIDE DEF h
<1>2. cur \in Seq(MemoryRange) BY DEF ToSearch
<1>3. 1 \in 1 .. Len(batched(cur)) /\ From(cur, 1) = ToSet(cur) BY <1>2, FirstBatch
<1>4. <<>> \in Seq(MemoryRange) OBVIOUS
<1>5. Span(ToSet(<<>>)) \cup Span(From(cur, 1)) = Span(ToSet(cur)) BY <1>3, EmptySet
<1> QED BY <1>1, <1>3, <1>4, <1>5, EmptySet DEF SearchOK, h

\* After a pass.
LEMMA PassEndsOK ==
  ASSUME NEW w, NEW changed, PassOK(w, changed)
  PROVE  LET h == PassEnds(changed)
         IN  \/ h.at = "found" /\ FoundOK(w, h.ranges)
             \/ h.at = "raised"
             \/ h.at = "first" /\ SearchOK(w, h)
<1> DEFINE h == PassEnds(changed)
           all == ToSet(changed)
<1>1. changed \in Seq(MemoryRange) BY DEF PassOK, ToSearch
<1>2. all \subseteq MemoryRange /\ IsFiniteSet(all) BY <1>1, FiniteElements
<1>3. CASE changed = <<>>
  <2>1. h = [at |-> "found", ranges |-> <<>>] BY <1>3 DEF PassEnds, Found
  <2>2. <<>> \in Seq(MemoryRange) OBVIOUS
  <2>3. Active(w) \subseteq Span(ToSet(<<>>)) BY <1>3 DEF PassOK
  <2>4. FoundOK(w, <<>>) BY <2>2, <2>3, EmptySet DEF FoundOK
  <2> QED BY <2>1, <2>4
<1>4. CASE changed # <<>> /\ changed[1].size <= MinChunk
  <2> DEFINE c == coalesce_ranges(changed)
  <2>1. h = [at |-> "found", ranges |-> c] BY <1>4 DEF PassEnds, Found
  <2>2. c \in Seq(MemoryRange) /\ ToSet(c) = {Merged(all, a) : a \in Starts(all)}
    BY <1>1, CoalesceHas
  <2> HIDE DEF c, all
  <2>3. Active(w) \subseteq Span(ToSet(c))
    <3> SUFFICES ASSUME NEW u \in Active(w) PROVE u \in Span(ToSet(c)) OBVIOUS
    <3>1. PICK r \in all : u \in Within(r) BY DEF PassOK, Span, all
    <3>2. PICK a \in Starts(all) : Within(r) \subseteq Within(Merged(all, a))
      BY <1>2, MergedCovers
    <3> QED BY <2>2, <3>1, <3>2 DEF Span
  <2>4. ASSUME Even(w.ranges), NEW r \in ToSet(c) PROVE Lively(w, r)
    <3>1. PICK a \in Starts(all) : r = Merged(all, a) BY <2>2
    <3>2. PICK p \in Powers : Grid(all, p) BY <2>4 DEF PassOK, ToSearch, Aligned, all
    <3>3. changed[1] \in all
      <4>1. 1 \in DOMAIN changed BY <1>1, <1>4, EmptySeq, LenProperties
      <4> QED BY <4>1 DEF ToSet, all
    <3>4. p = 1
      <4>1. MinChunk * p <= MinChunk BY <1>4, <3>2, <3>3 DEF Grid
      <4>2. p \in Nat \ {0} /\ (p # 1 => p >= 2) BY DEF Powers
      <4>3. MinChunk \in Nat \ {0} BY SizesAreNats
      <4>4. ASSUME p # 1 PROVE FALSE
        <5>1. 1 < p BY <4>2, <4>4
        <5>2. 1 * MinChunk + MinChunk <= p * MinChunk BY <4>2, <4>3, <5>1, TimesGrows
        <5>3. p * MinChunk = MinChunk * p /\ 1 * MinChunk = MinChunk BY <4>2, <4>3
        <5>4. MinChunk + MinChunk <= MinChunk * p /\ MinChunk * p \in Int BY <4>2, <4>3, <5>2, <5>3
        <5> QED BY <4>1, <4>3, <5>4
      <4> QED BY <4>4
    <3>5. \A x \in all : Stirs(w, x) BY <2>4 DEF PassOK, all
    <3>6. Grid(all, 1) BY <3>2, <3>4
    <3> QED BY <1>2, <3>1, <3>5, <3>6, MergedLively
  <2>5. FoundOK(w, c) BY <2>2, <2>3, <2>4 DEF FoundOK
  <2> QED BY <2>1, <2>5
<1>5. CASE /\ changed # <<>> /\ ~(changed[1].size <= MinChunk)
           /\ \E i \in DOMAIN changed : ~Divides(changed[i])
  BY <1>5 DEF PassEnds
<1>6. CASE /\ changed # <<>> /\ ~(changed[1].size <= MinChunk)
           /\ \A i \in DOMAIN changed : Divides(changed[i])
  <2> DEFINE cur == FlattenSeq([i \in DOMAIN changed |-> split_range(changed[i])])
  <2>1. h = Finding(cur, 1, <<>>) BY <1>6 DEF PassEnds
  <2>2. /\ cur \in Seq(MemoryRange)
        /\ ToSet(cur) = UNION {ToSet(split_range(r)) : r \in all}
        /\ Span(ToSet(cur)) = Span(all)
        /\ cur # <<>>
    BY <1>1, <1>6, SplitAll
  <2> HIDE DEF cur
  <2>3. ASSUME Even(w.ranges) PROVE Aligned(ToSet(cur))
    <3>1. PICK p \in Powers : Grid(all, p) BY <2>3 DEF PassOK, ToSearch, Aligned
    <3>2. changed[1] \in all
      <4>1. 1 \in DOMAIN changed BY <1>1, <1>6, EmptySeq, LenProperties
      <4> QED BY <4>1 DEF ToSet
    <3>3. p # 1
      <4>1. changed[1].size = MinChunk * p BY <3>1, <3>2 DEF Grid
      <4>2. MinChunk \in Nat BY SizesAreNats
      <4> QED BY <1>6, <4>1, <4>2
    <3> HIDE DEF all
    <3> QED BY <1>2, <2>2, <3>1, <3>3, HalvesAligned
  <2>4. ToSearch(w, cur)
    <3>1. Span(ToSet(cur)) \subseteq DOMAIN w.memory BY <2>2 DEF PassOK, ToSearch
    <3> QED BY <2>2, <2>3, <3>1 DEF ToSearch
  <2>5. Active(w) \subseteq Span(ToSet(cur)) BY <2>2 DEF PassOK
  <2>6. SearchOK(w, h) /\ h.at = "first" BY <2>1, <2>2, <2>4, <2>5, FindingOK
  <2> QED BY <2>6
<1> QED BY <1>3, <1>4, <1>5, <1>6

-------------------------------------------------------------------------------
(* The inductive invariant.                                                 *)

\* Where a handler waits for an answer, or has raised.
Suspended == {"preflight", "first", "second", "le", "crc", "user", "raised"}

\* The variables of a session.
EnvOK(w, segments, env) ==
  /\ Hidden \subseteq DOMAIN env /\ None \notin DOMAIN env
  /\ Reserved \cap DOMAIN env \subseteq DOMAIN SessionEnvOf(w.doc, Client, segments)

BatchOf(h) == batched(h.cur)[h.b]
AllSeen(w, m, ranges) == [i \in DOMAIN ranges |-> Seen(w.le, m, ranges[i])]

\* A session s of the request segments with its handler h, when the memory is m.  What a
\* handler has of the memory is what the memory was when it ran the last script.
Good(w, segments, s, h, m) ==
  /\ Fits(s) /\ AreNames(s.asked) /\ EnvOK(w, segments, s.env)
  /\ h.at = "preflight" => /\ s.env = SessionEnvOf(w.doc, Client, segments)
                           /\ s.asked = <<"hush_shell">>
  /\ h.at = "le" => s.asked = <<"_1">>
  /\ h.at = "crc" => s.asked = Keys(w.ranges) /\ h.le = w.le
  /\ h.at \in {"first", "second"} => SearchOK(w, h) /\ s.asked = Keys(BatchOf(h))
  /\ h.at = "second" => h.crcs = AllSeen(w, m, BatchOf(h))

\* Without a session.
EndOK(w, h, m) ==
  /\ h.at = "found" => FoundOK(w, h.ranges)
  /\ h.at = "shown" => h.crcs = [i \in DOMAIN w.ranges |-> Word(m, w.ranges[i])]

HandlerOK(w, segments, s, h, m) ==
  IF h.at \in Suspended THEN Good(w, segments, s, h, m) ELSE s = None /\ EndOK(w, h, m)

AreSeqs(vs) == \A k \in DOMAIN vs : IsSequence(vs[k])
Bits(w) == [DOMAIN w.memory -> {"0", "1"}]

IInv ==
  /\ world \in Worlds /\ memory \in Bits(world) /\ AreSeqs(vars)
  /\ started.count \in 0 .. MaxStarts /\ IsSequence(started.segments)
  /\ HandlerOK(world, started.segments, session, handler, memory)

-------------------------------------------------------------------------------
(* A batch of the search.                                                   *)

\* From one script to the next, n after m.
Flows(w, m, n) ==
  \A u \in DOMAIN w.memory : /\ w.memory[u] = "still" => n[u] = m[u]
                             /\ w.memory[u] = "always" => n[u] # m[u]

LEMMA BatchOK ==
  ASSUME NEW w, NEW h, SearchOK(w, h), NEW m, NEW n, Flows(w, m, n)
  PROVE  LET batch == BatchOf(h)
             changed == h.changed \o ChangedOf(batch, AllSeen(w, m, batch), AllSeen(w, n, batch))
         IN  /\ changed \in Seq(MemoryRange) /\ ToSet(changed) \subseteq ToSet(h.cur)
             /\ Active(w) \subseteq Span(ToSet(changed))
                                      \cup (IF h.b < Len(batched(h.cur)) THEN Span(From(h.cur, h.b + 1)) ELSE {})
             /\ Even(w.ranges) => \A r \in ToSet(changed) : Stirs(w, r)
<1> DEFINE batch == BatchOf(h)
           first == AllSeen(w, m, batch)
           second == AllSeen(w, n, batch)
           new == ChangedOf(batch, first, second)
           changed == h.changed \o new
           cur == h.cur
           rest == From(cur, h.b + 1)
           more == h.b < Len(batched(cur))
<1>1. /\ cur \in Seq(MemoryRange) /\ Span(ToSet(cur)) \subseteq DOMAIN w.memory
      /\ h.b \in 1 .. Len(batched(cur))
      /\ h.changed \in Seq(MemoryRange) /\ ToSet(h.changed) \subseteq ToSet(cur)
      /\ Active(w) \subseteq Span(ToSet(h.changed)) \cup Span(From(cur, h.b))
      /\ Even(w.ranges) => \A r \in ToSet(h.changed) : Stirs(w, r)
  BY DEF SearchOK, ToSearch
<1>2. /\ batch \in Seq(MemoryRange) /\ ToSet(batch) \subseteq ToSet(cur)
      /\ IF more THEN From(cur, h.b) \subseteq ToSet(batch) \cup rest
                 ELSE From(cur, h.b) \subseteq ToSet(batch)
  BY <1>1, BatchIs DEF BatchOf
<1> HIDE DEF batch, rest, more
<1>3. \A i \in DOMAIN batch : /\ batch[i] \in MemoryRange /\ batch[i] \in ToSet(batch)
                              /\ first[i] = Seen(w.le, m, batch[i])
                              /\ second[i] = Seen(w.le, n, batch[i])
  <2>1. \A i \in DOMAIN batch : batch[i] \in ToSet(batch) BY DEF ToSet
  <2>2. ToSet(batch) \subseteq MemoryRange BY <1>2, FiniteElements
  <2> QED BY <2>1, <2>2 DEF AllSeen
<1> HIDE DEF first, second
<1>4. /\ new \in Seq(MemoryRange)
      /\ \A r : r \in ToSet(new) <=> \E i \in DOMAIN batch : first[i] # second[i] /\ r = batch[i]
  <2>1. ToSet(new) = {batch[i] : i \in {j \in DOMAIN batch : first[j] # second[j]}}
    BY <1>2, ChangedHas
  <2>2. new \in Seq(MemoryRange) BY <1>2, ChangedHas
  <2> HIDE DEF new
  <2>3. \A r : r \in ToSet(new) <=> \E i \in DOMAIN batch : first[i] # second[i] /\ r = batch[i]
    BY <2>1
  <2> QED BY <2>2, <2>3
<1> HIDE DEF new
<1>5. changed \in Seq(MemoryRange) /\ ToSet(changed) = ToSet(h.changed) \cup ToSet(new)
  BY <1>1, <1>4, ConcatHas
<1> HIDE DEF changed, cur
<1>6. ToSet(changed) \subseteq ToSet(cur)
  <2>1. ToSet(new) \subseteq ToSet(batch) BY <1>3, <1>4
  <2> QED BY <1>1, <1>2, <1>5, <2>1
<1>7. ASSUME NEW r \in ToSet(new) PROVE Stirs(w, r)
  <2>1. PICK i \in DOMAIN batch : first[i] # second[i] /\ r = batch[i] BY <1>4
  <2>2. r \in MemoryRange /\ Seen(w.le, m, r) # Seen(w.le, n, r) BY <1>3, <2>1
  <2>3. PICK u \in Within(r) : m[u] # n[u] BY <2>2, SeenDiffers
  <2>4. u \in DOMAIN w.memory
    <3>1. r \in ToSet(cur) BY <1>5, <1>6
    <3> QED BY <1>1, <2>3, <3>1 DEF Span
  <2> QED BY <2>3, <2>4 DEF Stirs, Flows
<1>8. ASSUME NEW r \in ToSet(batch), NEW u \in Within(r), u \in Active(w) PROVE r \in ToSet(new)
  <2>1. PICK i \in DOMAIN batch : r = batch[i] BY DEF ToSet
  <2>2. w.memory[u] = "always" BY <1>8 DEF Active
  <2>3. u \in DOMAIN w.memory BY <1>1, <1>2 DEF Span
  <2>4. m[u] # n[u] BY <2>2, <2>3 DEF Flows
  <2>5. r \in MemoryRange BY <1>3, <2>1
  <2>6. Seen(w.le, m, r) # Seen(w.le, n, r) BY <2>4, <2>5, SeenDiffers
  <2> QED BY <1>3, <1>4, <2>1, <2>6
<1>9. ASSUME NEW u \in Active(w)
      PROVE  u \in Span(ToSet(changed)) \/ (more /\ u \in Span(rest))
  <2>1. CASE u \in Span(ToSet(h.changed)) BY <1>5, <2>1 DEF Span
  <2>2. CASE u \in Span(From(cur, h.b))
    <3>1. PICK r \in From(cur, h.b) : u \in Within(r) BY <2>2 DEF Span
    <3>2. CASE r \in ToSet(batch)
      <4>1. r \in ToSet(changed) BY <1>5, <1>8, <3>1, <3>2
      <4> QED BY <3>1, <4>1 DEF Span
    <3>3. CASE more /\ r \in rest BY <3>1, <3>3 DEF Span
    <3> QED BY <1>2, <3>2, <3>3
  <2> QED BY <1>1, <2>1, <2>2
<1>10. \A r \in ToSet(changed) : Even(w.ranges) => Stirs(w, r) BY <1>1, <1>5, <1>7
<1>11. Active(w) \subseteq Span(ToSet(changed)) \cup (IF more THEN Span(rest) ELSE {}) BY <1>9
<1> QED BY <1>5, <1>6, <1>10, <1>11 DEF batch, first, second, new, changed, rest, more, cur

\* Fewer ranges are searched next.
LEMMA ToSearchLess ==
  ASSUME NEW w, NEW cur, ToSearch(w, cur), NEW changed \in Seq(MemoryRange),
         ToSet(changed) \subseteq ToSet(cur)
  PROVE  ToSearch(w, changed)
<1>1. Span(ToSet(changed)) \subseteq Span(ToSet(cur)) BY DEF Span
<1>2. Even(w.ranges) => Aligned(ToSet(changed))
  BY DEF ToSearch, Aligned, Grid
<1> QED BY <1>1, <1>2 DEF ToSearch

\* After a batch.
LEMMA BatchEndsOK ==
  ASSUME NEW w, SearchOK(w, handler), NEW m, NEW n, Flows(w, m, n)
  PROVE  LET batch == BatchOf(handler)
             h == BatchEnds(handler.changed
                              \o ChangedOf(batch, AllSeen(w, m, batch), AllSeen(w, n, batch)))
         IN  \/ h.at = "found" /\ FoundOK(w, h.ranges)
             \/ h.at = "raised"
             \/ h.at = "first" /\ SearchOK(w, h)
<1> DEFINE batch == BatchOf(handler)
           changed == handler.changed \o ChangedOf(batch, AllSeen(w, m, batch), AllSeen(w, n, batch))
           h == BatchEnds(changed)
           cur == handler.cur
           b == handler.b
           N == Len(batched(cur))
<1>1. /\ changed \in Seq(MemoryRange) /\ ToSet(changed) \subseteq ToSet(cur)
      /\ Active(w) \subseteq Span(ToSet(changed)) \cup (IF b < N THEN Span(From(cur, b + 1)) ELSE {})
      /\ Even(w.ranges) => \A r \in ToSet(changed) : Stirs(w, r)
  BY BatchOK
<1> HIDE DEF changed
<1>2. ToSearch(w, cur) /\ b \in 1 .. N BY DEF SearchOK
<1>3. CASE b < N
  <2> DEFINE f == Finding(cur, b + 1, changed)
  <2>1. h = f BY <1>3 DEF BatchEnds
  <2>2. /\ f = [at |-> f.at, cur |-> f.cur, b |-> f.b, changed |-> f.changed, crcs |-> f.crcs]
        /\ f.at = "first" /\ f.cur = cur /\ f.b = b + 1 /\ f.changed = changed
    BY DEF Finding
  <2> HIDE DEF f
  <2>3. N \in Nat
    <3>1. cur \in Seq(MemoryRange) BY <1>2 DEF ToSearch
    <3>2. (Len(cur) + MaxRanges - 1) \div MaxRanges \in Nat BY <3>1, LenProperties, BatchArithmetic
    <3> DEFINE k == (Len(cur) + MaxRanges - 1) \div MaxRanges
    <3> HIDE DEF k
    <3>3. k = (Len(cur) + MaxRanges - 1) \div MaxRanges BY DEF k
    <3>4. batched(cur) = [i \in 1 .. k |-> batched(cur)[i]] BY <3>3 DEF batched
    <3>5. Len(batched(cur)) = k BY <3>2, <3>3, <3>4
    <3> QED BY <3>2, <3>3, <3>5
  <2> HIDE DEF cur, b, N, h
  <2>4. b + 1 \in 1 .. N BY <1>2, <1>3, <2>3
  <2>5. Active(w) \subseteq Span(ToSet(changed)) \cup Span(From(cur, b + 1)) BY <1>1, <1>3
  <2>6. SearchOK(w, f) BY <1>1, <1>2, <2>2, <2>4, <2>5 DEF SearchOK, N
  <2> QED BY <2>1, <2>2, <2>6 DEF h, changed
<1>4. CASE ~(b < N)
  <2>1. h = PassEnds(changed) BY <1>4 DEF BatchEnds
  <2>2. Active(w) \subseteq Span(ToSet(changed)) BY <1>1, <1>4
  <2>3. ToSearch(w, changed) BY <1>1, <1>2, ToSearchLess
  <2>4. PassOK(w, changed) BY <1>1, <2>2, <2>3 DEF PassOK
  <2> HIDE DEF h
  <2> QED BY <2>1, <2>4, PassEndsOK DEF h, changed
<1> QED BY <1>3, <1>4

-------------------------------------------------------------------------------
(* Variables of a session.                                                  *)

LEMMA WorldIs ==
  ASSUME NEW w \in Worlds
  PROVE  /\ IsSequence(w.doc) /\ \A i \in DOMAIN w.doc : None \notin DOMAIN w.doc[i].table
         /\ \A segments \in w.requests : IsSequence(segments)
         /\ \A keys \in w.asks : AreNames(keys)
         /\ AreSeqs(w.vars)
         /\ w.ranges \in Seq(MemoryRange) /\ Len(w.ranges) <= 6
         /\ Span(ToSet(w.ranges)) \subseteq DOMAIN w.memory
         /\ w.le \in BOOLEAN
<1>1. /\ IsSequence(w.doc) /\ \A i \in DOMAIN w.doc : None \notin DOMAIN w.doc[i].table
      /\ \A segments \in w.requests : IsSequence(segments)
      /\ \A keys \in w.asks : IsSequence(keys) /\ None \notin ToSet(keys)
      /\ \A k \in DOMAIN w.vars : IsSequence(w.vars[k])
      /\ w.ranges \in Seq(MemoryRange) /\ Len(w.ranges) <= Len(KeyNames)
      /\ \A i \in DOMAIN w.ranges : Within(w.ranges[i]) \subseteq DOMAIN w.memory
      /\ w.le \in BOOLEAN
  BY WorldsAreTyped
<1>2. Span(ToSet(w.ranges)) \subseteq DOMAIN w.memory BY <1>1 DEF Span, ToSet
<1> QED BY <1>1, <1>2, SixKeys DEF AreNames, AreSeqs

\* The section of a client is the last of its name.
Named(doc, client) == {i \in Clients(doc) : Lower[doc[i].name] = Lower[client]}

LEMMA RouteIs ==
  ASSUME NEW doc, IsSequence(doc), NEW client
  PROVE  IF Named(doc, client) = {} THEN RouteFor(doc, client) = Route(Table(doc, "default"))
         ELSE \E i \in Named(doc, client) : RouteFor(doc, client) = Route(doc[i].table)
<1> DEFINE named == Named(doc, client)
           last == CHOOSE i \in named : \A j \in named : j <= i
<1>1. RouteFor(doc, client) = Route(IF named = {} THEN Table(doc, "default") ELSE doc[last].table)
  BY DEF RouteFor, Named
<1>2. ASSUME named # {} PROVE last \in named
  <2>1. DOMAIN doc = 1 .. Len(doc) /\ Len(doc) \in Nat BY LenProperties DEF IsSequence
  <2>2. named \subseteq 1 .. Len(doc) BY <2>1 DEF Named, Clients
  <2>3. IsFiniteSet(named)
    <3>1. IsFiniteSet(1 .. Len(doc)) BY <2>1, FS_Interval
    <3> HIDE DEF named
    <3> QED BY <2>2, <3>1, FS_Subset
  <2> HIDE DEF named
  <2>4. named \subseteq Nat BY <2>2
  <2>5. PICK i \in named : \A j \in named : j <= i BY <1>2, <2>3, <2>4, GreatestNat
  <2> QED BY <2>5
<1> HIDE DEF last
<1> QED BY <1>1, <1>2

LEMMA TableIs ==
  ASSUME NEW doc, NEW name
  PROVE  \/ Table(doc, name) = NoVariables
         \/ \E i \in DOMAIN doc : doc[i].name = name /\ Table(doc, name) = doc[i].table
BY DEF Table

LEMMA NoneSet == DOMAIN NoVariables = {}
BY DEF NoVariables

LEMMA TableNames ==
  ASSUME NEW w \in Worlds, NEW name PROVE None \notin DOMAIN Table(w.doc, name)
BY WorldIs, TableIs, NoneSet

\* The variables of a start request.
InRequest(segments) == IF segments = <<>> THEN NoVariables ELSE Values(Tail(segments))

LEMMA SessionEnvIs ==
  ASSUME NEW doc, NEW client, NEW segments
  PROVE  LET env == SessionEnvOf(doc, client, segments)
             route == RouteFor(doc, client).env
         IN  /\ \A k : k \in DOMAIN env <=> \/ k \in DOMAIN Table(doc, "env")
                                            \/ k \in DOMAIN route
                                            \/ k \in DOMAIN InRequest(segments)
             /\ \A k \in DOMAIN env :
                  env[k] = IF k \in DOMAIN InRequest(segments) THEN InRequest(segments)[k]
                           ELSE IF k \in DOMAIN route THEN route[k] ELSE Table(doc, "env")[k]
<1> DEFINE q == InRequest(segments)
           r == RouteFor(doc, client).env
           t == Table(doc, "env")
           env == SessionEnvOf(doc, client, segments)
<1>1. env = Updated(Updated(t, r), q) BY DEF SessionEnvOf, InRequest
<1> HIDE DEF q, r, t, env
<1>2. DOMAIN env = DOMAIN t \cup DOMAIN r \cup DOMAIN q BY <1>1 DEF Updated
<1>3. \A k \in DOMAIN env : env[k] = IF k \in DOMAIN q THEN q[k]
                                     ELSE IF k \in DOMAIN r THEN r[k] ELSE t[k]
  BY <1>1 DEF Updated
<1> QED BY <1>2, <1>3 DEF q, r, t, env

LEMMA RouteNames ==
  ASSUME NEW w \in Worlds PROVE None \notin DOMAIN RouteFor(w.doc, Client).env
<1>1. \A table : DOMAIN Route(table).env \subseteq DOMAIN table BY DEF Route, Without
<1>2. IsSequence(w.doc) /\ \A i \in DOMAIN w.doc : None \notin DOMAIN w.doc[i].table BY WorldIs
<1>3. None \notin DOMAIN Table(w.doc, "default") BY TableNames
<1>4. CASE Named(w.doc, Client) = {} BY <1>1, <1>2, <1>3, <1>4, RouteIs
<1>5. CASE Named(w.doc, Client) # {}
  <2>1. PICK i \in Named(w.doc, Client) : RouteFor(w.doc, Client) = Route(w.doc[i].table)
    BY <1>2, <1>5, RouteIs
  <2>2. i \in DOMAIN w.doc BY DEF Named, Clients
  <2> QED BY <1>1, <1>2, <2>1, <2>2
<1> QED BY <1>4, <1>5

LEMMA StartEnv ==
  ASSUME NEW w \in Worlds, ConfigLoads(w.doc), NEW segments
  PROVE  EnvOK(w, segments, SessionEnvOf(w.doc, Client, segments))
<1> DEFINE env == SessionEnvOf(w.doc, Client, segments)
<1>1. Hidden \subseteq DOMAIN Table(w.doc, "env") BY DEF ConfigLoads
<1>2. None \notin DOMAIN InRequest(segments) BY ValuesDomain, NoneSet DEF InRequest
<1>3. \A k : k \in DOMAIN env <=> \/ k \in DOMAIN Table(w.doc, "env")
                                  \/ k \in DOMAIN RouteFor(w.doc, Client).env
                                  \/ k \in DOMAIN InRequest(segments)
  BY SessionEnvIs
<1> HIDE DEF env
<1>4. None \notin DOMAIN env BY <1>2, <1>3, RouteNames, TableNames
<1>5. Hidden \subseteq DOMAIN env BY <1>1, <1>3
<1> QED BY <1>4, <1>5 DEF EnvOK, env

LEMMA MergeEnv ==
  ASSUME NEW w, NEW segments, NEW s, Fits(s), EnvOK(w, segments, s.env), NEW path
  PROVE  EnvOK(w, segments, Merge(s, Values(path)).env)
<1> DEFINE v == Without(Values(path), Reserved)
           env == Updated(s.env, v)
<1>1. Merge(s, Values(path)).env = env BY MergeIs
<1>2. None \notin DOMAIN v /\ Reserved \cap DOMAIN v = {} BY ValuesDomain DEF Without
<1> HIDE DEF v
<1>3. DOMAIN env = DOMAIN s.env \cup DOMAIN v BY DEF Updated
<1> HIDE DEF env
<1> QED BY <1>1, <1>2, <1>3 DEF EnvOK

-------------------------------------------------------------------------------
(* What a script does to the variables of the device.                       *)

LEMMA PlainIsSequence == ASSUME NEW text PROVE IsSequence(Plain(text))
<1> DEFINE g == Segment(None, text)
<1> HIDE DEF g
<1>1. <<g>> \in Seq({g}) /\ ToSet(<<g>>) = {g} BY DEF ToSet
<1> QED BY <1>1 DEF Plain, IsSequence, g

LEMMA UpdatedSeqs ==
  ASSUME NEW vs, AreSeqs(vs), NEW values, AreSeqs(values) PROVE AreSeqs(Updated(vs, values))
BY DEF AreSeqs, Updated

LEMMA CrcVarsSeqs == ASSUME NEW m, NEW ranges PROVE AreSeqs(CrcVars(m, ranges))
BY PlainIsSequence DEF AreSeqs, CrcVars

LEMMA RanSeqs == ASSUME AreSeqs(vars), NEW m PROVE AreSeqs(Ran(m))
<1>1. AreSeqs(HushProbe) BY PlainIsSequence DEF AreSeqs, HushProbe
<1>2. AreSeqs(LeProbe) BY PlainIsSequence DEF AreSeqs, LeProbe
<1>3. AreSeqs(Updated(vars, HushProbe)) BY <1>1, UpdatedSeqs
<1>4. AreSeqs(Updated(vars, LeProbe)) BY <1>2, UpdatedSeqs
<1>5. AreSeqs(Updated(vars, CrcVars(m, Batch))) BY CrcVarsSeqs, UpdatedSeqs
<1>6. AreSeqs(Updated(vars, CrcVars(m, world.ranges))) BY CrcVarsSeqs, UpdatedSeqs
<1> QED BY <1>3, <1>4, <1>5, <1>6 DEF Ran

LEMMA TicksAre ==
  ASSUME memory \in Bits(world), NEW m \in Ticks(memory)
  PROVE  m \in Bits(world) /\ Flows(world, memory, m)
<1>1. m \in [Units -> {"0", "1"}] BY DEF Ticks
<1>2. \A u \in Units : CASE world.memory[u] = "still" -> m[u] = memory[u]
                         [] world.memory[u] = "always" -> m[u] = Flip(memory[u])
                         [] OTHER -> TRUE
  BY DEF Ticks
<1>3. \A u \in Units : memory[u] \in {"0", "1"} BY DEF Bits, Units
<1>4. ASSUME NEW u \in Units, world.memory[u] = "still" PROVE m[u] = memory[u] BY <1>2, <1>4
<1>5. ASSUME NEW u \in Units, world.memory[u] = "always" PROVE m[u] # memory[u]
  <2>1. m[u] = Flip(memory[u]) BY <1>2, <1>5
  <2> QED BY <1>3, <2>1 DEF Flip
<1> QED BY <1>1, <1>4, <1>5 DEF Bits, Flows, Units

-------------------------------------------------------------------------------
(* What a handler gets from its script.                                     *)

LEMMA BatchNames ==
  ASSUME NEW w, NEW h, SearchOK(w, h)
  PROVE  /\ BatchOf(h) \in Seq(MemoryRange) /\ Len(BatchOf(h)) \in 1 .. MaxRanges
         /\ Len(BatchOf(h)) <= 6 /\ AreNames(Keys(BatchOf(h)))
<1>1. h.cur \in Seq(MemoryRange) /\ h.b \in 1 .. Len(batched(h.cur)) BY DEF SearchOK, ToSearch
<1>2. BatchOf(h) \in Seq(MemoryRange) /\ Len(BatchOf(h)) \in 1 .. MaxRanges
  BY <1>1, BatchIs DEF BatchOf
<1>3. Len(BatchOf(h)) <= 6 BY <1>2, SixKeys
<1> QED BY <1>2, <1>3, KeysAre

LEMMA OneName ==
  ASSUME NEW k, k \in {"hush_shell", "_1"}
  PROVE  /\ AreNames(<<k>>) /\ ToSet(<<k>>) = {k} /\ k # "token" /\ k \notin Reserved \cup Hidden
<1>1. ToSet(<<k>>) = {k} /\ <<k>> \in Seq({k}) BY DEF ToSet
<1>2. k # None
  <2>1. "_1" \in ToSet(KeyNames)
    <3>1. 2 \in DOMAIN KeyNames /\ KeyNames[2] = "_1" BY DEF KeyNames
    <3> QED BY <3>1 DEF ToSet
  <2> QED BY <2>1, NoneIsNoName
<1> QED BY <1>1, <1>2 DEF AreNames, IsSequence, Reserved, Hidden

LEMMA BatchVars ==
  ASSUME handler.at \in {"first", "second"}, NEW m
  PROVE  Ran(m) = Updated(vars, CrcVars(m, BatchOf(handler)))
BY DEF Ran, Batch, BatchOf

LEMMA CrcsRan ==
  ASSUME NEW S, NEW ranges \in Seq(S), Len(ranges) <= 6, NEW m,
         Ran(m) = Updated(vars, CrcVars(m, ranges))
  PROVE  /\ \A i \in DOMAIN ranges : /\ Key(i) \in DOMAIN Ran(m)
                                     /\ Ran(m)[Key(i)] = Plain(Stored(m, ranges[i]))
         /\ \A k \in ToSet(Keys(ranges)) : Single(Ran(m), k)
         /\ "token" \notin ToSet(Keys(ranges))
<1>1. DOMAIN ranges \subseteq 1 .. 6 /\ ToSet(Keys(ranges)) = {Key(i) : i \in DOMAIN ranges}
  BY KeysAre
<1>2. \A i \in DOMAIN ranges : Key(i) \in DOMAIN Ran(m) /\ Ran(m)[Key(i)] = Plain(Stored(m, ranges[i]))
  BY <1>1, CrcVarsAre
<1>3. \A i \in DOMAIN ranges : Single(Ran(m), Key(i)) BY <1>2, PlainIs
<1>4. \A i \in DOMAIN ranges : Key(i) # "token" BY <1>1, KeyIs
<1> QED BY <1>1, <1>2, <1>3, <1>4

\* Handlers that ask for what their own scripts set get it, and with their token: they are
\* not refused.
LEMMA ScriptAnswers ==
  ASSUME IInv, session # None, handler.at \notin {"user", "raised"}, NEW m
  PROVE  /\ \A k \in ToSet(session.asked) : Single(Ran(m), k)
         /\ "token" \notin ToSet(session.asked)
<1>1. handler.at \in Suspended /\ Good(world, started.segments, session, handler, memory)
  BY DEF IInv, HandlerOK
<1>2. ASSUME NEW k, k \in {"hush_shell", "_1"}, session.asked = <<k>>,
             NEW text, k \in DOMAIN Ran(m), Ran(m)[k] = Plain(text)
      PROVE  (\A j \in ToSet(session.asked) : Single(Ran(m), j)) /\ "token" \notin ToSet(session.asked)
  BY <1>2, OneName, PlainIs
<1>3. CASE handler.at = "preflight"
  <2>1. Ran(m) = Updated(vars, HushProbe) BY <1>3 DEF Ran
  <2>2. "hush_shell" \in DOMAIN Ran(m) /\ Ran(m)["hush_shell"] = Plain(<<"true">>)
    BY <2>1 DEF Updated, HushProbe
  <2>3. session.asked = <<"hush_shell">> BY <1>1, <1>3 DEF Good
  <2> QED BY <1>2, <2>2, <2>3
<1>4. CASE handler.at = "le"
  <2>1. Ran(m) = Updated(vars, LeProbe) BY <1>4 DEF Ran
  <2>2. /\ "_1" \in DOMAIN Ran(m)
        /\ Ran(m)["_1"] = Plain(IF world.le THEN <<"44">> ELSE <<"11">>)
    BY <2>1 DEF Updated, LeProbe
  <2>3. session.asked = <<"_1">> BY <1>1, <1>4 DEF Good
  <2> QED BY <1>2, <2>2, <2>3
<1>5. CASE handler.at \in {"first", "second"}
  <2>1. session.asked = Keys(BatchOf(handler)) /\ SearchOK(world, handler) BY <1>1, <1>5 DEF Good
  <2>2. BatchOf(handler) \in Seq(MemoryRange) /\ Len(BatchOf(handler)) <= 6 BY <2>1, BatchNames
  <2> QED BY <1>5, <2>1, <2>2, BatchVars, CrcsRan
<1>6. CASE handler.at = "crc"
  <2>1. session.asked = Keys(world.ranges) BY <1>1, <1>6 DEF Good
  <2>2. world.ranges \in Seq(MemoryRange) /\ Len(world.ranges) <= 6 BY WorldIs DEF IInv
  <2>3. Ran(m) = Updated(vars, CrcVars(m, world.ranges)) BY <1>6 DEF Ran
  <2> QED BY <2>1, <2>2, <2>3, CrcsRan
<1> QED BY <1>1, <1>3, <1>4, <1>5, <1>6 DEF Suspended

\* The session that the handler goes on with.
After(m) == Merge(session, Answer(Ran(m), session.asked))

LEMMA AfterIs ==
  ASSUME IInv, session # None, NEW m
  PROVE  Fits(After(m)) /\ After(m).asked = session.asked /\ AreNames(After(m).asked)
         /\ EnvOK(world, started.segments, After(m).env)
<1>1. /\ Fits(session) /\ AreNames(session.asked)
      /\ EnvOK(world, started.segments, session.env)
  BY DEF IInv, HandlerOK, Good
<1>2. Fits(After(m)) /\ After(m).asked = session.asked BY <1>1, MergeIs DEF After
<1>3. EnvOK(world, started.segments, After(m).env) BY <1>1, MergeEnv DEF After, Answer
<1> QED BY <1>1, <1>2, <1>3

LEMMA AfterHas ==
  ASSUME IInv, session # None, NEW m, NEW S, NEW ranges \in Seq(S), Len(ranges) <= 6,
         session.asked = Keys(ranges), Ran(m) = Updated(vars, CrcVars(m, ranges))
  PROVE  \A i \in DOMAIN ranges : After(m).public_env[Key(i)] = Stored(m, ranges[i])
<1> DEFINE words == [i \in DOMAIN ranges |-> Stored(m, ranges[i])]
<1>1. Fits(session) BY DEF IInv, HandlerOK, Good
<1>2. \A i \in DOMAIN ranges : Key(i) \in DOMAIN Ran(m) /\ Ran(m)[Key(i)] = Plain(words[i])
  BY CrcsRan
<1> HIDE DEF words
<1>3. \A i \in DOMAIN ranges : Returns(session, Ran(m), Keys(ranges))[Key(i)] = words[i]
  BY <1>1, <1>2, ChecksumsAre
<1> QED BY <1>3 DEF After, Returns, words

LEMMA BatchCrcs ==
  ASSUME IInv, session # None, handler.at \in {"first", "second"}, NEW m
  PROVE  Crcs(After(m).public_env, Batch, TRUE) = AllSeen(world, m, BatchOf(handler))
<1> DEFINE batch == BatchOf(handler)
<1>1. session.asked = Keys(batch) /\ SearchOK(world, handler)
  BY DEF IInv, HandlerOK, Good, Suspended
<1>2. batch \in Seq(MemoryRange) /\ Len(batch) <= 6 BY <1>1, BatchNames
<1>3. \A i \in DOMAIN batch : After(m).public_env[Key(i)] = Stored(m, batch[i])
  BY <1>1, <1>2, BatchVars, AfterHas
<1>4. Batch = batch BY DEF Batch, BatchOf
<1> HIDE DEF batch
<1>5. \A i \in DOMAIN batch :
        Unpack(After(m).public_env[Key(i)], TRUE) = Seen(world.le, m, batch[i])
  BY <1>3 DEF Stored, Seen
<1> QED BY <1>4, <1>5 DEF Crcs, AllSeen, batch

LEMMA LeAnswer ==
  ASSUME IInv, session # None, handler.at = "le", NEW m
  PROVE  (After(m).public_env["_1"] = <<"44">>) = world.le
<1> DEFINE text == IF world.le THEN <<"44">> ELSE <<"11">>
<1>1. Fits(session) /\ session.asked = <<"_1">> BY DEF IInv, HandlerOK, Good, Suspended
<1>2. "_1" \in DOMAIN Ran(m) /\ Ran(m)["_1"] = Plain(text)
  <2>1. Ran(m) = Updated(vars, LeProbe) BY DEF Ran
  <2> QED BY <2>1 DEF Updated, LeProbe
<1> HIDE DEF text
<1>3. Single(Ran(m), "_1") /\ TextOf(Ran(m), "_1") = text BY <1>2, PlainIs
<1>4. AreNames(<<"_1">>) /\ ToSet(<<"_1">>) = {"_1"} /\ "_1" \notin Reserved \cup Hidden BY OneName
<1>5. Returns(session, Ran(m), <<"_1">>)["_1"] = text BY <1>1, <1>3, <1>4, MergedHas
<1>6. After(m).public_env["_1"] = text BY <1>1, <1>5 DEF After, Returns
<1>7. world.le \in BOOLEAN BY WorldIs DEF IInv
<1>8. "44" # "11" OBVIOUS
<1>9. CASE world.le = TRUE BY <1>6, <1>9 DEF text
<1>10. CASE world.le = FALSE
  <2>1. text = <<"11">> BY <1>10 DEF text
  <2>2. <<"11">> # <<"44">> BY <1>8
  <2> QED BY <1>6, <1>10, <2>1, <2>2
<1> QED BY <1>7, <1>9, <1>10

LEMMA CrcCrcs ==
  ASSUME IInv, session # None, handler.at = "crc", NEW m
  PROVE  Crcs(After(m).public_env, world.ranges, handler.le)
           = [i \in DOMAIN world.ranges |-> Word(m, world.ranges[i])]
<1> DEFINE ranges == world.ranges
<1>1. session.asked = Keys(ranges) /\ handler.le = world.le
  BY DEF IInv, HandlerOK, Good, Suspended
<1>2. ranges \in Seq(MemoryRange) /\ Len(ranges) <= 6 /\ world.le \in BOOLEAN BY WorldIs DEF IInv
<1>3. Ran(m) = Updated(vars, CrcVars(m, ranges)) BY DEF Ran
<1> HIDE DEF ranges
<1>4. \A i \in DOMAIN ranges : After(m).public_env[Key(i)] = Stored(m, ranges[i])
  BY <1>1, <1>2, <1>3, AfterHas
<1>5. \A i \in DOMAIN ranges : Unpack(After(m).public_env[Key(i)], handler.le) = Word(m, ranges[i])
  <2> SUFFICES ASSUME NEW i \in DOMAIN ranges
               PROVE  Unpack(After(m).public_env[Key(i)], handler.le) = Word(m, ranges[i])
    OBVIOUS
  <2>1. ranges[i] \in MemoryRange BY <1>2, ElementOfSeq, LenProperties
  <2>2. Swapped(Swapped(Word(m, ranges[i]))) = Word(m, ranges[i]) BY <2>1, WordIs
  <2>3. CASE world.le = TRUE BY <1>1, <1>4, <2>2, <2>3 DEF Stored, Unpack
  <2>4. CASE world.le = FALSE BY <1>1, <1>4, <2>4 DEF Stored, Unpack
  <2> QED BY <1>2, <2>3, <2>4
<1> QED BY <1>5 DEF Crcs, ranges

-------------------------------------------------------------------------------
(* What a handler's step leads to.                                          *)

\* The session is gone, or it has what is asked next, and the variables it had; they are
\* what a handler saw that is done.
Allowed(s, next, m) ==
  /\ HandlerOK(world, started.segments, next.session, next.handler, m)
  /\ next.session # None => next.session.env = s.env
  /\ next.handler.at = "done" => next.handler.env = PublicEnv(s.env)

\* Where a handler h goes, and what it asks for.
GoesTo(w, h, keys, m) ==
  /\ h.at \in Suspended \ {"preflight"} /\ AreNames(keys)
  /\ h.at = "le" => keys = <<"_1">>
  /\ h.at = "crc" => keys = Keys(w.ranges) /\ h.le = w.le
  /\ h.at \in {"first", "second"} => SearchOK(w, h) /\ keys = Keys(BatchOf(h))
  /\ h.at = "second" => h.crcs = AllSeen(w, m, BatchOf(h))

LEMMA GoAllowed ==
  ASSUME NEW s, Fits(s), EnvOK(world, started.segments, s.env), NEW h, NEW keys, NEW m,
         GoesTo(world, h, keys, m), NEW next \in Go(s, h, keys)
  PROVE  Allowed(s, next, m)
<1> DEFINE t == [s EXCEPT !.asked = keys]
<1>1. next.session = t /\ next.handler = h BY DEF Go
<1>2. t = [env |-> s.env, public_env |-> PublicEnv(s.env), asked |-> keys] BY DEF Fits
<1>3. t.env = s.env /\ t.asked = keys /\ Fits(t) BY <1>2 DEF Fits
<1> HIDE DEF t
<1>4. Good(world, started.segments, t, h, m) BY <1>3 DEF Good, GoesTo
<1>5. h.at \in Suspended BY DEF GoesTo
<1>6. h.at # "done" BY <1>5 DEF Suspended
<1> QED BY <1>1, <1>3, <1>4, <1>5, <1>6 DEF Allowed, HandlerOK

LEMMA EndsAllowed ==
  ASSUME NEW s, NEW h, NEW m, h.at \notin Suspended, EndOK(world, h, m),
         h.at = "done" => h.env = PublicEnv(s.env), NEW next \in Ends(h)
  PROVE  Allowed(s, next, m)
<1>1. next.session = None /\ next.handler = h BY DEF Ends
<1> QED BY <1>1 DEF Allowed, HandlerOK

LEMMA UserGoesAllowed ==
  ASSUME IInv, NEW s, Fits(s), EnvOK(world, started.segments, s.env), NEW m,
         NEW next \in UserGoes(s)
  PROVE  Allowed(s, next, m)
<1> DEFINE h == [at |-> "user"]
           d == [at |-> "done", env |-> s.public_env]
<1>1. h.at = "user" /\ d.at = "done" /\ d.env = PublicEnv(s.env) BY DEF Fits
<1>2. (\E keys \in world.asks : next \in Go(s, h, keys)) \/ next \in Ends(d)
  <2> DEFINE asking == UNION {Go(s, [at |-> "user"], keys) : keys \in world.asks}
             done == Ends([at |-> "done", env |-> s.public_env])
  <2>1. next \in done \cup asking BY DEF UserGoes
  <2>2. next \in asking => \E keys \in world.asks : next \in Go(s, h, keys) OBVIOUS
  <2> HIDE DEF asking, h
  <2> QED BY <2>1, <2>2
<1> HIDE DEF h, d
<1>3. CASE next \in Ends(d)
  <2>1. d.at \notin Suspended /\ EndOK(world, d, m) BY <1>1 DEF Suspended, EndOK
  <2> QED BY <1>1, <1>3, <2>1, EndsAllowed
<1>4. ASSUME NEW keys \in world.asks, next \in Go(s, h, keys) PROVE Allowed(s, next, m)
  <2>1. AreNames(keys) BY WorldIs DEF IInv
  <2>2. GoesTo(world, h, keys, m) BY <1>1, <2>1 DEF GoesTo, Suspended
  <2> QED BY <1>4, <2>2, GoAllowed
<1> QED BY <1>2, <1>3, <1>4

\* The ranges of the request are what is searched first.
LEMMA RangesToSearch == ASSUME NEW w \in Worlds PROVE ToSearch(w, w.ranges)
<1>1. w.ranges \in Seq(MemoryRange) /\ Span(ToSet(w.ranges)) \subseteq DOMAIN w.memory BY WorldIs
<1>2. ASSUME Even(w.ranges) PROVE Aligned(ToSet(w.ranges))
  <2>1. MinChunk \in Nat \ {0} BY SizesAreNats
  <2>2. \A i \in DOMAIN w.ranges : w.ranges[i] \in MemoryRange /\ w.ranges[i].addr \in Nat
    BY <1>1, ElementOfSeq, LenProperties, RangesAre
  <2>3. \A i \in DOMAIN w.ranges : /\ w.ranges[i].size = w.ranges[1].size
                                   /\ \E p \in Powers : w.ranges[i].size = MinChunk * p
                                   /\ w.ranges[i].addr % MinChunk = 0
    BY <1>2 DEF Even
  <2>4. PICK p \in Powers : \A i \in DOMAIN w.ranges : w.ranges[i].size = MinChunk * p
    <3>1. CASE w.ranges = <<>>
      <4>1. 1 \in Powers /\ DOMAIN w.ranges = {} BY <3>1 DEF Powers
      <4> QED BY <4>1
    <3>2. CASE w.ranges # <<>>
      <4>1. 1 \in DOMAIN w.ranges BY <1>1, <3>2, EmptySeq, LenProperties
      <4>2. PICK p \in Powers : w.ranges[1].size = MinChunk * p BY <2>3, <4>1
      <4> QED BY <2>3, <4>2
    <3> QED BY <3>1, <3>2
  <2>5. \A i \in DOMAIN w.ranges : \E q \in Nat : w.ranges[i].addr = q * MinChunk
    BY <2>1, <2>2, <2>3, IsMultiple
  <2>6. Grid(ToSet(w.ranges), p) BY <2>4, <2>5 DEF Grid, ToSet
  <2> QED BY <2>6 DEF Aligned
<1> QED BY <1>1, <1>2 DEF ToSearch

LEMMA FindGoesAllowed ==
  ASSUME NEW s, Fits(s), EnvOK(world, started.segments, s.env), AreNames(s.asked), NEW m, NEW h,
         \/ h.at = "found" /\ FoundOK(world, h.ranges)
         \/ h.at = "raised"
         \/ h.at = "first" /\ SearchOK(world, h),
         NEW next \in FindGoes(s, h)
  PROVE  Allowed(s, next, m)
<1>1. CASE h.at = "first" /\ SearchOK(world, h)
  <2>1. next \in Go(s, h, Keys(BatchOf(h))) BY <1>1 DEF FindGoes, BatchOf
  <2>2. GoesTo(world, h, Keys(BatchOf(h)), m) BY <1>1, BatchNames DEF GoesTo, Suspended
  <2> QED BY <2>1, <2>2, GoAllowed
<1>2. CASE h.at = "raised"
  <2>1. next.session = s /\ next.handler = h BY <1>2 DEF FindGoes
  <2>2. Good(world, started.segments, s, h, m) BY <1>2 DEF Good
  <2> QED BY <1>2, <2>1, <2>2 DEF Allowed, HandlerOK, Suspended
<1>3. CASE h.at = "found" /\ FoundOK(world, h.ranges)
  <2>1. next \in Ends(h) BY <1>3 DEF FindGoes
  <2>2. h.at \notin Suspended /\ h.at # "done" /\ EndOK(world, h, m) BY <1>3 DEF EndOK, Suspended
  <2> QED BY <2>1, <2>2, EndsAllowed
<1> QED BY <1>1, <1>2, <1>3

LEMMA EnterAllowed ==
  ASSUME IInv, NEW s, Fits(s), EnvOK(world, started.segments, s.env), NEW m, NEW next \in Enter(s)
  PROVE  Allowed(s, next, m)
<1>1. CASE IsDefault("active") /\ world.ranges = <<>>
  <2> DEFINE h == Found(<<>>)
  <2>1. next \in Ends(h) BY <1>1 DEF Enter
  <2>2. h.at = "found" /\ h.ranges = <<>> BY DEF Found
  <2> HIDE DEF h
  <2>3. FoundOK(world, <<>>)
    <3>1. <<>> \in Seq(MemoryRange) OBVIOUS
    <3>2. Active(world) = {} BY <1>1, EmptySet DEF Active
    <3> QED BY <3>1, <3>2, EmptySet DEF FoundOK
  <2>4. h.at \notin Suspended /\ h.at # "done" /\ EndOK(world, h, m)
    BY <2>2, <2>3 DEF EndOK, Suspended
  <2> QED BY <2>1, <2>4, EndsAllowed
<1>2. CASE IsDefault("active") /\ world.ranges # <<>>
  <2> DEFINE h == Finding(world.ranges, 1, <<>>)
  <2>1. next \in Go(s, h, Keys(batched(world.ranges)[1])) BY <1>2 DEF Enter
  <2>2. h.cur = world.ranges /\ h.b = 1 BY DEF Finding
  <2>3. Active(world) \subseteq Span(ToSet(world.ranges)) BY DEF Active
  <2>4. SearchOK(world, h) /\ h.at = "first" BY <1>2, <2>3, RangesToSearch, FindingOK DEF IInv
  <2> HIDE DEF h
  <2>5. next \in Go(s, h, Keys(BatchOf(h))) BY <2>1, <2>2 DEF BatchOf
  <2>6. GoesTo(world, h, Keys(BatchOf(h)), m) BY <2>4, BatchNames DEF GoesTo, Suspended
  <2> QED BY <2>5, <2>6, GoAllowed
<1>3. CASE ~IsDefault("active") /\ IsDefault("crc32")
  <2> DEFINE h == [at |-> "le"]
  <2>1. next \in Go(s, h, <<"_1">>) BY <1>3 DEF Enter
  <2>2. h.at = "le" OBVIOUS
  <2> HIDE DEF h
  <2>3. GoesTo(world, h, <<"_1">>, m) BY <2>2, OneName DEF GoesTo, Suspended
  <2> QED BY <2>1, <2>3, GoAllowed
<1>4. CASE ~IsDefault("active") /\ ~IsDefault("crc32")
  <2>1. next \in UserGoes(s) BY <1>4 DEF Enter
  <2> QED BY <2>1, UserGoesAllowed
<1> QED BY <1>1, <1>2, <1>3, <1>4

LEMMA FirstGoesAllowed ==
  ASSUME IInv, session # None, handler.at = "first", NEW m, NEW next \in FirstGoes(After(m))
  PROVE  Allowed(After(m), next, m)
<1> DEFINE batch == BatchOf(handler)
           crcs == AllSeen(world, m, batch)
           h == [handler EXCEPT !.at = "second", !.crcs = crcs]
<1>1. SearchOK(world, handler) BY DEF IInv, HandlerOK, Good, Suspended
<1>2. next \in Go(After(m), h, Keys(batch))
  <2>1. Batch = batch BY DEF Batch, BatchOf
  <2>2. Crcs(After(m).public_env, Batch, TRUE) = crcs BY BatchCrcs
  <2> QED BY <2>1, <2>2 DEF FirstGoes
<1>3. batch = batched(handler.cur)[handler.b] BY DEF BatchOf
<1> HIDE DEF crcs, batch
<1>4. h = [at |-> "second", cur |-> handler.cur, b |-> handler.b, changed |-> handler.changed,
           crcs |-> crcs]
  <2> DEFINE c == handler.cur
             b == handler.b
             d == handler.changed
             e == handler.crcs
             a == handler.at
  <2>1. handler = [at |-> a, cur |-> c, b |-> b, changed |-> d, crcs |-> e] BY <1>1 DEF SearchOK
  <2> HIDE DEF a, b, c, d, e
  <2>2. handler \in [at : {a}, cur : {c}, b : {b}, changed : {d}, crcs : {e}] BY <2>1
  <2>3. h \in [at : {"second"}, cur : {c}, b : {b}, changed : {d}, crcs : {crcs}] BY <2>2
  <2>4. \A r \in [at : {"second"}, cur : {c}, b : {b}, changed : {d}, crcs : {crcs}] :
          r = [at |-> "second", cur |-> c, b |-> b, changed |-> d, crcs |-> crcs]
    OBVIOUS
  <2> QED BY <2>3, <2>4 DEF b, c, d
<1> HIDE DEF h
<1>5. /\ h.at = "second" /\ h.cur = handler.cur /\ h.b = handler.b
      /\ h.changed = handler.changed /\ h.crcs = crcs
      /\ h = [at |-> h.at, cur |-> h.cur, b |-> h.b, changed |-> h.changed, crcs |-> h.crcs]
  BY <1>4
<1>6. BatchOf(h) = batch BY <1>3, <1>5 DEF BatchOf
<1>7. SearchOK(world, h) BY <1>1, <1>5 DEF SearchOK
<1>8. AreNames(Keys(batch)) BY <1>6, <1>7, BatchNames
<1>9. GoesTo(world, h, Keys(batch), m) BY <1>5, <1>6, <1>7, <1>8 DEF GoesTo, Suspended, crcs
<1> QED BY <1>2, <1>9, AfterIs, GoAllowed

LEMMA SecondGoesAllowed ==
  ASSUME IInv, session # None, handler.at = "second", NEW m \in Ticks(memory),
         NEW next \in SecondGoes(After(m))
  PROVE  Allowed(After(m), next, m)
<1> DEFINE batch == BatchOf(handler)
           changed == handler.changed
                        \o ChangedOf(batch, AllSeen(world, memory, batch), AllSeen(world, m, batch))
<1>1. SearchOK(world, handler) /\ handler.crcs = AllSeen(world, memory, batch)
  BY DEF IInv, HandlerOK, Good, Suspended
<1>2. ChangedUpTo(After(m)) = {changed}
  <2>1. Batch = batch BY DEF Batch, BatchOf
  <2>2. Crcs(After(m).public_env, Batch, TRUE) = AllSeen(world, m, batch) BY BatchCrcs
  <2> HIDE DEF batch
  <2> QED BY <1>1, <2>1, <2>2 DEF ChangedUpTo
<1>3. next \in FindGoes(After(m), BatchEnds(changed))
  <2> HIDE DEF changed
  <2> QED BY <1>2 DEF SecondGoes
<1>4. Flows(world, memory, m) BY TicksAre DEF IInv
<1> DEFINE h == BatchEnds(changed)
<1>5. \/ h.at = "found" /\ FoundOK(world, h.ranges)
      \/ h.at = "raised"
      \/ h.at = "first" /\ SearchOK(world, h)
  BY <1>1, <1>4, BatchEndsOK
<1> HIDE DEF h
<1>6. next \in FindGoes(After(m), h) BY <1>3 DEF h
<1> QED BY <1>5, <1>6, AfterIs, FindGoesAllowed

\* From wherever the handler is suspended.
LEMMA GoesAllowed ==
  ASSUME IInv, session # None, handler.at # "raised", NEW m \in Ticks(memory),
         NEW next \in Goes(After(m))
  PROVE  Allowed(After(m), next, m)
<1>1. handler.at \in Suspended \ {"raised"} BY DEF IInv, HandlerOK
<1>2. Fits(After(m)) /\ EnvOK(world, started.segments, After(m).env) BY AfterIs
<1>3. CASE handler.at = "preflight"
  <2>1. next \in Enter(After(m)) BY <1>3 DEF Goes
  <2> QED BY <1>2, <2>1, EnterAllowed
<1>4. CASE handler.at = "first"
  <2>1. next \in FirstGoes(After(m)) BY <1>4 DEF Goes
  <2> QED BY <1>4, <2>1, FirstGoesAllowed
<1>5. CASE handler.at = "second"
  <2>1. next \in SecondGoes(After(m)) BY <1>5 DEF Goes
  <2> QED BY <1>5, <2>1, SecondGoesAllowed
<1>6. CASE handler.at = "le"
  <2> DEFINE h == [at |-> "crc", le |-> After(m).public_env["_1"] = <<"44">>]
  <2>1. next \in Go(After(m), h, Keys(world.ranges)) BY <1>6 DEF Goes, LeGoes
  <2>2. h.at = "crc" /\ h.le = world.le BY <1>6, LeAnswer
  <2> HIDE DEF h
  <2>3. AreNames(Keys(world.ranges)) BY WorldIs, KeysAre DEF IInv
  <2>4. GoesTo(world, h, Keys(world.ranges), m) BY <2>2, <2>3 DEF GoesTo, Suspended
  <2> QED BY <1>2, <2>1, <2>4, GoAllowed
<1>7. CASE handler.at = "crc"
  <2> DEFINE crcs == [i \in DOMAIN world.ranges |-> Word(m, world.ranges[i])]
             h == [at |-> "shown", crcs |-> crcs]
  <2>1. Crcs(After(m).public_env, world.ranges, handler.le) = crcs BY <1>7, CrcCrcs
  <2> HIDE DEF crcs
  <2>2. next \in Ends(h) BY <1>7, <2>1 DEF Goes, CrcGoes
  <2>3. h.at = "shown" /\ h.crcs = crcs OBVIOUS
  <2> HIDE DEF h
  <2>4. h.at \notin Suspended /\ h.at # "done" /\ EndOK(world, h, m)
    BY <2>3 DEF EndOK, Suspended, crcs
  <2> QED BY <2>2, <2>4, EndsAllowed
<1>8. CASE handler.at = "user"
  <2>1. next \in UserGoes(After(m)) BY <1>8 DEF Goes
  <2> QED BY <1>2, <2>1, UserGoesAllowed
<1> QED BY <1>1, <1>3, <1>4, <1>5, <1>6, <1>7, <1>8 DEF Suspended

-------------------------------------------------------------------------------
(* Each step keeps the invariant.                                           *)

LEMMA InitIInv == Init => IInv
<1> SUFFICES ASSUME Init PROVE IInv OBVIOUS
<1>1. world \in Worlds /\ session = None /\ handler = Idle /\ vars = world.vars BY DEF Init
<1>2. memory \in Bits(world) BY DEF Init, Bits, Units
<1>3. started.count = 0 /\ started.segments = <<>> BY DEF Init
<1>4. started.count \in 0 .. MaxStarts BY <1>3, SizesAreNats
<1>5. IsSequence(started.segments) BY <1>3 DEF IsSequence
<1>6. AreSeqs(vars) BY <1>1, WorldIs
<1>7. HandlerOK(world, started.segments, session, handler, memory)
  <2>1. handler.at = "idle" BY <1>1 DEF Idle
  <2> QED BY <1>1, <2>1 DEF HandlerOK, EndOK, Suspended
<1> QED BY <1>1, <1>2, <1>4, <1>5, <1>6, <1>7 DEF IInv

LEMMA StartStep ==
  ASSUME IInv, NEW segments \in world.requests, Start(segments) PROVE IInv'
<1> DEFINE env == SessionEnvOf(world.doc, Client, segments)
<1>1. /\ session' = [env |-> env, public_env |-> PublicEnv(env), asked |-> <<"hush_shell">>]
      /\ handler' = [at |-> "preflight"]
      /\ started' = [count |-> started.count + 1, segments |-> segments]
      /\ started.count < MaxStarts /\ ConfigLoads(world.doc)
      /\ UNCHANGED <<world, vars, memory>>
  BY DEF Start
<1>2. EnvOK(world, segments, env) BY <1>1, StartEnv DEF IInv
<1> HIDE DEF env
<1>3. session'.env = env /\ session'.asked = <<"hush_shell">> /\ Fits(session') BY <1>1 DEF Fits
<1>4. AreNames(<<"hush_shell">>) BY OneName
<1>5. handler'.at = "preflight" /\ started'.segments = segments
      /\ started'.count = started.count + 1
  BY <1>1
<1>6. Good(world, segments, session', handler', memory)
  BY <1>2, <1>3, <1>4, <1>5 DEF Good, env
<1>7. HandlerOK(world, segments, session', handler', memory) BY <1>5, <1>6 DEF HandlerOK, Suspended
<1>8. started'.count \in 0 .. MaxStarts BY <1>1, <1>5, SizesAreNats DEF IInv
<1>9. IsSequence(segments) BY WorldIs DEF IInv
<1> QED BY <1>1, <1>5, <1>7, <1>8, <1>9 DEF IInv

\* A round, and where the handler goes from it.
LEMMA RoundIs ==
  ASSUME IInv, Round
  PROVE  /\ session # None /\ UNCHANGED <<world, started>>
         /\ \E m \in Ticks(memory) :
              /\ vars' = Ran(m) /\ memory' = m
              /\ \E next : /\ Allowed(After(m), next, m)
                           /\ session' = next.session /\ handler' = next.handler
<1>1. session # None /\ handler.at # "raised" /\ UNCHANGED <<world, started>> BY DEF Round
<1>2. PICK m \in Ticks(memory) : \E path \in Answers(m) :
        /\ \E s \in {Merge(session, Values(path))} : \E next \in Goes(s) :
             session' = next.session /\ handler' = next.handler
        /\ vars' = Ran(m) /\ memory' = m
  BY DEF Round
<1>3. \A path \in Answers(m) : Merge(session, Values(path)) = After(m)
  BY DEF Answers, After, Answer
<1>4. PICK next \in Goes(After(m)) : session' = next.session /\ handler' = next.handler
  BY <1>2, <1>3
<1>5. Allowed(After(m), next, m) BY <1>1, GoesAllowed
<1> QED BY <1>1, <1>2, <1>4, <1>5

LEMMA RoundStep == ASSUME IInv, Round PROVE IInv'
<1>1. session # None /\ UNCHANGED <<world, started>> BY RoundIs
<1>2. PICK m \in Ticks(memory) :
        /\ vars' = Ran(m) /\ memory' = m
        /\ \E next : /\ Allowed(After(m), next, m)
                     /\ session' = next.session /\ handler' = next.handler
  BY RoundIs
<1>3. HandlerOK(world, started.segments, session', handler', m) BY <1>2 DEF Allowed
<1>4. m \in Bits(world) BY TicksAre DEF IInv
<1>5. AreSeqs(vars') BY <1>2, RanSeqs DEF IInv
<1> QED BY <1>1, <1>2, <1>3, <1>4, <1>5 DEF IInv

\* Only what another handler has asked for is refused: the memory that has gone on is not
\* one that the search has half seen.
LEMMA RefusedStep == ASSUME IInv, Refused PROVE IInv'
<1>1. session # None /\ UNCHANGED <<world, session, handler, started>> BY DEF Refused
<1>2. PICK m \in Ticks(memory) : /\ \E path \in Answers(m) : Values(path)["token"] # Token
                                 /\ vars' = Ran(m) /\ memory' = m
  BY DEF Refused
<1>3. Answer(Ran(m), session.asked)["token"] # Token BY <1>2 DEF Answers, Answer
<1>4. handler.at \in Suspended /\ Good(world, started.segments, session, handler, memory)
  BY <1>1 DEF IInv, HandlerOK
<1>5. ASSUME handler.at \notin {"user", "raised"} PROVE FALSE
  <2>1. /\ \A k \in ToSet(session.asked) : Single(Ran(m), k)
        /\ "token" \notin ToSet(session.asked)
    BY <1>1, <1>5, ScriptAnswers
  <2>2. Fits(session) /\ AreNames(session.asked) BY <1>4 DEF Good
  <2> QED BY <1>3, <2>1, <2>2, MergedHas
<1>6. Good(world, started.segments, session, handler, m) BY <1>4, <1>5 DEF Good
<1>7. HandlerOK(world, started.segments, session, handler, m) BY <1>4, <1>6 DEF HandlerOK
<1>8. m \in Bits(world) BY TicksAre DEF IInv
<1>9. AreSeqs(vars') BY <1>2, RanSeqs DEF IInv
<1> QED BY <1>1, <1>2, <1>7, <1>8, <1>9 DEF IInv

LEMMA StepIInv == IInv /\ [Next]_activeVars => IInv'
<1> SUFFICES ASSUME IInv, [Next]_activeVars PROVE IInv' OBVIOUS
<1>1. CASE \E segments \in world.requests : Start(segments) BY <1>1, StartStep
<1>2. CASE Round BY <1>2, RoundStep
<1>3. CASE Refused BY <1>3, RefusedStep
<1>4. CASE UNCHANGED activeVars BY <1>4 DEF activeVars, IInv
<1> QED BY <1>1, <1>2, <1>3, <1>4 DEF Next

LEMMA SpecIInv == Spec => []IInv
BY InitIInv, StepIInv, PTL DEF Spec

-------------------------------------------------------------------------------
(* The theorems.                                                            *)

\* A handler sees each variable of its session but the provider's own three, and in the
\* value that the scripts are made of, whatever the document, the requests and the answers
\* of the device (_public_env, _merge_continuation_values).
THEOREM DictionariesAgree == Spec => []PublicIsVisible
<1>1. IInv => PublicIsVisible
  <2> SUFFICES ASSUME IInv, session # None PROVE session.public_env = PublicEnv(session.env)
    BY DEF PublicIsVisible
  <2>1. Fits(session) BY DEF IInv, HandlerOK, Good
  <2> QED BY <2>1 DEF Fits
<1> QED BY <1>1, SpecIInv, PTL

\* A session never lacks the variables that the provider's own scripts are made of, never
\* takes token or recv from a device, and the search always has a batch of ranges that are
\* not empty (_validate_base_env, _merge_continuation_values, find_active).
THEOREM TypeCorrect == Spec => []TypeOK
<1>1. IInv => TypeOK
  <2> SUFFICES ASSUME IInv PROVE TypeOK OBVIOUS
  <2>1. ASSUME session # None
        PROVE  /\ Hidden \subseteq DOMAIN session.env /\ None \notin DOMAIN session.env
               /\ Reserved \cap (DOMAIN session.env)
                    \subseteq DOMAIN SessionEnvOf(world.doc, Client, started.segments)
    <3>1. EnvOK(world, started.segments, session.env) BY <2>1 DEF IInv, HandlerOK, Good
    <3> QED BY <3>1 DEF EnvOK
  <2>2. ASSUME handler.at \in {"first", "second"}
        PROVE  /\ \A i \in DOMAIN handler.cur : handler.cur[i] \in MemoryRange
               /\ handler.b \in DOMAIN batched(handler.cur)
               /\ Len(Batch) \in 1 .. MaxRanges
    <3>1. SearchOK(world, handler) BY <2>2 DEF IInv, HandlerOK, Good, Suspended
    <3>2. handler.cur \in Seq(MemoryRange) /\ handler.b \in 1 .. Len(batched(handler.cur))
      BY <3>1 DEF SearchOK, ToSearch
    <3>3. Len(BatchOf(handler)) \in 1 .. MaxRanges BY <3>1, BatchNames
    <3> QED BY <3>2, <3>3, BatchesDomain, ElementOfSeq, LenProperties DEF Batch, BatchOf
  <2>3. ASSUME handler.at = "found"
        PROVE  \A i \in DOMAIN handler.ranges : handler.ranges[i] \in MemoryRange
    <3>1. FoundOK(world, handler.ranges) BY <2>3 DEF IInv, HandlerOK, EndOK, Suspended
    <3>2. handler.ranges \in Seq(MemoryRange) BY <3>1 DEF FoundOK
    <3> QED BY <3>2, ElementOfSeq, LenProperties
  <2>4. memory \in [Units -> {"0", "1"}] /\ started.count \in 0 .. MaxStarts
    BY DEF IInv, Bits, Units
  <2> QED BY <2>1, <2>2, <2>3, <2>4 DEF TypeOK
<1> QED BY <1>1, SpecIInv, PTL

\* The command crc32 shows the checksums of the memory, in order, for a device of either
\* endianness, though the probe for it has used the same keys, and whatever earlier sessions
\* have left in the variables (crc32 in openipc.py).
THEOREM ChecksumsShown == Spec => []CrcShown
<1>1. IInv => CrcShown
  <2> SUFFICES ASSUME IInv, handler.at = "shown"
               PROVE  /\ Len(handler.crcs) = Len(world.ranges)
                      /\ \A i \in DOMAIN handler.crcs : handler.crcs[i] = Word(memory, world.ranges[i])
    BY DEF CrcShown
  <2>1. handler.crcs = [i \in DOMAIN world.ranges |-> Word(memory, world.ranges[i])]
    BY DEF IInv, HandlerOK, EndOK, Suspended
  <2>2. Len(world.ranges) \in Nat /\ DOMAIN world.ranges = 1 .. Len(world.ranges)
    BY WorldIs, LenProperties DEF IInv
  <2> DEFINE n == Len(world.ranges)
             crcs == handler.crcs
  <2>3. crcs = [i \in 1 .. n |-> crcs[i]] BY <2>1, <2>2
  <2>4. \A i \in DOMAIN crcs : crcs[i] = Word(memory, world.ranges[i]) BY <2>1
  <2> HIDE DEF n, crcs
  <2>5. Len(crcs) = n BY <2>2, <2>3 DEF n
  <2> QED BY <2>4, <2>5 DEF n, crcs
<1> QED BY <1>1, SpecIInv, PTL

\* find_active finds every unit that always changes, whatever the ranges, the batches, the
\* number of scripts and the sessions before; and of ranges of the same size, by a power of
\* two larger than min_chunk and at multiples of it, nothing that is still.
THEOREM SearchFinds == Spec => []FindsActive
<1>1. IInv => FindsActive
  <2> SUFFICES ASSUME IInv, handler.at = "found"
               PROVE  /\ \A i \in DOMAIN world.ranges : \A u \in Within(world.ranges[i]) :
                           world.memory[u] = "always" =>
                             \E j \in DOMAIN handler.ranges : u \in Within(handler.ranges[j])
                      /\ Even(world.ranges) =>
                           \A j \in DOMAIN handler.ranges :
                             \A n \in 0 .. (handler.ranges[j].size \div MinChunk) - 1 :
                               \E u \in Within([addr |-> handler.ranges[j].addr + n * MinChunk,
                                                size |-> MinChunk]) :
                                 world.memory[u] # "still"
    BY DEF FindsActive
  <2>1. FoundOK(world, handler.ranges) BY DEF IInv, HandlerOK, EndOK, Suspended
  <2>2. ASSUME NEW i \in DOMAIN world.ranges, NEW u \in Within(world.ranges[i]),
               world.memory[u] = "always"
        PROVE  \E j \in DOMAIN handler.ranges : u \in Within(handler.ranges[j])
    <3>1. u \in Active(world) BY <2>2 DEF Active, Span, ToSet
    <3>2. u \in Span(ToSet(handler.ranges)) BY <2>1, <3>1 DEF FoundOK
    <3> QED BY <3>2 DEF Span, ToSet
  <2>3. ASSUME Even(world.ranges), NEW j \in DOMAIN handler.ranges
        PROVE  Lively(world, handler.ranges[j])
    BY <2>1, <2>3 DEF FoundOK, ToSet
  <2> QED BY <2>2, <2>3 DEF Lively, Stirs
<1> QED BY <1>1, SpecIInv, PTL

\* The variables that a start request sets, by its segments.
LEMMA RequestedIs ==
  ASSUME NEW segments, IsSequence(segments), NEW key, key # None
  PROVE  LET asked == {i \in DOMAIN segments : i > 1 /\ segments[i].key = key}
         IN  IF asked = {} THEN key \notin DOMAIN InRequest(segments)
             ELSE /\ key \in DOMAIN InRequest(segments)
                  /\ \E i \in asked : /\ segments[i].text = InRequest(segments)[key]
                                      /\ \A j \in asked : j <= i
<1> DEFINE asked == {i \in DOMAIN segments : i > 1 /\ segments[i].key = key}
           n == Len(segments)
           t == Tail(segments)
<1>1. n \in Nat /\ DOMAIN segments = 1 .. n BY LenProperties DEF IsSequence
<1>2. CASE segments = <<>>
  <2>1. DOMAIN segments = {} BY <1>2
  <2>2. asked = {} BY <2>1
  <2>3. key \notin DOMAIN InRequest(segments) BY <1>2, NoneSet DEF InRequest
  <2> QED BY <2>2, <2>3
<1>3. CASE segments # <<>>
  <2>1. InRequest(segments) = Values(t) BY <1>3 DEF InRequest
  <2>2. /\ t \in Seq(ToSet(segments)) /\ Len(t) = n - 1 /\ n >= 1
        /\ \A i \in 1 .. n - 1 : t[i] = segments[i + 1]
    <3>1. n > 0 BY <1>1, <1>3, EmptySeq DEF IsSequence
    <3> QED BY <1>1, <1>3, <3>1, HeadTailProperties DEF IsSequence
  <2>3. DOMAIN t = 1 .. n - 1 BY <2>2, LenProperties
  <2> HIDE DEF t
  <2>4. IsSequence(t)
    <3>1. n - 1 \in Nat BY <1>1, <2>2
    <3>2. t \in [1 .. n - 1 -> ToSet(t)]
      <4>1. t \in [1 .. n - 1 -> ToSet(segments)] BY <2>2, <2>3, LenProperties
      <4> QED BY <2>3, <4>1 DEF ToSet
    <3> QED BY <3>1, <3>2 DEF IsSequence
  <2>5. \A i \in DOMAIN t : i + 1 \in DOMAIN segments /\ i + 1 > 1 /\ t[i] = segments[i + 1]
    BY <1>1, <2>2, <2>3
  <2>6. \A i \in asked : i - 1 \in DOMAIN t /\ t[i - 1] = segments[i]
    <3> SUFFICES ASSUME NEW i \in asked PROVE i - 1 \in DOMAIN t /\ t[i - 1] = segments[i] OBVIOUS
    <3>1. i \in 2 .. n BY <1>1
    <3>2. i - 1 \in 1 .. n - 1 /\ (i - 1) + 1 = i BY <1>1, <3>1
    <3> QED BY <2>2, <2>3, <3>2
  <2>7. CASE asked = {}
    <3>1. \A i \in DOMAIN t : t[i].key # key BY <2>5, <2>7
    <3>2. DOMAIN Values(t) = {t[i].key : i \in DOMAIN t} \ {None} BY ValuesDomain
    <3>3. key \notin DOMAIN Values(t) BY <3>1, <3>2
    <3> QED BY <2>1, <2>7, <3>3
  <2>8. CASE asked # {}
    <3>1. PICK i \in DOMAIN t : t[i].key = key BY <2>6, <2>8
    <3>2. /\ key \in DOMAIN Values(t)
          /\ \E j \in DOMAIN t : /\ t[j].key = key /\ Values(t)[key] = t[j].text
                                 /\ \A l \in DOMAIN t : t[l].key = key => l <= j
      BY <2>4, <3>1, LastCounts
    <3>3. PICK j \in DOMAIN t : /\ t[j].key = key /\ Values(t)[key] = t[j].text
                                /\ \A l \in DOMAIN t : t[l].key = key => l <= j
      BY <3>2
    <3>4. j + 1 \in asked /\ segments[j + 1].text = InRequest(segments)[key] BY <2>1, <2>5, <3>3
    <3>5. ASSUME NEW l \in asked PROVE l <= j + 1
      <4>1. l - 1 \in DOMAIN t /\ t[l - 1].key = key BY <2>6
      <4>2. l - 1 <= j BY <3>3, <4>1
      <4>3. l \in Nat /\ j \in Nat BY <1>1, <2>3
      <4> QED BY <4>2, <4>3
    <3> HIDE DEF asked
    <3> QED BY <2>1, <2>8, <3>2, <3>4, <3>5 DEF asked
  <2> QED BY <2>7, <2>8
<1> QED BY <1>2, <1>3

\* At the start of a session the request goes before the client's section, that before
\* [env], and [default] counts only for who has no section (load_daemon_config, _route_for,
\* _session_env), for any document and any request.
THEOREM StartOrder == Spec => []StartPrecedence
<1>1. IInv => StartPrecedence
  <2> SUFFICES ASSUME IInv, handler.at = "preflight" PROVE StartPrecedence
    BY DEF StartPrecedence
  <2> DEFINE doc == world.doc
             segments == started.segments
             env == session.env
             route == RouteFor(doc, Client).env
             table == Table(doc, "env")
  <2>1. env = SessionEnvOf(doc, Client, segments) /\ None \notin DOMAIN env
    BY DEF IInv, HandlerOK, Good, EnvOK, Suspended
  <2>2. IsSequence(segments) /\ IsSequence(doc) BY WorldIs DEF IInv
  <2>3. /\ \A k : k \in DOMAIN env <=> \/ k \in DOMAIN table
                                       \/ k \in DOMAIN route
                                       \/ k \in DOMAIN InRequest(segments)
        /\ \A k \in DOMAIN env :
             env[k] = IF k \in DOMAIN InRequest(segments) THEN InRequest(segments)[k]
                      ELSE IF k \in DOMAIN route THEN route[k] ELSE table[k]
    BY <2>1, SessionEnvIs
  <2>4. Named(doc, Client) = MySections BY ClientIsLower DEF Named, MySections
  <2> HIDE DEF env, table
  <2>5. ASSUME NEW i \in DOMAIN segments, i > 1, segments[i].key # None
        PROVE  segments[i].key \in DOMAIN env
    <3>1. segments[i].key \in DOMAIN InRequest(segments) BY <2>2, <2>5, RequestedIs
    <3> QED BY <2>3, <3>1
  <2>6. ASSUME NEW key \in DOMAIN env
        PROVE  LET text == env[key]
               IN  IF Requested(key) # {}
                   THEN \E i \in Requested(key) : /\ segments[i].text = text
                                                  /\ \A j \in Requested(key) : j <= i
                   ELSE \/ \E i \in MySections : SetBy(key, text, doc[i].table)
                        \/ MySections = {} /\ SetBy(key, text, Table(doc, "default"))
                        \/ /\ \E i \in DOMAIN doc : doc[i].name = "env" /\ SetBy(key, text, doc[i].table)
                           /\ \A i \in MySections : key \notin DOMAIN route
    <3>1. key # None BY <2>1
    <3>2. Requested(key) = {i \in DOMAIN segments : i > 1 /\ segments[i].key = key} BY DEF Requested
    <3>3. CASE Requested(key) # {}
      <4>1. /\ key \in DOMAIN InRequest(segments)
            /\ \E i \in Requested(key) : /\ segments[i].text = InRequest(segments)[key]
                                         /\ \A j \in Requested(key) : j <= i
        BY <2>2, <3>1, <3>2, <3>3, RequestedIs
      <4>2. env[key] = InRequest(segments)[key] BY <2>3, <4>1
      <4> QED BY <3>3, <4>1, <4>2
    <3>4. CASE Requested(key) = {} /\ key \in DOMAIN route
      <4>1. key \notin DOMAIN InRequest(segments) BY <2>2, <3>1, <3>2, <3>4, RequestedIs
      <4>2. env[key] = route[key] BY <2>3, <3>4, <4>1
      <4>3. \A t : key \in DOMAIN Route(t).env => key \in DOMAIN t /\ Route(t).env[key] = t[key]
        BY DEF Route, Without
      <4>4. CASE MySections = {}
        <5>1. RouteFor(doc, Client) = Route(Table(doc, "default")) BY <2>2, <2>4, <4>4, RouteIs
        <5>2. SetBy(key, env[key], Table(doc, "default")) BY <3>4, <4>2, <4>3, <5>1 DEF SetBy
        <5> QED BY <3>4, <4>4, <5>2
      <4>5. CASE MySections # {}
        <5>1. PICK i \in MySections : RouteFor(doc, Client) = Route(doc[i].table)
          BY <2>2, <2>4, <4>5, RouteIs
        <5>2. SetBy(key, env[key], doc[i].table) BY <3>4, <4>2, <4>3, <5>1 DEF SetBy
        <5> QED BY <3>4, <5>2
      <4> QED BY <4>4, <4>5
    <3>5. CASE Requested(key) = {} /\ key \notin DOMAIN route
      <4>1. key \notin DOMAIN InRequest(segments) BY <2>2, <3>1, <3>2, <3>5, RequestedIs
      <4>2. env[key] = table[key] /\ key \in DOMAIN table BY <2>3, <3>5, <4>1
      <4>3. PICK i \in DOMAIN doc : doc[i].name = "env" /\ table = doc[i].table
        BY <4>2, TableIs, NoneSet DEF table
      <4>4. SetBy(key, env[key], doc[i].table) BY <4>2, <4>3 DEF SetBy
      <4> QED BY <3>5, <4>3, <4>4
    <3> QED BY <3>3, <3>4, <3>5
  <2> QED BY <2>5, <2>6 DEF StartPrecedence, env
<1> QED BY <1>1, SpecIInv, PTL

\* What AnswersMerge says of a step.
MergedTo(env) ==
  /\ session' # None => session'.env = env
  /\ handler'.at = "done" => handler'.env = PublicEnv(env)
Merges ==
  session # None /\ started' = started /\ Accepted(session) /\ NoSlash(session)
    => MergedTo(Answered(session.env, session))

LEMMA RoundMerges ==
  ASSUME IInv, Round, NoSlash(session)
  PROVE  MergedTo(Answered(session.env, session))
<1>1. session # None BY RoundIs
<1>2. PICK m \in Ticks(memory) :
        /\ vars' = Ran(m)
        /\ \E next : /\ Allowed(After(m), next, m)
                     /\ session' = next.session /\ handler' = next.handler
  BY RoundIs
<1>3. MergedTo(After(m).env) BY <1>2 DEF Allowed, MergedTo
<1> DEFINE vs == Ran(m)
           keys == session.asked
           v == Answer(vs, keys)
<1>4. Fits(session) /\ AreNames(keys) BY <1>1 DEF IInv, HandlerOK, Good
<1>5. AreSeqs(vs) BY RanSeqs DEF IInv
<1>6. \A k \in ToSet(keys) : Len(Expand(vs, k)) = 1 BY <1>2 DEF NoSlash, Asked
<1> HIDE DEF vs
<1>7. ASSUME NEW k \in ToSet(keys) PROVE Single(vs, k)
  <2>1. CASE k \in DOMAIN vs BY <1>5, <1>6, <2>1 DEF Single, AreSeqs, Expand
  <2>2. CASE k \notin DOMAIN vs
    <3>1. Expand(vs, k) = Plain(<<>>) BY <2>2 DEF Expand, Plain
    <3> QED BY <1>6, <3>1, PlainIsSequence DEF Single
  <2> QED BY <2>1, <2>2
<1>8. /\ \A k : k \in DOMAIN v <=> k = "token" \/ k \in ToSet(keys)
      /\ \A k \in ToSet(keys) \ {"token"} : v[k] = TextOf(vs, k)
  BY <1>4, <1>7, MergedHas
<1>9. After(m).env = Updated(session.env, Without(v, Reserved)) BY <1>4, MergeIs DEF After, vs
<1> HIDE DEF v
<1>10. Without(v, Reserved) = [k \in ToSet(keys) \ Reserved |-> TextOf(vs, k)]
  <2>1. DOMAIN v \ Reserved = ToSet(keys) \ Reserved BY <1>8 DEF Reserved
  <2>2. \A k \in ToSet(keys) \ Reserved : v[k] = TextOf(vs, k) BY <1>8 DEF Reserved
  <2> QED BY <2>1, <2>2 DEF Without
<1>11. Answered(session.env, session)
         = Updated(session.env, [k \in ToSet(keys) \ Reserved |-> TextOf(vs, k)])
  BY <1>2 DEF Answered, Asked, TextOf, vs
<1> QED BY <1>3, <1>9, <1>10, <1>11

\* In every round of any handler up to its last, an accepted answer changes what the handler
\* asked for, to what the device has, and nothing else: no step of a handler reads what an
\* earlier one has left behind (_resume_session, _merge_continuation_values).
THEOREM AnswersChangeWhatIsAsked == Spec => AnswersMerge
<1>1. IInv /\ [Next]_activeVars => [Merges]_activeVars
  <2> SUFFICES ASSUME IInv, Next, session # None, started' = started, Accepted(session),
                      NoSlash(session)
               PROVE  MergedTo(Answered(session.env, session))
    BY DEF Merges
  <2>1. CASE \E segments \in world.requests : Start(segments)
    <3>1. started'.count = started.count + 1 BY <2>1 DEF Start
    <3>2. started.count \in Nat BY SizesAreNats DEF IInv
    <3>3. started.count # started.count + 1 BY <3>2
    <3> QED BY <3>1, <3>3
  <2>2. CASE Round BY <2>2, RoundMerges
  <2>3. CASE Refused BY <2>3 DEF Refused, Accepted, Answers
  <2> QED BY <2>1, <2>2, <2>3 DEF Next
<1>2. Spec => [][Merges]_activeVars BY <1>1, SpecIInv, PTL DEF Spec
<1> QED BY <1>2 DEF AnswersMerge, Merges, MergedTo

===============================================================================
