------------------------------ MODULE UbootEnvProofs ------------------------------
(***************************************************************************)
(* Proofs about UbootEnv, for any environments, layouts and length of what  *)
(* follows the environment.                                                 *)
(*                                                                          *)
(* What is resolved depends on what is found in the image, and the image on *)
(* what was resolved before: a patch that is put in the wrong place changes *)
(* what the next search finds.  The argument cuts this circle in two places.*)
(* Whatever was written, no layout begins in front of the default           *)
(* environment in the code, because nothing in front of it can be taken for *)
(* an environment (BehindCode); so the code's default stays.  And while     *)
(* nothing but the partition was written, the kernel is found where it is   *)
(* (BoundaryIs), and what is resolved is a function of the layout, the      *)
(* arguments and the code's default, whatever the partition holds           *)
(* (ResolvedKept); so, if the arguments are safe, nothing but the partition *)
(* is written next (InsidePart, ExactPart, PatchKeeps).                     *)
(***************************************************************************)
EXTENDS UbootEnv, SequenceFacts

-------------------------------------------------------------------------------
(* Slices.                                                                  *)

LEMMA LessIs == ASSUME NEW a \in Nat, NEW b \in Nat PROVE Min({a, b}) = IF a <= b THEN a ELSE b
<1>1. Min({a, b}) \in {a, b} /\ \A k \in {a, b} : Min({a, b}) <= k BY MinIs
<1> QED BY <1>1

LEMMA SliceIs ==
  ASSUME NEW S, NEW img \in Seq(S), NEW offset \in Nat, NEW size \in Nat
  PROVE  LET s == Slice(img, offset, size)
             rest == IF offset <= Len(img) THEN Len(img) - offset ELSE 0
         IN  /\ s \in Seq(S) /\ Len(s) = (IF size <= rest THEN size ELSE rest)
             /\ DOMAIN s = 1 .. Len(s)
             /\ \A i \in 1 .. Len(s) : s[i] = img[offset + i]
<1> DEFINE n == Len(img)
           hi == IF offset + size <= n THEN offset + size ELSE n
           s == SubSeq(img, offset + 1, hi)
<1>1. n \in Nat /\ DOMAIN img = 1 .. n /\ \A i \in 1 .. n : img[i] \in S
  BY LenProperties, ElementOfSeq
<1>2. Slice(img, offset, size) = s
  <2>1. offset + size \in Nat BY <1>1
  <2>2. Min({offset + size, n}) = hi BY <1>1, <2>1, LessIs
  <2> QED BY <2>2 DEF Slice
<1> HIDE DEF n
<1>3. hi \in Nat /\ hi <= n BY <1>1
<1> HIDE DEF hi
<1>4. /\ s \in Seq(S) /\ Len(s) = IF offset + 1 <= hi THEN hi - (offset + 1) + 1 ELSE 0
      /\ \A i \in 1 .. hi - (offset + 1) + 1 : s[i] = img[offset + 1 + i - 1]
  <2>1. \A i \in offset + 1 .. hi : img[i] \in S BY <1>1, <1>3
  <2> QED BY <1>3, <2>1, SubSeqProperties
<1>5. DOMAIN s = 1 .. Len(s) BY <1>4, LenProperties
<1> HIDE DEF s
<1>6. \A i \in 1 .. Len(s) : s[i] = img[offset + i]
  <2> SUFFICES ASSUME NEW i \in 1 .. Len(s) PROVE s[i] = img[offset + i] OBVIOUS
  <2>1. i \in 1 .. hi - (offset + 1) + 1 /\ offset + 1 + i - 1 = offset + i BY <1>3, <1>4
  <2> QED BY <1>4, <2>1
<1>7. Len(s) = IF size <= (IF offset <= n THEN n - offset ELSE 0) THEN size
               ELSE IF offset <= n THEN n - offset ELSE 0
  BY <1>1, <1>3, <1>4 DEF hi
<1> QED BY <1>2, <1>4, <1>5, <1>6, <1>7 DEF n

\* A slice that the image has.
LEMMA WholeSlice ==
  ASSUME NEW S, NEW img \in Seq(S), NEW offset \in Nat, NEW size \in Nat, offset + size <= Len(img)
  PROVE  LET s == Slice(img, offset, size)
         IN  /\ s \in Seq(S) /\ Len(s) = size /\ DOMAIN s = 1 .. size
             /\ \A i \in 1 .. size : s[i] = img[offset + i]
<1> DEFINE s == Slice(img, offset, size)
           n == Len(img)
<1>1. n \in Nat BY LenProperties
<1>2. /\ s \in Seq(S) /\ DOMAIN s = 1 .. Len(s)
      /\ Len(s) = (IF size <= (IF offset <= n THEN n - offset ELSE 0) THEN size
                   ELSE IF offset <= n THEN n - offset ELSE 0)
      /\ \A i \in 1 .. Len(s) : s[i] = img[offset + i]
  BY SliceIs
<1> HIDE DEF s, n
<1>3. Len(s) = size BY <1>1, <1>2 DEF n
<1> QED BY <1>2, <1>3 DEF s

-------------------------------------------------------------------------------
(* Flashes.                                                                 *)

\* The places and environments of a flash that is laid out like t.
At(t) == t.start + t.boot
Part(t) == At(t) + 1 .. At(t) + t.env
Code(t) == t.start + t.code
Here(t) == {e \in Envs : Mtdparts(e) \in {None, [boot |-> t.boot, env |-> t.env]}}
Args(t) ==
  [offset : {t.start}, boot : {t.boot, None}, at : {At(t), None},
   size : {t.env, t.env + Rest + 1, None}]

Blocks(t) ==
  {b \in [kind : {"code", "env", "raw", "magic", "data", "erased"}, env : Here(t) \cup {None},
          size : Nat, header : {0, 4, 5}, order : Orders \cup {None}, good : BOOLEAN] :
     b.kind \in {"env", "raw"} => b.env # None}

\* An environment that has the header and the order of bytes of this flash.
OwnForm(t, b) == b.kind = "env" => b.header = t.header /\ b.order = t.order

LEMMA LayoutIs ==
  ASSUME NEW t \in Layouts
  PROVE  /\ t.start \in Nat /\ t.boot \in Nat /\ t.env \in Nat /\ t.code \in Nat /\ t.decoy \in Nat
         /\ t.boot > 0 /\ t.env > 0 /\ t.code > 0 /\ t.code <= t.boot /\ t.decoy <= t.boot
         /\ t.header \in {4, 5} /\ t.order \in Orders /\ Rest \in Nat /\ Rest > 0
         /\ At(t) \in Nat /\ At(t) = t.start + t.boot /\ Code(t) \in Nat /\ Code(t) = t.start + t.code
         /\ Code(t) <= At(t) /\ Code(t) > t.start
<1>1. t \in Layout /\ Rest \in Nat \ {0} BY LayoutsAreLayouts
<1>2. /\ t.start \in Nat /\ t.boot \in Nat \ {0} /\ t.env \in Nat \ {0} /\ t.header \in {4, 5}
      /\ t.order \in Orders /\ t.code \in Nat \ {0} /\ t.decoy \in Nat
      /\ t.code <= t.boot /\ t.decoy <= t.boot
  BY <1>1 DEF Layout
<1> QED BY <1>1, <1>2 DEF At, Code

LEMMA EnvsAre == ASSUME NEW t, NEW e \in Here(t)
  PROVE e \in Envs /\ e # None /\ e.keys \in Nat /\ e.core \in Nat /\ e.score \in Nat
<1>1. e \in Envs BY DEF Here
<1>2. e \in Env /\ e # None BY <1>1, EnvsAreEnvs, NoneIsNothing
<1> QED BY <1>1, <1>2 DEF Env

-------------------------------------------------------------------------------
(* Default environments.                                                    *)

\* The environment that is found in k blocks of the boot partition and what follows.
Default0(img, o, k) == extract_default_env_from_uboot(Slice(img, o, k))
HasEnv(b) == b.env # None /\ Plausible(b.env)

LEMMA BestIs ==
  ASSUME NEW t, NEW region \in Seq(Blocks(t)), NEW found, found \subseteq DOMAIN region,
         found # {}, \A i \in found : region[i].env # None
  PROVE  \E i \in found : Best(region, found) = region[i].env
<1> DEFINE f == [i \in found |-> region[i].env.score]
           best == {i \in found : \A j \in found : region[i].env.score >= region[j].env.score}
<1>1. DOMAIN region = 1 .. Len(region) /\ Len(region) \in Nat BY LenProperties
<1>2. IsFiniteSet(found) /\ found \subseteq Nat
  <2>1. IsFiniteSet(1 .. Len(region)) BY <1>1, FS_Interval
  <2> QED BY <1>1, <2>1, FS_Subset
<1>3. \A i \in found : f[i] \in Nat
  <2> SUFFICES ASSUME NEW i \in found PROVE region[i].env.score \in Nat OBVIOUS
  <2>1. region[i] \in Blocks(t) BY <1>1, ElementOfSeq
  <2>2. region[i].env \in Here(t) BY <2>1 DEF Blocks
  <2> QED BY <2>2, EnvsAre
<1>4. IsFiniteSet({f[i] : i \in found})
  <2>1. f = [i \in found |-> f[i]] OBVIOUS
  <2> HIDE DEF f
  <2> QED BY <1>2, <2>1, ValuesFinite
<1>5. {f[i] : i \in found} \subseteq Nat /\ {f[i] : i \in found} # {} BY <1>3
<1>6. PICK s \in {f[i] : i \in found} : \A r \in {f[i] : i \in found} : r <= s
  <2> HIDE DEF f
  <2> QED BY <1>4, <1>5, GreatestNat
<1>7. PICK i0 \in found : s = f[i0] BY <1>6
<1>8. i0 \in best
  <2> SUFFICES ASSUME NEW j \in found PROVE f[i0] >= f[j] OBVIOUS
  <2>1. f[j] <= s BY <1>6
  <2>2. f[i0] \in Nat /\ f[j] \in Nat BY <1>3
  <2> QED BY <1>7, <2>1, <2>2
<1>9. best \subseteq Nat BY <1>2
<1>10. Best(region, found) = region[Min(best)].env BY DEF Best
<1> HIDE DEF best
<1>11. Min(best) \in best BY <1>8, <1>9, MinIs
<1> QED BY <1>10, <1>11 DEF best

LEMMA ExtractIs ==
  ASSUME NEW t, NEW region \in Seq(Blocks(t))
  PROVE  LET x == extract_default_env_from_uboot(region)
         IN  \/ x = None /\ \A i \in DOMAIN region : ~HasEnv(region[i])
             \/ /\ x \in Here(t) /\ x # None /\ Plausible(x)
                /\ \E i \in DOMAIN region : HasEnv(region[i]) /\ x = region[i].env
<1> DEFINE found == {i \in 1 .. Len(region) : region[i].env # None /\ Plausible(region[i].env)}
           x == Best(region, found)
<1>1. extract_default_env_from_uboot(region) = x BY DEF extract_default_env_from_uboot
<1>2. DOMAIN region = 1 .. Len(region) BY LenProperties
<1>3. CASE found = {}
  <2>1. x = None BY <1>3 DEF Best
  <2>2. \A i \in DOMAIN region : ~HasEnv(region[i]) BY <1>2, <1>3 DEF HasEnv
  <2> HIDE DEF x
  <2> QED BY <1>1, <2>1, <2>2
<1>4. CASE found # {}
  <2>1. found \subseteq DOMAIN region /\ \A i \in found : region[i].env # None BY <1>2
  <2> HIDE DEF found
  <2>2. PICK i \in found : x = region[i].env BY <1>4, <2>1, BestIs
  <2> HIDE DEF x
  <2>3. HasEnv(region[i]) BY <2>2 DEF HasEnv, found
  <2>4. region[i] \in Blocks(t) BY <1>2, <2>1, ElementOfSeq
  <2>5. region[i].env \in Here(t) BY <2>3, <2>4 DEF Blocks, HasEnv
  <2> QED BY <1>1, <2>1, <2>2, <2>3, <2>5 DEF HasEnv
<1> QED BY <1>3, <1>4

\* In an image.
LEMMA DefaultIs ==
  ASSUME NEW t, NEW img \in Seq(Blocks(t)), NEW o \in Nat, NEW k \in Nat, o + k <= Len(img)
  PROVE  \/ Default0(img, o, k) = None /\ \A i \in o + 1 .. o + k : ~HasEnv(img[i])
         \/ /\ Default0(img, o, k) \in Here(t) /\ Default0(img, o, k) # None
            /\ Plausible(Default0(img, o, k))
            /\ \E i \in o + 1 .. o + k : HasEnv(img[i]) /\ Default0(img, o, k) = img[i].env
<1> DEFINE s == Slice(img, o, k)
           x == Default0(img, o, k)
<1>1. s \in Seq(Blocks(t)) /\ DOMAIN s = 1 .. k /\ \A i \in 1 .. k : s[i] = img[o + i]
  <2> DEFINE S == Blocks(t)
  <2>1. img \in Seq(S) OBVIOUS
  <2> HIDE DEF S
  <2>2. s \in Seq(S) BY <2>1, WholeSlice
  <2>3. DOMAIN s = 1 .. k /\ \A i \in 1 .. k : s[i] = img[o + i] BY <2>1, WholeSlice
  <2> QED BY <2>2, <2>3 DEF S
<1>2. x = extract_default_env_from_uboot(s) BY DEF Default0
<1> HIDE DEF s, x
<1>3. \/ x = None /\ \A i \in 1 .. k : ~HasEnv(s[i])
      \/ /\ x \in Here(t) /\ x # None /\ Plausible(x)
         /\ \E i \in 1 .. k : HasEnv(s[i]) /\ x = s[i].env
  BY <1>1, <1>2, ExtractIs
<1>4. \A i \in 1 .. k : o + i \in o + 1 .. o + k OBVIOUS
<1>5. \A i \in o + 1 .. o + k : i - o \in 1 .. k /\ o + (i - o) = i OBVIOUS
<1>6. CASE x = None /\ \A i \in 1 .. k : ~HasEnv(s[i])
  <2>1. ASSUME NEW i \in o + 1 .. o + k PROVE ~HasEnv(img[i])
    <3>1. i - o \in 1 .. k /\ s[i - o] = img[i] BY <1>1, <1>5
    <3> QED BY <1>6, <3>1
  <2> QED BY <1>6, <2>1 DEF x
<1>7. CASE /\ x \in Here(t) /\ x # None /\ Plausible(x)
           /\ \E i \in 1 .. k : HasEnv(s[i]) /\ x = s[i].env
  <2>1. PICK i \in 1 .. k : HasEnv(s[i]) /\ x = s[i].env BY <1>7
  <2>2. o + i \in o + 1 .. o + k /\ HasEnv(img[o + i]) /\ x = img[o + i].env BY <1>1, <1>4, <2>1
  <2> QED BY <1>7, <2>2 DEF x
<1> QED BY <1>3, <1>6, <1>7

-------------------------------------------------------------------------------
(* The layout that is found.                                                *)

\* A flash as it is at first.
FirstOK(t, f) ==
  /\ f \in Seq(Blocks(t)) /\ Len(f) = At(t) + t.env + Rest
  /\ HasEnv(f[Code(t)])
  /\ \A i \in 1 .. At(t) : i # Code(t) => f[i].env = None
  /\ \A i \in t.start + 1 .. At(t) : f[i].kind = "magic" <=> i = t.start + t.decoy /\ i # Code(t)
  /\ \A i \in Part(t) : f[i].kind \notin {"magic", "env"}
  /\ f[At(t) + t.env + 1].kind = "magic"

\* Nothing has been written in front of the default environment, or over it, and nothing
\* but the environment partition has been written to.
UpToCode(t, f, img) ==
  img \in Seq(Blocks(t)) /\ Code(t) <= Len(img) /\ \A i \in 1 .. Code(t) : img[i] = f[i]
Kept(t, f, img) ==
  /\ Len(img) = Len(f) /\ \A i \in (1 .. Len(f)) \ Part(t) : img[i] = f[i]
  /\ \A i \in Part(t) : img[i].kind # "magic"

\* The kernel, or what looks like one.
Mark(t) == IF t.decoy >= 2 /\ t.decoy # t.code THEN t.start + t.decoy - 1 ELSE At(t) + t.env

LEMMA BoundaryFits ==
  ASSUME NEW S, NEW img \in Seq(S), NEW o \in Nat, Boundary(img, o) # None
  PROVE  /\ Boundary(img, o) \in Nat /\ Boundary(img, o) > o /\ Boundary(img, o) < Len(img)
         /\ Boundary(img, o) - 1 \in Nat
<1> DEFINE marks == {x \in o + 1 .. Len(img) - 1 : img[x + 1].kind = "magic"}
<1>1. Len(img) \in Nat BY LenProperties
<1>2. marks # {} /\ Boundary(img, o) = Min(marks) BY DEF Boundary
<1>3. marks \subseteq o + 1 .. Len(img) - 1 OBVIOUS
<1> HIDE DEF marks
<1>4. Min(marks) \in marks
  <2>1. marks \subseteq Nat BY <1>1, <1>3
  <2> QED BY <1>2, <2>1, MinIs
<1>5. Min(marks) \in o + 1 .. Len(img) - 1 BY <1>3, <1>4
<1> QED BY <1>1, <1>2, <1>5

LEMMA BoundaryIs ==
  ASSUME NEW t \in Layouts, NEW f, FirstOK(t, f), NEW img, Kept(t, f, img)
  PROVE  Boundary(img, t.start) = Mark(t)
<1>1. PICK o, b, c, d, w, r, A, C :
        /\ o = t.start /\ b = t.boot /\ c = t.code /\ d = t.decoy /\ w = t.env /\ r = Rest
        /\ A = At(t) /\ C = Code(t)
  OBVIOUS
<1>2. /\ o \in Nat /\ b \in Nat /\ c \in Nat /\ d \in Nat /\ w \in Nat /\ r \in Nat
      /\ b > 0 /\ w > 0 /\ c > 0 /\ c <= b /\ d <= b /\ r > 0 /\ A = o + b /\ C = o + c
  <2>1. /\ t.start \in Nat /\ t.boot \in Nat /\ t.env \in Nat /\ t.code \in Nat /\ t.decoy \in Nat
        /\ t.boot > 0 /\ t.env > 0 /\ t.code > 0 /\ t.code <= t.boot /\ t.decoy <= t.boot
        /\ Rest \in Nat /\ Rest > 0 /\ At(t) = t.start + t.boot /\ Code(t) = t.start + t.code
    BY LayoutIs
  <2> QED BY <1>1, <2>1
<1>3. PICK n, m : n = Len(img) /\ m = IF d >= 2 /\ d # c THEN o + d - 1 ELSE A + w OBVIOUS
<1>4. Mark(t) = m BY <1>1, <1>3 DEF Mark
<1>5. n = A + w + r /\ n = Len(f) BY <1>1, <1>3 DEF FirstOK, Kept
<1>6. PICK marks : marks = {x \in o + 1 .. n - 1 : img[x + 1].kind = "magic"} OBVIOUS
<1>7. Boundary(img, o) = IF marks = {} THEN None ELSE Min(marks) BY <1>3, <1>6 DEF Boundary
<1>8. \A i \in 1 .. n : i \notin A + 1 .. A + w => img[i] = f[i]
  BY <1>1, <1>5 DEF Kept, Part
<1>9. \A i \in o + 1 .. A : img[i].kind = "magic" <=> i = o + d /\ i # C
  <2>1. \A i \in o + 1 .. A : f[i].kind = "magic" <=> i = o + d /\ i # C
    BY <1>1 DEF FirstOK
  <2>2. \A i \in o + 1 .. A : i \in 1 .. n /\ i \notin A + 1 .. A + w BY <1>2, <1>5
  <2> QED BY <1>8, <2>1, <2>2
<1>10. \A i \in A + 1 .. A + w : img[i].kind # "magic" BY <1>1 DEF Kept, Part
<1>11. img[A + w + 1].kind = "magic"
  <2>1. f[A + w + 1].kind = "magic" BY <1>1 DEF FirstOK
  <2>2. A + w + 1 \in 1 .. n /\ A + w + 1 \notin A + 1 .. A + w BY <1>2, <1>5
  <2> QED BY <1>8, <2>1, <2>2
<1>12. m \in marks
  <2>1. CASE d >= 2 /\ d # c
    <3>1. m \in o + 1 .. n - 1 /\ m + 1 \in o + 1 .. A /\ m + 1 = o + d /\ m + 1 # C
      BY <1>2, <1>3, <1>5, <2>1
    <3> QED BY <1>6, <1>9, <3>1
  <2>2. CASE ~(d >= 2 /\ d # c)
    <3>1. m \in o + 1 .. n - 1 /\ m = A + w BY <1>2, <1>3, <1>5, <2>2
    <3> QED BY <1>6, <1>11, <3>1
  <2> QED BY <2>1, <2>2
<1>13. \A x \in marks : m <= x
  <2> SUFFICES ASSUME NEW x \in marks PROVE m <= x OBVIOUS
  <2>1. x \in o + 1 .. n - 1 /\ img[x + 1].kind = "magic" BY <1>6
  <2>2. x + 1 \notin A + 1 .. A + w BY <1>10, <2>1
  <2>3. x + 1 \in o + 1 .. A => x + 1 = o + d /\ x + 1 # C BY <1>9, <2>1
  <2> QED BY <1>2, <1>3, <1>5, <2>1, <2>2, <2>3
<1>14. marks \subseteq Nat BY <1>2, <1>5, <1>6
<1>15. Min(marks) \in marks /\ Min(marks) <= m BY <1>12, <1>14, MinIs
<1>16. Min(marks) = m
  <2>1. m <= Min(marks) BY <1>13, <1>15
  <2>2. m \in Nat /\ Min(marks) \in Nat BY <1>12, <1>14, <1>15
  <2> QED BY <1>15, <2>1, <2>2
<1> QED BY <1>1, <1>4, <1>7, <1>12, <1>16

\* In front of a kernel the smallest size is tried first, and fits if any does.
LEMMA GuessIs ==
  ASSUME NEW t, NEW img \in Seq(Blocks(t)), NEW o \in Nat, NEW b \in Nat, b <= Len(img)
  PROVE  LET g == GuessByBoundary(img, o, b)
         IN  IF b - 1 > o /\ Default0(img, o, b - 1 - o) # None THEN g = Before(img, o, b - 1, 1)
             ELSE g = None
<1> DEFINE at(n) == Before(img, o, b - n, n)
           sizes == {n \in CommonEnvSizes : b - n > o}
           all == {at(n) : n \in sizes}
           found == {p \in all : p.default # None}
           g == GuessByBoundary(img, o, b)
<1>1. \A n : at(n).size = n /\ at(n).default = Default0(img, o, b - n - o)
  BY DEF Before, Default0
<1>2. g = IF found = {} THEN None ELSE CHOOSE p \in found : \A q \in found : p.size <= q.size
  BY DEF GuessByBoundary, Smallest
<1>3. \A p : p \in found <=> \E n \in sizes : p = at(n) /\ at(n).default # None OBVIOUS
<1> HIDE DEF at, found, g
<1>4. \A n \in sizes : n \in Nat /\ n >= 1 /\ b - n > o BY DEF CommonEnvSizes
<1>5. ASSUME NEW n \in sizes, at(n).default # None
      PROVE  b - 1 > o /\ Default0(img, o, b - 1 - o) # None
  <2>1. n \in Nat /\ n >= 1 /\ b - n > o BY <1>4
  <2>2. b - n - o \in Nat /\ o + (b - n - o) <= Len(img) /\ b - 1 - o \in Nat
        /\ o + (b - 1 - o) <= Len(img) /\ b - 1 > o
        /\ o + 1 .. o + (b - n - o) \subseteq o + 1 .. o + (b - 1 - o)
    <3>1. Len(img) \in Nat BY LenProperties
    <3> QED BY <2>1, <3>1
  <2> DEFINE j == b - n - o
             k == b - 1 - o
  <2> HIDE DEF j, k
  <2>3. j \in Nat /\ o + j <= Len(img) /\ k \in Nat /\ o + k <= Len(img)
        /\ o + 1 .. o + j \subseteq o + 1 .. o + k
    BY <2>2 DEF j, k
  <2>4. Default0(img, o, j) # None BY <1>1, <1>5 DEF j
  <2>5. \E i \in o + 1 .. o + j : HasEnv(img[i]) BY <2>3, <2>4, DefaultIs
  <2>6. \E i \in o + 1 .. o + k : HasEnv(img[i]) BY <2>3, <2>5
  <2>7. Default0(img, o, k) # None BY <2>3, <2>6, DefaultIs
  <2> QED BY <2>2, <2>7 DEF k
<1>6. CASE b - 1 > o /\ Default0(img, o, b - 1 - o) # None
  <2>1. 1 \in sizes BY <1>6 DEF CommonEnvSizes
  <2>2. at(1) \in found BY <1>1, <1>3, <1>6, <2>1
  <2>3. \A q \in found : at(1).size <= q.size BY <1>1, <1>3, <1>4
  <2>4. g \in found /\ \A q \in found : g.size <= q.size
    <3>1. \E p \in found : \A q \in found : p.size <= q.size BY <2>2, <2>3
    <3>2. found # {} BY <2>2
    <3> QED BY <1>2, <3>1, <3>2
  <2>5. PICK n \in sizes : g = at(n) BY <1>3, <2>4
  <2>6. n <= 1 BY <1>1, <2>2, <2>4, <2>5
  <2>7. n = 1 BY <1>4, <2>6
  <2> QED BY <1>6, <2>5, <2>7 DEF g, at
<1>7. CASE ~(b - 1 > o /\ Default0(img, o, b - 1 - o) # None)
  <2>1. found = {} BY <1>3, <1>5, <1>7
  <2> QED BY <1>2, <1>7, <2>1 DEF g
<1> QED BY <1>6, <1>7

-------------------------------------------------------------------------------
(* What is inferred.                                                        *)

\* How much of the image is searched, and what is found there.
Probe(img, o, boot) == Or(boot, ProbeSize(img, o, Boundary(img, o)))
Found(img, o, boot) == Default0(img, o, Probe(img, o, boot))
Behind(img, o) ==
  /\ Boundary(img, o) # None /\ Boundary(img, o) - 1 > o
  /\ Default0(img, o, Boundary(img, o) - 1 - o) # None

LEMMA ProbeIs ==
  ASSUME NEW S, NEW img \in Seq(S), NEW o \in Nat, o <= Len(img), NEW boot \in Nat \cup {None}
  PROVE  LET b == Boundary(img, o)
         IN  /\ Probe(img, o, boot) \in Nat
             /\ boot # None => Probe(img, o, boot) = boot
             /\ boot = None /\ b # None =>
                  Probe(img, o, boot) = b - o /\ b \in Nat /\ b > o /\ b < Len(img)
<1>1. PICK b, n : b = Boundary(img, o) /\ n = Len(img) OBVIOUS
<1>2. n \in Nat /\ o <= n BY <1>1, LenProperties
<1>3. b # None => b \in Nat /\ b > o /\ b < n BY <1>1, BoundaryFits
<1>4. b = None => ProbeSize(img, o, b) \in Nat
  <2>1. ProbeLimit \in Nat /\ n - o \in Nat BY <1>2 DEF ProbeLimit
  <2>2. Min({n - o, ProbeLimit}) \in Nat BY <2>1, LessIs
  <2> QED BY <1>1, <2>2 DEF ProbeSize
<1>5. b # None => ProbeSize(img, o, b) = b - o BY DEF ProbeSize
<1>6. Probe(img, o, boot) = IF boot # None THEN boot ELSE ProbeSize(img, o, b)
  BY <1>1 DEF Probe, Or
<1> QED BY <1>1, <1>3, <1>4, <1>5, <1>6

LEMMA MtdpartsIs ==
  ASSUME NEW t \in Layouts, NEW e \in Here(t), Mtdparts(e) # None
  PROVE  Mtdparts(e).boot = t.boot /\ Mtdparts(e).env = t.env
<1>1. Mtdparts(e) = [boot |-> t.boot, env |-> t.env] BY DEF Here
<1> QED BY <1>1

LEMMA InferredIs ==
  ASSUME NEW t \in Layouts, NEW img \in Seq(Blocks(t)), t.start <= Len(img),
         NEW boot \in {t.boot, None}
  PROVE  LET o == t.start
             d == Found(img, o, boot)
             x == Inferred(img, o, Boundary(img, o), boot)
         IN  IF o + Probe(img, o, boot) > Len(img) \/ d = None THEN x = None
             ELSE IF Mtdparts(d) # None
                  THEN x = [boot |-> t.boot, at |-> At(t), size |-> t.env, default |-> d]
             ELSE IF Behind(img, o) THEN x = Before(img, o, Boundary(img, o) - 1, 1)
             ELSE x = None
<1>1. PICK o, b, n, p : /\ o = t.start /\ b = Boundary(img, o) /\ n = Len(img)
                        /\ p = Probe(img, o, boot)
  OBVIOUS
<1>2. PICK d : d = Default0(img, o, p) OBVIOUS
<1>3. PICK x : x = Inferred(img, o, b, boot) OBVIOUS
<1>4. PICK s : s = Slice(img, o, p) OBVIOUS
<1>5. n \in Nat /\ o \in Nat /\ o <= n /\ boot \in Nat \cup {None} /\ At(t) = o + t.boot
  BY <1>1, LayoutIs, LenProperties
<1>6. p \in Nat
  <2> DEFINE S == Blocks(t)
  <2>1. img \in Seq(S) OBVIOUS
  <2> HIDE DEF S
  <2> QED BY <1>1, <1>5, <2>1, ProbeIs
<1>7. Len(s) = p <=> o + p <= n
  <2> DEFINE S == Blocks(t)
  <2>1. img \in Seq(S) OBVIOUS
  <2> HIDE DEF S
  <2>2. Len(s) = IF p <= (IF o <= n THEN n - o ELSE 0) THEN p ELSE IF o <= n THEN n - o ELSE 0
    BY <1>1, <1>4, <1>5, <1>6, <2>1, SliceIs
  <2> QED BY <1>5, <1>6, <2>2
<1>8. d = extract_default_env_from_uboot(s) BY <1>2, <1>4 DEF Default0
<1>9. x = IF Len(s) # p THEN None ELSE ByDefault(img, o, b, d)
  BY <1>1, <1>3, <1>4, <1>8 DEF Inferred, InferredIn, Probe
<1>10. CASE o + p > n
  <2>1. x = None BY <1>5, <1>6, <1>7, <1>9, <1>10
  <2> QED BY <1>1, <1>3, <1>10, <2>1
<1>11. CASE ~(o + p > n) /\ d = None
  <2>1. x = None BY <1>9, <1>11 DEF ByDefault
  <2> QED BY <1>1, <1>2, <1>3, <1>11, <2>1 DEF Found
<1>12. CASE ~(o + p > n) /\ d # None
  <2>1. x = ByDefault(img, o, b, d) /\ o + p <= n BY <1>5, <1>6, <1>7, <1>9, <1>12
  <2>2. d \in Here(t) BY <1>1, <1>2, <1>5, <1>6, <1>12, <2>1, DefaultIs
  <2>3. d = Found(img, o, boot) BY <1>1, <1>2 DEF Found
  <2>4. CASE Mtdparts(d) # None
    <3>1. Mtdparts(d).boot = t.boot /\ Mtdparts(d).env = t.env BY <2>2, <2>4, MtdpartsIs
    <3>2. x = [boot |-> Mtdparts(d).boot, at |-> o + Mtdparts(d).boot, size |-> Mtdparts(d).env,
               default |-> d]
      BY <1>12, <2>1, <2>4 DEF ByDefault
    <3>3. x = [boot |-> t.boot, at |-> At(t), size |-> t.env, default |-> d]
      BY <1>5, <3>1, <3>2
    <3> QED BY <1>1, <1>3, <1>12, <2>3, <2>4, <3>3
  <2>5. CASE Mtdparts(d) = None
    <3>1. x = IF b = None THEN None ELSE GuessByBoundary(img, o, b)
      BY <1>12, <2>1, <2>5 DEF ByDefault
    <3>2. b # None => /\ b \in Nat /\ b <= n
                      /\ GuessByBoundary(img, o, b) =
                           IF b - 1 > o /\ Default0(img, o, b - 1 - o) # None
                           THEN Before(img, o, b - 1, 1) ELSE None
      <4> SUFFICES ASSUME b # None
                   PROVE  /\ b \in Nat /\ b <= n
                          /\ GuessByBoundary(img, o, b) =
                               IF b - 1 > o /\ Default0(img, o, b - 1 - o) # None
                               THEN Before(img, o, b - 1, 1) ELSE None
        OBVIOUS
      <4>1. b \in Nat /\ b < n
        <5> DEFINE S == Blocks(t)
        <5>1. img \in Seq(S) OBVIOUS
        <5> HIDE DEF S
        <5> QED BY <1>1, <1>5, <5>1, BoundaryFits
      <4>2. b <= n BY <1>5, <4>1
      <4> QED BY <1>1, <1>5, <4>1, <4>2, GuessIs
    <3>3. x = IF Behind(img, o) THEN Before(img, o, b - 1, 1) ELSE None
      BY <1>1, <3>1, <3>2 DEF Behind
    <3> QED BY <1>1, <1>3, <1>12, <2>3, <2>5, <3>3
  <2> QED BY <2>4, <2>5
<1> QED BY <1>10, <1>11, <1>12

\* A default environment is found as soon as the code is searched, and in front of the
\* partitions it is that of the code.
LEMMA FoundIs ==
  ASSUME NEW t \in Layouts, NEW f, FirstOK(t, f), NEW img, UpToCode(t, f, img),
         NEW k \in Nat, t.start + k <= Len(img)
  PROVE  LET d == Default0(img, t.start, k)
         IN  /\ d # None <=> t.start + k >= Code(t)
             /\ d # None => d \in Here(t) /\ Plausible(d)
             /\ Kept(t, f, img) /\ t.start + k <= At(t) /\ d # None => d = f[Code(t)].env
<1>1. PICK o, C, A : o = t.start /\ C = Code(t) /\ A = At(t) OBVIOUS
<1>2. o \in Nat /\ C \in Nat /\ A \in Nat /\ C <= A /\ C > o BY <1>1, LayoutIs
<1>3. PICK d : d = Default0(img, o, k) OBVIOUS
<1>4. img \in Seq(Blocks(t)) BY DEF UpToCode
<1>5. \/ d = None /\ \A i \in o + 1 .. o + k : ~HasEnv(img[i])
      \/ /\ d \in Here(t) /\ d # None /\ Plausible(d)
         /\ \E i \in o + 1 .. o + k : HasEnv(img[i]) /\ d = img[i].env
  <2>1. o + k <= Len(img) BY <1>1
  <2> QED BY <1>2, <1>3, <1>4, <2>1, DefaultIs
<1>6. \A i \in 1 .. A : i # C => f[i].env = None BY <1>1 DEF FirstOK
<1>7. \A i \in 1 .. C : img[i] = f[i] BY <1>1 DEF UpToCode
<1>8. HasEnv(img[C]) BY <1>1, <1>2, <1>7 DEF FirstOK
<1>9. d # None <=> o + k >= C
  <2>1. ASSUME o + k >= C PROVE d # None
    <3>1. C \in o + 1 .. o + k BY <1>2, <2>1
    <3> QED BY <1>5, <1>8, <3>1
  <2>2. ASSUME d # None PROVE o + k >= C
    <3>1. PICK i \in o + 1 .. o + k : HasEnv(img[i]) BY <1>5, <2>2
    <3>2. ASSUME i < C PROVE FALSE
      <4>1. i \in 1 .. A /\ i # C /\ i \in 1 .. C BY <1>2, <3>2
      <4>2. img[i].env = None BY <1>6, <1>7, <4>1
      <4> QED BY <3>1, <4>2 DEF HasEnv
    <3> QED BY <1>2, <3>2
  <2> QED BY <2>1, <2>2
<1>10. ASSUME Kept(t, f, img), o + k <= A, d # None PROVE d = f[C].env
  <2>1. PICK i \in o + 1 .. o + k : HasEnv(img[i]) /\ d = img[i].env BY <1>5, <1>10
  <2>2. i \in 1 .. A BY <1>2, <1>10
  <2>3. img[i] = f[i]
    <3>1. Len(f) = A + t.env + Rest /\ t.env \in Nat /\ Rest \in Nat
      BY <1>1, LayoutIs DEF FirstOK
    <3>2. i \in 1 .. Len(f) /\ i \notin Part(t) BY <1>1, <1>2, <2>2, <3>1 DEF Part
    <3> QED BY <1>10, <3>2 DEF Kept
  <2>4. i = C BY <1>6, <2>1, <2>2, <2>3 DEF HasEnv
  <2> QED BY <2>1, <2>3, <2>4
<1> QED BY <1>1, <1>3, <1>5, <1>9, <1>10

-------------------------------------------------------------------------------
(* What is resolved.                                                        *)

Place(a) == a.boot # None \/ a.at # None

LEMMA ArgsAre ==
  ASSUME NEW t \in Layouts, NEW a \in Args(t)
  PROVE  /\ a.offset = t.start /\ a.boot \in {t.boot, None} /\ a.at \in {At(t), None}
         /\ a.size \in {t.env, t.env + Rest + 1, None}
         /\ a.size # None => a.size \in Nat /\ a.size > 0
         /\ t.boot # None /\ At(t) # None /\ t.env # None
<1>1. /\ t.boot \in Nat /\ At(t) \in Nat /\ t.env \in Nat /\ t.env > 0 /\ Rest \in Nat
  BY LayoutIs
<1>2. None \notin Nat BY NoneIsNothing
<1>3. /\ a.offset = t.start /\ a.boot \in {t.boot, None} /\ a.at \in {At(t), None}
      /\ a.size \in {t.env, t.env + Rest + 1, None}
  BY DEF Args
<1> QED BY <1>1, <1>2, <1>3

LEMMA GivenIs ==
  ASSUME NEW t \in Layouts, NEW a \in Args(t)
  PROVE  LET p == Given(a)
         IN  /\ p.boot = IF Place(a) THEN t.boot ELSE None
             /\ p.at = IF Place(a) THEN At(t) ELSE None
             /\ p.size = a.size /\ p.default = None
             /\ p = [boot |-> p.boot, at |-> p.at, size |-> p.size, default |-> p.default]
<1>1. /\ a.offset = t.start /\ a.boot \in {t.boot, None} /\ a.at \in {At(t), None}
      /\ t.boot # None /\ At(t) # None
  BY ArgsAre
<1>2. t.start \in Nat /\ t.boot \in Nat /\ At(t) = t.start + t.boot BY LayoutIs
<1>3. At(t) - t.start = t.boot BY <1>2
<1>4. /\ Given(a).boot = IF a.boot = None /\ a.at # None THEN a.at - a.offset ELSE a.boot
      /\ Given(a).at = IF a.at = None /\ a.boot # None THEN a.offset + a.boot ELSE a.at
      /\ Given(a).size = a.size /\ Given(a).default = None
      /\ Given(a) = [boot |-> Given(a).boot, at |-> Given(a).at, size |-> Given(a).size,
                     default |-> Given(a).default]
  BY DEF Given
<1>5. Given(a).boot = IF Place(a) THEN t.boot ELSE None BY <1>1, <1>3, <1>4 DEF Place
<1>6. Given(a).at = IF Place(a) THEN At(t) ELSE None BY <1>1, <1>2, <1>4 DEF Place
<1> QED BY <1>4, <1>5, <1>6

\* What is passed, what the default that is found says, or the smallest environment in
\* front of what looks like a kernel.
LEMMA ResolvedIs ==
  ASSUME NEW t \in Layouts, NEW a \in Args(t), NEW img \in Seq(Blocks(t)), t.start <= Len(img)
  PROVE  LET o == t.start
             boot == IF Place(a) THEN t.boot ELSE None
             d == Found(img, o, boot)
             m == Boundary(img, o) - 1
             r == Resolved(img, a)
         IN  IF Place(a) /\ a.size # None
             THEN r = [boot |-> t.boot, at |-> At(t), size |-> a.size, default |-> None]
             ELSE IF o + Probe(img, o, boot) > Len(img) \/ d = None THEN r = None
             ELSE IF Mtdparts(d) # None
             THEN r = [boot |-> t.boot, at |-> At(t), size |-> Or(a.size, t.env), default |-> d]
             ELSE IF Behind(img, o)
             THEN r = [boot |-> IF Place(a) THEN t.boot ELSE m - o,
                       at |-> IF Place(a) THEN At(t) ELSE m,
                       size |-> Or(a.size, 1), default |-> Default0(img, o, m - o)]
             ELSE r = None
<1>1. PICK o, p, boot, r, b : /\ o = t.start /\ p = Given(a) /\ r = Resolved(img, a)
                              /\ boot = IF Place(a) THEN t.boot ELSE None
                              /\ b = Boundary(img, o)
  OBVIOUS
<1>2. PICK d, g : d = Found(img, o, boot) /\ g = Inferred(img, o, b, boot) OBVIOUS
<1>3. /\ p.boot = boot /\ p.at = (IF Place(a) THEN At(t) ELSE None)
      /\ p.size = a.size /\ p.default = None
      /\ p = [boot |-> p.boot, at |-> p.at, size |-> p.size, default |-> p.default]
  BY <1>1, GivenIs
<1>4. /\ a.offset = o
      /\ a.size # None => a.size \in Nat /\ a.size > 0
      /\ t.boot # None /\ At(t) # None /\ t.env # None
  BY <1>1, ArgsAre
<1>5. /\ o \in Nat /\ t.boot \in Nat /\ t.boot > 0 /\ t.env \in Nat /\ t.env > 0
      /\ At(t) = o + t.boot /\ At(t) \in Nat
  BY <1>1, LayoutIs
<1>6. r = IF None \notin {p.boot, p.at, p.size} THEN Sensible(a, p) ELSE Completed(a, p, g)
  BY <1>1, <1>2, <1>3, <1>4 DEF Resolved, ResolvedFrom
<1>7. None \notin {p.boot, p.at, p.size} <=> Place(a) /\ a.size # None
  BY <1>1, <1>3, <1>4
<1>8. CASE Place(a) /\ a.size # None
  <2>1. p = [boot |-> t.boot, at |-> At(t), size |-> a.size, default |-> None]
    BY <1>1, <1>3, <1>8
  <2>2. p.boot > 0 /\ p.size > 0 /\ p.at >= a.offset BY <1>1, <1>3, <1>4, <1>5, <1>8
  <2>3. r = p BY <1>6, <1>7, <1>8, <2>2 DEF Sensible
  <2> QED BY <1>1, <1>8, <2>1, <2>3
<1>9. CASE ~(Place(a) /\ a.size # None)
  <2>1. r = Completed(a, p, g) BY <1>6, <1>7, <1>9
  <2>2. boot \in {t.boot, None} BY <1>1
  <2>3. IF o + Probe(img, o, boot) > Len(img) \/ d = None THEN g = None
        ELSE IF Mtdparts(d) # None
             THEN g = [boot |-> t.boot, at |-> At(t), size |-> t.env, default |-> d]
        ELSE IF Behind(img, o) THEN g = Before(img, o, b - 1, 1)
        ELSE g = None
    BY <1>1, <1>2, <2>2, InferredIs
  <2>4. g = None => r = None BY <2>1 DEF Completed
  <2>5. g # None => r = Sensible(a, [boot |-> Or(p.boot, g.boot), at |-> Or(p.at, g.at),
                                     size |-> Or(p.size, g.size), default |-> g.default])
    BY <2>1 DEF Completed
  <2>6. CASE o + Probe(img, o, boot) > Len(img) \/ d = None
    <3>1. r = None BY <2>3, <2>4, <2>6
    <3> QED BY <1>1, <1>2, <1>9, <2>6, <3>1
  <2>7. CASE ~(o + Probe(img, o, boot) > Len(img) \/ d = None) /\ Mtdparts(d) # None
    <3>1. g = [boot |-> t.boot, at |-> At(t), size |-> t.env, default |-> d] BY <2>3, <2>7
    <3>2. d \in Here(t)
      <4>1. Probe(img, o, boot) \in Nat
        <5> DEFINE S == Blocks(t)
        <5>1. img \in Seq(S) OBVIOUS
        <5> HIDE DEF S
        <5>2. boot \in Nat \cup {None} BY <1>5, <2>2
        <5> QED BY <1>1, <1>5, <5>1, <5>2, ProbeIs
      <4>2. Len(img) \in Nat BY LenProperties
      <4>3. o + Probe(img, o, boot) <= Len(img) BY <1>5, <2>7, <4>1, <4>2
      <4> QED BY <1>2, <1>5, <2>7, <4>1, <4>3, DefaultIs DEF Found
    <3>3. d \in Envs BY <3>2 DEF Here
    <3>4. g \in [boot : Nat, at : Nat, size : Nat, default : Envs \cup {None}]
      BY <1>5, <3>1, <3>3
    <3>5. g # None BY <3>4, NoneIsNothing
    <3>6. PICK s : s = Or(a.size, t.env) OBVIOUS
    <3>7. s > 0 BY <1>4, <1>5, <3>6 DEF Or
    <3>8. Or(p.boot, g.boot) = t.boot BY <1>1, <1>3, <3>1 DEF Or
    <3>9. Or(p.at, g.at) = At(t) BY <1>3, <3>1 DEF Or
    <3>10. Or(p.size, g.size) = s /\ g.default = d BY <1>3, <3>1, <3>6
    <3>11. PICK q : q = [boot |-> t.boot, at |-> At(t), size |-> s, default |-> d] OBVIOUS
    <3>12. r = Sensible(a, q) BY <2>5, <3>5, <3>8, <3>9, <3>10, <3>11
    <3>13. q.boot > 0 /\ q.size > 0 /\ q.at >= a.offset BY <1>4, <1>5, <3>7, <3>11
    <3>14. r = q BY <3>12, <3>13 DEF Sensible
    <3> QED BY <1>1, <1>2, <1>9, <2>7, <3>6, <3>11, <3>14
  <2>8. CASE /\ ~(o + Probe(img, o, boot) > Len(img) \/ d = None) /\ Mtdparts(d) = None
             /\ Behind(img, o)
    <3>1. PICK m, e : m = b - 1 /\ e = Default0(img, o, m - o) OBVIOUS
    <3>2. g = [boot |-> m - o, at |-> m, size |-> 1, default |-> e]
      BY <2>3, <2>8, <3>1 DEF Before, Default0
    <3>3. m \in Nat /\ m > o /\ m <= Len(img)
      <4> DEFINE S == Blocks(t)
      <4>1. img \in Seq(S) OBVIOUS
      <4> HIDE DEF S
      <4>2. b \in Nat /\ b > o /\ b < Len(img) /\ b - 1 \in Nat
        BY <1>1, <1>5, <2>8, <4>1, BoundaryFits DEF Behind
      <4>3. Len(img) \in Nat BY <4>1, LenProperties
      <4>4. b - 1 > o BY <1>1, <2>8 DEF Behind
      <4> QED BY <3>1, <4>2, <4>3, <4>4
    <3>4. m - o \in Nat /\ m - o > 0 /\ o + (m - o) <= Len(img) BY <1>5, <3>3
    <3>5. e \in Here(t)
      <4>1. PICK k : k = m - o OBVIOUS
      <4>2. k \in Nat /\ o + k <= Len(img) BY <3>4, <4>1
      <4>3. e = Default0(img, o, k) /\ e # None BY <1>1, <2>8, <3>1, <4>1 DEF Behind
      <4> QED BY <1>5, <4>2, <4>3, DefaultIs
    <3>6. g \in [boot : Nat, at : Nat, size : Nat, default : Envs \cup {None}]
      <4>1. e \in Envs BY <3>5 DEF Here
      <4> QED BY <3>2, <3>3, <3>4, <4>1
    <3>7. g # None BY <3>6, NoneIsNothing
    <3>8. PICK s, B, A : /\ s = Or(a.size, 1) /\ B = (IF Place(a) THEN t.boot ELSE m - o)
                         /\ A = (IF Place(a) THEN At(t) ELSE m)
      OBVIOUS
    <3>9. s > 0 BY <1>4, <3>8 DEF Or
    <3>10. Or(p.boot, g.boot) = B BY <1>1, <1>3, <1>4, <3>2, <3>8 DEF Or
    <3>11. Or(p.at, g.at) = A BY <1>3, <1>4, <3>2, <3>8 DEF Or
    <3>12. Or(p.size, g.size) = s /\ g.default = e BY <1>3, <3>2, <3>8
    <3>13. PICK q : q = [boot |-> B, at |-> A, size |-> s, default |-> e] OBVIOUS
    <3>14. r = Sensible(a, q) BY <2>5, <3>7, <3>10, <3>11, <3>12, <3>13
    <3>15. B > 0 /\ A >= o BY <1>5, <3>3, <3>4, <3>8
    <3>16. q.boot > 0 /\ q.size > 0 /\ q.at >= a.offset BY <1>4, <3>9, <3>13, <3>15
    <3>17. r = q BY <3>14, <3>16 DEF Sensible
    <3> QED BY <1>1, <1>2, <1>9, <2>8, <3>1, <3>8, <3>13, <3>17
  <2>9. CASE /\ ~(o + Probe(img, o, boot) > Len(img) \/ d = None) /\ Mtdparts(d) = None
             /\ ~Behind(img, o)
    <3>1. r = None BY <2>3, <2>4, <2>9
    <3> QED BY <1>1, <1>2, <1>9, <2>9, <3>1
  <2> QED BY <2>6, <2>7, <2>8, <2>9
<1> QED BY <1>8, <1>9

\* What the user says, and the default in the code.
TrueSz(t, a) == a.size \in {t.env, None}
Marks(t, f) == Mtdparts(f[Code(t)].env) # None
Safe(t, a, f) == TrueSz(t, a) /\ (Place(a) \/ (a.size = None /\ (t.decoy = 0 \/ Marks(t, f))))
Knows(t, a, f) ==
  \/ Place(a) /\ (a.size = t.env \/ (Marks(t, f) /\ a.size = None))
  \/ TrueSz(t, a) /\ Marks(t, f) /\ t.decoy > t.code
  \/ TrueSz(t, a) /\ t.decoy = 0 /\ t.env = Min(CommonEnvSizes)

LEMMA SmallestCommonSize == Min(CommonEnvSizes) = 1
<1>1. CommonEnvSizes \subseteq Nat /\ 1 \in CommonEnvSizes BY DEF CommonEnvSizes
<1>2. Min(CommonEnvSizes) \in CommonEnvSizes /\ Min(CommonEnvSizes) <= 1 BY <1>1, MinIs
<1>3. \A n \in CommonEnvSizes : n >= 1 /\ n \in Nat BY DEF CommonEnvSizes
<1>4. Min(CommonEnvSizes) >= 1 /\ Min(CommonEnvSizes) \in Nat BY <1>2, <1>3
<1> QED BY <1>2, <1>4

\* Whatever has been written, no layout begins in front of the default environment.
LEMMA BehindCode ==
  ASSUME NEW t \in Layouts, NEW a \in Args(t), NEW f, FirstOK(t, f), NEW img, UpToCode(t, f, img),
         Resolved(img, a) # None
  PROVE  LET r == Resolved(img, a)
         IN  /\ r.boot \in Nat /\ r.at \in Nat /\ r.size \in Nat /\ r.size > 0 /\ Code(t) <= r.at
             /\ r.default = None \/ (r.default \in Here(t) /\ Plausible(r.default))
<1>1. PICK o, boot, b, r, n : /\ o = t.start /\ r = Resolved(img, a) /\ n = Len(img)
                              /\ boot = (IF Place(a) THEN t.boot ELSE None)
                              /\ b = Boundary(img, o)
  OBVIOUS
<1>2. PICK d, p : d = Found(img, o, boot) /\ p = Probe(img, o, boot) OBVIOUS
<1>3. img \in Seq(Blocks(t)) /\ n \in Nat BY <1>1, LenProperties DEF UpToCode
<1>4. /\ o \in Nat /\ t.boot \in Nat /\ t.boot > 0 /\ t.env \in Nat /\ t.env > 0
      /\ At(t) = o + t.boot /\ At(t) \in Nat /\ Code(t) \in Nat /\ Code(t) <= At(t) /\ Code(t) > o
  BY <1>1, LayoutIs
<1>5. o <= n /\ Code(t) <= n BY <1>1, <1>3, <1>4 DEF UpToCode
<1>6. a.size # None => a.size \in Nat /\ a.size > 0 BY ArgsAre
<1>7. p \in Nat
  <2> DEFINE S == Blocks(t)
  <2>1. img \in Seq(S) BY <1>3
  <2> HIDE DEF S
  <2>2. boot \in Nat \cup {None} BY <1>1, <1>4
  <2> QED BY <1>1, <1>2, <1>4, <1>5, <2>1, <2>2, ProbeIs
<1>8. IF Place(a) /\ a.size # None
      THEN r = [boot |-> t.boot, at |-> At(t), size |-> a.size, default |-> None]
      ELSE IF o + p > n \/ d = None THEN r = None
      ELSE IF Mtdparts(d) # None
      THEN r = [boot |-> t.boot, at |-> At(t), size |-> Or(a.size, t.env), default |-> d]
      ELSE IF Behind(img, o)
      THEN r = [boot |-> IF Place(a) THEN t.boot ELSE b - 1 - o,
                at |-> IF Place(a) THEN At(t) ELSE b - 1,
                size |-> Or(a.size, 1), default |-> Default0(img, o, b - 1 - o)]
      ELSE r = None
  BY <1>1, <1>2, <1>3, <1>5, ResolvedIs
<1>9. CASE Place(a) /\ a.size # None
  <2>1. r = [boot |-> t.boot, at |-> At(t), size |-> a.size, default |-> None] BY <1>8, <1>9
  <2> QED BY <1>1, <1>4, <1>6, <1>9, <2>1
<1>10. CASE ~(Place(a) /\ a.size # None)
  <2>1. ~(o + p > n \/ d = None) BY <1>1, <1>8, <1>10
  <2>2. d \in Here(t) /\ Plausible(d)
    <3>1. o + p <= n BY <1>3, <1>4, <1>7, <2>1
    <3> QED BY <1>1, <1>2, <1>7, <2>1, <3>1, FoundIs DEF Found
  <2>3. CASE Mtdparts(d) # None
    <3>1. PICK s : s = Or(a.size, t.env) OBVIOUS
    <3>2. s \in Nat /\ s > 0 BY <1>4, <1>6, <3>1 DEF Or
    <3>3. r = [boot |-> t.boot, at |-> At(t), size |-> s, default |-> d]
      BY <1>8, <1>10, <2>1, <2>3, <3>1
    <3> QED BY <1>1, <1>4, <2>2, <3>2, <3>3
  <2>4. CASE Mtdparts(d) = None
    <3>1. Behind(img, o) BY <1>1, <1>8, <1>10, <2>1, <2>4
    <3>2. PICK s, m, k, e : s = Or(a.size, 1) /\ m = b - 1 /\ k = m - o /\ e = Default0(img, o, k)
      OBVIOUS
    <3>3. s \in Nat /\ s > 0 BY <1>6, <3>2 DEF Or
    <3>4. m \in Nat /\ m > o /\ m <= n /\ k \in Nat /\ o + k = m
      <4> DEFINE S == Blocks(t)
      <4>1. img \in Seq(S) BY <1>3
      <4> HIDE DEF S
      <4>2. b \in Nat /\ b > o /\ b < n
        BY <1>1, <1>4, <3>1, <4>1, BoundaryFits DEF Behind
      <4>3. b - 1 > o BY <1>1, <3>1 DEF Behind
      <4> QED BY <1>3, <1>4, <3>2, <4>2, <4>3
    <3>5. e # None BY <1>1, <3>1, <3>2 DEF Behind
    <3>6. m >= Code(t) /\ e \in Here(t) /\ Plausible(e)
      <4>1. o + k <= n BY <3>4
      <4> QED BY <1>1, <3>2, <3>4, <3>5, <4>1, FoundIs
    <3>7. r = [boot |-> IF Place(a) THEN t.boot ELSE k, at |-> IF Place(a) THEN At(t) ELSE m,
               size |-> s, default |-> e]
      BY <1>8, <1>10, <2>1, <2>4, <3>1, <3>2
    <3>8. r.boot \in Nat /\ r.at \in Nat /\ r.size = s /\ r.default = e /\ Code(t) <= r.at
      BY <1>4, <3>4, <3>6, <3>7
    <3> QED BY <1>1, <3>3, <3>6, <3>8
  <2> QED BY <2>3, <2>4
<1> QED BY <1>9, <1>10

\* What is resolved while nothing but the environment has been written.  m: the kernel, or
\* what looks like one.
LEMMA ResolvedKept ==
  ASSUME NEW t \in Layouts, NEW a \in Args(t), NEW f, FirstOK(t, f), NEW img, UpToCode(t, f, img),
         Kept(t, f, img)
  PROVE  LET r == Resolved(img, a)
             m == Mark(t)
             d == Default0(img, t.start, m - t.start)
             e == f[Code(t)].env
             k == m - 1 - t.start
             g == Default0(img, t.start, k)
         IN  IF Place(a)
             THEN IF a.size # None
                  THEN r = [boot |-> t.boot, at |-> At(t), size |-> a.size, default |-> None]
                  ELSE IF Marks(t, f)
                  THEN r = [boot |-> t.boot, at |-> At(t), size |-> t.env, default |-> e]
                  ELSE IF m - 1 >= Code(t)
                  THEN r = [boot |-> t.boot, at |-> At(t), size |-> 1, default |-> g]
                  ELSE r = None
             ELSE IF m < Code(t) THEN r = None
             ELSE IF Mtdparts(d) # None
             THEN r = [boot |-> t.boot, at |-> At(t), size |-> Or(a.size, t.env), default |-> d]
             ELSE IF m - 1 >= Code(t)
             THEN r = [boot |-> k, at |-> m - 1, size |-> Or(a.size, 1), default |-> g]
             ELSE r = None
<1>1. PICK o, boot, m, r, n, A, C, w : /\ o = t.start /\ r = Resolved(img, a) /\ n = Len(img)
                              /\ boot = (IF Place(a) THEN t.boot ELSE None)
                              /\ m = Mark(t) /\ A = At(t) /\ C = Code(t) /\ w = t.env
  OBVIOUS
<1>2. PICK d, p : d = Found(img, o, boot) /\ p = Probe(img, o, boot) OBVIOUS
<1>3. img \in Seq(Blocks(t)) /\ n \in Nat BY <1>1, LenProperties DEF UpToCode
<1>4. /\ o \in Nat /\ t.boot \in Nat /\ t.boot > 0 /\ w \in Nat /\ w > 0
      /\ A = o + t.boot /\ A \in Nat /\ C \in Nat /\ C <= A /\ C > o
      /\ Rest \in Nat /\ Rest > 0 /\ t.decoy \in Nat /\ t.decoy <= t.boot /\ t.code \in Nat
  BY <1>1, LayoutIs
<1>5. n = A + w + Rest BY <1>1 DEF FirstOK, Kept
<1>6. m \in Nat /\ m > o /\ m < n /\ m = Boundary(img, o) /\ m # None
  <2>1. m = IF t.decoy >= 2 /\ t.decoy # t.code THEN o + t.decoy - 1 ELSE A + w
    BY <1>1 DEF Mark
  <2>2. m \in Nat /\ m > o /\ m < n BY <1>4, <1>5, <2>1
  <2> QED BY <1>1, <2>2, BoundaryIs, NoneIsNothing
<1>7. p = IF Place(a) THEN t.boot ELSE m - o
  <2> DEFINE S == Blocks(t)
  <2>1. img \in Seq(S) BY <1>3
  <2> HIDE DEF S
  <2>2. boot \in Nat \cup {None} /\ o <= Len(img) /\ t.boot # None
    <3>1. o <= n BY <1>4, <1>5
    <3> QED BY <1>1, <1>4, <3>1, ArgsAre
  <2>3. /\ boot # None => p = boot
        /\ boot = None /\ m # None => p = m - o
    <3>1. o \in Nat BY <1>4
    <3>2. LET b == Boundary(img, o)
          IN  /\ Probe(img, o, boot) \in Nat
              /\ boot # None => Probe(img, o, boot) = boot
              /\ boot = None /\ b # None =>
                   Probe(img, o, boot) = b - o /\ b \in Nat /\ b > o /\ b < Len(img)
      BY <2>1, <2>2, <3>1, ProbeIs
    <3> QED BY <1>2, <1>6, <3>2
  <2> QED BY <1>1, <1>6, <2>2, <2>3
<1>8. p \in Nat /\ o + p = (IF Place(a) THEN A ELSE m) /\ o + p <= n
  <2>1. CASE Place(a)
    <3>1. p = t.boot BY <1>7, <2>1
    <3>2. p \in Nat /\ o + p = A /\ o + p <= n BY <1>3, <1>4, <1>5, <3>1
    <3> QED BY <2>1, <3>2
  <2>2. CASE ~Place(a)
    <3>1. p = m - o BY <1>7, <2>2
    <3>2. p \in Nat /\ o + p = m /\ o + p <= n BY <1>3, <1>4, <1>6, <3>1
    <3> QED BY <2>2, <3>2
  <2> QED BY <2>1, <2>2
<1>9. d = Default0(img, o, p) BY <1>1, <1>2 DEF Found
<1>10. /\ d # None <=> o + p >= C
       /\ d # None => d \in Here(t)
       /\ o + p <= A /\ d # None => d = f[C].env
  BY <1>1, <1>8, <1>9, FoundIs
<1>11. PICK k, g : k = m - 1 - o /\ g = Default0(img, o, k) OBVIOUS
<1>12. k \in Nat /\ o + k = m - 1 /\ o + k <= n BY <1>3, <1>4, <1>6, <1>11
<1>13. g # None <=> m - 1 >= C BY <1>1, <1>11, <1>12, FoundIs
<1>14. Behind(img, o) <=> m - 1 >= C
  <2>1. Behind(img, o) <=> m - 1 > o /\ g # None BY <1>6, <1>11 DEF Behind
  <2> QED BY <1>4, <1>6, <1>13, <2>1
<1>15. IF Place(a) /\ a.size # None
       THEN r = [boot |-> t.boot, at |-> A, size |-> a.size, default |-> None]
       ELSE IF o + p > n \/ d = None THEN r = None
       ELSE IF Mtdparts(d) # None
       THEN r = [boot |-> t.boot, at |-> A, size |-> Or(a.size, w), default |-> d]
       ELSE IF Behind(img, o)
       THEN r = [boot |-> IF Place(a) THEN t.boot ELSE k, at |-> IF Place(a) THEN A ELSE m - 1,
                 size |-> Or(a.size, 1), default |-> g]
       ELSE r = None
  <2>1. o <= n BY <1>4, <1>5
  <2> QED BY <1>1, <1>2, <1>3, <1>6, <1>11, <2>1, ResolvedIs
<1>16. ~(o + p > n) BY <1>3, <1>4, <1>8
<1>17. CASE Place(a)
  <2>1. o + p = A /\ o + p <= A /\ o + p >= C BY <1>4, <1>8, <1>17
  <2>2. d # None /\ d = f[C].env BY <1>10, <2>1
  <2>3. Marks(t, f) <=> Mtdparts(d) # None BY <1>1, <2>2 DEF Marks
  <2>4. CASE a.size # None
    <3>1. r = [boot |-> t.boot, at |-> A, size |-> a.size, default |-> None] BY <1>15, <1>17, <2>4
    <3> QED BY <1>1, <1>17, <2>4, <3>1
  <2>5. CASE a.size = None /\ Marks(t, f)
    <3>1. r = [boot |-> t.boot, at |-> A, size |-> w, default |-> d]
      BY <1>15, <1>16, <1>17, <2>2, <2>3, <2>5 DEF Or
    <3> QED BY <1>1, <1>17, <2>2, <2>5, <3>1
  <2>6. CASE a.size = None /\ ~Marks(t, f) /\ m - 1 >= C
    <3>1. r = [boot |-> t.boot, at |-> A, size |-> 1, default |-> g]
      BY <1>14, <1>15, <1>16, <1>17, <2>2, <2>3, <2>6 DEF Or
    <3> QED BY <1>1, <1>11, <1>17, <2>6, <3>1
  <2>7. CASE a.size = None /\ ~Marks(t, f) /\ ~(m - 1 >= C)
    <3>1. r = None BY <1>14, <1>15, <1>16, <1>17, <2>2, <2>3, <2>7
    <3> QED BY <1>1, <1>17, <2>7, <3>1
  <2> QED BY <2>4, <2>5, <2>6, <2>7
<1>18. CASE ~Place(a)
  <2>1. p = m - o /\ o + p = m BY <1>7, <1>8, <1>18
  <2>2. d = Default0(img, o, m - o) BY <1>9, <2>1
  <2>3. d = None <=> m < C BY <1>4, <1>6, <1>10, <2>1
  <2>4. IF m < C THEN r = None
        ELSE IF Mtdparts(d) # None
        THEN r = [boot |-> t.boot, at |-> A, size |-> Or(a.size, w), default |-> d]
        ELSE IF m - 1 >= C
        THEN r = [boot |-> k, at |-> m - 1, size |-> Or(a.size, 1), default |-> g]
        ELSE r = None
    BY <1>14, <1>15, <1>16, <1>18, <2>3
  <2> QED BY <1>1, <1>11, <1>18, <2>2, <2>4
<1> QED BY <1>17, <1>18

\* What is found in front of the kernel.
LEMMA FrontIs ==
  ASSUME NEW t \in Layouts, NEW f, FirstOK(t, f), NEW img, UpToCode(t, f, img), Kept(t, f, img),
         NEW m \in Nat, m > t.start, m <= At(t) + t.env
  PROVE  LET d == Default0(img, t.start, m - t.start)
         IN  /\ d # None <=> m >= Code(t)
             /\ m <= At(t) /\ m >= Code(t) => d = f[Code(t)].env
<1>1. PICK o, k, n : o = t.start /\ k = m - o /\ n = Len(img) OBVIOUS
<1>2. /\ o \in Nat /\ At(t) \in Nat /\ t.env \in Nat /\ Rest \in Nat /\ Code(t) \in Nat
  BY <1>1, LayoutIs
<1>3. n = At(t) + t.env + Rest BY <1>1 DEF FirstOK, Kept
<1>4. k \in Nat /\ o + k = m /\ o + k <= n BY <1>1, <1>2, <1>3
<1>5. /\ Default0(img, o, k) # None <=> o + k >= Code(t)
      /\ o + k <= At(t) /\ Default0(img, o, k) # None => Default0(img, o, k) = f[Code(t)].env
  BY <1>1, <1>4, FoundIs
<1> QED BY <1>1, <1>4, <1>5

\* With the partition's true size the layout that is found is inside it when the place is
\* known, or nothing is.
LEMMA InsidePart ==
  ASSUME NEW t \in Layouts, NEW a \in Args(t), NEW f, FirstOK(t, f), NEW img, UpToCode(t, f, img),
         Kept(t, f, img), Safe(t, a, f), Resolved(img, a) # None
  PROVE  /\ At(t) <= Resolved(img, a).at
         /\ Resolved(img, a).at + Resolved(img, a).size <= At(t) + t.env
<1>1. PICK o, r, m, A, C, w : /\ o = t.start /\ r = Resolved(img, a) /\ m = Mark(t)
                              /\ A = At(t) /\ C = Code(t) /\ w = t.env
  OBVIOUS
<1>2. PICK d, e, k, g : /\ d = Default0(img, o, m - o) /\ e = f[C].env /\ k = m - 1 - o
                        /\ g = Default0(img, o, k)
  OBVIOUS
<1>3. /\ o \in Nat /\ w \in Nat /\ w > 0 /\ A \in Nat /\ C \in Nat /\ C <= A /\ C > o
      /\ t.decoy \in Nat /\ t.decoy <= t.boot /\ A = o + t.boot /\ t.boot \in Nat
      /\ C = o + t.code /\ t.code \in Nat
  BY <1>1, LayoutIs
<1>4. m = IF t.decoy >= 2 /\ t.decoy # t.code THEN o + t.decoy - 1 ELSE A + w
  BY <1>1 DEF Mark
<1>5. IF Place(a)
      THEN IF a.size # None
           THEN r = [boot |-> t.boot, at |-> A, size |-> a.size, default |-> None]
           ELSE IF Marks(t, f)
           THEN r = [boot |-> t.boot, at |-> A, size |-> w, default |-> e]
           ELSE IF m - 1 >= C
           THEN r = [boot |-> t.boot, at |-> A, size |-> 1, default |-> g]
           ELSE r = None
      ELSE IF m < C THEN r = None
      ELSE IF Mtdparts(d) # None
      THEN r = [boot |-> t.boot, at |-> A, size |-> Or(a.size, w), default |-> d]
      ELSE IF m - 1 >= C
      THEN r = [boot |-> k, at |-> m - 1, size |-> Or(a.size, 1), default |-> g]
      ELSE r = None
  BY <1>1, <1>2, ResolvedKept
<1>6. a.size \in {w, None} /\ (Place(a) \/ (a.size = None /\ (t.decoy = 0 \/ Marks(t, f))))
  BY <1>1 DEF Safe, TrueSz
<1>7. r # None BY <1>1
<1>8. CASE Place(a)
  <2>1. r.at = A /\ r.size \in {w, 1} BY <1>5, <1>6, <1>7, <1>8
  <2> QED BY <1>1, <1>3, <2>1
<1>9. CASE ~Place(a)
  <2>1. a.size = None /\ ~(m < C) BY <1>5, <1>6, <1>7, <1>9
  <2>2. CASE Mtdparts(d) # None
    <3>1. r.at = A /\ r.size = w BY <1>5, <1>9, <2>1, <2>2 DEF Or
    <3> QED BY <1>1, <1>3, <3>1
  <2>3. CASE Mtdparts(d) = None
    <3>1. r.at = m - 1 /\ r.size = 1 BY <1>5, <1>7, <1>9, <2>1, <2>3 DEF Or
    <3>2. m = A + w
      <4> SUFFICES ASSUME t.decoy >= 2, t.decoy # t.code PROVE FALSE BY <1>4
      <4>1. m = o + t.decoy - 1 BY <1>4
      <4>2. m \in Nat /\ m > o /\ m <= A /\ m <= A + w /\ m >= C BY <1>3, <2>1, <4>1
      <4>3. d = e BY <1>1, <1>2, <4>2, FrontIs
      <4>4. t.decoy # 0 BY <1>3
      <4>5. Marks(t, f) BY <1>6, <1>9, <4>4
      <4> QED BY <1>1, <1>2, <2>3, <4>3, <4>5 DEF Marks
    <3>3. A <= m - 1 /\ m - 1 + 1 <= A + w BY <1>3, <3>2
    <3> QED BY <1>1, <3>1, <3>3
  <2> QED BY <2>2, <2>3
<1> QED BY <1>8, <1>9

\* Once a layout is known it is found, and it is the partition.
LEMMA ExactPart ==
  ASSUME NEW t \in Layouts, NEW a \in Args(t), NEW f, FirstOK(t, f), NEW img, UpToCode(t, f, img),
         Kept(t, f, img), Knows(t, a, f)
  PROVE  LET r == Resolved(img, a)
         IN  /\ r # None /\ r.at = At(t) /\ r.size = t.env
             /\ Place(a) => r.boot = t.boot /\ r.default \in {None, f[Code(t)].env}
<1>1. PICK o, r, m, A, C, w : /\ o = t.start /\ r = Resolved(img, a) /\ m = Mark(t)
                              /\ A = At(t) /\ C = Code(t) /\ w = t.env
  OBVIOUS
<1>2. PICK d, e, k, g : /\ d = Default0(img, o, m - o) /\ e = f[C].env /\ k = m - 1 - o
                        /\ g = Default0(img, o, k)
  OBVIOUS
<1>3. /\ o \in Nat /\ w \in Nat /\ w > 0 /\ A \in Nat /\ C \in Nat /\ C <= A /\ C > o
      /\ t.decoy \in Nat /\ t.decoy <= t.boot /\ A = o + t.boot /\ t.boot \in Nat /\ t.boot > 0
      /\ C = o + t.code /\ t.code \in Nat /\ t.code > 0
  BY <1>1, LayoutIs
<1>4. m = IF t.decoy >= 2 /\ t.decoy # t.code THEN o + t.decoy - 1 ELSE A + w
  BY <1>1 DEF Mark
<1>5. IF Place(a)
      THEN IF a.size # None
           THEN r = [boot |-> t.boot, at |-> A, size |-> a.size, default |-> None]
           ELSE IF Marks(t, f)
           THEN r = [boot |-> t.boot, at |-> A, size |-> w, default |-> e]
           ELSE IF m - 1 >= C
           THEN r = [boot |-> t.boot, at |-> A, size |-> 1, default |-> g]
           ELSE r = None
      ELSE IF m < C THEN r = None
      ELSE IF Mtdparts(d) # None
      THEN r = [boot |-> t.boot, at |-> A, size |-> Or(a.size, w), default |-> d]
      ELSE IF m - 1 >= C
      THEN r = [boot |-> k, at |-> m - 1, size |-> Or(a.size, 1), default |-> g]
      ELSE r = None
  BY <1>1, <1>2, ResolvedKept
<1>6. \/ Place(a) /\ (a.size = w \/ (Marks(t, f) /\ a.size = None))
      \/ a.size \in {w, None} /\ Marks(t, f) /\ t.decoy > t.code
      \/ a.size \in {w, None} /\ t.decoy = 0 /\ w = 1
  BY <1>1, SmallestCommonSize DEF Knows, TrueSz
<1>8. w # None BY <1>1, ArgsAre
<1>9. \A x, y, z, v : [boot |-> x, at |-> y, size |-> z, default |-> v] = None =>
        x \notin Nat \/ y \notin Nat \/ z \notin Nat \/ v \notin Envs \cup {None}
  <2> SUFFICES ASSUME NEW x \in Nat, NEW y \in Nat, NEW z \in Nat, NEW v \in Envs \cup {None},
                      [boot |-> x, at |-> y, size |-> z, default |-> v] = None
               PROVE  FALSE
    OBVIOUS
  <2>1. [boot |-> x, at |-> y, size |-> z, default |-> v]
          \in [boot : Nat, at : Nat, size : Nat, default : Envs \cup {None}]
    OBVIOUS
  <2> QED BY <2>1, NoneIsNothing
<1>10. CASE Place(a) /\ a.size = w
  <2>1. r = [boot |-> t.boot, at |-> A, size |-> w, default |-> None] BY <1>5, <1>8, <1>10
  <2>2. r # None BY <1>3, <1>9, <2>1
  <2> QED BY <1>1, <1>2, <2>1, <2>2
<1>11. e \in Envs
  <2>1. HasEnv(f[C]) /\ f \in Seq(Blocks(t)) /\ Len(f) = A + w + Rest /\ Rest \in Nat
    BY <1>1, LayoutIs DEF FirstOK
  <2>2. C \in 1 .. Len(f)
    <3>1. PICK n : n = Len(f) OBVIOUS
    <3>2. n = A + w + Rest /\ Rest \in Nat BY <2>1, <3>1
    <3>3. C \in 1 .. n BY <1>3, <3>2
    <3> QED BY <3>1, <3>3
  <2>3. f[C] \in Blocks(t) BY <2>1, <2>2, ElementOfSeq
  <2> QED BY <1>2, <2>1, <2>3 DEF HasEnv, Blocks, Here
<1>12. CASE Place(a) /\ Marks(t, f) /\ a.size = None
  <2>1. r = [boot |-> t.boot, at |-> A, size |-> w, default |-> e] BY <1>5, <1>12
  <2>2. r # None BY <1>3, <1>9, <1>11, <2>1
  <2> QED BY <1>1, <1>2, <2>1, <2>2
<1>13. CASE ~Place(a) /\ a.size \in {w, None} /\ Marks(t, f) /\ t.decoy > t.code
  <2>1. m = o + t.decoy - 1 BY <1>3, <1>4, <1>13
  <2>2. m \in Nat /\ m > o /\ m <= A /\ m <= A + w /\ m >= C BY <1>3, <1>13, <2>1
  <2>3. d = e BY <1>1, <1>2, <2>2, FrontIs
  <2>4. Mtdparts(d) # None BY <1>1, <1>2, <1>13, <2>3 DEF Marks
  <2>5. ~(m < C) BY <1>3, <2>2
  <2>6. r = [boot |-> t.boot, at |-> A, size |-> w, default |-> d]
    BY <1>5, <1>8, <1>13, <2>4, <2>5 DEF Or
  <2>7. r # None BY <1>3, <1>9, <1>11, <2>3, <2>6
  <2> QED BY <1>1, <1>13, <2>6, <2>7
<1>14. CASE a.size \in {w, None} /\ t.decoy = 0 /\ w = 1 /\ ~(Place(a) /\ a.size = w)
            /\ ~(Place(a) /\ Marks(t, f) /\ a.size = None)
  <2>1. m = A + 1 BY <1>3, <1>4, <1>14
  <2>2. m - 1 = A /\ m - 1 >= C /\ ~(m < C) /\ k = A - o /\ k \in Nat /\ A > o
    BY <1>2, <1>3, <2>1
  <2>3. g = e
    <3>1. A \in Nat /\ A > t.start /\ A <= At(t) + t.env /\ A <= At(t) /\ A >= Code(t)
      BY <1>1, <1>3, <2>2
    <3>2. Default0(img, t.start, A - t.start) = f[Code(t)].env BY <3>1, FrontIs
    <3> QED BY <1>1, <1>2, <2>2, <3>2
  <2>4. CASE Place(a)
    <3>1. r = [boot |-> t.boot, at |-> A, size |-> w, default |-> e]
      BY <1>5, <1>14, <2>2, <2>3, <2>4
    <3>2. r # None BY <1>3, <1>9, <1>11, <3>1
    <3> QED BY <1>1, <1>2, <3>1, <3>2
  <2>5. CASE ~Place(a) /\ Mtdparts(d) # None
    <3>1. r = [boot |-> t.boot, at |-> A, size |-> w, default |-> d]
      BY <1>5, <1>8, <1>14, <2>2, <2>5 DEF Or
    <3>2. d \in Envs
      <4>1. m \in Nat /\ m - o \in Nat /\ o + (m - o) = m /\ m >= C BY <1>3, <2>1, <2>2
      <4>2. PICK j : j = m - o OBVIOUS
      <4>3. PICK n : n = Len(img) OBVIOUS
      <4>4. n = A + w + Rest /\ Rest \in Nat BY <1>1, <4>3, LayoutIs DEF FirstOK, Kept
      <4>5. m <= n BY <1>3, <1>14, <2>1, <4>4
      <4>6. j \in Nat /\ t.start + j <= Len(img) /\ t.start + j >= Code(t)
        BY <1>1, <4>1, <4>2, <4>3, <4>5
      <4>7. d \in Here(t) BY <1>1, <1>2, <4>2, <4>6, FoundIs
      <4> QED BY <4>7 DEF Here
    <3>3. r # None BY <1>3, <1>9, <3>1, <3>2
    <3> QED BY <1>1, <2>5, <3>1, <3>3
  <2>6. CASE ~Place(a) /\ Mtdparts(d) = None
    <3>1. r = [boot |-> k, at |-> A, size |-> w, default |-> e]
      BY <1>5, <1>8, <1>14, <2>2, <2>3, <2>6 DEF Or
    <3>2. r # None BY <1>3, <1>9, <1>11, <2>2, <3>1
    <3> QED BY <1>1, <2>6, <3>1, <3>2
  <2> QED BY <2>4, <2>5, <2>6
<1> QED BY <1>6, <1>10, <1>12, <1>13, <1>14

-------------------------------------------------------------------------------
(* What is written.                                                         *)

LEMMA EnvImageIs ==
  ASSUME NEW t \in Layouts, NEW e \in Here(t), NEW size \in Nat,
         NEW header \in {4, 5}, NEW order \in Orders
  PROVE  LET x == EnvImage(e, size, header, order)
         IN  /\ x \in Seq(Blocks(t)) /\ Len(x) = size /\ DOMAIN x = 1 .. size
             /\ \A i \in 1 .. size :
                  /\ x[i].kind # "magic"
                  /\ x[i].kind = "env" => x[i].header = header /\ x[i].order = order
<1> DEFINE head == [kind |-> "env", env |-> e, size |-> size, header |-> header,
                    order |-> order, good |-> TRUE]
           x == [i \in 1 .. size |-> IF i = 1 THEN head ELSE Erased]
<1>1. EnvImage(e, size, header, order) = x BY DEF EnvImage
<1>2. head \in Blocks(t)
  <2>1. e # None BY EnvsAre
  <2> QED BY <2>1 DEF Blocks
<1>3. Erased \in Blocks(t) BY DEF Erased, Plain, Blocks
<1>4. /\ head.kind # "magic" /\ head.header = header /\ head.order = order
      /\ Erased.kind \notin {"magic", "env"}
  BY DEF Erased, Plain
<1> HIDE DEF head
<1>5. \A i \in 1 .. size :
        /\ x[i] \in Blocks(t) /\ x[i].kind # "magic"
        /\ x[i].kind = "env" => x[i].header = header /\ x[i].order = order
  BY <1>2, <1>3, <1>4
<1> DEFINE S == Blocks(t)
<1>6. x \in Seq(S) /\ Len(x) = size
  <2>1. \A i \in 1 .. size : x[i] \in S BY <1>5
  <2>2. x = [i \in 1 .. size |-> x[i]] OBVIOUS
  <2> HIDE DEF x, S
  <2>3. x \in [1 .. size -> S] BY <2>1, <2>2
  <2> QED BY <2>3, SeqDef, LenProperties
<1>7. DOMAIN x = 1 .. size OBVIOUS
<1> HIDE DEF x
<1> QED BY <1>1, <1>5, <1>6, <1>7

\* An image with something else at a place.
Pasted(img, at, size, part) == Slice(img, 0, at) \o part \o Slice(img, at + size, Len(img))

LEMMA PastedIs ==
  ASSUME NEW S, NEW img \in Seq(S), NEW part \in Seq(S), NEW at \in Nat, NEW size \in Nat,
         Len(part) = size
  PROVE  LET x == Pasted(img, at, size, part)
         IN  /\ x \in Seq(S)
             /\ at <= Len(img) => at <= Len(x)
             /\ Len(img) < at => Len(img) <= Len(x)
             /\ \A i \in 1 .. Len(img) : i <= at => x[i] = img[i]
             /\ at + size <= Len(img) =>
                  /\ Len(x) = Len(img)
                  /\ \A i \in 1 .. Len(img) :
                       x[i] = IF i \in at + 1 .. at + size THEN part[i - at] ELSE img[i]
<1>1. PICK n, a, c, x : /\ n = Len(img) /\ a = Slice(img, 0, at)
                        /\ c = Slice(img, at + size, n) /\ x = a \o part \o c
                        /\ x = Pasted(img, at, size, part)
  BY DEF Pasted
<1>2. n \in Nat /\ at + size \in Nat BY <1>1, LenProperties
<1>3. /\ a \in Seq(S) /\ Len(a) = (IF at <= n THEN at ELSE n)
      /\ \A i \in 1 .. Len(a) : a[i] = img[i]
  <2>1. LET s == Slice(img, 0, at)
            rest == IF 0 <= Len(img) THEN Len(img) - 0 ELSE 0
        IN  /\ s \in Seq(S) /\ Len(s) = (IF at <= rest THEN at ELSE rest)
            /\ DOMAIN s = 1 .. Len(s)
            /\ \A i \in 1 .. Len(s) : s[i] = img[0 + i]
    BY SliceIs
  <2>2. a \in Seq(S) /\ Len(a) = (IF at <= n THEN at ELSE n) BY <1>1, <1>2, <2>1
  <2>3. \A i \in 1 .. Len(a) : a[i] = img[0 + i] BY <1>1, <2>1
  <2>4. \A i \in 1 .. Len(a) : 0 + i = i OBVIOUS
  <2> QED BY <2>2, <2>3, <2>4
<1>4. /\ c \in Seq(S) /\ Len(c) = (IF at + size <= n THEN n - (at + size) ELSE 0)
      /\ \A i \in 1 .. Len(c) : c[i] = img[at + size + i]
  <2>1. PICK o : o = at + size OBVIOUS
  <2>2. o \in Nat /\ n \in Nat BY <1>2, <2>1
  <2>3. LET s == Slice(img, o, n)
            rest == IF o <= Len(img) THEN Len(img) - o ELSE 0
        IN  /\ s \in Seq(S) /\ Len(s) = (IF n <= rest THEN n ELSE rest)
            /\ DOMAIN s = 1 .. Len(s)
            /\ \A i \in 1 .. Len(s) : s[i] = img[o + i]
    BY <2>2, SliceIs
  <2>4. c = Slice(img, o, n) BY <1>1, <2>1
  <2>5. Len(c) = (IF o <= n THEN n - o ELSE 0)
    <3>1. Len(c) = (IF n <= (IF o <= n THEN n - o ELSE 0) THEN n ELSE IF o <= n THEN n - o ELSE 0)
      BY <1>1, <2>3, <2>4
    <3> QED BY <2>2, <3>1
  <2> QED BY <2>1, <2>3, <2>4, <2>5
<1>5. PICK b : b = a \o part OBVIOUS
<1>6. /\ b \in Seq(S) /\ Len(b) = Len(a) + size
      /\ \A i \in 1 .. Len(a) + size : b[i] = IF i <= Len(a) THEN a[i] ELSE part[i - Len(a)]
  BY <1>3, <1>5, ConcatProperties
<1>7. /\ x \in Seq(S) /\ Len(x) = Len(b) + Len(c)
      /\ \A i \in 1 .. Len(b) + Len(c) : x[i] = IF i <= Len(b) THEN b[i] ELSE c[i - Len(b)]
  BY <1>1, <1>4, <1>5, <1>6, ConcatProperties
<1>8. PICK la, lb, lc : la = Len(a) /\ lb = Len(b) /\ lc = Len(c) OBVIOUS
<1>9. /\ la = (IF at <= n THEN at ELSE n) /\ lb = la + size /\ Len(x) = lb + lc
      /\ lc = (IF at + size <= n THEN n - (at + size) ELSE 0)
  BY <1>3, <1>4, <1>6, <1>7, <1>8
<1>10. /\ at <= n => at <= Len(x)
       /\ n < at => n <= Len(x)
  BY <1>2, <1>9
<1>11. \A i \in 1 .. n : i <= at => x[i] = img[i]
  <2> SUFFICES ASSUME NEW i \in 1 .. n, i <= at PROVE x[i] = img[i] OBVIOUS
  <2>1. i \in 1 .. la /\ i \in 1 .. la + size /\ i <= lb /\ i \in 1 .. lb + lc /\ i <= la
    BY <1>2, <1>9
  <2>2. x[i] = b[i] BY <1>7, <1>8, <2>1
  <2>3. b[i] = a[i] BY <1>6, <1>8, <2>1
  <2>4. a[i] = img[i] BY <1>3, <1>8, <2>1
  <2> QED BY <2>2, <2>3, <2>4
<1>12. ASSUME at + size <= n
       PROVE  /\ Len(x) = n
              /\ \A i \in 1 .. n : x[i] = IF i \in at + 1 .. at + size THEN part[i - at] ELSE img[i]
  <2>1. la = at /\ lb = at + size /\ lc = n - (at + size) /\ Len(x) = n BY <1>2, <1>9, <1>12
  <2> SUFFICES ASSUME NEW i \in 1 .. n
               PROVE  x[i] = IF i \in at + 1 .. at + size THEN part[i - at] ELSE img[i]
    BY <2>1
  <2>2. CASE i <= at
    <3>1. i \notin at + 1 .. at + size BY <2>2
    <3> QED BY <1>11, <2>2, <3>1
  <2>3. CASE i > at /\ i <= at + size
    <3>1. i \in at + 1 .. at + size /\ i \in 1 .. la + size /\ i \in 1 .. lb + lc /\ i <= lb
          /\ ~(i <= la)
      BY <1>2, <2>1, <2>3
    <3>2. x[i] = b[i] BY <1>7, <1>8, <3>1
    <3>3. b[i] = part[i - la] BY <1>6, <1>8, <3>1
    <3> QED BY <2>1, <3>1, <3>2, <3>3
  <2>4. CASE i > at + size
    <3>1. i \notin at + 1 .. at + size /\ i \in 1 .. lb + lc /\ ~(i <= lb) /\ i - lb \in 1 .. lc
          /\ at + size + (i - lb) = i
      BY <1>2, <2>1, <2>4
    <3>2. x[i] = c[i - lb] BY <1>7, <1>8, <3>1
    <3>3. c[i - lb] = img[at + size + (i - lb)] BY <1>4, <1>8, <3>1
    <3> QED BY <3>1, <3>2, <3>3
  <2> QED BY <2>2, <2>3, <2>4
<1> QED BY <1>1, <1>7, <1>10, <1>11, <1>12

\* A slice that shows a sequence is that sequence.
LEMMA SliceEquals ==
  ASSUME NEW S, NEW img \in Seq(S), NEW offset \in Nat, NEW size \in Nat, offset + size <= Len(img),
         NEW part \in Seq(S), Len(part) = size,
         \A i \in offset + 1 .. offset + size : img[i] = part[i - offset]
  PROVE  Slice(img, offset, size) = part
<1>1. PICK s : s = Slice(img, offset, size) OBVIOUS
<1>2. /\ s \in Seq(S) /\ Len(s) = size
      /\ \A i \in 1 .. size : s[i] = img[offset + i]
  BY <1>1, WholeSlice
<1>3. \A i \in 1 .. size : s[i] = part[i]
  <2> SUFFICES ASSUME NEW i \in 1 .. size PROVE s[i] = part[i] OBVIOUS
  <2>1. PICK j : j = offset + i OBVIOUS
  <2>2. j \in offset + 1 .. offset + size /\ j - offset = i BY <2>1
  <2> QED BY <1>2, <2>1, <2>2
<1>4. s = part BY <1>2, <1>3, SeqEqual
<1> QED BY <1>1, <1>4

\* A patch: nothing in front of the default is touched; nothing but the partition is when
\* what is passed is safe; and once a layout is known the partition is what was written.
LEMMA PatchKeeps ==
  ASSUME NEW t \in Layouts, NEW a \in Args(t), NEW f, FirstOK(t, f), NEW img, UpToCode(t, f, img),
         Safe(t, a, f) \/ Knows(t, a, f) => Kept(t, f, img),
         NEW e \in Here(t), NEW header \in {4, 5}, ubootenv_patch(img, a, e, header) # None
  PROVE  LET x == ubootenv_patch(img, a, e, header)
         IN  /\ UpToCode(t, f, x)
             /\ Safe(t, a, f) \/ Knows(t, a, f) => Kept(t, f, x)
             /\ Knows(t, a, f) => Slice(x, At(t), t.env) = ubootenv_build(e, t.env, header)
<1>1. PICK r, n, x, A, C, w : /\ r = Resolved(img, a) /\ n = Len(img) /\ A = At(t) /\ C = Code(t)
                              /\ w = t.env /\ x = ubootenv_patch(img, a, e, header)
  OBVIOUS
<1>2. r # None /\ x = PatchAt(img, r, e, header) BY <1>1 DEF ubootenv_patch, PatchAt
<1>3. PICK at, size : at = r.at /\ size = r.size OBVIOUS
<1>4. at \in Nat /\ size \in Nat /\ size > 0 /\ C <= at BY <1>1, <1>2, <1>3, BehindCode
<1>5. PICK part : part = ubootenv_build(e, size, header) OBVIOUS
<1>6. /\ part \in Seq(Blocks(t)) /\ Len(part) = size
      /\ \A i \in 1 .. size : part[i].kind # "magic"
  <2>1. part = EnvImage(e, size, header, "little") BY <1>5 DEF ubootenv_build
  <2>2. "little" \in Orders BY DEF Orders
  <2> QED BY <1>4, <2>1, <2>2, EnvImageIs
<1>7. /\ w \in Nat /\ w > 0 /\ A \in Nat /\ C \in Nat /\ C <= A /\ C > 0 /\ Rest \in Nat /\ Rest > 0
      /\ Part(t) = A + 1 .. A + w
  <2>1. t.start \in Nat /\ Code(t) > t.start /\ Code(t) \in Nat BY LayoutIs
  <2> QED BY <1>1, <2>1, LayoutIs DEF Part
<1>8. img \in Seq(Blocks(t)) /\ n \in Nat /\ C <= n /\ \A i \in 1 .. C : img[i] = f[i]
  BY <1>1, LenProperties DEF UpToCode
<1>9. x = Pasted(img, at, size, part) BY <1>2, <1>3, <1>5 DEF PatchAt, Pasted
<1>10. /\ x \in Seq(Blocks(t))
       /\ at <= n => at <= Len(x)
       /\ n < at => n <= Len(x)
       /\ \A i \in 1 .. n : i <= at => x[i] = img[i]
       /\ at + size <= n =>
            /\ Len(x) = n
            /\ \A i \in 1 .. n : x[i] = IF i \in at + 1 .. at + size THEN part[i - at] ELSE img[i]
  <2> DEFINE S == Blocks(t)
  <2>1. img \in Seq(S) /\ part \in Seq(S) BY <1>6, <1>8
  <2> HIDE DEF S
  <2>2. at \in Nat /\ size \in Nat /\ Len(part) = size BY <1>4, <1>6
  <2>3. /\ x \in Seq(S)
        /\ at <= Len(img) => at <= Len(x)
        /\ Len(img) < at => Len(img) <= Len(x)
        /\ \A i \in 1 .. Len(img) : i <= at => x[i] = img[i]
        /\ at + size <= Len(img) =>
             /\ Len(x) = Len(img)
             /\ \A i \in 1 .. Len(img) :
                  x[i] = IF i \in at + 1 .. at + size THEN part[i - at] ELSE img[i]
    BY <1>9, <2>1, <2>2, PastedIs
  <2> QED BY <1>1, <2>3 DEF S
<1>11. UpToCode(t, f, x)
  <2>1. C <= Len(x)
    <3>1. Len(x) \in Nat BY <1>10, LenProperties
    <3> QED BY <1>4, <1>7, <1>8, <1>10, <3>1
  <2>2. ASSUME NEW i \in 1 .. C PROVE x[i] = f[i]
    <3>1. i \in 1 .. n /\ i <= at BY <1>4, <1>7, <1>8
    <3> QED BY <1>8, <1>10, <3>1
  <2> QED BY <1>1, <1>10, <2>1, <2>2 DEF UpToCode
<1>12. ASSUME Safe(t, a, f) \/ Knows(t, a, f)
       PROVE  A <= at /\ at + size <= A + w
  <2>1. CASE Safe(t, a, f)
    <3>1. Kept(t, f, img) BY <1>12
    <3> QED BY <1>1, <1>2, <1>3, <2>1, <3>1, InsidePart
  <2>2. CASE Knows(t, a, f)
    <3>1. Kept(t, f, img) BY <1>12
    <3>2. at = A /\ size = w BY <1>1, <1>3, <2>2, <3>1, ExactPart
    <3> QED BY <1>7, <3>2
  <2> QED BY <1>12, <2>1, <2>2
<1>13. ASSUME Safe(t, a, f) \/ Knows(t, a, f)
       PROVE  Kept(t, f, x) /\ Len(x) = n /\ n = A + w + Rest /\ at + size <= n
  <2>1. Kept(t, f, img) BY <1>13
  <2>2. n = A + w + Rest /\ Len(f) = n BY <1>1, <2>1 DEF Kept, FirstOK
  <2>3. A <= at /\ at + size <= A + w BY <1>12, <1>13
  <2>4. at + size <= n BY <1>4, <1>7, <2>2, <2>3
  <2>5. /\ Len(x) = n
        /\ \A i \in 1 .. n : x[i] = IF i \in at + 1 .. at + size THEN part[i - at] ELSE img[i]
    BY <1>10, <2>4
  <2>6. ASSUME NEW i \in (1 .. n) \ Part(t) PROVE x[i] = f[i]
    <3>1. i \in 1 .. n /\ i \notin at + 1 .. at + size BY <1>4, <1>7, <2>3
    <3>2. x[i] = img[i] BY <2>5, <3>1
    <3> QED BY <2>1, <2>2, <3>2 DEF Kept
  <2>7. ASSUME NEW i \in Part(t) PROVE x[i].kind # "magic"
    <3>1. i \in 1 .. n BY <1>7, <2>2
    <3>2. CASE i \in at + 1 .. at + size
      <4>1. i - at \in 1 .. size BY <1>4, <3>2
      <4> QED BY <1>6, <2>5, <3>1, <3>2, <4>1
    <3>3. CASE i \notin at + 1 .. at + size
      <4>1. x[i] = img[i] BY <2>5, <3>1, <3>3
      <4> QED BY <2>1, <4>1 DEF Kept
    <3> QED BY <3>2, <3>3
  <2> QED BY <2>2, <2>4, <2>5, <2>6, <2>7 DEF Kept
<1>14. ASSUME Knows(t, a, f) PROVE Slice(x, A, w) = ubootenv_build(e, w, header)
  <2>1. Kept(t, f, img) BY <1>14
  <2>2. at = A /\ size = w BY <1>1, <1>3, <1>14, <2>1, ExactPart
  <2>3. Len(x) = n /\ n = A + w + Rest /\ at + size <= n BY <1>13, <1>14
  <2>4. \A i \in 1 .. n : x[i] = IF i \in at + 1 .. at + size THEN part[i - at] ELSE img[i]
    BY <1>10, <2>3
  <2>5. \A i \in A + 1 .. A + w : x[i] = part[i - A]
    <3> SUFFICES ASSUME NEW i \in A + 1 .. A + w PROVE x[i] = part[i - A] OBVIOUS
    <3>1. i \in 1 .. n /\ i \in at + 1 .. at + size BY <1>7, <2>2, <2>3
    <3> QED BY <2>2, <2>4, <3>1
  <2>6. A + w <= Len(x) BY <2>2, <2>3
  <2>7. Slice(x, A, w) = part
    <3> DEFINE S == Blocks(t)
    <3>1. x \in Seq(S) /\ part \in Seq(S) BY <1>6, <1>10
    <3> HIDE DEF S
    <3>2. Len(part) = w BY <1>6, <2>2
    <3> QED BY <1>7, <2>5, <2>6, <3>1, <3>2, SliceEquals
  <2> QED BY <1>5, <2>2, <2>7
<1> QED BY <1>1, <1>11, <1>13, <1>14

\* What the device writes to the partition.
LEMMA DeviceKeeps ==
  ASSUME NEW t \in Layouts, NEW f, FirstOK(t, f), NEW img, UpToCode(t, f, img),
         NEW part \in Seq(Blocks(t)), Len(part) = t.env,
         \A i \in 1 .. t.env : part[i].kind # "magic",
         NEW x, x = [i \in 1 .. Len(img) |-> IF i \in Part(t) THEN part[i - At(t)] ELSE img[i]]
  PROVE  UpToCode(t, f, x) /\ (Kept(t, f, img) => Kept(t, f, x))
<1>1. PICK n, A, C, w : n = Len(img) /\ A = At(t) /\ C = Code(t) /\ w = t.env OBVIOUS
<1>2. /\ w \in Nat /\ A \in Nat /\ C \in Nat /\ C <= A /\ Part(t) = A + 1 .. A + w
      /\ Rest \in Nat
  BY <1>1, LayoutIs DEF Part
<1>3. img \in Seq(Blocks(t)) /\ n \in Nat /\ C <= n /\ \A i \in 1 .. C : img[i] = f[i]
  BY <1>1, LenProperties DEF UpToCode
<1>4. \A i \in 1 .. n : x[i] = IF i \in Part(t) THEN part[i - A] ELSE img[i] BY <1>1
<1>5. \A i \in Part(t) : i - A \in 1 .. w BY <1>2
<1> DEFINE S == Blocks(t)
<1>6. x \in Seq(S) /\ Len(x) = n
  <2>1. img \in Seq(S) /\ part \in Seq(S) BY <1>3
  <2> HIDE DEF S
  <2>2. \A i \in 1 .. n : x[i] \in S
    <3> SUFFICES ASSUME NEW i \in 1 .. n PROVE x[i] \in S OBVIOUS
    <3>1. CASE i \in Part(t)
      <4>1. i - A \in 1 .. Len(part) BY <1>1, <1>5, <3>1
      <4> QED BY <1>4, <2>1, <3>1, <4>1, ElementOfSeq
    <3>2. CASE i \notin Part(t)
      <4>1. i \in 1 .. Len(img) BY <1>1
      <4> QED BY <1>4, <2>1, <3>2, <4>1, ElementOfSeq
    <3> QED BY <3>1, <3>2
  <2>3. x = [i \in 1 .. n |-> x[i]] BY <1>1
  <2>4. x \in [1 .. n -> S] BY <2>2, <2>3
  <2> QED BY <1>3, <2>4, SeqDef, LenProperties
<1>7. UpToCode(t, f, x)
  <2>1. ASSUME NEW i \in 1 .. C PROVE x[i] = f[i]
    <3>1. i \in 1 .. n /\ i \notin Part(t) BY <1>2, <1>3
    <3> QED BY <1>3, <1>4, <3>1
  <2> QED BY <1>1, <1>3, <1>6, <2>1 DEF UpToCode
<1>8. ASSUME Kept(t, f, img) PROVE Kept(t, f, x)
  <2>1. Len(f) = n /\ n = A + w + Rest BY <1>1, <1>8 DEF Kept, FirstOK
  <2>2. ASSUME NEW i \in (1 .. n) \ Part(t) PROVE x[i] = f[i]
    <3>1. x[i] = img[i] BY <1>4
    <3> QED BY <1>8, <2>1, <3>1 DEF Kept
  <2>3. ASSUME NEW i \in Part(t) PROVE x[i].kind # "magic"
    <3>1. i \in 1 .. n BY <1>2, <2>1
    <3>2. x[i] = part[i - A] /\ i - A \in 1 .. w BY <1>4, <1>5, <3>1
    <3> QED BY <1>1, <3>2
  <2> QED BY <1>6, <2>1, <2>2, <2>3 DEF Kept
<1> QED BY <1>7, <1>8

-------------------------------------------------------------------------------
(* What is read.                                                            *)

LEMMA ParseIs ==
  ASSUME NEW t, NEW part \in Seq(Blocks(t)), Len(part) > 0, ubootenv_parse_part(part) # None
  PROVE  LET e == ubootenv_parse_part(part)
         IN  e \in Here(t) /\ e.keys \in Nat /\ e.keys > 0
<1>1. PICK x, n : x = ubootenv_parse_part(part) /\ n = Len(part) OBVIOUS
<1>2. n \in Nat /\ \A i \in 1 .. n : part[i] \in Blocks(t) BY <1>1, LenProperties, ElementOfSeq
<1>3. x = IF Used(part) = {} THEN None
          ELSE IF \E header \in {4, 5}, order \in Orders : Checked(part, header, order)
               THEN part[1].env
          ELSE IF Raw(part) THEN part[Min(Used(part))].env
          ELSE None
  BY <1>1 DEF ubootenv_parse_part
<1>4. Used(part) # {} BY <1>1, <1>3
<1>5. CASE \E header \in {4, 5}, order \in Orders : Checked(part, header, order)
  <2>1. x = part[1].env BY <1>3, <1>4, <1>5
  <2>2. part[1].kind = "env" /\ part[1].env.keys > 0 BY <1>5 DEF Checked
  <2>3. part[1] \in Blocks(t) BY <1>1, <1>2
  <2>4. part[1].env \in Here(t) BY <2>2, <2>3 DEF Blocks
  <2> QED BY <1>1, <2>1, <2>2, <2>4, EnvsAre
<1>6. CASE ~(\E header \in {4, 5}, order \in Orders : Checked(part, header, order))
  <2>1. PICK i : i = Min(Used(part)) OBVIOUS
  <2>2. i \in 1 .. n
    <3>1. Used(part) \subseteq 1 .. n BY <1>1 DEF Used
    <3>2. Used(part) \subseteq Nat BY <3>1
    <3>3. Min(Used(part)) \in Used(part) BY <1>4, <3>2, MinIs
    <3> QED BY <2>1, <3>1, <3>3
  <2>3. Raw(part) /\ x = part[i].env BY <1>1, <1>3, <1>4, <1>6, <2>1
  <2>4. part[i].kind = "raw" /\ part[i].env.keys >= 2 BY <2>1, <2>3 DEF Raw
  <2>5. part[i].env \in Here(t) BY <1>2, <2>2, <2>4 DEF Blocks
  <2>6. part[i].env.keys \in Nat BY <2>5, EnvsAre
  <2> QED BY <1>1, <2>3, <2>4, <2>5, <2>6
<1> QED BY <1>5, <1>6

\* Only environments of this flash with something in them are extracted.
LEMMA ExtractedIs ==
  ASSUME NEW t \in Layouts, NEW a \in Args(t), NEW f, FirstOK(t, f), NEW img, UpToCode(t, f, img),
         ubootenv_extract(img, a) # None
  PROVE  LET e == ubootenv_extract(img, a)
         IN  e \in Here(t) /\ e.keys \in Nat /\ e.keys > 0
<1>1. PICK x, r, o : x = ubootenv_extract(img, a) /\ r = Resolved(img, a) /\ o = a.offset OBVIOUS
<1>2. PICK part, front : part = Slice(img, r.at, r.size) /\ front = Slice(img, o, r.boot) OBVIOUS
<1>3. x = IF r = None THEN None
          ELSE IF Len(part) # r.size THEN None
          ELSE Or(ubootenv_parse_part(part),
                  Or(r.default, IF Len(front) # r.boot THEN None
                                ELSE extract_default_env_from_uboot(front)))
  BY <1>1, <1>2 DEF ubootenv_extract, ExtractAt
<1>4. r # None /\ Len(part) = r.size BY <1>1, <1>3
<1>5. /\ r.boot \in Nat /\ r.at \in Nat /\ r.size \in Nat /\ r.size > 0
      /\ r.default = None \/ (r.default \in Here(t) /\ Plausible(r.default))
  BY <1>1, <1>4, BehindCode
<1>6. o \in Nat BY <1>1, ArgsAre, LayoutIs
<1>7. part \in Seq(Blocks(t)) /\ front \in Seq(Blocks(t))
  <2> DEFINE S == Blocks(t)
  <2>1. img \in Seq(S) BY DEF UpToCode
  <2> HIDE DEF S
  <2>2. part \in Seq(S) BY <1>2, <1>5, <2>1, SliceIs
  <2>3. front \in Seq(S) BY <1>2, <1>5, <1>6, <2>1, SliceIs
  <2> QED BY <2>2, <2>3 DEF S
<1>8. ASSUME NEW e \in Here(t), Plausible(e) PROVE e.keys \in Nat /\ e.keys > 0
  <2>1. e.keys \in Nat /\ e.keys >= 5 BY <1>8, EnvsAre DEF Plausible
  <2> QED BY <2>1
<1>9. CASE ubootenv_parse_part(part) # None
  <2>1. x = ubootenv_parse_part(part) BY <1>3, <1>4, <1>9 DEF Or
  <2> QED BY <1>1, <1>4, <1>5, <1>7, <1>9, <2>1, ParseIs
<1>10. CASE ubootenv_parse_part(part) = None /\ r.default # None
  <2>1. x = r.default BY <1>3, <1>4, <1>10 DEF Or
  <2>2. r.default \in Here(t) /\ Plausible(r.default) BY <1>5, <1>10
  <2> QED BY <1>1, <1>8, <2>1, <2>2
<1>11. CASE ubootenv_parse_part(part) = None /\ r.default = None
  <2>1. x = IF Len(front) # r.boot THEN None ELSE extract_default_env_from_uboot(front)
    BY <1>3, <1>4, <1>11 DEF Or
  <2>2. x = extract_default_env_from_uboot(front) /\ x # None BY <1>1, <2>1
  <2>3. x \in Here(t) /\ Plausible(x) BY <1>7, <2>2, ExtractIs
  <2> QED BY <1>1, <1>8, <2>3
<1> QED BY <1>9, <1>10, <1>11

\* A checksum fits behind one header and in one order only.
LEMMA CheckedIs ==
  ASSUME NEW part, NEW header, NEW order, Len(part) \in Nat, Len(part) > 0,
         Checked(part, header, order)
  PROVE  part[1].kind = "env" /\ part[1].header = header /\ part[1].order = order
<1>1. PICK n, e : n = Len(part) /\ e = part[1].env OBVIOUS
<1>2. part[1].kind = "env" /\ part = EnvImage(e, n, header, order) BY <1>1 DEF Checked
<1>3. 1 \in 1 .. n BY <1>1
<1>4. EnvImage(e, n, header, order)[1] =
        [kind |-> "env", env |-> e, size |-> n, header |-> header, order |-> order,
         good |-> TRUE]
  BY <1>3 DEF EnvImage
<1>5. part[1] =
        [kind |-> "env", env |-> e, size |-> n, header |-> header, order |-> order,
         good |-> TRUE]
  BY <1>2, <1>4
<1> QED BY <1>2, <1>5

\* An environment that was written is recognised, with the header that was asked for and
\* the low byte of the checksum first.
LEMMA WrittenIsChecked ==
  ASSUME NEW t \in Layouts, NEW e \in Here(t), e.keys > 0, NEW header \in {4, 5},
         NEW part, part = ubootenv_build(e, t.env, header)
  PROVE  /\ Len(part) = t.env /\ part[1].env = e /\ ubootenv_parse_part(part) = e
         /\ Checked(part, header, "little")
         /\ \A h \in {4, 5}, order \in Orders :
              Checked(part, h, order) => h = header /\ order = "little"
<1>1. t.env \in Nat /\ t.env > 0 BY LayoutIs
<1>2. part = EnvImage(e, t.env, header, "little") BY DEF ubootenv_build
<1>3. Len(part) = t.env /\ 1 \in 1 .. t.env /\ "little" \in Orders
  <2>1. PICK n, order : n = t.env /\ order = "little" OBVIOUS
  <2>2. n \in Nat /\ order \in Orders BY <1>1, <2>1 DEF Orders
  <2>3. Len(EnvImage(e, n, header, order)) = n BY <2>2, EnvImageIs
  <2> QED BY <1>1, <1>2, <2>1, <2>2, <2>3
<1>4. part[1] = [kind |-> "env", env |-> e, size |-> t.env, header |-> header,
                 order |-> "little", good |-> TRUE]
  BY <1>2, <1>3 DEF EnvImage
<1>5. /\ part[1].kind = "env" /\ part[1].good /\ part[1].env = e
      /\ part[1].header = header /\ part[1].order = "little"
  BY <1>4
<1>6. Checked(part, header, "little") BY <1>2, <1>3, <1>5 DEF Checked
<1>7. ASSUME NEW h \in {4, 5}, NEW order \in Orders, Checked(part, h, order)
      PROVE  h = header /\ order = "little"
  <2>1. part[1].header = h /\ part[1].order = order BY <1>1, <1>3, <1>7, CheckedIs
  <2> QED BY <1>5, <2>1
<1>8. part[1] # Erased BY <1>5 DEF Erased, Plain
<1>9. Used(part) # {} BY <1>3, <1>8 DEF Used
<1>10. \E h \in {4, 5}, order \in Orders : Checked(part, h, order) BY <1>3, <1>6
<1>11. ubootenv_parse_part(part) = e BY <1>5, <1>9, <1>10 DEF ubootenv_parse_part
<1> QED BY <1>3, <1>5, <1>6, <1>7, <1>11

LEMMA WrittenIsRead ==
  ASSUME NEW t \in Layouts, NEW a \in Args(t), NEW f, FirstOK(t, f), NEW img, UpToCode(t, f, img),
         Kept(t, f, img), Knows(t, a, f), NEW e \in Here(t), e.keys > 0, NEW header \in {4, 5},
         Slice(img, At(t), t.env) = ubootenv_build(e, t.env, header)
  PROVE  ubootenv_extract(img, a) = e
<1>1. PICK r, part : r = Resolved(img, a) /\ part = Slice(img, r.at, r.size) OBVIOUS
<1>2. r # None /\ r.at = At(t) /\ r.size = t.env BY <1>1, ExactPart
<1>3. part = ubootenv_build(e, t.env, header) BY <1>1, <1>2
<1>4. Len(part) = r.size /\ ubootenv_parse_part(part) = e BY <1>2, <1>3, WrittenIsChecked
<1>5. e # None BY EnvsAre
<1> QED BY <1>1, <1>2, <1>4, <1>5 DEF ubootenv_extract, ExtractAt, Or

\* With the place known, and no text in the partition, the effective environment is the
\* device's, if a checksum that fits there does so in the device's own form.
LEMMA EffectiveIs ==
  ASSUME NEW t \in Layouts, NEW a \in Args(t), NEW f, FirstOK(t, f), NEW img, UpToCode(t, f, img),
         Kept(t, f, img), Knows(t, a, f), Place(a), \A i \in Part(t) : img[i].kind # "raw",
         \A header \in {4, 5}, order \in Orders :
           Checked(Slice(img, At(t), t.env), header, order) => header = t.header /\ order = t.order
  PROVE  LET part == Slice(img, At(t), t.env)
         IN  /\ Len(part) = t.env
             /\ ubootenv_extract(img, a) =
                  IF Checked(part, t.header, t.order) THEN part[1].env ELSE f[Code(t)].env
<1>1. PICK r, part, A, C, w, n : /\ r = Resolved(img, a) /\ A = At(t) /\ C = Code(t) /\ w = t.env
                                 /\ part = Slice(img, A, w) /\ n = Len(img)
  OBVIOUS
<1>2. r # None /\ r.at = A /\ r.size = w /\ r.boot = t.boot /\ r.default \in {None, f[C].env}
  BY <1>1, ExactPart
<1>3. /\ w \in Nat /\ w > 0 /\ A \in Nat /\ C \in Nat /\ C <= A /\ Rest \in Nat
      /\ Part(t) = A + 1 .. A + w /\ t.start \in Nat /\ A = t.start + t.boot /\ t.boot \in Nat
      /\ C > t.start
  BY <1>1, LayoutIs DEF Part
<1>4. n = A + w + Rest BY <1>1 DEF Kept, FirstOK
<1>5. /\ part \in Seq(Blocks(t)) /\ Len(part) = w
      /\ \A i \in 1 .. w : part[i] = img[A + i]
  <2> DEFINE S == Blocks(t)
  <2>1. img \in Seq(S) BY DEF UpToCode
  <2> HIDE DEF S
  <2>2. A + w <= Len(img) BY <1>1, <1>3, <1>4
  <2>3. /\ part \in Seq(S) /\ Len(part) = w
        /\ \A i \in 1 .. w : part[i] = img[A + i]
    <3>1. A \in Nat /\ w \in Nat BY <1>3
    <3>2. LET s == Slice(img, A, w)
          IN  /\ s \in Seq(S) /\ Len(s) = w /\ DOMAIN s = 1 .. w
              /\ \A i \in 1 .. w : s[i] = img[A + i]
      BY <2>1, <2>2, <3>1, WholeSlice
    <3> QED BY <1>1, <3>2
  <2> QED BY <2>3 DEF S
<1>6. \A i \in 1 .. w : part[i] \in Blocks(t) /\ part[i].kind # "raw"
  <2> SUFFICES ASSUME NEW i \in 1 .. w PROVE part[i] \in Blocks(t) /\ part[i].kind # "raw"
    OBVIOUS
  <2>1. part[i] \in Blocks(t) BY <1>5, ElementOfSeq
  <2>2. A + i \in Part(t) BY <1>3
  <2> QED BY <1>5, <2>1, <2>2
<1>7. ~Raw(part) \/ Used(part) = {}
  <2> SUFFICES ASSUME Used(part) # {} PROVE ~Raw(part) OBVIOUS
  <2>1. Used(part) \subseteq 1 .. w BY <1>5 DEF Used
  <2>2. Used(part) \subseteq Nat BY <2>1
  <2>3. Min(Used(part)) \in Used(part) BY <2>2, MinIs
  <2>4. part[Min(Used(part))].kind # "raw" BY <1>6, <2>1, <2>3
  <2> QED BY <2>4 DEF Raw
<1>8. \A header \in {4, 5}, order \in Orders :
        Checked(part, header, order) => header = t.header /\ order = t.order
  BY <1>1
<1>9. t.header \in {4, 5} /\ t.order \in Orders BY LayoutIs
<1>10. CASE Checked(part, t.header, t.order)
  <2>1. 1 \in 1 .. w BY <1>3
  <2>2. part[1] \in Blocks(t) /\ part[1].kind = "env" BY <1>6, <1>10, <2>1 DEF Checked
  <2>3. part[1].env \in Here(t) /\ part[1].env # None BY <2>2 DEF Blocks
  <2>4. part[1] # Erased BY <2>2 DEF Erased, Plain
  <2>5. Used(part) # {} BY <1>5, <2>1, <2>4 DEF Used
  <2>6. \E header \in {4, 5}, order \in Orders : Checked(part, header, order) BY <1>9, <1>10
  <2>7. ubootenv_parse_part(part) = part[1].env BY <2>5, <2>6 DEF ubootenv_parse_part
  <2>8. ubootenv_extract(img, a) = part[1].env
    BY <1>1, <1>2, <1>5, <2>3, <2>7 DEF ubootenv_extract, ExtractAt, Or
  <2> QED BY <1>1, <1>5, <1>10, <2>8
<1>11. CASE ~Checked(part, t.header, t.order)
  <2>1. ubootenv_parse_part(part) = None
    <3>1. ~(\E header \in {4, 5}, order \in Orders : Checked(part, header, order)) BY <1>8, <1>11
    <3> QED BY <1>7, <3>1 DEF ubootenv_parse_part
  <2>2. f[C].env # None BY <1>1 DEF FirstOK, HasEnv
  <2>3. t.start + t.boot <= n /\ t.start + t.boot = A BY <1>3, <1>4
  <2>4. LET d == Default0(img, t.start, t.boot)
        IN  /\ d # None <=> t.start + t.boot >= Code(t)
            /\ d # None => d \in Here(t) /\ Plausible(d)
            /\ Kept(t, f, img) /\ t.start + t.boot <= At(t) /\ d # None => d = f[Code(t)].env
    BY <1>1, <1>3, <2>3, FoundIs
  <2>5. t.start + t.boot >= Code(t) /\ t.start + t.boot <= At(t) BY <1>1, <1>3
  <2>6. Default0(img, t.start, t.boot) = f[C].env BY <1>1, <2>4, <2>5
  <2>7. Len(Slice(img, t.start, t.boot)) = t.boot
    <3> DEFINE S == Blocks(t)
    <3>1. img \in Seq(S) BY DEF UpToCode
    <3> HIDE DEF S
    <3>2. PICK o, b : o = t.start /\ b = t.boot OBVIOUS
    <3>3. o \in Nat /\ b \in Nat /\ o + b <= Len(img) BY <1>1, <1>3, <2>3, <3>2
    <3>4. Len(Slice(img, o, b)) = b BY <3>1, <3>3, WholeSlice
    <3> QED BY <3>2, <3>4
  <2>8. a.offset = t.start BY ArgsAre
  <2>9. ubootenv_extract(img, a) =
          Or(r.default, IF Len(Slice(img, t.start, t.boot)) # t.boot THEN None
                        ELSE extract_default_env_from_uboot(Slice(img, t.start, t.boot)))
    BY <1>1, <1>2, <1>5, <2>1, <2>8 DEF ubootenv_extract, ExtractAt, Or
  <2>10. ubootenv_extract(img, a) = Or(r.default, f[C].env) BY <2>6, <2>7, <2>9 DEF Default0
  <2>11. ubootenv_extract(img, a) = f[C].env BY <1>2, <2>10 DEF Or
  <2> QED BY <1>1, <1>5, <1>11, <2>11
<1> QED BY <1>10, <1>11

-------------------------------------------------------------------------------
(* The images that there are at first.                                      *)

LEMMA BlocksInSeq ==
  ASSUME NEW S, NEW n \in Nat, NEW g, g \in [1 .. n -> S]
  PROVE  g \in Seq(S) /\ Len(g) = n
BY SeqDef, LenProperties

LEMMA PlainIs ==
  ASSUME NEW t, NEW kind \in {"data", "magic", "erased"}
  PROVE  /\ Plain(kind) \in Blocks(t) /\ Plain(kind).kind = kind /\ Plain(kind).env = None
BY DEF Plain, Blocks

LEMMA TextIs ==
  ASSUME NEW t, NEW e \in Here(t), NEW kind \in {"code", "raw"}
  PROVE  /\ Text(kind, e) \in Blocks(t) /\ Text(kind, e).kind = kind /\ Text(kind, e).env = e
<1>1. e # None BY EnvsAre
<1>2. PICK p : p = Plain(kind) OBVIOUS
<1> DEFINE Records == [kind : {"code", "env", "raw", "magic", "data", "erased"},
                       env : Here(t) \cup {None}, size : Nat, header : {0, 4, 5},
                       order : Orders \cup {None}, good : BOOLEAN]
<1>3. p \in Records /\ p.kind = kind BY <1>2 DEF Plain
<1>4. PICK q : q = Text(kind, e) OBVIOUS
<1>5. q = [p EXCEPT !.env = e] BY <1>2, <1>4 DEF Text
<1>6. q \in Records /\ q.kind = kind /\ q.env = e BY <1>3, <1>5
<1>7. q \in Blocks(t) BY <1>1, <1>6 DEF Blocks
<1> QED BY <1>4, <1>6, <1>7

LEMMA PartsAre ==
  ASSUME truth \in Layouts, NEW part \in FirstParts
  PROVE  /\ part \in Seq(Blocks(truth)) /\ Len(part) = truth.env
         /\ \A i \in 1 .. truth.env : part[i].kind \notin {"magic", "env"}
<1>1. PICK w : w = truth.env OBVIOUS
<1>2. w \in Nat BY <1>1, LayoutIs
<1>3. Erased \in Blocks(truth) /\ Erased.kind = "erased" BY PlainIs DEF Erased
<1>4. ErasedPart = [i \in 1 .. w |-> Erased] BY <1>1 DEF ErasedPart
<1>5. /\ part \in [1 .. w -> Blocks(truth)]
      /\ \A i \in 1 .. w : part[i].kind \notin {"magic", "env"}
  <2>1. CASE part = ErasedPart BY <1>3, <1>4, <2>1
  <2>2. CASE part # ErasedPart
    <3>1. PICK e \in HereEnvs : part = [ErasedPart EXCEPT ![w] = Text("raw", e)]
      BY <1>1, <2>2 DEF FirstParts
    <3>2. e \in Here(truth) BY DEF Here, HereEnvs
    <3>3. PICK b : b = Text("raw", e) OBVIOUS
    <3>4. b \in Blocks(truth) /\ b.kind = "raw" BY <3>2, <3>3, TextIs
    <3>5. part = [ErasedPart EXCEPT ![w] = b] BY <3>1, <3>3
    <3>6. part = [i \in 1 .. w |-> IF i = w THEN b ELSE Erased] BY <1>4, <3>5
    <3> QED BY <1>3, <3>4, <3>6
  <2> QED BY <2>1, <2>2
<1>6. part \in Seq(Blocks(truth)) /\ Len(part) = w
  <2> DEFINE S == Blocks(truth)
  <2>1. part \in [1 .. w -> S] BY <1>5
  <2> HIDE DEF S
  <2>2. part \in Seq(S) /\ Len(part) = w BY <1>2, <2>1, BlocksInSeq
  <2> QED BY <2>2 DEF S
<1> QED BY <1>1, <1>5, <1>6

LEMMA FirstIs ==
  ASSUME truth \in Layouts, NEW default \in HereEnvs, Plausible(default), NEW part \in FirstParts
  PROVE  FirstOK(truth, FlashImage(default, part))
<1>1. PICK o, b, c, d, w, r, A, C :
        /\ o = truth.start /\ b = truth.boot /\ c = truth.code /\ d = truth.decoy /\ w = truth.env
        /\ r = Rest /\ A = At(truth) /\ C = Code(truth)
  OBVIOUS
<1>2. /\ o \in Nat /\ b \in Nat /\ c \in Nat /\ d \in Nat /\ w \in Nat /\ r \in Nat
      /\ b > 0 /\ w > 0 /\ c > 0 /\ c <= b /\ d <= b /\ r > 0 /\ A = o + b /\ C = o + c
  <2>1. /\ truth.start \in Nat /\ truth.boot \in Nat /\ truth.env \in Nat /\ truth.code \in Nat
        /\ truth.decoy \in Nat /\ truth.boot > 0 /\ truth.env > 0 /\ truth.code > 0
        /\ truth.code <= truth.boot /\ truth.decoy <= truth.boot /\ Rest \in Nat /\ Rest > 0
        /\ At(truth) = truth.start + truth.boot /\ Code(truth) = truth.start + truth.code
    BY LayoutIs
  <2> QED BY <1>1, <2>1
<1>3. c # d
  <2>1. truth \in Layout BY LayoutsAreLayouts
  <2>2. truth.decoy # truth.code BY <2>1 DEF Layout
  <2> QED BY <1>1, <2>2
<1>4. PICK data, magic, code : /\ data = Plain("data") /\ magic = Plain("magic")
                               /\ code = Text("code", default)
  OBVIOUS
<1>5. /\ data \in Blocks(truth) /\ magic \in Blocks(truth) /\ code \in Blocks(truth)
      /\ data.kind = "data" /\ magic.kind = "magic" /\ code.kind = "code"
      /\ data.env = None /\ magic.env = None /\ code.env = default
      /\ HasEnv(code)
  <2>1. default \in Here(truth) BY DEF Here, HereEnvs
  <2>2. default # None BY <2>1, EnvsAre
  <2> QED BY <1>4, <2>1, <2>2, PlainIs, TextIs DEF HasEnv
<1>6. PICK s1, s2, s4 :
        /\ s1 = [i \in 1 .. o |-> data]
        /\ s2 = [i \in 1 .. b |-> CASE i = c -> code [] i = d -> magic [] OTHER -> data]
        /\ s4 = [i \in 1 .. r |-> Plain(IF i = 1 THEN "magic" ELSE "data")]
  OBVIOUS
<1>7. PICK f : f = FlashImage(default, part) OBVIOUS
<1>8. f = s1 \o s2 \o part \o s4 BY <1>1, <1>4, <1>6, <1>7 DEF FlashImage
<1>9. \A i \in 1 .. b : s2[i] = IF i = c THEN code ELSE IF i = d THEN magic ELSE data
  BY <1>3, <1>6
<1>10. \A i \in 1 .. r : s4[i] = IF i = 1 THEN magic ELSE data
  <2> SUFFICES ASSUME NEW i \in 1 .. r PROVE s4[i] = IF i = 1 THEN magic ELSE data OBVIOUS
  <2>1. s4[i] = Plain(IF i = 1 THEN "magic" ELSE "data") BY <1>6
  <2>2. CASE i = 1 BY <1>4, <2>1, <2>2
  <2>3. CASE i # 1 BY <1>4, <2>1, <2>3
  <2> QED BY <2>2, <2>3
<1> DEFINE S == Blocks(truth)
<1>11. /\ s1 \in Seq(S) /\ Len(s1) = o /\ s2 \in Seq(S) /\ Len(s2) = b
       /\ s4 \in Seq(S) /\ Len(s4) = r /\ part \in Seq(S) /\ Len(part) = w
  <2>1. data \in S /\ magic \in S /\ code \in S BY <1>5
  <2>2. part \in Seq(S) /\ Len(part) = w BY <1>1, PartsAre
  <2> HIDE DEF S
  <2>3. s1 \in [1 .. o -> S] BY <1>6, <2>1
  <2>4. s2 \in [1 .. b -> S]
    <3>1. \A i \in 1 .. b : s2[i] \in S BY <1>9, <2>1
    <3>2. s2 = [i \in 1 .. b |-> s2[i]] BY <1>6
    <3> QED BY <3>1, <3>2
  <2>5. s4 \in [1 .. r -> S]
    <3>1. \A i \in 1 .. r : s4[i] \in S BY <1>10, <2>1
    <3>2. s4 = [i \in 1 .. r |-> s4[i]] BY <1>6
    <3> QED BY <3>1, <3>2
  <2> QED BY <1>2, <2>2, <2>3, <2>4, <2>5, BlocksInSeq
<1>12. \A i \in 1 .. w : part[i].kind \notin {"magic", "env"} BY <1>1, PartsAre
<1>13. PICK x, y : x = s1 \o s2 /\ y = x \o part OBVIOUS
<1> HIDE DEF S
<1>14. /\ x \in Seq(S) /\ Len(x) = o + b
       /\ \A i \in 1 .. o + b : x[i] = IF i <= o THEN s1[i] ELSE s2[i - o]
  BY <1>11, <1>13, ConcatProperties
<1>15. /\ y \in Seq(S) /\ Len(y) = (o + b) + w
       /\ \A i \in 1 .. (o + b) + w : y[i] = IF i <= o + b THEN x[i] ELSE part[i - (o + b)]
  <2>1. /\ y \in Seq(S) /\ Len(y) = Len(x) + Len(part)
        /\ \A i \in 1 .. Len(x) + Len(part) :
             y[i] = IF i <= Len(x) THEN x[i] ELSE part[i - Len(x)]
    <3>1. y = x \o part BY <1>13
    <3> QED BY <1>11, <1>14, <3>1, ConcatProperties
  <2>2. Len(x) = o + b /\ Len(part) = w BY <1>11, <1>14
  <2> QED BY <2>1, <2>2
<1>16. /\ f \in Seq(S) /\ Len(f) = ((o + b) + w) + r
       /\ \A i \in 1 .. ((o + b) + w) + r :
            f[i] = IF i <= (o + b) + w THEN y[i] ELSE s4[i - ((o + b) + w)]
  <2>1. f = y \o s4 BY <1>8, <1>13
  <2>2. /\ f \in Seq(S) /\ Len(f) = Len(y) + Len(s4)
        /\ \A i \in 1 .. Len(y) + Len(s4) :
             f[i] = IF i <= Len(y) THEN y[i] ELSE s4[i - Len(y)]
    BY <1>11, <1>15, <2>1, ConcatProperties
  <2>3. Len(y) = (o + b) + w /\ Len(s4) = r BY <1>11, <1>15
  <2> QED BY <2>2, <2>3
<1>17. Len(f) = A + w + r BY <1>2, <1>16
<1>18. ASSUME NEW i \in 1 .. o PROVE f[i] = data
  <2>1. /\ i \in 1 .. ((o + b) + w) + r /\ i <= (o + b) + w /\ i \in 1 .. (o + b) + w
        /\ i \in 1 .. o + b /\ i <= o + b /\ i <= o
    BY <1>2
  <2>2. f[i] = s1[i] BY <1>14, <1>15, <1>16, <2>1
  <2> QED BY <1>6, <2>2
<1>19. ASSUME NEW i \in o + 1 .. A
       PROVE  f[i] = IF i = C THEN code ELSE IF i = o + d THEN magic ELSE data
  <2>1. PICK j : j = i - o OBVIOUS
  <2>2. /\ i \in 1 .. ((o + b) + w) + r /\ i <= (o + b) + w /\ i \in 1 .. (o + b) + w
        /\ i \in 1 .. o + b /\ i <= o + b /\ ~(i <= o) /\ j \in 1 .. b
        /\ (j = c <=> i = C) /\ (j = d <=> i = o + d)
    BY <1>2, <2>1
  <2>3. f[i] = s2[j] BY <1>14, <1>15, <1>16, <2>1, <2>2
  <2>4. s2[j] = IF j = c THEN code ELSE IF j = d THEN magic ELSE data BY <1>9, <2>2
  <2> QED BY <2>2, <2>3, <2>4
<1>20. ASSUME NEW i \in A + 1 .. A + w PROVE f[i].kind \notin {"magic", "env"}
  <2>1. PICK j : j = i - (o + b) OBVIOUS
  <2>2. /\ i \in 1 .. ((o + b) + w) + r /\ i <= (o + b) + w /\ i \in 1 .. (o + b) + w
        /\ ~(i <= o + b) /\ j \in 1 .. w
    BY <1>2, <2>1
  <2>3. f[i] = part[j] BY <1>15, <1>16, <2>1, <2>2
  <2> QED BY <1>12, <2>2, <2>3
<1>21. f[A + w + 1] = magic
  <2>1. PICK i : i = A + w + 1 OBVIOUS
  <2>2. PICK j : j = i - ((o + b) + w) OBVIOUS
  <2>3. i \in 1 .. ((o + b) + w) + r /\ ~(i <= (o + b) + w) /\ j = 1 /\ j \in 1 .. r
    BY <1>2, <2>1, <2>2
  <2>4. f[i] = s4[j] BY <1>16, <2>2, <2>3
  <2> QED BY <1>10, <2>1, <2>3, <2>4
<1>22. C \in o + 1 .. A /\ Part(truth) = A + 1 .. A + w BY <1>1, <1>2 DEF Part
<1>23. f[C] = code BY <1>19, <1>22
<1>24. ASSUME NEW i \in 1 .. A, i # C PROVE f[i].env = None
  <2>1. CASE i <= o
    <3>1. i \in 1 .. o BY <1>2, <2>1
    <3> QED BY <1>5, <1>18, <3>1
  <2>2. CASE i > o
    <3>1. i \in o + 1 .. A BY <1>2, <2>2
    <3>2. f[i] = magic \/ f[i] = data BY <1>19, <1>24, <3>1
    <3> QED BY <1>5, <3>2
  <2> QED BY <1>2, <2>1, <2>2
<1>25. ASSUME NEW i \in o + 1 .. A PROVE f[i].kind = "magic" <=> i = o + d /\ i # C
  <2>1. f[i] = IF i = C THEN code ELSE IF i = o + d THEN magic ELSE data BY <1>19
  <2> QED BY <1>5, <2>1
<1>26. f \in Seq(Blocks(truth)) BY <1>16 DEF S
<1> QED BY <1>1, <1>5, <1>7, <1>17, <1>20, <1>21, <1>22, <1>23, <1>24, <1>25, <1>26 DEF FirstOK

-------------------------------------------------------------------------------
(* The inductive invariant.                                                 *)

\* The words of UbootEnv for this flash.
LEMMA Words ==
  ASSUME truth \in Layouts
  PROVE  /\ EnvAt = At(truth) /\ EnvBlocks = Part(truth) /\ HereEnvs = Here(truth)
         /\ Arguments = Args(truth) /\ Placed = Place(args) /\ TrueSize = TrueSz(truth, args)
BY DEF EnvAt, At, EnvBlocks, Part, HereEnvs, Here, Arguments, Args, Placed, Place, TrueSize, TrueSz

\* What the partition holds when its place is known: what was patched in, and else an
\* environment in the form of this device or none.
Holds(t, img, w) ==
  IF w = None THEN \A i \in Part(t) : OwnForm(t, img[i])
  ELSE /\ w.env.keys > 0
       /\ Slice(img, At(t), t.env) = ubootenv_build(w.env, t.env, w.header)

\* The boot partition up to the default environment is as it was at first, whatever is
\* passed; all but the partition is when what is passed is safe or gives the layout; and
\* then the partition holds what was written to it last.
IInv ==
  /\ truth \in Layouts
  /\ args \in Args(truth)
  /\ FirstOK(truth, first)
  /\ UpToCode(truth, first, image)
  /\ wrote = None \/ (wrote.env \in Here(truth) /\ wrote.header \in {4, 5})
  /\ Safe(truth, args, first) \/ Knows(truth, args, first) => Kept(truth, first, image)
  /\ Knows(truth, args, first) => Holds(truth, image, wrote)

LEMMA InitIInv == Init => IInv
<1> SUFFICES ASSUME Init PROVE IInv OBVIOUS
<1>1. truth \in Layouts /\ args \in Args(truth) /\ first = image /\ wrote = None
  BY Words DEF Init
<1>2. FirstOK(truth, first)
  <2>1. PICK default \in {e \in HereEnvs : Plausible(e)}, part \in FirstParts :
          image = FlashImage(default, part)
    BY DEF Init
  <2>2. default \in HereEnvs /\ Plausible(default) BY <2>1
  <2>3. FirstOK(truth, FlashImage(default, part)) BY <1>1, <2>2, FirstIs
  <2> QED BY <1>1, <2>1, <2>3
<1>3. Code(truth) <= Len(first)
  <2>1. PICK n : n = Len(first) OBVIOUS
  <2>2. n = At(truth) + truth.env + Rest BY <1>2, <2>1 DEF FirstOK
  <2>3. /\ At(truth) \in Nat /\ truth.env \in Nat /\ Rest \in Nat /\ Code(truth) \in Nat
        /\ Code(truth) <= At(truth)
    BY <1>1, LayoutIs
  <2>4. Code(truth) <= n BY <2>2, <2>3
  <2> QED BY <2>1, <2>4
<1>4. UpToCode(truth, first, image) BY <1>1, <1>2, <1>3 DEF UpToCode, FirstOK
<1>5. Kept(truth, first, image) BY <1>1, <1>2 DEF Kept, FirstOK
<1>6. Holds(truth, image, wrote) BY <1>1, <1>2 DEF Holds, OwnForm, FirstOK
<1> QED BY <1>1, <1>2, <1>4, <1>5, <1>6 DEF IInv

LEMMA PatchedIInv ==
  ASSUME IInv, NEW e \in Here(truth), e.keys > 0, NEW header \in {4, 5}, Patched(e, header)
  PROVE  IInv'
<1>1. PICK t, a, f, img : t = truth /\ a = args /\ f = first /\ img = image OBVIOUS
<1>2. /\ t \in Layouts /\ a \in Args(t) /\ FirstOK(t, f) /\ UpToCode(t, f, img)
      /\ Safe(t, a, f) \/ Knows(t, a, f) => Kept(t, f, img)
      /\ e \in Here(t)
  BY <1>1 DEF IInv
<1>3. PICK x, w : x = ubootenv_patch(img, a, e, header) /\ w = [env |-> e, header |-> header]
  OBVIOUS
<1>4. x # None /\ image' = x /\ wrote' = w /\ truth' = t /\ args' = a /\ first' = f
  BY <1>1, <1>3 DEF Patched
<1>5. /\ UpToCode(t, f, x)
      /\ Safe(t, a, f) \/ Knows(t, a, f) => Kept(t, f, x)
      /\ Knows(t, a, f) => Slice(x, At(t), t.env) = ubootenv_build(e, t.env, header)
  BY <1>2, <1>3, <1>4, PatchKeeps
<1>6. w # None /\ w.env = e /\ w.header = header
  <2>1. e \in Envs BY <1>2, EnvsAre
  <2>2. w \in [env : Envs, header : {4, 5}] BY <1>3, <2>1
  <2> QED BY <1>3, <2>2, NoneIsNothing
<1>7. Knows(t, a, f) => Holds(t, x, w) BY <1>5, <1>6 DEF Holds
<1> QED BY <1>2, <1>4, <1>5, <1>6, <1>7 DEF IInv

LEMMA DeviceIInv ==
  ASSUME IInv, NEW part \in Seq(Blocks(truth)), Len(part) = truth.env,
         \A i \in 1 .. truth.env : part[i].kind # "magic" /\ OwnForm(truth, part[i]),
         DeviceWrites(part)
  PROVE  IInv'
<1>1. PICK t, a, f, img, x :
        /\ t = truth /\ a = args /\ f = first /\ img = image
        /\ x = [i \in 1 .. Len(img) |-> IF i \in Part(t) THEN part[i - At(t)] ELSE img[i]]
  OBVIOUS
<1>2. /\ t \in Layouts /\ a \in Args(t) /\ FirstOK(t, f) /\ UpToCode(t, f, img)
      /\ Safe(t, a, f) \/ Knows(t, a, f) => Kept(t, f, img)
      /\ part \in Seq(Blocks(t)) /\ Len(part) = t.env
      /\ \A i \in 1 .. t.env : part[i].kind # "magic" /\ OwnForm(t, part[i])
  BY <1>1 DEF IInv
<1>3. EnvAt = At(t) /\ EnvBlocks = Part(t) BY <1>1, <1>2, Words
<1>4. image' = x /\ wrote' = None /\ truth' = t /\ args' = a /\ first' = f
  BY <1>1, <1>3 DEF DeviceWrites
<1>5. UpToCode(t, f, x) /\ (Kept(t, f, img) => Kept(t, f, x)) BY <1>1, <1>2, DeviceKeeps
<1>6. ASSUME Knows(t, a, f) PROVE Holds(t, x, None)
  <2>1. PICK n, A, w : n = Len(img) /\ A = At(t) /\ w = t.env OBVIOUS
  <2>2. A \in Nat /\ w \in Nat /\ Rest \in Nat /\ Part(t) = A + 1 .. A + w
    BY <1>2, <2>1, LayoutIs DEF Part
  <2>3. n = A + w + Rest BY <1>2, <1>6, <2>1 DEF Kept, FirstOK
  <2>4. ASSUME NEW i \in Part(t) PROVE OwnForm(t, x[i])
    <3>1. i \in 1 .. n /\ i - A \in 1 .. w BY <2>2, <2>3
    <3>2. x[i] = part[i - A] BY <1>1, <2>1, <3>1
    <3> QED BY <1>2, <2>1, <3>1, <3>2
  <2> QED BY <2>4 DEF Holds
<1> QED BY <1>2, <1>4, <1>5, <1>6 DEF IInv

\* What the device itself writes has its own form.
LEMMA DeviceImageIs ==
  ASSUME truth \in Layouts, NEW e \in Here(truth)
  PROVE  LET x == DeviceImage(e)
         IN  /\ x \in Seq(Blocks(truth)) /\ Len(x) = truth.env /\ DOMAIN x = 1 .. truth.env
             /\ \A i \in 1 .. truth.env : x[i].kind # "magic" /\ OwnForm(truth, x[i])
<1>1. PICK t, n, h, o : t = truth /\ n = truth.env /\ h = truth.header /\ o = truth.order
  OBVIOUS
<1>2. t \in Layouts /\ e \in Here(t) /\ n \in Nat /\ h \in {4, 5} /\ o \in Orders
  BY <1>1, LayoutIs
<1>3. PICK x : x = EnvImage(e, n, h, o) OBVIOUS
<1>4. /\ x \in Seq(Blocks(t)) /\ Len(x) = n /\ DOMAIN x = 1 .. n
      /\ \A i \in 1 .. n :
           /\ x[i].kind # "magic"
           /\ x[i].kind = "env" => x[i].header = h /\ x[i].order = o
  BY <1>2, <1>3, EnvImageIs
<1>5. DeviceImage(e) = x BY <1>1, <1>3 DEF DeviceImage
<1> QED BY <1>1, <1>4, <1>5 DEF OwnForm

LEMMA NextIInv == IInv /\ [Next]_vars => IInv'
<1> SUFFICES ASSUME IInv, [Next]_vars PROVE IInv' OBVIOUS
<1>1. truth \in Layouts /\ HereEnvs = Here(truth) BY Words DEF IInv
<1>2. ASSUME NEW e \in HereEnvs, PatchByCommand(e) PROVE IInv'
  <2>1. PICK header \in {4, 5} : Patched(e, header) BY <1>2 DEF PatchByCommand
  <2> QED BY <1>1, <1>2, <2>1, PatchedIInv DEF PatchByCommand
<1>3. ASSUME NEW e \in HereEnvs, SaveEnv(e) PROVE IInv'
  <2>1. PICK part : part = DeviceImage(e) OBVIOUS
  <2>2. DeviceWrites(part) BY <1>3, <2>1 DEF SaveEnv
  <2>3. /\ part \in Seq(Blocks(truth)) /\ Len(part) = truth.env
        /\ \A i \in 1 .. truth.env : part[i].kind # "magic" /\ OwnForm(truth, part[i])
    BY <1>1, <2>1, DeviceImageIs
  <2> QED BY <2>2, <2>3, DeviceIInv
<1>4. ASSUME NEW e \in HereEnvs, SaveBreaks(e) PROVE IInv'
  <2>1. PICK w, whole, part : /\ w = truth.env /\ whole = DeviceImage(e)
                              /\ part = [whole EXCEPT ![1].good = FALSE]
    OBVIOUS
  <2>2. DeviceWrites(part) BY <1>4, <2>1 DEF SaveBreaks
  <2>3. w \in Nat /\ w > 0 BY <1>1, <2>1, LayoutIs
  <2>4. /\ whole \in Seq(Blocks(truth)) /\ Len(whole) = w /\ DOMAIN whole = 1 .. w
        /\ \A i \in 1 .. w : whole[i].kind # "magic" /\ OwnForm(truth, whole[i])
    BY <1>1, <2>1, DeviceImageIs
  <2>5. \A i \in 1 .. w : whole[i] \in Blocks(truth) BY <2>4, ElementOfSeq
  <2>6. PICK b : b = [whole[1] EXCEPT !.good = FALSE] OBVIOUS
  <2>7. b \in Blocks(truth) /\ b.kind # "magic" /\ OwnForm(truth, b)
    <3>1. PICK h : h = whole[1] OBVIOUS
    <3>2. h \in Blocks(truth) /\ h.kind # "magic" /\ OwnForm(truth, h)
      BY <2>3, <2>4, <2>5, <3>1
    <3>3. b = [h EXCEPT !.good = FALSE] BY <2>6, <3>1
    <3>4. /\ b \in Blocks(truth) /\ b.kind = h.kind /\ b.header = h.header /\ b.order = h.order
      BY <3>2, <3>3 DEF Blocks
    <3> QED BY <3>2, <3>4 DEF OwnForm
  <2>8. \A i \in 1 .. w : part[i] = IF i = 1 THEN b ELSE whole[i] BY <2>1, <2>3, <2>4, <2>6
  <2>9. DOMAIN part = 1 .. w BY <2>1, <2>4
  <2>10. part \in Seq(Blocks(truth)) /\ Len(part) = w
    <3> DEFINE S == Blocks(truth)
    <3>1. \A i \in 1 .. w : part[i] \in S BY <2>5, <2>7, <2>8
    <3>2. part = [i \in 1 .. w |-> part[i]]
      <4>1. part = [i \in DOMAIN whole |-> part[i]] BY <2>1
      <4> QED BY <2>4, <4>1
    <3> HIDE DEF S
    <3>3. part \in [1 .. w -> S] BY <3>1, <3>2
    <3>4. part \in Seq(S) /\ Len(part) = w BY <2>3, <3>3, BlocksInSeq
    <3> QED BY <3>4 DEF S
  <2>11. \A i \in 1 .. w : part[i].kind # "magic" /\ OwnForm(truth, part[i])
    BY <2>4, <2>7, <2>8
  <2> QED BY <2>1, <2>2, <2>10, <2>11, DeviceIInv
<1>5. ASSUME EraseEnv PROVE IInv'
  <2>1. PICK part : part = ErasedPart OBVIOUS
  <2>2. DeviceWrites(part) BY <1>5, <2>1 DEF EraseEnv, ErasedPart
  <2>3. part \in FirstParts BY <2>1 DEF FirstParts
  <2>4. /\ part \in Seq(Blocks(truth)) /\ Len(part) = truth.env
        /\ \A i \in 1 .. truth.env : part[i].kind \notin {"magic", "env"}
    BY <1>1, <2>3, PartsAre
  <2>5. \A i \in 1 .. truth.env : part[i].kind # "magic" /\ OwnForm(truth, part[i])
    BY <2>4 DEF OwnForm
  <2> QED BY <2>2, <2>4, <2>5, DeviceIInv
<1>6. ASSUME PatchByInstall PROVE IInv'
  <2>1. PICK old \in {ubootenv_extract(image, args)} \ {None} : \E e \in Merged(old) : Patched(e, 4)
    BY <1>6 DEF PatchByInstall
  <2>2. PICK e \in Merged(old) : Patched(e, 4) BY <2>1
  <2>3. old \in Here(truth) /\ old.keys \in Nat /\ old.keys > 0 BY <2>1, ExtractedIs DEF IInv
  <2>4. e \in Here(truth) /\ e.keys >= old.keys BY <1>1, <2>2 DEF Merged
  <2>5. e.keys > 0
    <3>1. e.keys \in Nat BY <2>4, EnvsAre
    <3> QED BY <2>3, <2>4, <3>1
  <2> QED BY <2>2, <2>4, <2>5, PatchedIInv
<1>7. ASSUME UNCHANGED vars PROVE IInv' BY <1>7 DEF IInv, vars
<1> QED BY <1>2, <1>3, <1>4, <1>5, <1>6, <1>7 DEF Next

LEMMA SpecIInv == Spec => []IInv
<1> QED BY InitIInv, NextIInv, PTL DEF Spec

-------------------------------------------------------------------------------
(* What follows from it.                                                    *)

LEMMA DefaultStays == ASSUME IInv PROVE Default = first[Code(truth)].env
<1>1. Code(truth) \in 1 .. Code(truth) /\ Code(truth) = truth.start + truth.code
  <2>1. /\ Code(truth) \in Nat /\ Code(truth) > truth.start /\ truth.start \in Nat
        /\ Code(truth) = truth.start + truth.code
    BY LayoutIs DEF IInv
  <2> QED BY <2>1
<1>2. image[Code(truth)] = first[Code(truth)] BY <1>1 DEF IInv, UpToCode
<1> QED BY <1>1, <1>2 DEF Default

LEMMA KnownKept ==
  ASSUME IInv, Known
  PROVE  Knows(truth, args, first) /\ Kept(truth, first, image)
<1>1. Placed = Place(args) /\ TrueSize = TrueSz(truth, args) BY Words DEF IInv
<1>2. Marked = Marks(truth, first) BY DefaultStays DEF Marked, Marks
<1>3. Knows(truth, args, first) BY <1>1, <1>2 DEF Known, Knows, NoDecoy
<1> QED BY <1>3 DEF IInv

\* No sequence of patches touches the boot partition, the kernel or what follows, or makes
\* the image longer, when the user passes where the environment is, or nothing at all and
\* the code can be told from a kernel (_resolve_partition_layout, ubootenv_patch).
THEOREM NothingElseIsWritten == Spec => []BootAndKernelKept
<1>1. ASSUME IInv PROVE BootAndKernelKept
  <2> SUFFICES ASSUME TrueSize, Placed \/ (args.size = None /\ (NoDecoy \/ Marked))
               PROVE  /\ Len(image) = Len(first)
                      /\ \A i \in (1 .. Len(first)) \ EnvBlocks : image[i] = first[i]
    BY DEF BootAndKernelKept
  <2>1. /\ Placed = Place(args) /\ TrueSize = TrueSz(truth, args) /\ EnvBlocks = Part(truth)
    BY <1>1, Words DEF IInv
  <2>2. Marked = Marks(truth, first) BY <1>1, DefaultStays DEF Marked, Marks
  <2>3. Safe(truth, args, first) BY <2>1, <2>2 DEF Safe, NoDecoy
  <2>4. Kept(truth, first, image) BY <1>1, <2>3 DEF IInv
  <2> QED BY <2>1, <2>4 DEF Kept
<1> QED BY <1>1, SpecIInv, PTL

\* Once a layout is known, the partition holds what was patched in.
LEMMA KnownHolds ==
  ASSUME IInv, Known, wrote # None
  PROVE  /\ wrote.env \in Here(truth) /\ wrote.env.keys > 0 /\ wrote.header \in {4, 5}
         /\ Slice(image, At(truth), truth.env) =
              ubootenv_build(wrote.env, truth.env, wrote.header)
<1>1. Knows(truth, args, first) BY KnownKept
<1> QED BY <1>1 DEF IInv, Holds

\* Once a layout is known, what was patched in is what the device itself loads, as size
\* and place are those that U-Boot expects, if it was patched with the header that this
\* U-Boot has and U-Boot reads the low byte of the checksum first.  Otherwise the device
\* ignores the patch and falls back to the default in its code (ubootenv_build,
\* ubootenv_patch, the TODO in openipc_install).
THEOREM DeviceTakesPatches == Spec => []PatchTakes
<1>1. ASSUME IInv PROVE PatchTakes
  <2> SUFFICES ASSUME Known, wrote # None
               PROVE  DeviceEnv = IF Native THEN wrote.env ELSE Default
    BY DEF PatchTakes
  <2>1. PICK part, e, header : /\ part = Slice(image, At(truth), truth.env)
                               /\ e = wrote.env /\ header = wrote.header
    OBVIOUS
  <2>2. /\ e \in Here(truth) /\ e.keys > 0 /\ header \in {4, 5}
        /\ part = ubootenv_build(e, truth.env, header)
    BY <1>1, <2>1, KnownHolds
  <2>3. /\ Len(part) = truth.env /\ part[1].env = e /\ Checked(part, header, "little")
        /\ \A h \in {4, 5}, order \in Orders :
             Checked(part, h, order) => h = header /\ order = "little"
    BY <1>1, <2>2, WrittenIsChecked DEF IInv
  <2>4. truth.header \in {4, 5} /\ truth.order \in Orders BY <1>1, LayoutIs DEF IInv
  <2>5. Checked(part, truth.header, truth.order) <=> Native
    <3>1. ASSUME Checked(part, truth.header, truth.order) PROVE Native
      BY <2>1, <2>3, <2>4, <3>1 DEF Native
    <3>2. ASSUME Native PROVE Checked(part, truth.header, truth.order)
      <4>1. header = truth.header /\ truth.order = "little" BY <2>1, <2>4, <3>2 DEF Native
      <4> QED BY <2>3, <4>1
    <3> QED BY <3>1, <3>2
  <2>6. EnvAt = At(truth) BY <1>1, Words DEF IInv
  <2>7. DeviceEnv = IF Checked(part, truth.header, truth.order) THEN part[1].env ELSE Default
    BY <2>1, <2>3, <2>6 DEF DeviceEnv
  <2> QED BY <2>1, <2>3, <2>5, <2>7
<1> QED BY <1>1, SpecIInv, PTL

\* ... and what ubootenv_extract returns when it is called the same way, although the
\* patched text now takes part in the search for the layout.  That the device reads it too
\* does not follow: either header and either order of bytes will do here.
THEOREM PatchesReadBack == Spec => []ReadsBack
<1>1. ASSUME IInv PROVE ReadsBack
  <2> SUFFICES ASSUME Known, wrote # None PROVE ubootenv_extract(image, args) = wrote.env
    BY DEF ReadsBack
  <2>1. Knows(truth, args, first) /\ Kept(truth, first, image) BY <1>1, KnownKept
  <2>2. PICK e, header : e = wrote.env /\ header = wrote.header OBVIOUS
  <2>3. /\ e \in Here(truth) /\ e.keys > 0 /\ header \in {4, 5}
        /\ Slice(image, At(truth), truth.env) = ubootenv_build(e, truth.env, header)
    BY <1>1, <2>2, KnownHolds
  <2> QED BY <1>1, <2>1, <2>2, <2>3, WrittenIsRead DEF IInv
<1> QED BY <1>1, SpecIInv, PTL

\* With the place known, the effective environment is the one that the device uses: its
\* partition if the checksum fits, whatever that partition held before, and else the
\* default in its code.  This needs a partition that the device wrote last, or a patch in
\* the device's own form (ubootenv_extract, extract_default_env_from_uboot).
THEOREM EffectiveIsTheDevices == Spec => []EffectiveEnv
<1>1. ASSUME IInv PROVE EffectiveEnv
  <2> SUFFICES ASSUME Known, Placed, wrote # None => Native,
                      \A i \in EnvBlocks : image[i].kind # "raw"
               PROVE  ubootenv_extract(image, args) = DeviceEnv
    BY DEF EffectiveEnv
  <2>1. Knows(truth, args, first) /\ Kept(truth, first, image) BY <1>1, KnownKept
  <2>2. Place(args) /\ EnvBlocks = Part(truth) /\ EnvAt = At(truth) BY <1>1, Words DEF IInv
  <2>3. \A i \in Part(truth) : image[i].kind # "raw" BY <2>2
  <2>4. PICK part : part = Slice(image, At(truth), truth.env) OBVIOUS
  <2>5. ASSUME NEW header \in {4, 5}, NEW order \in Orders, Checked(part, header, order)
        PROVE  header = truth.header /\ order = truth.order
    <3>1. CASE wrote = None
      <4>1. PICK A, w, n : A = At(truth) /\ w = truth.env /\ n = Len(image) OBVIOUS
      <4>2. /\ A \in Nat /\ w \in Nat /\ w > 0 /\ Rest \in Nat /\ n = A + w + Rest
            /\ Part(truth) = A + 1 .. A + w
        <5>1. truth \in Layouts /\ FirstOK(truth, first) BY <1>1 DEF IInv
        <5>2. n = A + w + Rest BY <2>1, <4>1, <5>1 DEF Kept, FirstOK
        <5> QED BY <4>1, <5>1, <5>2, LayoutIs DEF Part
      <4>3. Len(part) = w /\ part[1] = image[A + 1]
        <5> DEFINE S == Blocks(truth)
        <5>1. image \in Seq(S) BY <1>1 DEF IInv, UpToCode
        <5> HIDE DEF S
        <5>2. A + w <= Len(image) BY <4>1, <4>2
        <5>3. LET s == Slice(image, A, w)
              IN  /\ s \in Seq(S) /\ Len(s) = w /\ DOMAIN s = 1 .. w
                  /\ \A i \in 1 .. w : s[i] = image[A + i]
          BY <4>2, <5>1, <5>2, WholeSlice
        <5>4. 1 \in 1 .. w BY <4>2
        <5> QED BY <2>4, <4>1, <5>3, <5>4
      <4>4. part[1].kind = "env" /\ part[1].header = header /\ part[1].order = order
        BY <2>5, <4>2, <4>3, CheckedIs
      <4>5. A + 1 \in Part(truth) BY <4>2
      <4>6. OwnForm(truth, image[A + 1]) BY <1>1, <2>1, <3>1, <4>5 DEF IInv, Holds
      <4> QED BY <4>3, <4>4, <4>6 DEF OwnForm
    <3>2. CASE wrote # None
      <4>1. PICK e, h : e = wrote.env /\ h = wrote.header OBVIOUS
      <4>2. /\ e \in Here(truth) /\ e.keys > 0 /\ h \in {4, 5}
            /\ part = ubootenv_build(e, truth.env, h)
        BY <1>1, <2>4, <3>2, <4>1, KnownHolds
      <4>3. header = h /\ order = "little" BY <1>1, <2>5, <4>2, WrittenIsChecked DEF IInv
      <4>4. truth.header = h /\ truth.order = "little"
        <5>1. truth.order \in Orders BY <1>1, LayoutIs DEF IInv
        <5> QED BY <3>2, <4>1, <5>1 DEF Native
      <4> QED BY <4>3, <4>4
    <3> QED BY <3>1, <3>2
  <2>6. /\ Len(part) = truth.env
        /\ ubootenv_extract(image, args) =
             IF Checked(part, truth.header, truth.order) THEN part[1].env
             ELSE first[Code(truth)].env
    BY <1>1, <2>1, <2>2, <2>3, <2>4, <2>5, EffectiveIs DEF IInv
  <2>7. Default = first[Code(truth)].env BY <1>1, DefaultStays
  <2> QED BY <2>2, <2>4, <2>6, <2>7 DEF DeviceEnv
<1> QED BY <1>1, SpecIInv, PTL

===============================================================================
