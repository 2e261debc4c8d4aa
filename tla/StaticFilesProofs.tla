--------------------------- MODULE StaticFilesProofs ---------------------------
(***************************************************************************)
(* What StaticFiles says of one served file holds for any number of WRQs    *)
(* and reads, any size of a body and any number of versions.                *)
(*                                                                          *)
(* SettledIsWhole and NoMix are about what is on disk, and nothing on disk  *)
(* tells who may still write to it.  So the invariant says what a writer    *)
(* that is alone has written so far, that being alone excludes every other  *)
(* writer of the inode, that none is left on a settled file, and that none  *)
(* is on the inode of an RRQ that has been calm.                            *)
(***************************************************************************)
EXTENDS StaticFiles, TLAPS, SequenceTheorems

\* The first n chunks of a body.
Prefix(v, n) == [i \in 1 .. n |-> v]

\* A writer has an inode that there is, and what is flushed has come.
HandsWrite ==
  \A w \in Hands : writes[w] # None =>
    /\ writes[w].inode \in 1 .. Len(inodes)
    /\ writes[w].flushed <= writes[w].came

\* What a writer that is alone has flushed is all of its inode, and it is the only
\* one there.
AloneIsAlone ==
  \A w \in Hands : writes[w] # None /\ writes[w].alone =>
    /\ inodes[writes[w].inode] = Prefix(writes[w].version, writes[w].flushed)
    /\ \A x \in Hands : writes[x] # None /\ writes[x].inode = writes[w].inode => x = w

\* On an inode that never had two writers, a writer is alone.
UncrowdedIsAlone ==
  \A w \in Hands : writes[w] # None /\ writes[w].inode \notin crowded => writes[w].alone

\* NoMix, with prefixes.
UncrowdedIsPrefix ==
  \A i \in 1 .. Len(inodes) : i \notin crowded =>
    \E v \in Versions : \E n \in 0 .. Size : inodes[i] = Prefix(v, n)

\* SettledIsWhole, and no writer is left on the file.
SettledIsLeft ==
  settled # None =>
    /\ name # None
    /\ inodes[name] = Prefix(settled, Size)
    /\ \A w \in Hands : writes[w] # None => writes[w].inode # name

\* What an RRQ reads is there; one that was opened on a settled file and not disturbed
\* since has sent a prefix of its body, the rest is there, and no one writes to it.
ReadsSend ==
  \A r \in Reads : reads[r] # None =>
    /\ reads[r].inode # None => reads[r].inode \in 1 .. Len(inodes)
    /\ reads[r].saw # None /\ reads[r].calm =>
         /\ Source(reads[r]) = Prefix(reads[r].saw, Size)
         /\ reads[r].inode # None =>
              \A w \in Hands : writes[w] # None => writes[w].inode # reads[r].inode
         /\ Len(reads[r].got) <= Size
         /\ \A i \in 1 .. Len(reads[r].got) : reads[r].got[i] = reads[r].saw

IInv == /\ TypeOK /\ HandsWrite /\ AloneIsAlone /\ UncrowdedIsAlone
        /\ UncrowdedIsPrefix /\ SettledIsLeft /\ ReadsSend

-------------------------------------------------------------------------------
(* What the helpers do.                                                     *)

\* A prefix of a body is a content.
LEMMA PrefixIsContent ==
  ASSUME NEW v \in Versions, NEW n \in 0 .. Size PROVE Prefix(v, n) \in Contents
BY SizesAreNats DEF Prefix, Contents

\* Chunks written behind a prefix make it longer.
LEMMA WrittenPrefix ==
  ASSUME NEW v \in Versions, NEW n \in 0 .. Size, NEW k \in 0 .. n
  PROVE  Written(Prefix(v, k), k + 1, n, v) = Prefix(v, n)
<1>1. Len(Prefix(v, k)) = k BY SizesAreNats DEF Prefix
<1>2. (IF n > Len(Prefix(v, k)) THEN n ELSE Len(Prefix(v, k))) = n BY <1>1, SizesAreNats
<1>3. Written(Prefix(v, k), k + 1, n, v)
        = [i \in 1 .. n |-> IF i \in k + 1 .. n THEN v ELSE IF i <= k THEN Prefix(v, k)[i] ELSE Hole]
  BY <1>1, <1>2 DEF Written
<1>4. \A i \in 1 .. n : (IF i \in k + 1 .. n THEN v ELSE IF i <= k THEN Prefix(v, k)[i] ELSE Hole) = v
  BY SizesAreNats DEF Prefix
<1> QED BY <1>3, <1>4 DEF Prefix

\* Chunks written anywhere leave a content.
LEMMA WrittenIsContent ==
  ASSUME NEW body \in Contents, NEW from \in Nat, NEW to \in 0 .. Size, NEW v \in Versions
  PROVE  Written(body, from, to, v) \in Contents
<1>1. PICK n \in 0 .. Size : body \in [1 .. n -> Versions \cup {Hole}] BY DEF Contents
<1>2. Len(body) = n BY <1>1, SizesAreNats
<1>3. PICK m \in 0 .. Size : m = (IF to > n THEN to ELSE n) BY <1>1, SizesAreNats
<1>4. Written(body, from, to, v)
        = [i \in 1 .. m |-> IF i \in from .. to THEN v ELSE IF i <= n THEN body[i] ELSE Hole]
  BY <1>2, <1>3 DEF Written
<1>5. \A i \in 1 .. m : (IF i \in from .. to THEN v ELSE IF i <= n THEN body[i] ELSE Hole)
                          \in Versions \cup {Hole}
  BY <1>1, <1>3, SizesAreNats
<1>6. Written(body, from, to, v) \in [1 .. m -> Versions \cup {Hole}] BY <1>4, <1>5
<1> QED BY <1>6, <1>3 DEF Contents

\* Opening for writing: the file is at Target with its new body, the other inodes are
\* as they were.
LEMMA EmptiedFacts ==
  ASSUME TypeOK, NEW body \in Contents
  PROVE  /\ Emptied(body) \in Seq(Contents)
         /\ Len(inodes) <= Len(Emptied(body)) /\ Len(Emptied(body)) <= Len(inodes) + 1
         /\ Target \in 1 .. Len(Emptied(body))
         /\ Emptied(body)[Target] = body
         /\ \A i \in 1 .. Len(Emptied(body)) : i # Target =>
              i \in 1 .. Len(inodes) /\ Emptied(body)[i] = inodes[i]
<1>1. CASE name = None
  BY <1>1, SizesAreNats DEF TypeOK, Emptied, Target
<1>2. CASE name # None
  <2>1. name \in 1 .. Len(inodes) BY <1>2 DEF TypeOK
  <2>2. Emptied(body) = [inodes EXCEPT ![name] = body] BY <1>2 DEF Emptied
  <2>3. Len(Emptied(body)) = Len(inodes) /\ Emptied(body) \in Seq(Contents)
    BY <2>1, <2>2 DEF TypeOK
  <2> QED BY <1>2, <2>1, <2>2, <2>3 DEF TypeOK, Target
<1> QED BY <1>1, <1>2

\* What Disturbed changes: who writes to the file is not alone any more.
LEMMA DisturbedFacts ==
  ASSUME TypeOK
  PROVE  /\ Disturbed \in [Hands -> Write \cup {None}]
         /\ \A w \in Hands :
              /\ Disturbed[w] # None <=> writes[w] # None
              /\ writes[w] # None =>
                   /\ Disturbed[w].inode = writes[w].inode
                   /\ Disturbed[w].version = writes[w].version
                   /\ Disturbed[w].came = writes[w].came
                   /\ Disturbed[w].flushed = writes[w].flushed
                   /\ writes[w].inode = Target => Disturbed[w].alone = FALSE
                   /\ writes[w].inode # Target => Disturbed[w].alone = writes[w].alone
<1>1. ASSUME NEW w \in Hands, writes[w] # None, writes[w].inode = Target
      PROVE  /\ Disturbed[w] = [writes[w] EXCEPT !.alone = FALSE]
             /\ Disturbed[w] \in Write /\ Disturbed[w] # None
             /\ writes[w] \in Write
  <2>1. Disturbed[w] = [writes[w] EXCEPT !.alone = FALSE] BY <1>1 DEF Disturbed, Writers
  <2>2. writes[w] \in Write BY <1>1 DEF TypeOK
  <2>3. Disturbed[w] \in Write BY <2>1, <2>2 DEF Write
  <2> QED BY <2>1, <2>2, <2>3, NoneIsNothing
<1>2. ASSUME NEW w \in Hands, ~(writes[w] # None /\ writes[w].inode = Target)
      PROVE  Disturbed[w] = writes[w]
  BY <1>2 DEF Disturbed, Writers
<1>3. ASSUME NEW w \in Hands PROVE Disturbed[w] \in Write \cup {None}
  BY <1>1, <1>2, <1>3 DEF TypeOK
<1>4. Disturbed \in [Hands -> Write \cup {None}] BY <1>3 DEF Disturbed
<1>5. ASSUME NEW w \in Hands, writes[w] # None, writes[w].inode = Target
      PROVE  /\ Disturbed[w].inode = writes[w].inode
             /\ Disturbed[w].version = writes[w].version
             /\ Disturbed[w].came = writes[w].came
             /\ Disturbed[w].flushed = writes[w].flushed
             /\ Disturbed[w].alone = FALSE
  BY <1>1, <1>5 DEF Write
<1> QED BY <1>1, <1>2, <1>4, <1>5

\* What Unsettled changes: an RRQ that reads the file is not calm any more.
LEMMA UnsettledFacts ==
  ASSUME TypeOK
  PROVE  /\ Unsettled \in [Reads -> Read \cup {None}]
         /\ \A r \in Reads :
              /\ Unsettled[r] # None <=> reads[r] # None
              /\ reads[r] # None =>
                   /\ Unsettled[r].inode = reads[r].inode
                   /\ reads[r].inode = Target => Unsettled[r].calm = FALSE
                   /\ reads[r].inode # Target => Unsettled[r] = reads[r]
<1>1. ASSUME NEW r \in Reads, reads[r] # None, reads[r].inode = Target
      PROVE  /\ Unsettled[r] \in Read /\ Unsettled[r] # None
             /\ Unsettled[r].inode = reads[r].inode /\ Unsettled[r].calm = FALSE
  <2>1. Unsettled[r] = [reads[r] EXCEPT !.calm = FALSE] BY <1>1 DEF Unsettled
  <2>2. reads[r] \in Read BY <1>1 DEF TypeOK
  <2>3. Unsettled[r] \in Read BY <2>1, <2>2 DEF Read
  <2>4. Unsettled[r].inode = reads[r].inode /\ Unsettled[r].calm = FALSE
    BY <2>1, <2>2 DEF Read
  <2> QED BY <2>3, <2>4, NoneIsNothing
<1>2. ASSUME NEW r \in Reads, ~(reads[r] # None /\ reads[r].inode = Target)
      PROVE  Unsettled[r] = reads[r]
  BY <1>2 DEF Unsettled
<1>3. ASSUME NEW r \in Reads PROVE Unsettled[r] \in Read \cup {None}
  BY <1>1, <1>2 DEF TypeOK
<1>4. Unsettled \in [Reads -> Read \cup {None}] BY <1>3 DEF Unsettled
<1> QED BY <1>1, <1>2, <1>4

\* A flush, of more or of nothing: no inode is added, only the one of the writer may
\* change, and that of one that is alone gets longer.
LEMMA FlushFacts ==
  ASSUME TypeOK, HandsWrite, NEW w \in Hands, writes[w] # None,
         NEW n \in writes[w].flushed .. writes[w].came, FlushTo(writes[w], n)
  PROVE  /\ inodes' \in Seq(Contents) /\ Len(inodes') = Len(inodes)
         /\ \A i \in 1 .. Len(inodes) : i # writes[w].inode => inodes'[i] = inodes[i]
         /\ inodes[writes[w].inode] = Prefix(writes[w].version, writes[w].flushed)
              => inodes'[writes[w].inode] = Prefix(writes[w].version, n)
<1> DEFINE up == writes[w]
<1>1. /\ up \in Write /\ up.inode \in 1 .. Len(inodes) /\ up.version \in Versions
      /\ up.flushed \in 0 .. Size /\ up.came \in 0 .. Size /\ n \in 0 .. Size
      /\ up.flushed \in 0 .. n
  BY SizesAreNats DEF TypeOK, HandsWrite, Write
<1>2. inodes \in Seq(Contents) /\ inodes[up.inode] \in Contents BY <1>1 DEF TypeOK
<1>3. CASE n = up.flushed
  BY <1>1, <1>2, <1>3 DEF FlushTo
<1>4. CASE n # up.flushed
  <2> DEFINE body == Written(inodes[up.inode], up.flushed + 1, n, up.version)
  <2>1. inodes' = [inodes EXCEPT ![up.inode] = body] BY <1>4 DEF FlushTo
  <2>2. body \in Contents BY <1>1, <1>2, WrittenIsContent
  <2>3. inodes[up.inode] = Prefix(up.version, up.flushed) => body = Prefix(up.version, n)
    BY <1>1, WrittenPrefix
  <2> HIDE DEF body, up
  <2> QED BY <1>1, <1>2, <2>1, <2>2, <2>3 DEF up
<1> QED BY <1>3, <1>4

\* RRQs are not disturbed by a step that opens nothing and touches only inodes that
\* someone writes to.
LEMMA ReadsStay ==
  ASSUME TypeOK, ReadsSend, reads' = reads,
         Len(inodes') \in Nat, Len(inodes) <= Len(inodes'),
         \A w \in Hands : writes'[w] # None =>
           writes[w] # None /\ writes'[w].inode = writes[w].inode,
         \A i \in 1 .. Len(inodes) :
           (\A w \in Hands : writes[w] # None => writes[w].inode # i) => inodes'[i] = inodes[i]
  PROVE  ReadsSend'
<1> SUFFICES ASSUME NEW r \in Reads, reads[r] # None
    PROVE  /\ reads[r].inode # None => reads[r].inode \in 1 .. Len(inodes')
           /\ reads[r].saw # None /\ reads[r].calm =>
                /\ Source(reads[r])' = Prefix(reads[r].saw, Size)
                /\ reads[r].inode # None =>
                     \A w \in Hands : writes'[w] # None => writes'[w].inode # reads[r].inode
                /\ Len(reads[r].got) <= Size
                /\ \A i \in 1 .. Len(reads[r].got) : reads[r].got[i] = reads[r].saw
  BY DEF ReadsSend
<1>1. Len(inodes) \in Nat BY DEF TypeOK
<1>2. reads[r].inode # None => reads[r].inode \in 1 .. Len(inodes) BY DEF ReadsSend
<1>3. reads[r].inode # None => reads[r].inode \in 1 .. Len(inodes') BY <1>1, <1>2
<1>4. ASSUME reads[r].saw # None, reads[r].calm
      PROVE  /\ Source(reads[r])' = Prefix(reads[r].saw, Size)
             /\ reads[r].inode # None =>
                  \A w \in Hands : writes'[w] # None => writes'[w].inode # reads[r].inode
  <2>1. /\ Source(reads[r]) = Prefix(reads[r].saw, Size)
        /\ reads[r].inode # None =>
             \A w \in Hands : writes[w] # None => writes[w].inode # reads[r].inode
    BY <1>4 DEF ReadsSend
  <2>2. reads[r].inode # None => inodes'[reads[r].inode] = inodes[reads[r].inode]
    BY <1>2, <2>1
  <2>3. Source(reads[r])' = Source(reads[r]) BY <2>2 DEF Source
  <2> QED BY <2>1, <2>3
<1> QED BY <1>3, <1>4 DEF ReadsSend

-------------------------------------------------------------------------------
(* The invariant, action by action.                                         *)

LEMMA InitIInv == Init => IInv
<1> SUFFICES ASSUME Init PROVE IInv OBVIOUS
<1> USE DEF Init
<1>1. TypeOK BY SizesAreNats DEF TypeOK
<1> QED BY <1>1 DEF IInv, HandsWrite, AloneIsAlone, UncrowdedIsAlone, UncrowdedIsPrefix,
                    SettledIsLeft, ReadsSend

\* Opening a file to write to it empties the inode of the name: whoever writes to it is
\* not alone any more, who reads it not calm, and nothing is settled.
LEMMA OpenStep ==
  ASSUME IInv, NEW w \in Hands, NEW came \in 0 .. Size, Open(w, came) PROVE IInv'
<1>0. TypeOK /\ HandsWrite /\ AloneIsAlone /\ UncrowdedIsAlone /\ UncrowdedIsPrefix /\ ReadsSend
  BY DEF IInv
<1>1. <<>> \in Contents
  <2>1. <<>> \in [1 .. 0 -> Versions \cup {Hole}] OBVIOUS
  <2> QED BY <2>1, SizesAreNats DEF Contents
<1>2. /\ writes[w] = None /\ made < MaxVersion /\ made' = made + 1
      /\ inodes' = Emptied(<<>>) /\ name' = Target /\ settled' = None /\ reads' = Unsettled
      /\ crowded' = crowded \cup Crowding /\ looking' = looking
  BY DEF Open, NewVersion
<1> DEFINE new == [inode |-> Target, version |-> made', came |-> came, flushed |-> 0,
                   alone |-> Writers(Target) = {}]
<1>3. writes' = [Disturbed EXCEPT ![w] = new] BY DEF Open
<1>4. /\ inodes' \in Seq(Contents) /\ Len(inodes) <= Len(inodes') /\ Len(inodes') <= made'
      /\ Target \in 1 .. Len(inodes') /\ inodes'[Target] = <<>>
      /\ \A i \in 1 .. Len(inodes') : i # Target =>
           i \in 1 .. Len(inodes) /\ inodes'[i] = inodes[i]
      /\ Len(inodes) \in Nat /\ Len(inodes') \in Nat /\ made' \in 1 .. MaxVersion
  <2>1. /\ Emptied(<<>>) \in Seq(Contents)
        /\ Len(inodes) <= Len(Emptied(<<>>)) /\ Len(Emptied(<<>>)) <= Len(inodes) + 1
        /\ Target \in 1 .. Len(Emptied(<<>>)) /\ Emptied(<<>>)[Target] = <<>>
        /\ \A i \in 1 .. Len(Emptied(<<>>)) : i # Target =>
             i \in 1 .. Len(inodes) /\ Emptied(<<>>)[i] = inodes[i]
    BY <1>0, <1>1, EmptiedFacts
  <2>2. /\ inodes \in Seq(Contents) /\ Len(inodes) <= made /\ made \in 0 .. MaxVersion
    BY <1>0 DEF TypeOK
  <2>3. Len(inodes) \in Nat BY <2>2
  <2>4. Len(Emptied(<<>>)) \in Nat BY <2>1
  <2>5. made' \in 1 .. MaxVersion BY <1>2, <2>2, SizesAreNats
  <2>6. Len(Emptied(<<>>)) <= made' BY <1>2, <2>1, <2>2, <2>3, <2>4
  <2> QED BY <1>2, <2>1, <2>3, <2>4, <2>5, <2>6
<1>5. new \in Write
  <2>1. Target \in Inodes BY <1>4, SizesAreNats DEF Inodes
  <2>2. made' \in Versions BY <1>4 DEF Versions
  <2>3. (Writers(Target) = {}) \in BOOLEAN OBVIOUS
  <2> QED BY <2>1, <2>2, <2>3, SizesAreNats DEF Write
<1>6. /\ writes' \in [Hands -> Write \cup {None}]
      /\ writes'[w] = new
      /\ \A x \in Hands : x # w => writes'[x] = Disturbed[x]
  BY <1>0, <1>3, <1>5, DisturbedFacts
<1>7. new # None /\ new.inode = Target /\ new.flushed = 0 /\ new.came = came
      /\ new.version = made' /\ (new.alone <=> Writers(Target) = {})
  BY <1>5, NoneIsNothing
<1> HIDE DEF new
<1>7a. \A x \in Hands : x # w =>
         /\ writes'[x] # None <=> writes[x] # None
         /\ writes[x] # None =>
              /\ writes'[x].inode = writes[x].inode
              /\ writes'[x].version = writes[x].version
              /\ writes'[x].came = writes[x].came
              /\ writes'[x].flushed = writes[x].flushed
              /\ writes[x].inode = Target => writes'[x].alone = FALSE
              /\ writes[x].inode # Target => writes'[x].alone = writes[x].alone
  BY <1>0, <1>6, DisturbedFacts
<1>8. TypeOK'
  <2>1. crowded \subseteq 1 .. Len(inodes) BY <1>0 DEF TypeOK
  <2>2. Crowding \subseteq {Target} BY DEF Crowding
  <2>3. crowded' \subseteq 1 .. Len(inodes') BY <1>2, <1>4, <2>1, <2>2
  <2>4. reads' \in [Reads -> Read \cup {None}] BY <1>0, <1>2, UnsettledFacts
  <2> QED BY <1>0, <1>2, <1>4, <1>6, <2>3, <2>4 DEF TypeOK
<1>9. HandsWrite'
  BY <1>0, <1>4, <1>6, <1>7, <1>7a, SizesAreNats DEF HandsWrite
<1>10. AloneIsAlone'
  <2> SUFFICES ASSUME NEW x \in Hands, writes'[x] # None, writes'[x].alone
      PROVE  /\ inodes'[writes'[x].inode] = Prefix(writes'[x].version, writes'[x].flushed)
             /\ \A y \in Hands : writes'[y] # None /\ writes'[y].inode = writes'[x].inode
                                     => y = x
    BY DEF AloneIsAlone
  <2>1. CASE x = w
    <3>1. Writers(Target) = {} BY <1>6, <1>7, <2>1
    <3>2. Prefix(made', 0) = <<>> BY DEF Prefix
    <3>3. \A y \in Hands : y # w /\ writes'[y] # None => writes'[y].inode # Target
      BY <1>7a, <3>1 DEF Writers
    <3> QED BY <1>4, <1>6, <1>7, <2>1, <3>2, <3>3
  <2>2. CASE x # w
    <3>1. writes[x] # None /\ writes[x].alone /\ writes[x].inode # Target
          /\ writes'[x].inode = writes[x].inode /\ writes'[x].version = writes[x].version
          /\ writes'[x].flushed = writes[x].flushed
      BY <1>7a, <2>2
    <3>2. writes[x].inode \in 1 .. Len(inodes') BY <1>0, <1>4, <3>1 DEF HandsWrite
    <3>3. inodes'[writes[x].inode] = inodes[writes[x].inode] BY <1>4, <3>1, <3>2
    <3>4. \A y \in Hands : writes'[y] # None /\ writes'[y].inode = writes[x].inode
                              => writes[y] # None /\ writes[y].inode = writes[x].inode
      BY <1>6, <1>7, <1>7a, <3>1
    <3> QED BY <1>0, <3>1, <3>3, <3>4 DEF AloneIsAlone
  <2> QED BY <2>1, <2>2
<1>11. UncrowdedIsAlone'
  <2> SUFFICES ASSUME NEW x \in Hands, writes'[x] # None, writes'[x].inode \notin crowded'
      PROVE  writes'[x].alone
    BY DEF UncrowdedIsAlone
  <2>1. CASE x = w BY <1>2, <1>6, <1>7, <2>1 DEF Crowding
  <2>2. CASE x # w
    <3>1. writes[x] # None /\ writes'[x].inode = writes[x].inode
      BY <1>7a, <2>2
    <3>2. writes[x].inode # Target
      BY <1>2, <3>1 DEF Crowding, Writers
    <3> QED BY <1>0, <1>2, <1>7a, <2>2, <3>1, <3>2 DEF UncrowdedIsAlone
  <2> QED BY <2>1, <2>2
<1>12. UncrowdedIsPrefix'
  <2> SUFFICES ASSUME NEW i \in 1 .. Len(inodes'), i \notin crowded'
      PROVE  \E v \in Versions : \E n \in 0 .. Size : inodes'[i] = Prefix(v, n)
    BY DEF UncrowdedIsPrefix
  <2>1. CASE i = Target
    <3>1. Prefix(made', 0) = <<>> BY DEF Prefix
    <3>2. made' \in Versions /\ 0 \in 0 .. Size BY <1>4, SizesAreNats DEF Versions
    <3> QED BY <1>4, <2>1, <3>1, <3>2
  <2>2. CASE i # Target BY <1>0, <1>2, <1>4, <2>2 DEF UncrowdedIsPrefix
  <2> QED BY <2>1, <2>2
<1>13. SettledIsLeft' BY <1>2 DEF SettledIsLeft
<1>14. ReadsSend'
  <2> SUFFICES ASSUME NEW r \in Reads, reads'[r] # None
      PROVE  /\ reads'[r].inode # None => reads'[r].inode \in 1 .. Len(inodes')
             /\ reads'[r].saw # None /\ reads'[r].calm =>
                  /\ Source(reads[r])' = Prefix(reads'[r].saw, Size)
                  /\ reads'[r].inode # None =>
                       \A x \in Hands : writes'[x] # None => writes'[x].inode # reads'[r].inode
                  /\ Len(reads'[r].got) <= Size
                  /\ \A i \in 1 .. Len(reads'[r].got) : reads'[r].got[i] = reads'[r].saw
    BY DEF ReadsSend
  <2>1. /\ reads[r] # None
        /\ reads'[r].inode = reads[r].inode
        /\ reads[r].inode = Target => reads'[r].calm = FALSE
        /\ reads[r].inode # Target => reads'[r] = reads[r]
    BY <1>0, <1>2, UnsettledFacts
  <2>2. reads[r].inode # None => reads[r].inode \in 1 .. Len(inodes) BY <1>0, <2>1 DEF ReadsSend
  <2>3. reads'[r].inode # None => reads'[r].inode \in 1 .. Len(inodes') BY <1>4, <2>1, <2>2
  <2>4. ASSUME reads'[r].saw # None, reads'[r].calm
        PROVE  /\ Source(reads[r])' = Prefix(reads'[r].saw, Size)
               /\ reads'[r].inode # None =>
                    \A x \in Hands : writes'[x] # None => writes'[x].inode # reads'[r].inode
               /\ Len(reads'[r].got) <= Size
               /\ \A i \in 1 .. Len(reads'[r].got) : reads'[r].got[i] = reads'[r].saw
    <3>1. reads[r].inode # Target /\ reads'[r] = reads[r] BY <2>1, <2>4
    <3>2. /\ Source(reads[r]) = Prefix(reads[r].saw, Size)
          /\ reads[r].inode # None =>
               \A x \in Hands : writes[x] # None => writes[x].inode # reads[r].inode
          /\ Len(reads[r].got) <= Size
          /\ \A i \in 1 .. Len(reads[r].got) : reads[r].got[i] = reads[r].saw
      BY <1>0, <2>1, <2>4, <3>1 DEF ReadsSend
    <3>3. reads[r].inode # None => inodes'[reads[r].inode] = inodes[reads[r].inode]
      BY <1>4, <2>1, <2>3, <3>1
    <3>4. Source(reads[r])' = Source(reads[r]) BY <3>1, <3>3 DEF Source
    <3>5. reads[r].inode # None =>
            \A x \in Hands : writes'[x] # None => writes'[x].inode # reads[r].inode
      BY <1>6, <1>7, <1>7a, <3>1, <3>2
    <3> QED BY <3>1, <3>2, <3>4, <3>5
  <2> QED BY <2>3, <2>4
<1> QED BY <1>8, <1>9, <1>10, <1>11, <1>12, <1>13, <1>14 DEF IInv

\* What is only buffered changes nothing on disk.
LEMMA ReceiveStep ==
  ASSUME IInv, NEW w \in Hands, Receive(w) PROVE IInv'
<1>0. /\ TypeOK /\ HandsWrite /\ AloneIsAlone /\ UncrowdedIsAlone
      /\ UncrowdedIsPrefix /\ SettledIsLeft /\ ReadsSend
  BY DEF IInv
<1>1. /\ writes[w] # None /\ writes[w] \in Write /\ writes[w].came < Size
      /\ name' = name /\ inodes' = inodes /\ reads' = reads /\ made' = made
      /\ settled' = settled /\ crowded' = crowded /\ looking' = looking
  BY <1>0 DEF Receive, TypeOK
<1> DEFINE new == [writes[w] EXCEPT !.came = writes[w].came + 1]
<1>2. writes' = [writes EXCEPT ![w] = new] BY DEF Receive
<1>3. /\ new \in Write /\ new # None
      /\ new.inode = writes[w].inode /\ new.version = writes[w].version
      /\ new.flushed = writes[w].flushed /\ new.came = writes[w].came + 1
      /\ new.alone = writes[w].alone
  <2>1. new \in Write BY <1>1, SizesAreNats DEF Write
  <2>2. /\ new.inode = writes[w].inode /\ new.version = writes[w].version
        /\ new.flushed = writes[w].flushed /\ new.came = writes[w].came + 1
        /\ new.alone = writes[w].alone
    BY <1>1 DEF Write
  <2> QED BY <2>1, <2>2, NoneIsNothing
<1> HIDE DEF new
<1>4. writes' \in [Hands -> Write \cup {None}] /\ writes'[w] = new
      /\ \A x \in Hands : x # w => writes'[x] = writes[x]
  BY <1>0, <1>2, <1>3 DEF TypeOK
<1>5. TypeOK' BY <1>0, <1>1, <1>4 DEF TypeOK
<1>6. HandsWrite'
  <2>1. writes[w].flushed <= writes[w].came + 1
    BY <1>0, <1>1, SizesAreNats DEF HandsWrite, Write
  <2> QED BY <1>0, <1>1, <1>3, <1>4, <2>1 DEF HandsWrite
<1>7. AloneIsAlone' BY <1>0, <1>1, <1>3, <1>4 DEF AloneIsAlone
<1>8. UncrowdedIsAlone' BY <1>0, <1>1, <1>3, <1>4 DEF UncrowdedIsAlone
<1>9. UncrowdedIsPrefix' BY <1>0, <1>1 DEF UncrowdedIsPrefix
<1>10. SettledIsLeft' BY <1>0, <1>1, <1>3, <1>4 DEF SettledIsLeft
<1>11. ReadsSend'
  <2>1. Len(inodes') \in Nat /\ Len(inodes) <= Len(inodes') BY <1>0, <1>1 DEF TypeOK
  <2>2. \A x \in Hands : writes'[x] # None => writes[x] # None /\ writes'[x].inode = writes[x].inode
    BY <1>1, <1>3, <1>4
  <2> QED BY <1>0, <1>1, <2>1, <2>2, ReadsStay
<1> QED BY <1>5, <1>6, <1>7, <1>8, <1>9, <1>10, <1>11 DEF IInv

\* A flush of a writer that then goes on with what it has flushed, or is gone:
\* of whom else may have the inode, no one is alone.
LEMMA FlushedStep ==
  ASSUME IInv, NEW w \in Hands, writes[w] # None,
         NEW n \in writes[w].flushed .. writes[w].came, FlushTo(writes[w], n),
         NEW new \in Write \cup {None}, writes' = [writes EXCEPT ![w] = new],
         new # None => /\ new.inode = writes[w].inode /\ new.version = writes[w].version
                       /\ new.came = writes[w].came /\ new.flushed = n
                       /\ new.alone = writes[w].alone,
         name' = name, crowded' = crowded, made' = made, reads' = reads
  PROVE  /\ inodes' \in Seq(Contents) /\ Len(inodes') = Len(inodes)
         /\ writes' \in [Hands -> Write \cup {None}]
         /\ HandsWrite' /\ AloneIsAlone' /\ UncrowdedIsAlone' /\ UncrowdedIsPrefix'
         /\ ReadsSend'
         /\ settled # None => inodes'[name] = Prefix(settled, Size)
         /\ writes[w].alone =>
              /\ inodes'[writes[w].inode] = Prefix(writes[w].version, n)
              /\ \A x \in Hands : x # w /\ writes[x] # None => writes[x].inode # writes[w].inode
         /\ \A x \in Hands : x # w => writes'[x] = writes[x]
         /\ writes'[w] = new
<1>0. /\ TypeOK /\ HandsWrite /\ AloneIsAlone /\ UncrowdedIsAlone
      /\ UncrowdedIsPrefix /\ SettledIsLeft /\ ReadsSend
  BY DEF IInv
<1> DEFINE up == writes[w]
<1>1. up \in Write /\ up.version \in Versions /\ n \in 0 .. Size /\ n <= up.came
      /\ up.inode \in 1 .. Len(inodes)
  BY <1>0, SizesAreNats DEF TypeOK, Write, HandsWrite
<1>2. /\ inodes' \in Seq(Contents) /\ Len(inodes') = Len(inodes)
      /\ \A i \in 1 .. Len(inodes) : i # up.inode => inodes'[i] = inodes[i]
      /\ inodes[up.inode] = Prefix(up.version, up.flushed) => inodes'[up.inode] = Prefix(up.version, n)
  BY <1>0, FlushFacts
<1>3. /\ writes' \in [Hands -> Write \cup {None}] /\ writes'[w] = new
      /\ \A x \in Hands : x # w => writes'[x] = writes[x]
  BY <1>0 DEF TypeOK
<1>4. up.alone => /\ inodes'[up.inode] = Prefix(up.version, n)
                  /\ \A x \in Hands : x # w /\ writes[x] # None => writes[x].inode # up.inode
  BY <1>0, <1>2 DEF AloneIsAlone
<1>5. HandsWrite' BY <1>0, <1>1, <1>2, <1>3 DEF HandsWrite
<1>6. AloneIsAlone'
  <2> SUFFICES ASSUME NEW x \in Hands, writes'[x] # None, writes'[x].alone
      PROVE  /\ inodes'[writes'[x].inode] = Prefix(writes'[x].version, writes'[x].flushed)
             /\ \A y \in Hands : writes'[y] # None /\ writes'[y].inode = writes'[x].inode
                                     => y = x
    BY DEF AloneIsAlone
  <2>1. \A y \in Hands : writes'[y] # None =>
          writes[y] # None /\ writes'[y].inode = writes[y].inode
                            /\ writes'[y].alone = writes[y].alone
    BY <1>3
  <2>2. \A y \in Hands : writes'[y] # None /\ writes'[y].inode = writes'[x].inode => y = x
    BY <1>0, <2>1 DEF AloneIsAlone
  <2>3. CASE x = w BY <1>3, <1>4, <2>3
  <2>4. CASE x # w
    <3>1. writes'[x] = writes[x] /\ writes[x] # None BY <1>3, <2>4
    <3>2. up.inode # writes[x].inode BY <1>0, <2>4, <3>1 DEF AloneIsAlone
    <3>3. writes[x].inode \in 1 .. Len(inodes) BY <1>0, <3>1 DEF HandsWrite
    <3>4. inodes'[writes[x].inode] = inodes[writes[x].inode] BY <1>2, <3>2, <3>3
    <3> QED BY <1>0, <2>2, <3>1, <3>4 DEF AloneIsAlone
  <2> QED BY <2>3, <2>4
<1>7. UncrowdedIsAlone' BY <1>0, <1>3 DEF UncrowdedIsAlone
<1>8. UncrowdedIsPrefix'
  <2> SUFFICES ASSUME NEW i \in 1 .. Len(inodes'), i \notin crowded'
      PROVE  \E v \in Versions : \E m \in 0 .. Size : inodes'[i] = Prefix(v, m)
    BY DEF UncrowdedIsPrefix
  <2>1. CASE i = up.inode
    <3>1. up.alone BY <1>0, <2>1 DEF UncrowdedIsAlone
    <3> QED BY <1>1, <1>4, <2>1, <3>1
  <2>2. CASE i # up.inode BY <1>0, <1>2, <2>2 DEF UncrowdedIsPrefix
  <2> QED BY <2>1, <2>2
<1>9. settled # None => inodes'[name] = Prefix(settled, Size)
  <2> SUFFICES ASSUME settled # None PROVE inodes'[name] = Prefix(settled, Size)
    OBVIOUS
  <2>1. name # None /\ inodes[name] = Prefix(settled, Size) /\ up.inode # name
    BY <1>0 DEF SettledIsLeft
  <2>2. name \in 1 .. Len(inodes) BY <1>0, <2>1 DEF TypeOK
  <2> QED BY <1>2, <2>1, <2>2
<1>10. ReadsSend'
  <2>1. Len(inodes') \in Nat /\ Len(inodes) <= Len(inodes') BY <1>0, <1>2 DEF TypeOK
  <2>2. \A x \in Hands : writes'[x] # None => writes[x] # None /\ writes'[x].inode = writes[x].inode
    BY <1>3
  <2>3. \A i \in 1 .. Len(inodes) :
          (\A x \in Hands : writes[x] # None => writes[x].inode # i) => inodes'[i] = inodes[i]
    BY <1>2
  <2> QED BY <1>0, <2>1, <2>2, <2>3, ReadsStay
<1> QED BY <1>2, <1>3, <1>4, <1>5, <1>6, <1>7, <1>8, <1>9, <1>10

\* Some of it goes to disk.
LEMMA FlushStep ==
  ASSUME IInv, NEW w \in Hands, Flush(w) PROVE IInv'
<1>0. TypeOK /\ HandsWrite /\ SettledIsLeft BY DEF IInv
<1>1. PICK n \in writes[w].flushed + 1 .. writes[w].came :
        FlushTo(writes[w], n) /\ writes' = [writes EXCEPT ![w].flushed = n]
  BY DEF Flush
<1>1a. /\ writes[w] # None
      /\ name' = name /\ reads' = reads /\ made' = made /\ settled' = settled
      /\ crowded' = crowded /\ looking' = looking
  BY DEF Flush
<1> DEFINE new == [writes[w] EXCEPT !.flushed = n]
<1>2. writes' = [writes EXCEPT ![w] = new] /\ FlushTo(writes[w], n) BY <1>1
<1>3. writes[w] \in Write /\ n \in writes[w].flushed .. writes[w].came /\ n \in 0 .. Size
  BY <1>0, <1>1, <1>1a, SizesAreNats DEF TypeOK, Write
<1>4. /\ new \in Write
      /\ new.inode = writes[w].inode /\ new.version = writes[w].version
      /\ new.came = writes[w].came /\ new.flushed = n
      /\ new.alone = writes[w].alone
  BY <1>3 DEF Write
<1> HIDE DEF new
<1>5. /\ inodes' \in Seq(Contents) /\ Len(inodes') = Len(inodes)
      /\ writes' \in [Hands -> Write \cup {None}]
      /\ HandsWrite' /\ AloneIsAlone' /\ UncrowdedIsAlone' /\ UncrowdedIsPrefix'
      /\ ReadsSend'
      /\ settled # None => inodes'[name] = Prefix(settled, Size)
      /\ \A x \in Hands : x # w => writes'[x] = writes[x]
      /\ writes'[w] = new
  BY <1>1a, <1>2, <1>3, <1>4, FlushedStep
<1>6. TypeOK' BY <1>0, <1>1a, <1>5 DEF TypeOK
<1>7. SettledIsLeft' BY <1>0, <1>1a, <1>4, <1>5 DEF SettledIsLeft
<1> QED BY <1>5, <1>6, <1>7 DEF IInv

\* A writer that was alone to its end settles the file.
LEMMA CompleteStep ==
  ASSUME IInv, NEW w \in Hands, Complete(w) PROVE IInv'
<1>0. TypeOK /\ HandsWrite /\ SettledIsLeft BY DEF IInv
<1>1. /\ writes[w] # None /\ writes[w].came = Size /\ FlushTo(writes[w], Size)
      /\ writes' = [writes EXCEPT ![w] = None]
      /\ name' = name /\ reads' = reads /\ made' = made /\ crowded' = crowded
      /\ looking' = looking
      /\ settled' = IF writes[w].alone /\ writes[w].inode = name THEN writes[w].version
                                                                   ELSE settled
  BY DEF Complete
<1>2. /\ writes[w] \in Write /\ writes[w].version \in Versions
      /\ Size \in writes[w].flushed .. writes[w].came
      /\ writes[w].inode \in 1 .. Len(inodes)
  BY <1>0, <1>1, SizesAreNats DEF TypeOK, Write, HandsWrite
<1>3. /\ inodes' \in Seq(Contents) /\ Len(inodes') = Len(inodes)
      /\ writes' \in [Hands -> Write \cup {None}]
      /\ HandsWrite' /\ AloneIsAlone' /\ UncrowdedIsAlone' /\ UncrowdedIsPrefix'
      /\ ReadsSend'
      /\ settled # None => inodes'[name] = Prefix(settled, Size)
      /\ writes[w].alone =>
           /\ inodes'[writes[w].inode] = Prefix(writes[w].version, Size)
           /\ \A x \in Hands : x # w /\ writes[x] # None => writes[x].inode # writes[w].inode
      /\ \A x \in Hands : x # w => writes'[x] = writes[x]
      /\ writes'[w] = None
  BY <1>1, <1>2, FlushedStep
<1>4. TypeOK' BY <1>0, <1>1, <1>2, <1>3 DEF TypeOK
<1>5. SettledIsLeft'
  <2>1. CASE writes[w].alone /\ writes[w].inode = name
    <3>1. settled' = writes[w].version BY <1>1, <2>1
    <3>2. writes[w].inode \in Inodes BY <1>2 DEF Write
    <3>3. name # None BY <2>1, <3>2, NoneIsNothing DEF Inodes, Versions
    <3> QED BY <1>1, <1>3, <2>1, <3>1, <3>3 DEF SettledIsLeft
  <2>2. CASE ~(writes[w].alone /\ writes[w].inode = name)
    BY <1>0, <1>1, <1>3, <2>2 DEF SettledIsLeft
  <2> QED BY <2>1, <2>2
<1> QED BY <1>3, <1>4, <1>5 DEF IInv

\* A writer that is broken off was on a file that is not settled.
LEMMA AbortStep ==
  ASSUME IInv, NEW w \in Hands, Abort(w) PROVE IInv'
<1>0. TypeOK /\ HandsWrite /\ SettledIsLeft BY DEF IInv
<1>1. /\ writes[w] # None /\ looking' = looking
      /\ writes' = [writes EXCEPT ![w] = None]
      /\ name' = name /\ reads' = reads /\ made' = made /\ crowded' = crowded
      /\ settled' = settled
  BY DEF Abort
<1>2. PICK n \in writes[w].flushed .. writes[w].came : FlushTo(writes[w], n)
  BY DEF Abort
<1>3. /\ inodes' \in Seq(Contents) /\ Len(inodes') = Len(inodes)
      /\ writes' \in [Hands -> Write \cup {None}]
      /\ HandsWrite' /\ AloneIsAlone' /\ UncrowdedIsAlone' /\ UncrowdedIsPrefix'
      /\ ReadsSend'
      /\ settled # None => inodes'[name] = Prefix(settled, Size)
      /\ \A x \in Hands : x # w => writes'[x] = writes[x]
      /\ writes'[w] = None
  BY <1>1, <1>2, FlushedStep
<1>4. TypeOK' BY <1>0, <1>1, <1>3 DEF TypeOK
<1>5. SettledIsLeft' BY <1>0, <1>1, <1>3 DEF SettledIsLeft
<1> QED BY <1>3, <1>4, <1>5 DEF IInv

\* A download has an inode of its own.
LEMMA PublishStep == ASSUME IInv, Publish PROVE IInv'
<1>0. TypeOK /\ HandsWrite /\ AloneIsAlone /\ UncrowdedIsAlone /\ UncrowdedIsPrefix /\ ReadsSend
  BY DEF IInv
<1>1. /\ made < MaxVersion /\ made' = made + 1 /\ inodes' = Append(inodes, Body(made'))
      /\ name' = Len(inodes') /\ settled' = made'
      /\ writes' = writes /\ reads' = reads /\ crowded' = crowded
      /\ looking' = looking
  BY DEF Publish, NewVersion
<1>2. made' \in Versions /\ Body(made') = Prefix(made', Size) /\ Size \in 0 .. Size
  BY <1>0, <1>1, SizesAreNats DEF TypeOK, Versions, Body, Prefix
<1>3. Body(made') \in Contents BY <1>2, PrefixIsContent
<1>4. inodes \in Seq(Contents) /\ Len(inodes) \in Nat /\ Len(inodes) <= made
      /\ made \in 0 .. MaxVersion
  BY <1>0 DEF TypeOK
<1>5. /\ inodes' \in Seq(Contents) /\ Len(inodes') = Len(inodes) + 1
      /\ inodes'[Len(inodes) + 1] = Prefix(made', Size)
      /\ \A i \in 1 .. Len(inodes) : inodes'[i] = inodes[i]
  BY <1>1, <1>2, <1>3, <1>4
<1>6. TypeOK'
  <2>1. crowded' \subseteq 1 .. Len(inodes') BY <1>0, <1>1, <1>4, <1>5 DEF TypeOK
  <2>2. name' \in 1 .. Len(inodes') BY <1>1, <1>4, <1>5
  <2>3. Len(inodes') <= made' /\ made' \in 0 .. MaxVersion
    BY <1>1, <1>4, <1>5, SizesAreNats
  <2> QED BY <1>0, <1>1, <1>2, <1>5, <2>1, <2>2, <2>3 DEF TypeOK
<1>7. HandsWrite' BY <1>0, <1>1, <1>4, <1>5 DEF HandsWrite
<1>8. AloneIsAlone' BY <1>0, <1>1, <1>5 DEF AloneIsAlone, HandsWrite
<1>9. UncrowdedIsAlone' BY <1>0, <1>1 DEF UncrowdedIsAlone
<1>10. UncrowdedIsPrefix'
  <2> SUFFICES ASSUME NEW i \in 1 .. Len(inodes'), i \notin crowded'
      PROVE  \E v \in Versions : \E n \in 0 .. Size : inodes'[i] = Prefix(v, n)
    BY DEF UncrowdedIsPrefix
  <2>1. CASE i = Len(inodes) + 1 BY <1>2, <1>5, <2>1
  <2>2. CASE i \in 1 .. Len(inodes) BY <1>0, <1>1, <1>5, <2>2 DEF UncrowdedIsPrefix
  <2> QED BY <1>4, <1>5, <2>1, <2>2
<1>11. SettledIsLeft'
  <2>1. name' \in Versions BY <1>1, <1>4, <1>5, SizesAreNats DEF Versions
  <2>2. name' # None BY <2>1, NoneIsNothing
  <2>3. \A x \in Hands : writes'[x] # None => writes'[x].inode # name'
    BY <1>0, <1>1, <1>4, <1>5 DEF HandsWrite
  <2> QED BY <1>1, <1>5, <2>2, <2>3 DEF SettledIsLeft
<1>12. ReadsSend'
  <2>1. Len(inodes') \in Nat /\ Len(inodes) <= Len(inodes') BY <1>4, <1>5
  <2> QED BY <1>0, <1>1, <1>5, <2>1, ReadsStay
<1> QED BY <1>6, <1>7, <1>8, <1>9, <1>10, <1>11, <1>12 DEF IInv

\* An RRQ opens the file, or gets a copy of it: no one writes to a settled one.
LEMMA OpenedStep ==
  ASSUME IInv, NEW r \in Reads, NEW new \in Read, name # None,
         new.inode = name \/ (new.inode = None /\ new.copy = inodes[name]),
         new.saw = settled, new.got = <<>>, reads' = [reads EXCEPT ![r] = new],
         looking' \in Reads \cup {None}, name' = name, inodes' = inodes, writes' = writes,
         made' = made, settled' = settled, crowded' = crowded
  PROVE  IInv'
<1>0. /\ TypeOK /\ HandsWrite /\ AloneIsAlone /\ UncrowdedIsAlone /\ UncrowdedIsPrefix
      /\ SettledIsLeft /\ ReadsSend
  BY DEF IInv
<1>1. TypeOK' BY <1>0 DEF TypeOK
<1>2. /\ HandsWrite' /\ AloneIsAlone' /\ UncrowdedIsAlone' /\ UncrowdedIsPrefix'
      /\ SettledIsLeft'
  BY <1>0 DEF HandsWrite, AloneIsAlone, UncrowdedIsAlone, UncrowdedIsPrefix, SettledIsLeft
<1>3. ReadsSend'
  <2>1. reads'[r] = new /\ \A q \in Reads : q # r => reads'[q] = reads[q] BY <1>0 DEF TypeOK
  <2>2. new.inode # None => new.inode \in 1 .. Len(inodes) BY <1>0 DEF TypeOK
  <2>3. settled # None =>
          /\ inodes[name] = Prefix(settled, Size)
          /\ \A w \in Hands : writes[w] # None => writes[w].inode # name
    BY <1>0 DEF SettledIsLeft
  <2>4. settled # None => Source(new) = Prefix(settled, Size) BY <2>3 DEF Source
  <2>5. settled # None /\ new.inode # None =>
          \A w \in Hands : writes[w] # None => writes[w].inode # new.inode
    BY <2>3
  <2>6. Len(new.got) <= Size /\ 1 .. Len(new.got) = {} BY SizesAreNats
  <2>7. Source(new)' = Source(new) BY DEF Source
  <2> SUFFICES ASSUME NEW q \in Reads, reads'[q] # None
      PROVE  /\ reads'[q].inode # None => reads'[q].inode \in 1 .. Len(inodes')
             /\ reads'[q].saw # None /\ reads'[q].calm =>
                  /\ Source(reads[q])' = Prefix(reads'[q].saw, Size)
                  /\ reads'[q].inode # None =>
                       \A w \in Hands : writes'[w] # None => writes'[w].inode # reads'[q].inode
                  /\ Len(reads'[q].got) <= Size
                  /\ \A i \in 1 .. Len(reads'[q].got) : reads'[q].got[i] = reads'[q].saw
    BY DEF ReadsSend
  <2>8. CASE q = r
    <3>1. Source(reads[q])' = Source(new) BY <2>1, <2>8 DEF Source
    <3> QED BY <2>1, <2>2, <2>4, <2>5, <2>6, <2>8, <3>1
  <2>9. CASE q # r
    <3>1. reads'[q] = reads[q] BY <2>1, <2>9
    <3>2. Source(reads[q])' = Source(reads[q]) BY <3>1 DEF Source
    <3> QED BY <1>0, <3>1, <3>2 DEF ReadsSend
  <2> QED BY <2>8, <2>9
<1> QED BY <1>1, <1>2, <1>3 DEF IInv

LEMMA EmptyIsContent == <<>> \in Contents
<1>1. <<>> \in [1 .. 0 -> Versions \cup {Hole}] OBVIOUS
<1> QED BY <1>1, SizesAreNats DEF Contents

\* tftpy opens the file.
LEMMA OpenReadStep == ASSUME IInv, NEW r \in Reads, OpenRead(r) PROVE IInv'
<1> DEFINE new == [inode |-> name, copy |-> <<>>, got |-> <<>>, saw |-> settled, calm |-> TRUE]
<1>1. /\ name # None /\ reads' = [reads EXCEPT ![r] = new] /\ looking' = looking
      /\ name' = name /\ inodes' = inodes /\ writes' = writes /\ made' = made
      /\ settled' = settled /\ crowded' = crowded
  BY DEF OpenRead
<1>2. new \in Read
  <2>1. name \in Inodes BY <1>1, SizesAreNats DEF IInv, TypeOK, Inodes
  <2> QED BY <2>1, EmptyIsContent DEF IInv, TypeOK, Read
<1>3. /\ new.inode = name \/ (new.inode = None /\ new.copy = inodes[name])
      /\ new.saw = settled /\ new.got = <<>>
  OBVIOUS
<1>4. looking' \in Reads \cup {None} BY <1>1 DEF IInv, TypeOK
<1> HIDE DEF new
<1> QED BY <1>1, <1>2, <1>3, <1>4, OpenedStep

\* The provider finds no file, or copies the one that came meanwhile.
LEMMA FetchReadStep == ASSUME IInv, NEW r \in Reads, FetchRead(r) PROVE IInv'
<1>1. /\ looking' = None /\ name' = name /\ inodes' = inodes /\ writes' = writes
      /\ made' = made /\ settled' = settled /\ crowded' = crowded
  BY DEF FetchRead
<1>2. CASE name = None
  <2>1. reads' = reads BY <1>2 DEF FetchRead
  <2> QED BY <1>1, <2>1
    DEF IInv, TypeOK, HandsWrite, AloneIsAlone, UncrowdedIsAlone, UncrowdedIsPrefix,
        SettledIsLeft, ReadsSend, Source
<1>3. CASE name # None
  <2> DEFINE new == [inode |-> None, copy |-> inodes[name], got |-> <<>>, saw |-> settled,
                     calm |-> TRUE]
  <2>1. reads' = [reads EXCEPT ![r] = new] BY <1>3 DEF FetchRead
  <2>2. inodes[name] \in Contents BY <1>3 DEF IInv, TypeOK
  <2>3. new \in Read BY <2>2, EmptyIsContent DEF IInv, TypeOK, Read
  <2>4. /\ new.inode = None /\ new.copy = inodes[name] /\ new.saw = settled
        /\ new.got = <<>>
    OBVIOUS
  <2> HIDE DEF new
  <2> QED BY <1>1, <1>3, <2>1, <2>3, <2>4, OpenedStep
<1> QED BY <1>2, <1>3

\* tftpy finds no file: nothing changes but who holds the loop.
LEMMA MissReadStep == ASSUME IInv, NEW r \in Reads, MissRead(r) PROVE IInv'
BY DEF MissRead, IInv, TypeOK, HandsWrite, AloneIsAlone, UncrowdedIsAlone, UncrowdedIsPrefix,
       SettledIsLeft, ReadsSend, Source

\* A chunk behind a content that has room for it.
LEMMA AppendContent ==
  ASSUME NEW got \in Contents, NEW c \in Versions \cup {Hole}, Len(got) < Size
  PROVE  /\ Append(got, c) \in Contents /\ Len(got) \in Nat
         /\ Len(Append(got, c)) = Len(got) + 1
         /\ \A i \in 1 .. Len(got) : Append(got, c)[i] = got[i]
         /\ Append(got, c)[Len(got) + 1] = c
<1> DEFINE S == Versions \cup {Hole}
<1>1. PICK n \in 0 .. Size : got \in [1 .. n -> S] BY DEF Contents
<1>2. got \in Seq(S) /\ Len(got) = n /\ n + 1 \in 0 .. Size BY <1>1, SizesAreNats
<1>3. c \in S OBVIOUS
<1>4. /\ Append(got, c) \in Seq(S) /\ Len(Append(got, c)) = n + 1
      /\ \A i \in 1 .. n : Append(got, c)[i] = got[i]
      /\ Append(got, c)[n + 1] = c
  <2> HIDE DEF S
  <2> QED BY <1>2, <1>3, AppendProperties
<1>5. Append(got, c) \in [1 .. n + 1 -> S]
  <2> HIDE DEF S
  <2> QED BY <1>4, LenProperties
<1>6. Append(got, c) \in Contents BY <1>2, <1>5 DEF Contents
<1> QED BY <1>2, <1>4, <1>6, SizesAreNats

\* A block is sent, from the inode as it is now or from the copy.
LEMMA SendStep == ASSUME IInv, NEW r \in Reads, Send(r) PROVE IInv'
<1>0. /\ TypeOK /\ HandsWrite /\ AloneIsAlone /\ UncrowdedIsAlone /\ UncrowdedIsPrefix
      /\ SettledIsLeft /\ ReadsSend
  BY DEF IInv
<1> DEFINE src == Source(reads[r])
           got == Append(reads[r].got, src[Len(reads[r].got) + 1])
           new == [reads[r] EXCEPT !.got = got]
<1>1. /\ reads[r] # None /\ Len(reads[r].got) < Len(src)
      /\ reads' = [reads EXCEPT ![r] = new] /\ looking' = looking
      /\ name' = name /\ inodes' = inodes /\ writes' = writes /\ made' = made
      /\ settled' = settled /\ crowded' = crowded
  BY DEF Send
<1>2. reads[r] \in Read /\ reads[r].got \in Contents /\ reads[r].copy \in Contents
  BY <1>0, <1>1 DEF TypeOK, Read
<1>3. src \in Contents
  <2>1. CASE reads[r].inode = None BY <1>2, <2>1 DEF Source
  <2>2. CASE reads[r].inode # None
    <3>1. reads[r].inode \in 1 .. Len(inodes) BY <1>0, <1>1, <2>2 DEF ReadsSend
    <3> QED BY <1>0, <2>2, <3>1 DEF TypeOK, Source
  <2> QED BY <2>1, <2>2
<1>4. PICK m \in 0 .. Size : src \in [1 .. m -> Versions \cup {Hole}] BY <1>3 DEF Contents
<1>5. PICK n \in 0 .. Size : reads[r].got \in [1 .. n -> Versions \cup {Hole}]
  BY <1>2 DEF Contents
<1>6. /\ Len(src) = m /\ Len(reads[r].got) = n /\ n + 1 \in 1 .. m /\ n < Size
  BY <1>1, <1>4, <1>5, SizesAreNats
<1>7. src[n + 1] \in Versions \cup {Hole} BY <1>4, <1>6
<1>8. /\ got \in Contents /\ Len(got) = n + 1
      /\ \A i \in 1 .. n : got[i] = reads[r].got[i]
      /\ got[n + 1] = src[n + 1]
  <2> HIDE DEF src
  <2> QED BY <1>2, <1>6, <1>7, AppendContent
<1> HIDE DEF got
<1>9. /\ new \in Read /\ new.inode = reads[r].inode /\ new.copy = reads[r].copy
      /\ new.saw = reads[r].saw /\ new.calm = reads[r].calm /\ new.got = got
  BY <1>2, <1>8 DEF Read
<1> HIDE DEF new
<1>10. /\ reads' \in [Reads -> Read \cup {None}] /\ reads'[r] = new
       /\ \A q \in Reads : q # r => reads'[q] = reads[q]
  BY <1>0, <1>1, <1>9 DEF TypeOK
<1>11. TypeOK' BY <1>0, <1>1, <1>10 DEF TypeOK
<1>12. /\ HandsWrite' /\ AloneIsAlone' /\ UncrowdedIsAlone' /\ UncrowdedIsPrefix'
       /\ SettledIsLeft'
  BY <1>0, <1>1 DEF HandsWrite, AloneIsAlone, UncrowdedIsAlone, UncrowdedIsPrefix,
                    SettledIsLeft
<1>13. ReadsSend'
  <2> SUFFICES ASSUME NEW q \in Reads, reads'[q] # None
      PROVE  /\ reads'[q].inode # None => reads'[q].inode \in 1 .. Len(inodes')
             /\ reads'[q].saw # None /\ reads'[q].calm =>
                  /\ Source(reads[q])' = Prefix(reads'[q].saw, Size)
                  /\ reads'[q].inode # None =>
                       \A w \in Hands : writes'[w] # None => writes'[w].inode # reads'[q].inode
                  /\ Len(reads'[q].got) <= Size
                  /\ \A i \in 1 .. Len(reads'[q].got) : reads'[q].got[i] = reads'[q].saw
    BY DEF ReadsSend
  <2>1. CASE q = r
    <3>1. Source(reads[q])' = src BY <1>1, <1>9, <1>10, <2>1 DEF Source
    <3>2. reads[r].inode # None => reads[r].inode \in 1 .. Len(inodes)
      BY <1>0, <1>1 DEF ReadsSend
    <3>3. reads[r].saw # None /\ reads[r].calm =>
            /\ src = Prefix(reads[r].saw, Size)
            /\ reads[r].inode # None =>
                 \A w \in Hands : writes[w] # None => writes[w].inode # reads[r].inode
            /\ \A i \in 1 .. n : reads[r].got[i] = reads[r].saw
      BY <1>0, <1>1, <1>6 DEF ReadsSend
    <3>4. ASSUME reads[r].saw # None, reads[r].calm
          PROVE  Len(got) <= Size /\ \A i \in 1 .. Len(got) : got[i] = reads[r].saw
      <4> HIDE DEF src
      <4>1. n + 1 \in 1 .. Size BY <1>5, <1>6, SizesAreNats
      <4>2. src[n + 1] = reads[r].saw BY <3>3, <3>4, <4>1 DEF Prefix
      <4> QED BY <1>5, <1>6, <1>8, <3>3, <3>4, <4>1, <4>2, SizesAreNats
    <3> HIDE DEF src
    <3> QED BY <1>1, <1>9, <1>10, <2>1, <3>1, <3>2, <3>3, <3>4
  <2>2. CASE q # r
    <3>1. reads'[q] = reads[q] BY <1>10, <2>2
    <3>2. Source(reads[q])' = Source(reads[q]) BY <1>1, <3>1 DEF Source
    <3> QED BY <1>0, <1>1, <3>1, <3>2 DEF ReadsSend
  <2> QED BY <2>1, <2>2
<1> QED BY <1>11, <1>12, <1>13 DEF IInv

\* A transfer ends, or the process does: nothing on disk changes.
LEMMA EndReadStep == ASSUME IInv, NEW r \in Reads, EndRead(r) PROVE IInv'
<1>1. /\ reads' = [reads EXCEPT ![r] = None]
      /\ name' = name /\ inodes' = inodes /\ writes' = writes /\ made' = made
      /\ settled' = settled /\ crowded' = crowded /\ looking' = looking
  BY DEF EndRead
<1>2. TypeOK' BY <1>1 DEF IInv, TypeOK
<1>3. ReadsSend'
  <2>1. \A q \in Reads : reads'[q] # None => reads'[q] = reads[q]
    BY <1>1 DEF IInv, TypeOK
  <2> QED BY <1>1, <2>1 DEF IInv, ReadsSend, Source
<1> QED BY <1>1, <1>2, <1>3
  DEF IInv, HandsWrite, AloneIsAlone, UncrowdedIsAlone, UncrowdedIsPrefix, SettledIsLeft

LEMMA RestartStep == ASSUME IInv, Restart PROVE IInv'
<1>1. /\ writes' = [w \in Hands |-> None] /\ reads' = [r \in Reads |-> None] /\ looking' = None
      /\ name' = name /\ inodes' = inodes /\ made' = made
      /\ settled' = settled /\ crowded' = crowded
  BY DEF Restart
<1>2. TypeOK' BY <1>1 DEF IInv, TypeOK
<1>3. UncrowdedIsPrefix' BY <1>1 DEF IInv, UncrowdedIsPrefix
<1>4. SettledIsLeft' BY <1>1 DEF IInv, SettledIsLeft
<1> QED BY <1>1, <1>2, <1>3, <1>4
  DEF IInv, HandsWrite, AloneIsAlone, UncrowdedIsAlone, ReadsSend

-------------------------------------------------------------------------------
(* What holds for every value of the constants.                             *)

LEMMA StepIInv == IInv /\ [Next]_vars => IInv'
<1> SUFFICES ASSUME IInv, [Next]_vars PROVE IInv' OBVIOUS
<1>1. CASE \E w \in Uploads : OpenUpload(w) \/ Receive(w)
  <2>1. PICK w \in Uploads : OpenUpload(w) \/ Receive(w) BY <1>1
  <2>2. w \in Hands /\ 0 \in 0 .. Size BY SizesAreNats DEF Hands
  <2> QED BY <2>1, <2>2, OpenStep, ReceiveStep DEF OpenUpload
<1>2. CASE WriteFile
  <2>1. Handler \in Hands /\ Size \in 0 .. Size BY SizesAreNats DEF Hands
  <2> QED BY <1>2, <2>1, OpenStep DEF WriteFile
<1>3. CASE \E w \in Hands : Flush(w) \/ Complete(w) \/ Abort(w)
  BY <1>3, FlushStep, CompleteStep, AbortStep
<1>4. CASE Publish BY <1>4, PublishStep
<1>5. CASE \E r \in Reads :
        OpenRead(r) \/ MissRead(r) \/ FetchRead(r) \/ Send(r) \/ EndRead(r)
  BY <1>5, OpenReadStep, MissReadStep, FetchReadStep, SendStep, EndReadStep
<1>6. CASE Restart BY <1>6, RestartStep
<1>7. CASE UNCHANGED vars
  BY <1>7 DEF vars, IInv, TypeOK, HandsWrite, AloneIsAlone, UncrowdedIsAlone,
              UncrowdedIsPrefix, SettledIsLeft, ReadsSend, Source
<1> QED BY <1>1, <1>2, <1>3, <1>4, <1>5, <1>6, <1>7 DEF Next

THEOREM Invariant == Spec => []IInv
BY InitIInv, StepIInv, PTL DEF Spec

\* Files, writes and reads have their types.
THEOREM TypeCorrect == Spec => []TypeOK
<1>1. IInv => TypeOK BY DEF IInv
<1> QED BY <1>1, Invariant, PTL

\* A body with no other writer on its inode is on disk in full from the close of its
\* file on, also after a restart, until a WRQ or a write_file opens its name or it is
\* replaced (_open_upload, write_file).
THEOREM SettledStaysWhole == Spec => []SettledIsWhole
<1>1. IInv => SettledIsWhole BY DEF IInv, SettledIsLeft, SettledIsWhole, Prefix, Body
<1> QED BY <1>1, Invariant, PTL

\* An RRQ that was opened on such a file sends that one body, unless a WRQ or a
\* write_file opens the same inode before it ends (replace in _run_download).
THEOREM ReadsAreWhole == Spec => []CalmReadIsWhole
<1>1. IInv => CalmReadIsWhole
  <2> SUFFICES ASSUME IInv, NEW r \in Reads, reads[r] # None, reads[r].saw # None, reads[r].calm
      PROVE  /\ Len(Source(reads[r])) = Size
             /\ reads[r].got = SubSeq(Body(reads[r].saw), 1, Len(reads[r].got))
    BY DEF CalmReadIsWhole
  <2> DEFINE got == reads[r].got
             v == reads[r].saw
  <2>1. /\ Source(reads[r]) = Prefix(v, Size) /\ Len(got) <= Size
        /\ \A i \in 1 .. Len(got) : got[i] = v
    BY DEF IInv, ReadsSend
  <2>2. Len(Source(reads[r])) = Size BY <2>1, SizesAreNats DEF Prefix
  <2>3. PICK n \in 0 .. Size : got \in [1 .. n -> Versions \cup {Hole}]
    BY DEF IInv, TypeOK, Read, Contents
  <2>4. Len(got) = n BY <2>3, SizesAreNats
  <2>5. got = [i \in 1 .. n |-> v] BY <2>1, <2>3, <2>4, SizesAreNats
  <2>6. SubSeq(Body(v), 1, n) = [i \in 1 .. n |-> v]
    BY <2>3, SizesAreNats DEF Body
  <2> QED BY <2>2, <2>4, <2>5, <2>6
<1> QED BY <1>1, Invariant, PTL

\* A file that never had two writers at a time is the beginning of one body
\* (_open_upload, write_file, replace in _run_download).
THEOREM NeverMixed == Spec => []NoMix
<1>1. IInv => NoMix
  <2> SUFFICES ASSUME IInv, NEW i \in 1 .. Len(inodes), i \notin crowded
      PROVE  \E v \in Versions : inodes[i] = SubSeq(Body(v), 1, Len(inodes[i]))
    BY DEF NoMix
  <2>1. PICK v \in Versions, n \in 0 .. Size : inodes[i] = Prefix(v, n)
    BY DEF IInv, UncrowdedIsPrefix
  <2>2. Len(inodes[i]) = n BY <2>1, SizesAreNats DEF Prefix
  <2>3. SubSeq(Body(v), 1, n) = Prefix(v, n)
    BY SizesAreNats DEF Body, Prefix
  <2> QED BY <2>1, <2>2, <2>3
<1> QED BY <1>1, Invariant, PTL
===============================================================================
