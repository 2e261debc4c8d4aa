------------------------------- MODULE StaticFiles -------------------------------
(***************************************************************************)
(* One file under rootdir and all who read and write it: static RRQs and    *)
(* WRQs, write_file in handlers, and a finished download that takes its     *)
(* name.                                                                    *)
(*                                                                          *)
(* tftpy's loop calls one hook at a time, and handlers run in its hooks: as *)
(* long as one of them is in a file, only a download's thread, which        *)
(* renames its file into place, or the end of the process can come between. *)
(* A transfer goes on over many packets.  The name leads to an inode; who   *)
(* has opened it keeps it.  A body has Size chunks and is called by the     *)
(* number of its version, drawn when it is first written.                   *)
(***************************************************************************)
EXTENDS Naturals, Sequences

CONSTANTS
  Uploads,     \* contexts of WRQs
  Handler,     \* the handler that is in write_file
  Reads,       \* contexts of RRQs
  Size,        \* chunks of a body
  MaxVersion,  \* bounds the versions, and with them the inodes
  None

ASSUME SizesAreNats == Size \in Nat \ {0} /\ MaxVersion \in Nat
ASSUME HandlerIsNone == Handler \notin Uploads /\ None \notin Reads

\* Who writes to the file where it is.
Hands == Uploads \cup {Handler}
Versions == 1 .. MaxVersion
Inodes == 1 .. MaxVersion
Hole == 0
Contents == UNION {[1 .. n -> Versions \cup {Hole}] : n \in 0 .. Size}
Body(v) == [i \in 1 .. Size |-> v]

\* A WRQ or a write_file: the chunks that came, and how many of them are on disk.
\* alone: no one else has written to the inode since it was opened.
Write == [inode : Inodes, version : Versions, came : 0 .. Size, flushed : 0 .. Size,
          alone : BOOLEAN]

\* An RRQ: the inode that it reads or the copy that it was given, what was sent, and
\* what the file was known to be when it was opened.
\* calm: no one has opened the inode for writing since then.
Read == [inode : Inodes \cup {None}, copy : Contents, got : Contents,
         saw : Versions \cup {None}, calm : BOOLEAN]

ASSUME NoneIsNothing == None \notin Versions /\ None \notin Write /\ None \notin Read

VARIABLES
  name,     \* the inode that the name leads to
  inodes,   \* their contents, in the order they were made
  writes,   \* the writes that are open
  reads,    \* the RRQs that run
  looking,  \* the RRQ that found no file and is in the provider
  made,     \* how many versions there are
  settled,  \* the version that was written whole, and touched by no one since
  crowded   \* inodes that had two writers at a time

vars == <<name, inodes, writes, reads, looking, made, settled, crowded>>

-------------------------------------------------------------------------------
\* The loop is in no hook, or in that of w.
Idle == looking = None /\ writes[Handler] = None
Runs(w) == Idle \/ w = Handler

Writers(i) == {w \in Hands : writes[w] # None /\ writes[w].inode = i}

\* Opening for writing: the inode of the name, emptied, or a new one.
Target == IF name = None THEN Len(inodes) + 1 ELSE name
Emptied(body) == IF name = None THEN Append(inodes, body) ELSE [inodes EXCEPT ![name] = body]
Disturbed == [w \in Hands |-> IF w \in Writers(Target) THEN [writes[w] EXCEPT !.alone = FALSE]
                                                      ELSE writes[w]]
Unsettled == [r \in Reads |-> IF reads[r] # None /\ reads[r].inode = Target
                               THEN [reads[r] EXCEPT !.calm = FALSE] ELSE reads[r]]
Crowding == IF Writers(Target) # {} THEN {Target} ELSE {}

NewVersion == made < MaxVersion /\ made' = made + 1

\* MUTANT: the file is opened for writing but not emptied.
OpenKept(w, came) ==
  /\ Idle
  /\ writes[w] = None
  /\ NewVersion
  /\ inodes' = IF name = None THEN Append(inodes, <<>>) ELSE inodes
  /\ name' = Target
  /\ writes' = [Disturbed EXCEPT ![w] = [inode |-> Target, version |-> made', came |-> came,
                                         flushed |-> 0, alone |-> Writers(Target) = {}]]
  /\ reads' = Unsettled
  /\ crowded' = crowded \cup Crowding
  /\ settled' = None
  /\ UNCHANGED looking

\* open("w+b") of _open_upload, open("wb") of write_bytes: empty until more is flushed.
Open(w, came) ==
  /\ Idle
  /\ writes[w] = None
  /\ NewVersion
  /\ inodes' = Emptied(<<>>)
  /\ name' = Target
  /\ writes' = [Disturbed EXCEPT ![w] = [inode |-> Target, version |-> made', came |-> came,
                                         flushed |-> 0, alone |-> Writers(Target) = {}]]
  /\ reads' = Unsettled
  /\ crowded' = crowded \cup Crowding
  /\ settled' = None
  /\ UNCHANGED looking

\* A static WRQ; SessionHandle.write_file, which has all of the body at hand.
OpenUpload(w) == Open(w, 0)
WriteFile == Open(Handler, Size)

\* MUTANT: a block that comes again is written behind the last one.
ReceiveAgain(w) ==
  /\ Idle
  /\ writes[w] # None
  /\ writes' = [writes EXCEPT ![w].came = @ + 1]
  /\ UNCHANGED <<name, inodes, reads, looking, made, settled, crowded>>

\* A block arrives: write to the buffered file.
Receive(w) ==
  /\ Idle
  /\ writes[w] # None
  /\ writes[w].came < Size
  /\ writes' = [writes EXCEPT ![w].came = @ + 1]
  /\ UNCHANGED <<name, inodes, reads, looking, made, settled, crowded>>

\* A file after chunks from .. to of a version were written at their places.
Written(body, from, to, v) ==
  [i \in 1 .. (IF to > Len(body) THEN to ELSE Len(body)) |->
     IF i \in from .. to THEN v ELSE IF i <= Len(body) THEN body[i] ELSE Hole]
FlushTo(up, n) ==
  inodes' = IF n = up.flushed THEN inodes
            ELSE [inodes EXCEPT ![up.inode] = Written(@, up.flushed + 1, n, up.version)]

\* Some of it goes to disk: the buffer is full, or write_bytes goes on.
Flush(w) ==
  /\ Runs(w)
  /\ writes[w] # None
  /\ \E n \in writes[w].flushed + 1 .. writes[w].came :
       /\ FlushTo(writes[w], n)
       /\ writes' = [writes EXCEPT ![w].flushed = n]
  /\ UNCHANGED <<name, reads, looking, made, settled, crowded>>

\* MUTANT: the log wrapper does not close the file that it wraps.
CompleteUnclosed(w) ==
  /\ Runs(w)
  /\ writes[w] # None
  /\ writes[w].came = Size
  /\ writes' = [writes EXCEPT ![w] = None]
  /\ settled' = IF writes[w].alone /\ writes[w].inode = name THEN writes[w].version
                                                            ELSE settled
  /\ UNCHANGED <<name, inodes, reads, looking, made, crowded>>

\* The last block came, or write_bytes is through: close, which flushes.
Complete(w) ==
  /\ Runs(w)
  /\ writes[w] # None
  /\ writes[w].came = Size
  /\ FlushTo(writes[w], Size)
  /\ writes' = [writes EXCEPT ![w] = None]
  /\ settled' = IF writes[w].alone /\ writes[w].inode = name THEN writes[w].version
                                                            ELSE settled
  /\ UNCHANGED <<name, reads, looking, made, crowded>>

\* The client is gone, or the disk is full: what could be flushed stays.
Abort(w) ==
  /\ Runs(w)
  /\ writes[w] # None
  /\ \E n \in writes[w].flushed .. writes[w].came : FlushTo(writes[w], n)
  /\ writes' = [writes EXCEPT ![w] = None]
  /\ UNCHANGED <<name, reads, looking, made, settled, crowded>>

\* MUTANT: a download is copied over the file that is there.
PublishInPlace ==
  /\ NewVersion
  /\ inodes' = Emptied(Body(made'))
  /\ name' = Target
  /\ writes' = Disturbed
  /\ crowded' = crowded \cup Crowding
  /\ settled' = IF Writers(Target) = {} THEN made' ELSE None
  /\ UNCHANGED <<reads, looking>>

\* A download is done: replace puts a new inode under the name.
Publish ==
  /\ NewVersion
  /\ inodes' = Append(inodes, Body(made'))
  /\ name' = Len(inodes')
  /\ settled' = made'
  /\ UNCHANGED <<writes, reads, looking, crowded>>

-------------------------------------------------------------------------------
\* tftpy, whose tftproot is the root of the static files, opens a file that is there
\* itself and reads block after block from it.
OpenRead(r) ==
  /\ Idle
  /\ reads[r] = None
  /\ name # None
  /\ reads' = [reads EXCEPT ![r] = [inode |-> name, copy |-> <<>>, got |-> <<>>,
                                     saw |-> settled, calm |-> TRUE]]
  /\ UNCHANGED <<name, inodes, writes, looking, made, settled, crowded>>

\* There is none: it asks dyn_file_func.
MissRead(r) ==
  /\ Idle
  /\ reads[r] = None
  /\ name = None
  /\ looking' = r
  /\ UNCHANGED <<name, inodes, writes, reads, made, settled, crowded>>

\* _static_result finds one only if a download was published meanwhile;
\* fileobj_from_result copies it into a temporary file.
FetchRead(r) ==
  /\ looking = r
  /\ looking' = None
  /\ reads' = IF name = None THEN reads
              ELSE [reads EXCEPT ![r] = [inode |-> None, copy |-> inodes[name], got |-> <<>>,
                                         saw |-> settled, calm |-> TRUE]]
  /\ UNCHANGED <<name, inodes, writes, made, settled, crowded>>

Source(rd) == IF rd.inode = None THEN rd.copy ELSE inodes[rd.inode]

Send(r) ==
  /\ Idle
  /\ reads[r] # None
  /\ Len(reads[r].got) < Len(Source(reads[r]))
  /\ reads' = [reads EXCEPT ![r].got = Append(@, Source(reads[r])[Len(@) + 1])]
  /\ UNCHANGED <<name, inodes, writes, looking, made, settled, crowded>>

\* It is complete, or its client is gone.
EndRead(r) ==
  /\ Idle
  /\ reads[r] # None
  /\ reads' = [reads EXCEPT ![r] = None]
  /\ UNCHANGED <<name, inodes, writes, looking, made, settled, crowded>>

\* The process is killed: transfers and what is in buffers are gone.
Restart ==
  /\ writes' = [w \in Hands |-> None]
  /\ reads' = [r \in Reads |-> None]
  /\ looking' = None
  /\ UNCHANGED <<name, inodes, made, settled, crowded>>

Init ==
  /\ name = None
  /\ inodes = <<>>
  /\ writes = [w \in Hands |-> None]
  /\ reads = [r \in Reads |-> None]
  /\ looking = None
  /\ made = 0
  /\ settled = None
  /\ crowded = {}

Next ==
  \/ \E w \in Uploads : OpenUpload(w) \/ Receive(w)
  \/ WriteFile
  \/ \E w \in Hands : Flush(w) \/ Complete(w) \/ Abort(w)
  \/ Publish
  \/ \E r \in Reads : OpenRead(r) \/ MissRead(r) \/ FetchRead(r) \/ Send(r) \/ EndRead(r)
  \/ Restart

Spec == Init /\ [][Next]_vars

-------------------------------------------------------------------------------
(* What must hold.                                                          *)

\* Files, transfers and versions have their types.
TypeOK ==
  /\ inodes \in Seq(Contents) /\ Len(inodes) <= made
  /\ name \in 1 .. Len(inodes) \cup {None}
  /\ writes \in [Hands -> Write \cup {None}]
  /\ reads \in [Reads -> Read \cup {None}]
  /\ looking \in Reads \cup {None}
  /\ made \in 0 .. MaxVersion
  /\ settled \in Versions \cup {None}
  /\ crowded \subseteq 1 .. Len(inodes)

\* A body that was uploaded or written with no other writer on its inode, or
\* downloaded, is on disk in full from the close of its file on (or its rename), also
\* when the process is killed right then, until a WRQ or a write_file opens its name
\* or it is replaced (_open_upload, _TransferLogFile.close, write_file): a file is cut
\* or mixed only by a WRQ or a write_file that is not closed yet, that was broken off,
\* or that ran when someone else wrote.  A WRQ whose last block was acknowledged but
\* that is not closed is not counted.
SettledIsWhole == settled # None => inodes[name] = Body(settled)

\* An RRQ that was opened on such a file, or that got a copy of one, sends just that
\* body, also when a download takes its name while it is sent, unless a WRQ or a
\* write_file opens the same inode before it ends (replace in _run_download, open and
\* read in tftpy).
CalmReadIsWhole ==
  \A r \in Reads : reads[r] # None /\ reads[r].saw # None /\ reads[r].calm =>
    /\ Len(Source(reads[r])) = Size
    /\ reads[r].got = SubSeq(Body(reads[r].saw), 1, Len(reads[r].got))

\* A file that never had two writers at a time is the beginning of one body: an
\* upload leaves nothing of what was there before, and a restart no holes.
NoMix ==
  \A i \in 1 .. Len(inodes) : i \notin crowded =>
    \E v \in Versions : inodes[i] = SubSeq(Body(v), 1, Len(inodes[i]))
===============================================================================
