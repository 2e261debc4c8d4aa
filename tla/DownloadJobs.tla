----------------------------- MODULE DownloadJobs -----------------------------
(***************************************************************************)
(* Shared background downloads: DownloadJobStore, its default downloader,   *)
(* and the loop of uboot_download_url that waits for a download.            *)
(*                                                                          *)
(* Each entry has one daemon thread.  A thread's step is what it does       *)
(* between two points where others can see the difference: one hold of the  *)
(* store's lock, one operation on a file, one read of the connection.  A    *)
(* user is a session's handler; between two of its steps it is suspended    *)
(* in exec, so the threads and other handlers run.  Only what the store and *)
(* the loop do is modelled: who holds an entry is in ScriptedSessions.      *)
(***************************************************************************)
EXTENDS Naturals

CONSTANTS
  Keys,   \* artifact keys
  Urls,   \* what a key stands for, with its page URL and headers
  Dests,  \* destinations under the static root
  Jobs,   \* the downloads that handlers ask for
  Users,  \* the handlers
  Size,   \* how many chunks a payload has
  None    \* Python's None, and a file that does not exist

ASSUME JobsAreJobs == Jobs \subseteq [key : Keys, url : Urls, dest : Dests]
ASSUME SizeIsNat == Size \in Nat

\* A file holds some chunks of a URL's payload.  whole: its writer had read
\* the connection to its end when it was last written.
Content == [url : Urls, chunks : 0 .. Size, whole : BOOLEAN]

ArtifactState == {"pending", "done", "failed"}
Entry == [url : Urls, dest : Dests, state : ArtifactState, bytes : 0 .. Size]
PCs == {"start", "connect", "create", "read", "report", "replace", "mark",
        "failing", "unlink", "ended"}
Thread == [pc : PCs, wrote : 0 .. Size]
Handler == [at : {"idle", "cached", "poll", "shown"}, job : Jobs \cup {None},
            saw : ArtifactState \cup {None}, got : Content \cup {None}]

ASSUME NoneIsNothing == /\ None \notin Content /\ None \notin Entry
                        /\ None \notin Thread /\ None \notin ArtifactState
                        /\ None \notin Jobs

VARIABLES
  entries,  \* DownloadJobStore._artifacts
  threads,  \* the daemon thread of each entry
  temp,     \* the .part file of each key
  disk,     \* the files at the destinations
  users     \* where each handler is in uboot_download_url

vars == <<entries, threads, temp, disk, users>>

-------------------------------------------------------------------------------
(* The thread of an entry: _run_download.                                   *)

At(k, pc) == threads[k] # None /\ threads[k].pc = pc
Goto(k, pc) == threads' = [threads EXCEPT ![k].pc = pc]

\* The request is copied under the lock; the entry's fields never change.
TakeRequest(k) ==
  /\ At(k, "start")
  /\ Goto(k, "connect")
  /\ UNCHANGED <<entries, temp, disk, users>>

\* The directories exist, the response is open: progress(0, total).
Connect(k) ==
  /\ At(k, "connect")
  /\ entries' = [entries EXCEPT ![k].bytes = 0]
  /\ Goto(k, "create")
  /\ UNCHANGED <<temp, disk, users>>

\* open("wb"): what an earlier process left in the .part file is gone.
CreateTemp(k) ==
  /\ At(k, "create")
  /\ temp' = [temp EXCEPT ![k] = [url |-> entries[k].url, chunks |-> 0, whole |-> FALSE]]
  /\ Goto(k, "read")
  /\ UNCHANGED <<entries, disk, users>>

\* MUTANT: the bytes are copied to the destination as they arrive.
ReadChunkInPlace(k) ==
  /\ At(k, "read")
  /\ threads[k].wrote < Size
  /\ temp' = [temp EXCEPT ![k].chunks = @ + 1]
  /\ disk' = [disk EXCEPT ![entries[k].dest] = temp'[k]]
  /\ threads' = [threads EXCEPT ![k].wrote = @ + 1, ![k].pc = "report"]
  /\ UNCHANGED <<entries, users>>

ReadChunk(k) ==
  /\ At(k, "read")
  /\ threads[k].wrote < Size
  /\ temp' = [temp EXCEPT ![k].chunks = @ + 1]
  /\ threads' = [threads EXCEPT ![k].wrote = @ + 1, ![k].pc = "report"]
  /\ UNCHANGED <<entries, disk, users>>

\* MUTANT: each chunk is counted twice.
ReportTwice(k) ==
  /\ At(k, "report")
  /\ entries' = [entries EXCEPT ![k].bytes = 2 * threads[k].wrote]
  /\ Goto(k, "read")
  /\ UNCHANGED <<temp, disk, users>>

\* progress(done, total)
ReportProgress(k) ==
  /\ At(k, "report")
  /\ entries' = [entries EXCEPT ![k].bytes = threads[k].wrote]
  /\ Goto(k, "read")
  /\ UNCHANGED <<temp, disk, users>>

\* MUTANT: done when the payload has been read, before it is in its place.
ReadEndsDone(k) ==
  /\ At(k, "read")
  /\ temp' = [temp EXCEPT ![k].whole = TRUE]
  /\ entries' = [entries EXCEPT ![k].state = "done"]
  /\ Goto(k, "replace")
  /\ UNCHANGED <<disk, users>>

\* read() returns no bytes: the payload's end, or a connection that the peer
\* closed early, which http.client's read(amt) does not tell apart.
ReadEnds(k) ==
  /\ At(k, "read")
  /\ temp' = [temp EXCEPT ![k].whole = TRUE]
  /\ Goto(k, "replace")
  /\ UNCHANGED <<entries, disk, users>>

\* temp_path.replace(final_path)
Publish(k) ==
  /\ At(k, "replace")
  /\ disk' = [disk EXCEPT ![entries[k].dest] = temp[k]]
  /\ temp' = [temp EXCEPT ![k] = None]
  /\ Goto(k, "mark")
  /\ UNCHANGED <<entries, users>>

MarkDone(k) ==
  /\ At(k, "mark")
  /\ entries' = [entries EXCEPT ![k].state = "done"]
  /\ Goto(k, "ended")
  /\ UNCHANGED <<temp, disk, users>>

\* Any of mkdir, urlopen, read, write and replace may raise.
Raise(k) ==
  /\ \E pc \in {"connect", "create", "read", "replace"} : At(k, pc)
  /\ Goto(k, "failing")
  /\ UNCHANGED <<entries, temp, disk, users>>

MarkFailed(k) ==
  /\ At(k, "failing")
  /\ entries' = [entries EXCEPT ![k].state = "failed"]
  /\ Goto(k, "unlink")
  /\ UNCHANGED <<temp, disk, users>>

\* unlink; a missing .part file is no error.
Unlink(k) ==
  /\ At(k, "unlink")
  /\ temp' = [temp EXCEPT ![k] = None]
  /\ Goto(k, "ended")
  /\ UNCHANGED <<entries, disk, users>>

-------------------------------------------------------------------------------
(* The handlers: uboot_download_url on top of acquire, get and read_file.    *)

IsAt(u, at) == users[u].at = at

\* Not in uboot_download_url, or its handler has ended.
NoUser == [at |-> "idle", job |-> None, saw |-> None, got |-> None]
Quit(u) == users' = [users EXCEPT ![u] = NoUser]

\* cache=True and the destination exists: a script is sent, then it is read.
UseCache(u, job) ==
  /\ IsAt(u, "idle")
  /\ disk[job.dest] # None
  /\ users' = [users EXCEPT ![u] = [at |-> "cached", job |-> job, saw |-> None, got |-> None]]
  /\ UNCHANGED <<entries, threads, temp, disk>>

ReadCached(u) ==
  /\ IsAt(u, "cached")
  /\ users' = [users EXCEPT ![u].at = "idle", ![u].got = disk[users[u].job.dest]]
  /\ UNCHANGED <<entries, threads, temp, disk>>

\* No cached file, or none wanted: acquire.
Suspend(u, job) ==
  users' = [users EXCEPT ![u] = [at |-> "poll", job |-> job, saw |-> None, got |-> None]]

\* MUTANT: every acquire starts a download.
AcquireAlways(u, job) ==
  /\ IsAt(u, "idle")
  /\ entries' = [entries EXCEPT ![job.key] =
                   [url |-> job.url, dest |-> job.dest, state |-> "pending", bytes |-> 0]]
  /\ threads' = [threads EXCEPT ![job.key] = [pc |-> "start", wrote |-> 0]]
  /\ Suspend(u, job)
  /\ UNCHANGED <<temp, disk>>

\* The first request for a key creates the entry and starts its thread.
AcquireFirst(u, job) ==
  /\ IsAt(u, "idle")
  /\ entries[job.key] = None
  /\ entries' = [entries EXCEPT ![job.key] =
                   [url |-> job.url, dest |-> job.dest, state |-> "pending", bytes |-> 0]]
  /\ threads' = [threads EXCEPT ![job.key] = [pc |-> "start", wrote |-> 0]]
  /\ Suspend(u, job)
  /\ UNCHANGED <<temp, disk>>

Matches(entry, job) == entry.url = job.url /\ entry.dest = job.dest

\* Later ones share it, in whatever state it is: a failed one stays failed.
AcquireShared(u, job) ==
  /\ IsAt(u, "idle")
  /\ entries[job.key] # None
  /\ Matches(entries[job.key], job)
  /\ Suspend(u, job)
  /\ UNCHANGED <<entries, threads, temp, disk>>

\* A key that stands for something else: ValueError ends the handler.
AcquireRefused(u, job) ==
  /\ IsAt(u, "idle")
  /\ entries[job.key] # None
  /\ ~Matches(entries[job.key], job)
  /\ Quit(u)
  /\ UNCHANGED <<entries, threads, temp, disk>>

\* get_download, then a script with the progress: the snapshot is kept while
\* the handler is suspended.
Poll(u) ==
  /\ IsAt(u, "poll") \/ (IsAt(u, "shown") /\ users[u].saw = "pending")
  /\ users' = [users EXCEPT ![u].at = "shown", ![u].saw = entries[users[u].job.key].state]
  /\ UNCHANGED <<entries, threads, temp, disk>>

ReadPayload(u) ==
  /\ IsAt(u, "shown")
  /\ users[u].saw = "done"
  /\ users' = [users EXCEPT ![u].at = "idle", ![u].saw = None,
                             ![u].got = disk[users[u].job.dest]]
  /\ UNCHANGED <<entries, threads, temp, disk>>

\* MUTANT: a failed download is polled on, like a pending one.
GiveUpNot(u) ==
  /\ IsAt(u, "shown")
  /\ users[u].saw = "failed"
  /\ users' = [users EXCEPT ![u].at = "poll"]
  /\ UNCHANGED <<entries, threads, temp, disk>>

\* The failure message cannot be built (uboot_err is not imported): the
\* handler ends with NameError, without a payload.
GiveUp(u) ==
  /\ IsAt(u, "shown")
  /\ users[u].saw = "failed"
  /\ Quit(u)
  /\ UNCHANGED <<entries, threads, temp, disk>>

\* The session is discarded or replaced while its handler is suspended.
Leave(u) ==
  /\ ~IsAt(u, "idle")
  /\ Quit(u)
  /\ UNCHANGED <<entries, threads, temp, disk>>

\* The process ends, its daemon threads with it, wherever they are; files stay.
Restart ==
  /\ entries' = [k \in Keys |-> None]
  /\ threads' = [k \in Keys |-> None]
  /\ users' = [u \in Users |-> NoUser]
  /\ UNCHANGED <<temp, disk>>

-------------------------------------------------------------------------------
Init ==
  /\ entries = [k \in Keys |-> None]
  /\ threads = [k \in Keys |-> None]
  /\ temp = [k \in Keys |-> None]
  /\ disk = [d \in Dests |-> None]
  /\ users = [u \in Users |-> NoUser]

Download(k) ==
  \/ TakeRequest(k) \/ Connect(k) \/ CreateTemp(k) \/ ReadChunk(k) \/ ReportProgress(k)
  \/ ReadEnds(k) \/ Publish(k) \/ MarkDone(k) \/ Raise(k) \/ MarkFailed(k) \/ Unlink(k)

Ask(u) ==
  \E job \in Jobs : \/ UseCache(u, job) \/ AcquireFirst(u, job)
                    \/ AcquireShared(u, job) \/ AcquireRefused(u, job)

\* A suspended handler goes on when its device comes back.
Continue(u) == ReadCached(u) \/ Poll(u) \/ ReadPayload(u) \/ GiveUp(u)

Next ==
  \/ \E k \in Keys : Download(k)
  \/ \E u \in Users : Ask(u) \/ Continue(u) \/ Leave(u)
  \/ Restart

Spec == Init /\ [][Next]_vars

\* A thread that can run does, and urlopen and read have a timeout; a device
\* that was sent a script comes back.
Fairness == /\ \A k \in Keys : WF_vars(Download(k))
            /\ \A u \in Users : WF_vars(Continue(u))

FairSpec == Spec /\ Fairness

-------------------------------------------------------------------------------
(* What must hold.                                                          *)

\* Entries, threads, files and handlers have their types.
TypeOK ==
  /\ entries \in [Keys -> Entry \cup {None}]
  /\ threads \in [Keys -> Thread \cup {None}]
  /\ temp \in [Keys -> Content \cup {None}]
  /\ disk \in [Dests -> Content \cup {None}]
  /\ users \in [Users -> Handler]

\* A handler that sees "done", even in a snapshot taken before it was
\* suspended, finds the file: read_file cannot fail.
DoneIsPublished ==
  /\ \A k \in Keys : entries[k] # None /\ entries[k].state = "done"
                       => disk[entries[k].dest] # None
  /\ \A u \in Users : users[u].saw = "done" => disk[users[u].job.dest] # None

\* No file at a destination is one that is still being written, whatever
\* fails, and whenever the process ends: neither read_file nor a cached
\* download nor a static RRQ can see half a file.
NoHalfWrittenFile == \A d \in Dests : disk[d] # None => disk[d].whole

\* An entry that is done or failed stays so as long as the process runs: a
\* handler's snapshot of such a state is never stale.
SettledStays ==
  [][\A k \in Keys : entries[k] # None /\ entries[k].state # "pending"
                       => entries'[k] \in {entries[k], None}]_vars

\* A handler that waits for a download stops waiting: with the payload, with
\* the failure, or because its session ends.
WaitingEnds ==
  \A u \in Users : users[u].at \in {"poll", "shown"} ~> users[u].at \notin {"poll", "shown"}

\* What a handler gets is a payload: all of its chunks.
PayloadComplete == \A u \in Users : users[u].got # None => users[u].got.chunks = Size
===============================================================================
