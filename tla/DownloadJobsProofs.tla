---------------------------- MODULE DownloadJobsProofs ----------------------------
(***************************************************************************)
(* Proofs about DownloadJobs, for any keys, destinations, downloads and      *)
(* handlers, and any size of a payload.                                     *)
(*                                                                          *)
(* That a file is whole, and that done means published, is known one step   *)
(* earlier by the thread alone.  The invariant ties a thread's position to  *)
(* its entry and its files, and a waiting handler to its entry.             *)
(***************************************************************************)
EXTENDS DownloadJobs, TLAPS

\* Where a thread is, and what that says of its entry e, its .part file c and the
\* file d at its destination.
Working == PCs \ {"unlink", "ended"}
AtWork(e, t, c, d) ==
  /\ t.pc \in Working => e.state = "pending"
  /\ t.pc = "unlink" => e.state = "failed"
  /\ t.pc = "ended" => e.state # "pending"
  /\ t.pc \in {"start", "connect", "create"} => t.wrote = 0
  /\ t.pc \in {"read", "report", "replace"} => c # None /\ c.chunks = t.wrote
  /\ t.pc = "replace" => c.whole
  /\ t.pc = "mark" \/ e.state = "done" => d # None

\* An entry and its thread come and go together.
ThreadsWork ==
  \A k \in Keys : /\ entries[k] = None <=> threads[k] = None
                  /\ entries[k] # None => AtWork(entries[k], threads[k], temp[k],
                                                 disk[entries[k].dest])

\* A handler that waits has an entry of its own URL and destination, and the file that
\* it was told of is there.
Waits(h) ==
  /\ h.at # "idle" => h.job \in Jobs
  /\ h.at = "cached" => disk[h.job.dest] # None
  /\ h.at \in {"poll", "shown"} =>
       entries[h.job.key] # None /\ Matches(entries[h.job.key], h.job)
  /\ h.at = "shown" => h.saw # None
  /\ h.saw # None => h.at = "shown"
  /\ h.saw = "done" => disk[h.job.dest] # None
HandlersWait == \A u \in Users : Waits(users[u])

IInv == TypeOK /\ ThreadsWork /\ HandlersWait /\ NoHalfWrittenFile

-------------------------------------------------------------------------------
(* What the steps have in common.                                           *)

\* At first there is nothing.
LEMMA InitIInv == Init => IInv
<1> SUFFICES ASSUME Init PROVE IInv OBVIOUS
<1>1. NoUser \in Handler BY DEF NoUser, Handler
<1>2. TypeOK BY <1>1 DEF Init, TypeOK
<1>3. ThreadsWork BY DEF Init, ThreadsWork
<1>4. HandlersWait BY NoneIsNothing DEF Init, HandlersWait, Waits, NoUser, ArtifactState
<1>5. NoHalfWrittenFile BY DEF Init, NoHalfWrittenFile
<1> QED BY <1>2, <1>3, <1>4, <1>5 DEF IInv

\* A thread goes on: its entry, its position, its .part file and the file at its
\* destination change, the last of them only to a whole one.
LEMMA ThreadGoesOn ==
  ASSUME IInv, NEW k \in Keys, threads[k] # None,
         NEW e \in Entry, e.url = entries[k].url, e.dest = entries[k].dest,
         NEW t \in Thread, NEW c \in Content \cup {None}, NEW d \in Content \cup {None},
         d = disk[e.dest] \/ (d # None /\ d.whole),
         AtWork(e, t, c, d),
         entries' = [entries EXCEPT ![k] = e], threads' = [threads EXCEPT ![k] = t],
         temp' = [temp EXCEPT ![k] = c], disk' = [disk EXCEPT ![e.dest] = d],
         users' = users
  PROVE  IInv'
<1>0. TypeOK /\ ThreadsWork /\ HandlersWait /\ NoHalfWrittenFile BY DEF IInv
<1>1. /\ entries \in [Keys -> Entry \cup {None}] /\ threads \in [Keys -> Thread \cup {None}]
      /\ temp \in [Keys -> Content \cup {None}] /\ disk \in [Dests -> Content \cup {None}]
      /\ users \in [Users -> Handler]
  BY <1>0 DEF TypeOK
<1>2. e.dest \in Dests /\ e # None /\ t # None BY NoneIsNothing DEF Entry
<1>3. entries[k] # None BY <1>0 DEF ThreadsWork
<1>4. TypeOK' BY <1>1, <1>2 DEF TypeOK
<1>5. \A x \in Dests : disk[x] # None => disk'[x] # None BY <1>1, <1>2
<1>6. ThreadsWork'
  <2> SUFFICES ASSUME NEW j \in Keys
      PROVE  /\ entries'[j] = None <=> threads'[j] = None
             /\ entries'[j] # None => AtWork(entries'[j], threads'[j], temp'[j],
                                             disk'[entries'[j].dest])
    BY DEF ThreadsWork
  <2>1. CASE j = k
    <3>1. entries'[j] = e /\ threads'[j] = t /\ temp'[j] = c /\ disk'[e.dest] = d
      BY <2>1, <1>1, <1>2
    <3> QED BY <3>1, <1>2
  <2>2. CASE j # k
    <3>1. entries'[j] = entries[j] /\ threads'[j] = threads[j] /\ temp'[j] = temp[j]
      BY <2>2, <1>1
    <3>2. entries[j] # None => entries[j].dest \in Dests BY <1>1 DEF Entry
    <3>3. /\ entries[j] = None <=> threads[j] = None
          /\ entries[j] # None => AtWork(entries[j], threads[j], temp[j], disk[entries[j].dest])
      BY <1>0 DEF ThreadsWork
    <3> QED BY <3>1, <3>2, <3>3, <1>5 DEF AtWork
  <2> QED BY <2>1, <2>2
<1>7. HandlersWait'
  <2> SUFFICES ASSUME NEW u \in Users PROVE Waits(users[u])' BY DEF HandlersWait
  <2>1. Waits(users[u]) /\ users'[u] = users[u] BY <1>0 DEF HandlersWait
  <2>2. users[u].job \in Jobs => users[u].job.key \in Keys /\ users[u].job.dest \in Dests
    BY JobsAreJobs
  <2>3. \A job \in Jobs : entries[job.key] # None /\ Matches(entries[job.key], job)
                            => entries'[job.key] # None /\ Matches(entries'[job.key], job)
    <3> SUFFICES ASSUME NEW job \in Jobs, entries[job.key] # None, Matches(entries[job.key], job)
        PROVE  entries'[job.key] # None /\ Matches(entries'[job.key], job)
      OBVIOUS
    <3>1. job.key \in Keys BY JobsAreJobs
    <3>2. CASE job.key = k BY <3>1, <3>2, <1>1, <1>2 DEF Matches
    <3>3. CASE job.key # k BY <3>1, <3>3, <1>1 DEF Matches
    <3> QED BY <3>2, <3>3
  <2> QED BY <2>1, <2>2, <2>3, <1>5 DEF Waits
<1>8. NoHalfWrittenFile' BY <1>0, <1>1, <1>2 DEF NoHalfWrittenFile
<1> QED BY <1>4, <1>6, <1>7, <1>8 DEF IInv

\* A handler goes on, and nothing else does.
LEMMA HandlerGoesOn ==
  ASSUME IInv, NEW u \in Users, NEW h \in Handler, Waits(h),
         users' = [users EXCEPT ![u] = h], UNCHANGED <<entries, threads, temp, disk>>
  PROVE  IInv'
<1>1. TypeOK /\ ThreadsWork /\ HandlersWait /\ NoHalfWrittenFile BY DEF IInv
<1>2. users \in [Users -> Handler] BY <1>1 DEF TypeOK
<1>3. TypeOK' BY <1>1, <1>2 DEF TypeOK
<1>4. ThreadsWork' BY <1>1 DEF ThreadsWork
<1>5. HandlersWait'
  <2> SUFFICES ASSUME NEW v \in Users PROVE Waits(users[v])' BY DEF HandlersWait
  <2>1. users'[v] = IF v = u THEN h ELSE users[v] BY <1>2
  <2>2. Waits(users'[v]) BY <2>1, <1>1 DEF HandlersWait
  <2> QED BY <2>2 DEF Waits
<1>6. NoHalfWrittenFile' BY <1>1 DEF NoHalfWrittenFile
<1> QED BY <1>3, <1>4, <1>5, <1>6 DEF IInv

\* A handler that has left waits for nothing.
LEMMA QuitKeeps ==
  ASSUME IInv, NEW u \in Users, Quit(u), UNCHANGED <<entries, threads, temp, disk>>
  PROVE  IInv'
<1>1. NoUser \in Handler BY DEF NoUser, Handler
<1>2. Waits(NoUser) BY NoneIsNothing DEF NoUser, Waits, ArtifactState
<1> QED BY <1>1, <1>2, HandlerGoesOn DEF Quit

-------------------------------------------------------------------------------
(* The thread.                                                              *)

\* Each step of a thread keeps the invariant.
LEMMA DownloadStep == ASSUME IInv, NEW k \in Keys, Download(k) PROVE IInv'
<1> DEFINE e == entries[k]
           t == threads[k]
           c == temp[k]
           d == disk[e.dest]
<1>0. TypeOK /\ ThreadsWork /\ NoHalfWrittenFile BY DEF IInv
<1>1. t # None
  BY DEF Download, TakeRequest, Connect, CreateTemp, ReadChunk, ReportProgress, ReadEnds,
         Publish, MarkDone, Raise, MarkFailed, Unlink, At
<1>2. /\ entries \in [Keys -> Entry \cup {None}] /\ threads \in [Keys -> Thread \cup {None}]
      /\ temp \in [Keys -> Content \cup {None}] /\ disk \in [Dests -> Content \cup {None}]
  BY <1>0 DEF TypeOK
<1>3. e # None /\ AtWork(e, t, c, d) BY <1>0, <1>1 DEF ThreadsWork
<1>4. e \in Entry /\ t \in Thread /\ e.dest \in Dests /\ e.url \in Urls BY <1>1, <1>2, <1>3 DEF Entry
<1>5. c \in Content \cup {None} /\ d \in Content \cup {None} BY <1>2, <1>4
<1>6. /\ entries = [entries EXCEPT ![k] = e] /\ temp = [temp EXCEPT ![k] = c]
      /\ disk = [disk EXCEPT ![e.dest] = d]
  BY <1>2, <1>4
<1>7. \A pc \in PCs : [t EXCEPT !.pc = pc] \in Thread BY <1>4 DEF Thread
<1>8. t.wrote \in 0 .. Size /\ t.pc \in PCs BY <1>4 DEF Thread
<1> HIDE DEF e, t, c, d
<1>9. \A pc : At(k, pc) <=> t.pc = pc BY <1>1 DEF At, t
<1>10. \A pc : Goto(k, pc) => threads' = [threads EXCEPT ![k] = [t EXCEPT !.pc = pc]]
  BY <1>2, <1>1 DEF Goto, t, Thread
<1>11. \A ee \in Entry, tt \in Thread, cc \in Content \cup {None}, dd \in Content \cup {None} :
         /\ ee.url = e.url /\ ee.dest = e.dest
         /\ dd = d \/ (dd # None /\ dd.whole)
         /\ AtWork(ee, tt, cc, dd)
         /\ entries' = [entries EXCEPT ![k] = ee] /\ threads' = [threads EXCEPT ![k] = tt]
         /\ temp' = [temp EXCEPT ![k] = cc] /\ disk' = [disk EXCEPT ![e.dest] = dd]
         /\ users' = users
         => IInv'
  <2> SUFFICES ASSUME NEW ee \in Entry, NEW tt \in Thread, NEW cc \in Content \cup {None},
                      NEW dd \in Content \cup {None}, ee.url = e.url, ee.dest = e.dest,
                      dd = d \/ (dd # None /\ dd.whole), AtWork(ee, tt, cc, dd),
                      entries' = [entries EXCEPT ![k] = ee], threads' = [threads EXCEPT ![k] = tt],
                      temp' = [temp EXCEPT ![k] = cc], disk' = [disk EXCEPT ![e.dest] = dd],
                      users' = users
      PROVE IInv'
    OBVIOUS
  <2> QED BY ThreadGoesOn, <1>1 DEF e, t, d
<1>12. CASE TakeRequest(k)
  <2> DEFINE tt == [t EXCEPT !.pc = "connect"]
  <2>1. tt \in Thread /\ tt.pc = "connect" /\ tt.wrote = t.wrote BY <1>4, <1>7 DEF PCs, Thread
  <2>2. t.pc = "start" /\ threads' = [threads EXCEPT ![k] = tt]
    BY <1>12, <1>9, <1>10 DEF TakeRequest
  <2>3. AtWork(e, tt, c, d) BY <2>1, <2>2, <1>3 DEF AtWork, Working, PCs
  <2> HIDE DEF tt
  <2> QED BY <1>12, <2>1, <2>2, <2>3, <1>4, <1>5, <1>6, <1>11 DEF TakeRequest
<1>13. CASE Connect(k)
  <2> DEFINE tt == [t EXCEPT !.pc = "create"]
             ee == [e EXCEPT !.bytes = 0]
  <2>1. tt \in Thread /\ tt.pc = "create" /\ tt.wrote = t.wrote BY <1>4, <1>7 DEF PCs, Thread
  <2>2. ee \in Entry /\ ee.url = e.url /\ ee.dest = e.dest /\ ee.state = e.state
    BY <1>4, SizeIsNat DEF Entry
  <2>3. /\ t.pc = "connect" /\ threads' = [threads EXCEPT ![k] = tt]
        /\ entries' = [entries EXCEPT ![k] = ee]
    BY <1>13, <1>9, <1>10, <1>2, <1>4 DEF Connect, e, Entry
  <2>4. AtWork(ee, tt, c, d) BY <2>1, <2>2, <2>3, <1>3 DEF AtWork, Working, PCs
  <2> HIDE DEF tt, ee
  <2> QED BY <1>13, <2>1, <2>2, <2>3, <2>4, <1>4, <1>5, <1>6, <1>11 DEF Connect
<1>14. CASE CreateTemp(k)
  <2> DEFINE tt == [t EXCEPT !.pc = "read"]
             cc == [url |-> e.url, chunks |-> 0, whole |-> FALSE]
  <2>1. tt \in Thread /\ tt.pc = "read" /\ tt.wrote = t.wrote BY <1>4, <1>7 DEF PCs, Thread
  <2>2. cc \in Content /\ cc.chunks = 0 BY <1>4, SizeIsNat DEF Content
  <2>3. /\ t.pc = "create" /\ threads' = [threads EXCEPT ![k] = tt]
        /\ temp' = [temp EXCEPT ![k] = cc]
    BY <1>14, <1>9, <1>10 DEF CreateTemp, e
  <2> HIDE DEF tt, cc
  <2>4. AtWork(e, tt, cc, d) BY <2>1, <2>2, <2>3, <1>3, NoneIsNothing DEF AtWork, Working, PCs
  <2> QED BY <1>14, <2>1, <2>2, <2>3, <2>4, <1>4, <1>5, <1>6, <1>11 DEF CreateTemp
<1>15. CASE ReadChunk(k)
  <2> DEFINE tt == [t EXCEPT !.wrote = @ + 1, !.pc = "report"]
             cc == [c EXCEPT !.chunks = @ + 1]
  <2>1. t.pc = "read" /\ t.wrote < Size BY <1>15, <1>9 DEF ReadChunk, t
  <2>2. c \in Content /\ c.chunks = t.wrote BY <2>1, <1>3, <1>5 DEF AtWork
  <2>3. tt \in Thread /\ tt.pc = "report" /\ tt.wrote = t.wrote + 1
    <3>1. t.wrote + 1 \in 0 .. Size BY <2>1, <1>8, SizeIsNat
    <3>2. \A w \in 0 .. Size : /\ [t EXCEPT !.wrote = w, !.pc = "report"] \in Thread
                               /\ [t EXCEPT !.wrote = w, !.pc = "report"].pc = "report"
                               /\ [t EXCEPT !.wrote = w, !.pc = "report"].wrote = w
      BY <1>4 DEF PCs, Thread
    <3> QED BY <3>1, <3>2
  <2>4. cc \in Content /\ cc.chunks = t.wrote + 1 BY <2>1, <2>2, <1>8, SizeIsNat DEF Content
  <2>5. threads' = [threads EXCEPT ![k] = tt]
    BY <1>15, <1>2, <1>4 DEF ReadChunk, t, Thread
  <2>6. temp' = [temp EXCEPT ![k] = cc]
    BY <1>15, <1>2, <2>2 DEF ReadChunk, c, Content
  <2> HIDE DEF tt, cc
  <2>7. AtWork(e, tt, cc, d) BY <2>1, <2>3, <2>4, <1>3, NoneIsNothing DEF AtWork, Working, PCs
  <2> QED BY <1>15, <2>3, <2>4, <2>5, <2>6, <2>7, <1>4, <1>5, <1>6, <1>11 DEF ReadChunk
<1>16. CASE ReportProgress(k)
  <2> DEFINE tt == [t EXCEPT !.pc = "read"]
             ee == [e EXCEPT !.bytes = t.wrote]
  <2>1. tt \in Thread /\ tt.pc = "read" /\ tt.wrote = t.wrote BY <1>4, <1>7 DEF PCs, Thread
  <2>2. ee \in Entry /\ ee.url = e.url /\ ee.dest = e.dest /\ ee.state = e.state
    BY <1>4, <1>8 DEF Entry
  <2>3. /\ t.pc = "report" /\ threads' = [threads EXCEPT ![k] = tt]
        /\ entries' = [entries EXCEPT ![k] = ee]
    BY <1>16, <1>9, <1>10, <1>2, <1>4 DEF ReportProgress, e, t, Entry
  <2>4. AtWork(ee, tt, c, d) BY <2>1, <2>2, <2>3, <1>3 DEF AtWork, Working, PCs
  <2> HIDE DEF tt, ee
  <2> QED BY <1>16, <2>1, <2>2, <2>3, <2>4, <1>4, <1>5, <1>6, <1>11 DEF ReportProgress
<1>17. CASE ReadEnds(k)
  <2> DEFINE tt == [t EXCEPT !.pc = "replace"]
             cc == [c EXCEPT !.whole = TRUE]
  <2>1. tt \in Thread /\ tt.pc = "replace" /\ tt.wrote = t.wrote BY <1>4, <1>7 DEF PCs, Thread
  <2>2. t.pc = "read" /\ threads' = [threads EXCEPT ![k] = tt] BY <1>17, <1>9, <1>10 DEF ReadEnds
  <2>3. c \in Content /\ c.chunks = t.wrote BY <2>2, <1>3, <1>5 DEF AtWork
  <2>4. cc \in Content /\ cc.chunks = t.wrote /\ cc.whole BY <2>3 DEF Content
  <2>5. temp' = [temp EXCEPT ![k] = cc] BY <1>17, <1>2, <2>3 DEF ReadEnds, c, Content
  <2> HIDE DEF tt, cc
  <2>6. AtWork(e, tt, cc, d) BY <2>1, <2>2, <2>4, <1>3, NoneIsNothing DEF AtWork, Working, PCs
  <2> QED BY <1>17, <2>1, <2>2, <2>4, <2>5, <2>6, <1>4, <1>5, <1>6, <1>11 DEF ReadEnds
<1>18. CASE Publish(k)
  <2> DEFINE tt == [t EXCEPT !.pc = "mark"]
  <2>1. tt \in Thread /\ tt.pc = "mark" /\ tt.wrote = t.wrote BY <1>4, <1>7 DEF PCs, Thread
  <2>2. /\ t.pc = "replace" /\ threads' = [threads EXCEPT ![k] = tt]
        /\ temp' = [temp EXCEPT ![k] = None] /\ disk' = [disk EXCEPT ![e.dest] = c]
    BY <1>18, <1>9, <1>10 DEF Publish, e, c
  <2>3. c # None /\ c.whole BY <2>2, <1>3 DEF AtWork
  <2>4. AtWork(e, tt, None, c) BY <2>1, <2>2, <2>3, <1>3 DEF AtWork, Working, PCs
  <2> HIDE DEF tt
  <2> QED BY <1>18, <2>1, <2>2, <2>3, <2>4, <1>4, <1>5, <1>6, <1>11 DEF Publish
<1>19. CASE MarkDone(k)
  <2> DEFINE tt == [t EXCEPT !.pc = "ended"]
             ee == [e EXCEPT !.state = "done"]
  <2>1. tt \in Thread /\ tt.pc = "ended" /\ tt.wrote = t.wrote BY <1>4, <1>7 DEF PCs, Thread
  <2>2. ee \in Entry /\ ee.url = e.url /\ ee.dest = e.dest /\ ee.state = "done"
    BY <1>4 DEF Entry, ArtifactState
  <2>3. /\ t.pc = "mark" /\ threads' = [threads EXCEPT ![k] = tt]
        /\ entries' = [entries EXCEPT ![k] = ee]
    BY <1>19, <1>9, <1>10, <1>2, <1>4 DEF MarkDone, e, Entry
  <2>4. AtWork(ee, tt, c, d) BY <2>1, <2>2, <2>3, <1>3 DEF AtWork, Working, PCs
  <2> HIDE DEF tt, ee
  <2> QED BY <1>19, <2>1, <2>2, <2>3, <2>4, <1>4, <1>5, <1>6, <1>11 DEF MarkDone
<1>20. CASE Raise(k)
  <2> DEFINE tt == [t EXCEPT !.pc = "failing"]
  <2>1. tt \in Thread /\ tt.pc = "failing" /\ tt.wrote = t.wrote BY <1>4, <1>7 DEF PCs, Thread
  <2>2. /\ t.pc \in {"connect", "create", "read", "replace"}
        /\ threads' = [threads EXCEPT ![k] = tt]
    BY <1>20, <1>9, <1>10 DEF Raise
  <2>3. AtWork(e, tt, c, d) BY <2>1, <2>2, <1>3 DEF AtWork, Working, PCs
  <2> HIDE DEF tt
  <2> QED BY <1>20, <2>1, <2>2, <2>3, <1>4, <1>5, <1>6, <1>11 DEF Raise
<1>21. CASE MarkFailed(k)
  <2> DEFINE tt == [t EXCEPT !.pc = "unlink"]
             ee == [e EXCEPT !.state = "failed"]
  <2>1. tt \in Thread /\ tt.pc = "unlink" /\ tt.wrote = t.wrote BY <1>4, <1>7 DEF PCs, Thread
  <2>2. ee \in Entry /\ ee.url = e.url /\ ee.dest = e.dest /\ ee.state = "failed"
    BY <1>4 DEF Entry, ArtifactState
  <2>3. /\ t.pc = "failing" /\ threads' = [threads EXCEPT ![k] = tt]
        /\ entries' = [entries EXCEPT ![k] = ee]
    BY <1>21, <1>9, <1>10, <1>2, <1>4 DEF MarkFailed, e, Entry
  <2>4. AtWork(ee, tt, c, d) BY <2>1, <2>2, <2>3, <1>3 DEF AtWork, Working, PCs
  <2> HIDE DEF tt, ee
  <2> QED BY <1>21, <2>1, <2>2, <2>3, <2>4, <1>4, <1>5, <1>6, <1>11 DEF MarkFailed
<1>22. CASE Unlink(k)
  <2> DEFINE tt == [t EXCEPT !.pc = "ended"]
  <2>1. tt \in Thread /\ tt.pc = "ended" /\ tt.wrote = t.wrote BY <1>4, <1>7 DEF PCs, Thread
  <2>2. /\ t.pc = "unlink" /\ threads' = [threads EXCEPT ![k] = tt]
        /\ temp' = [temp EXCEPT ![k] = None]
    BY <1>22, <1>9, <1>10 DEF Unlink
  <2>3. AtWork(e, tt, None, d) BY <2>1, <2>2, <1>3 DEF AtWork, Working, PCs
  <2> HIDE DEF tt
  <2> QED BY <1>22, <2>1, <2>2, <2>3, <1>4, <1>5, <1>6, <1>11 DEF Unlink
<1> QED BY <1>12, <1>13, <1>14, <1>15, <1>16, <1>17, <1>18, <1>19, <1>20, <1>21, <1>22 DEF Download

-------------------------------------------------------------------------------
(* The handlers.                                                            *)

\* A handler asks for a download.
LEMMA AskStep == ASSUME IInv, NEW u \in Users, Ask(u) PROVE IInv'
<1>0. TypeOK /\ ThreadsWork /\ HandlersWait /\ NoHalfWrittenFile BY DEF IInv
<1>1. PICK job \in Jobs : \/ UseCache(u, job) \/ AcquireFirst(u, job)
                          \/ AcquireShared(u, job) \/ AcquireRefused(u, job)
  BY DEF Ask
<1>2. /\ job \in [key : Keys, url : Urls, dest : Dests]
      /\ job.key \in Keys /\ job.url \in Urls /\ job.dest \in Dests
  BY JobsAreJobs
<1> DEFINE polls == [at |-> "poll", job |-> job, saw |-> None, got |-> None]
<1>3. polls \in Handler BY DEF Handler
<1>4. CASE UseCache(u, job)
  <2> DEFINE h == [at |-> "cached", job |-> job, saw |-> None, got |-> None]
  <2>1. h \in Handler BY DEF Handler
  <2>2. Waits(h) BY <1>4, NoneIsNothing DEF UseCache, Waits, ArtifactState
  <2>3. users' = [users EXCEPT ![u] = h] /\ UNCHANGED <<entries, threads, temp, disk>>
    BY <1>4 DEF UseCache
  <2> HIDE DEF h
  <2> QED BY <2>1, <2>2, <2>3, HandlerGoesOn
<1>5. CASE AcquireShared(u, job)
  <2>1. Waits(polls) BY <1>5, NoneIsNothing DEF AcquireShared, Waits, ArtifactState
  <2>2. users' = [users EXCEPT ![u] = polls] /\ UNCHANGED <<entries, threads, temp, disk>>
    BY <1>5 DEF AcquireShared, Suspend
  <2> HIDE DEF polls
  <2> QED BY <2>1, <2>2, <1>3, HandlerGoesOn
<1>6. CASE AcquireRefused(u, job) BY <1>6, QuitKeeps DEF AcquireRefused
<1>7. CASE AcquireFirst(u, job)
  <2> DEFINE e == [url |-> job.url, dest |-> job.dest, state |-> "pending", bytes |-> 0]
             t == [pc |-> "start", wrote |-> 0]
  <2>1. e \in Entry /\ e # None /\ e.state = "pending" /\ e.url = job.url /\ e.dest = job.dest
    BY <1>2, SizeIsNat, NoneIsNothing DEF Entry, ArtifactState
  <2>2. t \in Thread /\ t # None /\ t.pc = "start" /\ t.wrote = 0
    BY SizeIsNat, NoneIsNothing DEF Thread, PCs
  <2>3. /\ entries[job.key] = None
        /\ entries' = [entries EXCEPT ![job.key] = e] /\ threads' = [threads EXCEPT ![job.key] = t]
        /\ users' = [users EXCEPT ![u] = polls] /\ temp' = temp /\ disk' = disk
    BY <1>7 DEF AcquireFirst, Suspend
  <2> HIDE DEF e, t
  <2>4. /\ entries \in [Keys -> Entry \cup {None}] /\ threads \in [Keys -> Thread \cup {None}]
        /\ users \in [Users -> Handler]
    BY <1>0 DEF TypeOK
  <2>5. TypeOK' BY <1>0, <1>3, <2>1, <2>2, <2>3, <2>4 DEF TypeOK
  <2>6. ThreadsWork'
    <3> SUFFICES ASSUME NEW j \in Keys
        PROVE  /\ entries'[j] = None <=> threads'[j] = None
               /\ entries'[j] # None => AtWork(entries'[j], threads'[j], temp'[j],
                                               disk'[entries'[j].dest])
      BY DEF ThreadsWork
    <3>1. CASE j = job.key
      <4>1. entries'[j] = e /\ threads'[j] = t BY <3>1, <2>3, <2>4
      <4>2. AtWork(e, t, temp[j], disk[e.dest]) BY <2>1, <2>2 DEF AtWork, Working, PCs
      <4> QED BY <4>1, <4>2, <2>1, <2>2, <2>3
    <3>2. CASE j # job.key
      <4>1. entries'[j] = entries[j] /\ threads'[j] = threads[j] BY <3>2, <2>3, <2>4
      <4> QED BY <4>1, <2>3, <1>0 DEF ThreadsWork
    <3> QED BY <3>1, <3>2
  <2>7. HandlersWait'
    <3> SUFFICES ASSUME NEW v \in Users PROVE Waits(users[v])' BY DEF HandlersWait
    <3>1. CASE v = u
      <4>1. users'[v] = polls BY <3>1, <2>3, <2>4
      <4>2. entries'[job.key] = e BY <1>2, <2>3, <2>4
      <4>3. polls.at = "poll" /\ polls.job = job /\ polls.saw = None OBVIOUS
      <4> HIDE DEF polls
      <4> QED BY <4>1, <4>2, <4>3, <2>1, NoneIsNothing DEF Waits, Matches, ArtifactState
    <3>2. CASE v # u
      <4>1. users'[v] = users[v] /\ Waits(users[v]) BY <3>2, <2>3, <2>4, <1>0 DEF HandlersWait
      <4>2. \A other \in Jobs : entries[other.key] # None => entries'[other.key] = entries[other.key]
        BY <2>3, <2>4, JobsAreJobs
      <4> QED BY <4>1, <4>2, <2>3 DEF Waits
    <3> QED BY <3>1, <3>2
  <2>8. NoHalfWrittenFile' BY <1>0, <2>3 DEF NoHalfWrittenFile
  <2> QED BY <2>5, <2>6, <2>7, <2>8 DEF IInv
<1> QED BY <1>1, <1>4, <1>5, <1>6, <1>7

\* A handler goes on from where it was suspended.
LEMMA ContinueStep == ASSUME IInv, NEW u \in Users, Continue(u) PROVE IInv'
<1> DEFINE h == users[u]
<1>0. TypeOK /\ ThreadsWork /\ HandlersWait BY DEF IInv
<1>1. h \in Handler /\ Waits(h) BY <1>0 DEF TypeOK, HandlersWait
<1>2. /\ entries \in [Keys -> Entry \cup {None}] /\ disk \in [Dests -> Content \cup {None}]
      /\ users \in [Users -> Handler]
  BY <1>0 DEF TypeOK
<1>3. h.at # "idle" => h.job \in Jobs /\ h.job.key \in Keys /\ h.job.dest \in Dests
  BY <1>1, JobsAreJobs DEF Waits
<1>4. CASE ReadCached(u)
  <2> DEFINE g == [h EXCEPT !.at = "idle", !.got = disk[h.job.dest]]
  <2>1. h.at = "cached" /\ users' = [users EXCEPT ![u] = g] BY <1>4, <1>2 DEF ReadCached, IsAt, Handler
  <2>2. g \in Handler /\ g.at = "idle" /\ g.saw = h.saw BY <2>1, <1>1, <1>2, <1>3 DEF Handler
  <2> HIDE DEF g
  <2>3. Waits(g) BY <2>1, <2>2, <1>1, NoneIsNothing DEF Waits, ArtifactState
  <2> QED BY <1>4, <2>1, <2>2, <2>3, HandlerGoesOn DEF ReadCached
<1>5. CASE Poll(u)
  <2> DEFINE s == entries[h.job.key].state
             g == [h EXCEPT !.at = "shown", !.saw = s]
  <2>1. h.at \in {"poll", "shown"} /\ users' = [users EXCEPT ![u] = g]
    BY <1>5, <1>2 DEF Poll, IsAt, Handler
  <2>2. /\ entries[h.job.key] \in Entry /\ entries[h.job.key] # None
        /\ entries[h.job.key].dest = h.job.dest
    BY <2>1, <1>1, <1>2, <1>3 DEF Waits, Matches
  <2>3. s \in ArtifactState BY <2>2 DEF Entry
  <2>4. s = "done" => disk[h.job.dest] # None
    BY <2>1, <2>2, <1>0, <1>3 DEF ThreadsWork, AtWork
  <2> HIDE DEF s
  <2>5. g \in Handler /\ g.at = "shown" /\ g.saw = s /\ g.job = h.job BY <2>3, <1>1 DEF Handler
  <2> HIDE DEF g
  <2>6. Waits(g) BY <2>1, <2>3, <2>4, <2>5, <1>1, NoneIsNothing DEF Waits
  <2> QED BY <1>5, <2>1, <2>5, <2>6, HandlerGoesOn DEF Poll
<1>6. CASE ReadPayload(u)
  <2> DEFINE g == [h EXCEPT !.at = "idle", !.saw = None, !.got = disk[h.job.dest]]
  <2>1. h.at = "shown" /\ users' = [users EXCEPT ![u] = g]
    BY <1>6, <1>2 DEF ReadPayload, IsAt, Handler
  <2>2. g \in Handler /\ g.at = "idle" /\ g.saw = None BY <2>1, <1>1, <1>2, <1>3 DEF Handler
  <2> HIDE DEF g
  <2>3. Waits(g) BY <2>2, NoneIsNothing DEF Waits, ArtifactState
  <2> QED BY <1>6, <2>1, <2>2, <2>3, HandlerGoesOn DEF ReadPayload
<1>7. CASE GiveUp(u) BY <1>7, QuitKeeps DEF GiveUp
<1> QED BY <1>4, <1>5, <1>6, <1>7 DEF Continue

\* After a restart there are files, but no entries and no threads.
LEMMA RestartStep == ASSUME IInv, Restart PROVE IInv'
<1>0. TypeOK /\ NoHalfWrittenFile BY DEF IInv
<1>1. NoUser \in Handler BY DEF NoUser, Handler
<1>2. TypeOK' BY <1>0, <1>1 DEF Restart, TypeOK
<1>3. ThreadsWork' BY DEF Restart, ThreadsWork
<1>4. HandlersWait'
  BY NoneIsNothing DEF Restart, HandlersWait, Waits, NoUser, ArtifactState
<1>5. NoHalfWrittenFile' BY <1>0 DEF Restart, NoHalfWrittenFile
<1> QED BY <1>2, <1>3, <1>4, <1>5 DEF IInv

\* Every step keeps the invariant.
LEMMA StepIInv == IInv /\ [Next]_vars => IInv'
<1> SUFFICES ASSUME IInv, [Next]_vars PROVE IInv' OBVIOUS
<1>1. CASE \E k \in Keys : Download(k) BY <1>1, DownloadStep
<1>2. CASE \E u \in Users : Ask(u) \/ Continue(u) \/ Leave(u)
  <2>1. ASSUME NEW u \in Users, Leave(u) PROVE IInv' BY <2>1, QuitKeeps DEF Leave
  <2> QED BY <1>2, <2>1, AskStep, ContinueStep
<1>3. CASE Restart BY <1>3, RestartStep
<1>4. CASE UNCHANGED vars
  BY <1>4 DEF vars, IInv, TypeOK, ThreadsWork, HandlersWait, Waits, NoHalfWrittenFile
<1> QED BY <1>1, <1>2, <1>3, <1>4 DEF Next

-------------------------------------------------------------------------------
(* The theorems.                                                            *)

\* The invariant holds in every state.
THEOREM Invariant == Spec => []IInv
BY InitIInv, StepIInv, PTL DEF Spec

\* Entries, threads, files and handlers have their types.
THEOREM TypeCorrect == Spec => []TypeOK
<1>1. IInv => TypeOK BY DEF IInv
<1> QED BY <1>1, Invariant, PTL

\* No destination ever holds a file that is still being written, whatever fails and
\* whenever the process ends (_default_downloader writes to a .part file).
THEOREM NothingHalfWritten == Spec => []NoHalfWrittenFile
<1>1. IInv => NoHalfWrittenFile BY DEF IInv
<1> QED BY <1>1, Invariant, PTL

\* Done means published: a handler that has been told so finds the file, also when it
\* was suspended in between (uboot_download_url, read_file).
THEOREM DoneMeansPublished == Spec => []DoneIsPublished
<1>1. IInv => DoneIsPublished BY DEF IInv, ThreadsWork, AtWork, HandlersWait, Waits, DoneIsPublished
<1> QED BY <1>1, Invariant, PTL

\* What a thread of a settled entry still does leaves the entry alone.
LEMMA SettledStep ==
  ASSUME IInv, [Next]_vars, NEW k \in Keys, entries[k] # None, entries[k].state # "pending"
  PROVE  entries'[k] \in {entries[k], None}
<1>0. TypeOK /\ ThreadsWork BY DEF IInv
<1>1. entries \in [Keys -> Entry \cup {None}] BY <1>0 DEF TypeOK
<1>2. threads[k] # None /\ threads[k].pc \in PCs
  BY <1>0 DEF ThreadsWork, TypeOK, Thread
<1>3. threads[k].pc \in {"unlink", "ended"}
  BY <1>0, <1>2 DEF ThreadsWork, AtWork, Working
<1>4. CASE \E j \in Keys : Download(j)
  <2>1. PICK j \in Keys : Download(j) BY <1>4
  <2>2. CASE j = k
    <3>1. Unlink(k)
      BY <2>1, <2>2, <1>3 DEF Download, TakeRequest, Connect, CreateTemp, ReadChunk,
         ReportProgress, ReadEnds, Publish, MarkDone, Raise, MarkFailed, At
    <3> QED BY <3>1 DEF Unlink
  <2>3. CASE j # k
    BY <2>1, <2>3, <1>1 DEF Download, TakeRequest, Connect, CreateTemp, ReadChunk,
       ReportProgress, ReadEnds, Publish, MarkDone, Raise, MarkFailed, Unlink
  <2> QED BY <2>2, <2>3
<1>5. CASE \E u \in Users : Ask(u) \/ Continue(u) \/ Leave(u)
  <2>1. PICK u \in Users : Ask(u) \/ Continue(u) \/ Leave(u) BY <1>5
  <2>2. CASE Ask(u)
    <3>1. PICK job \in Jobs : \/ UseCache(u, job) \/ AcquireFirst(u, job)
                              \/ AcquireShared(u, job) \/ AcquireRefused(u, job)
      BY <2>2 DEF Ask
    <3>2. CASE AcquireFirst(u, job) BY <3>2, <1>1 DEF AcquireFirst
    <3> QED BY <3>1, <3>2 DEF UseCache, AcquireShared, AcquireRefused
  <2>3. CASE Continue(u) BY <2>3 DEF Continue, ReadCached, Poll, ReadPayload, GiveUp
  <2>4. CASE Leave(u) BY <2>4 DEF Leave
  <2> QED BY <2>1, <2>2, <2>3, <2>4
<1>6. CASE Restart BY <1>6 DEF Restart
<1>7. CASE UNCHANGED vars BY <1>7 DEF vars
<1> QED BY <1>4, <1>5, <1>6, <1>7 DEF Next

\* An entry that is done or failed stays so until the process ends, so a snapshot that
\* a handler took of it is never stale (_run_download, acquire_download).
THEOREM SettledForGood == Spec => SettledStays
<1>1. IInv /\ [Next]_vars =>
        [\A k \in Keys : entries[k] # None /\ entries[k].state # "pending"
                           => entries'[k] \in {entries[k], None}]_vars
  BY SettledStep
<1> QED BY <1>1, Invariant, PTL DEF Spec, SettledStays
===============================================================================
