---------------------------- MODULE DeviceFlowProofs ----------------------------
(***************************************************************************)
(* Proofs about DeviceFlow, for any devices, any number of transactions,    *)
(* and a network that loses, repeats and delays, or does not.               *)
(*                                                                          *)
(* Every request that is in the network was sent by a device that had run   *)
(* the script with its token, and every answer goes to a transaction of its *)
(* own.  From this it follows that devices and network make only steps that *)
(* the session core allows, so that all that is proved of the core holds    *)
(* here too, and that device and handler stay in step.                      *)
(***************************************************************************)
EXTENDS DeviceFlow, ScriptedSessionsProofs

\* A script that the server can have sent.
Served(script) == /\ script \in Script
                  /\ script.next <= issued
                  /\ script.receive => script.next # NoToken

\* It comes after all those in the set done.
After(script, done) == script.next # NoToken => \A t \in done : t < script.next

\* A device in its script; once it has begun to upload, the script counts as run.
DeviceRuns(d, done) ==
  /\ d.at \in {"running", "putting", "sending", "stalled"} => Served(d.script)
  /\ d.at = "running" => After(d.script, done)
  /\ d.at \in {"putting", "sending", "stalled"} => d.script.next \in done /\ d.try # 0

DevicesRun == \A c \in Clients : DeviceRuns(device[c], ran[c])

\* A device has run only scripts that were sent.
RanIssued == \A c \in Clients : \A t \in ran[c] : t <= issued

\* A request comes from a transaction that has begun, and from a script that was run.
RequestsSent ==
  /\ \A m \in rrqs : /\ m.try <= device[m.client].try
                     /\ m.token # NoToken => m.token \in ran[m.client]
  /\ \A m \in wrqs : /\ m.try <= device[m.client].try
                     /\ m.token \in ran[m.client]

\* An answer that its device still waits for has a script that comes next.
Awaited(r) == IsAt(r.client, "asking") /\ InTry(r.client, r.try)
RepliesFit ==
  \A r \in replies :
    /\ r.try <= device[r.client].try
    /\ r.script # None => /\ Served(r.script)
                          /\ Awaited(r) => After(r.script, ran[r.client])

\* What the last hook was asked for came from a script that was run.
AnswerFits == out.asked # NoToken => out.client \in Clients /\ out.asked \in ran[out.client]

FlowInv == /\ FlowTypeOK
           /\ DevicesRun /\ RanIssued /\ RequestsSent /\ RepliesFit /\ AnswerFits

-------------------------------------------------------------------------------
(* The steps by what they change.                                           *)

\* At first there is nothing.
LEMMA FlowInitInv == FlowInit => FlowInv
<1> SUFFICES ASSUME FlowInit PROVE FlowInv OBVIOUS
<1>1. TypeOK BY InitType DEF FlowInit
<1>2. FlowTypeOK BY <1>1, MaxTryIsNat DEF FlowInit, FlowTypeOK, Device
<1> QED BY <1>2 DEF FlowInit, Init, FlowInv, DevicesRun, DeviceRuns, RanIssued, RequestsSent,
                    RepliesFit, AnswerFits, Silence

\* A script that was served stays one while tokens are drawn.
LEMMA ServedOn ==
  ASSUME TypeOK, TypeOK', issued <= issued', NEW script, Served(script)
  PROVE  Served(script)'
BY DEF Served, Script, TypeOK

\* What a device sends: from transaction n, with the token of a script in the set done.
NewRRQ(m, c, n, done) == /\ m \in RRQMessage /\ m.client = c /\ m.try = n
                         /\ m.token # NoToken => m.token \in done
NewWRQ(m, c, n, done) == m \in WRQMessage /\ m.client = c /\ m.try = n /\ m.token \in done

\* A device makes a step: the new transaction that it may begin is not answered yet.
LEMMA DeviceStep ==
  ASSUME FlowInv, TypeOK', issued' = issued, out' = out,
         NEW c \in Clients, NEW d \in Device, Move(c, d),
         d.try = device[c].try \/ d.try = device[c].try + 1,
         d.at = "asking" => d.try = device[c].try + 1,
         NEW new \in SUBSET Tokens, \A t \in new : t <= issued,
         ran' = [ran EXCEPT ![c] = @ \cup new],
         DeviceRuns(d, ran[c] \cup new),
         \A m \in rrqs' : m \in rrqs \/ NewRRQ(m, c, d.try, ran[c] \cup new),
         \A m \in wrqs' : m \in wrqs \/ NewWRQ(m, c, d.try, ran[c] \cup new),
         replies' \subseteq replies
  PROVE  FlowInv'
<1>1. /\ device \in [Clients -> Device] /\ ran \in [Clients -> SUBSET Tokens]
      /\ rrqs \subseteq RRQMessage /\ wrqs \subseteq WRQMessage /\ replies \subseteq ReplyMessage
  BY DEF FlowInv, FlowTypeOK
<1>2. /\ device' \in [Clients -> Device]
      /\ \A e \in Clients : device'[e] = IF e = c THEN d ELSE device[e]
  BY <1>1 DEF Move
<1>3. /\ ran' \in [Clients -> SUBSET Tokens]
      /\ \A e \in Clients : ran'[e] = IF e = c THEN ran[c] \cup new ELSE ran[e]
  BY <1>1
<1>4. \A e \in Clients : ran[e] \subseteq ran'[e] BY <1>3
<1>5. \A e \in Clients : device[e].try \in Nat /\ device[e].try <= device'[e].try
  BY <1>1, <1>2, MaxTryIsNat DEF Device
<1>6. FlowTypeOK' BY <1>1, <1>2, <1>3 DEF FlowTypeOK, NewRRQ, NewWRQ
<1>7. DevicesRun'
  <2> SUFFICES ASSUME NEW e \in Clients PROVE DeviceRuns(device[e], ran[e])' BY DEF DevicesRun
  <2>1. DeviceRuns(device'[e], ran'[e]) BY <1>2, <1>3 DEF FlowInv, DevicesRun
  <2> QED BY <2>1 DEF DeviceRuns, Served
<1>8. RanIssued' BY <1>3 DEF FlowInv, RanIssued
<1>9. RequestsSent'
  <2>1. ASSUME NEW m \in rrqs' PROVE /\ m.try <= device'[m.client].try
                                     /\ m.token # NoToken => m.token \in ran'[m.client]
    <3>1. CASE m \in rrqs
      <4>1. m.client \in Clients /\ m.try \in Nat /\ m.try <= device[m.client].try
        BY <3>1, <1>1 DEF FlowInv, RequestsSent, RRQMessage
      <4>2. m.try <= device'[m.client].try
        BY <4>1, <1>2, <1>1, MaxTryIsNat DEF Device
      <4> QED BY <4>1, <4>2, <3>1, <1>4 DEF FlowInv, RequestsSent
    <3>2. CASE m \notin rrqs BY <3>2, <1>2, <1>3 DEF Device, NewRRQ
    <3> QED BY <3>1, <3>2
  <2>2. ASSUME NEW m \in wrqs' PROVE m.try <= device'[m.client].try /\ m.token \in ran'[m.client]
    <3>1. CASE m \in wrqs
      <4>1. m.client \in Clients /\ m.try \in Nat /\ m.try <= device[m.client].try
        BY <3>1, <1>1 DEF FlowInv, RequestsSent, WRQMessage
      <4>2. m.try <= device'[m.client].try
        BY <4>1, <1>2, <1>1, MaxTryIsNat DEF Device
      <4> QED BY <4>1, <4>2, <3>1, <1>4 DEF FlowInv, RequestsSent
    <3>2. CASE m \notin wrqs BY <3>2, <1>2, <1>3 DEF Device, NewWRQ
    <3> QED BY <3>1, <3>2
  <2> QED BY <2>1, <2>2 DEF RequestsSent
<1>10. RepliesFit'
  <2> SUFFICES ASSUME NEW r \in replies'
               PROVE  /\ r.try <= device'[r.client].try
                      /\ r.script # None => /\ Served(r.script)'
                                            /\ Awaited(r)' => After(r.script, ran'[r.client])
    BY DEF RepliesFit, After
  <2>1. /\ r \in replies /\ r.client \in Clients /\ r.try \in Nat
        /\ r.try <= device[r.client].try
    BY <1>1 DEF FlowInv, RepliesFit, ReplyMessage
  <2>2. r.try <= device'[r.client].try BY <2>1, <1>2, <1>1, MaxTryIsNat DEF Device
  <2>3. r.script # None => Served(r.script)' BY <2>1 DEF FlowInv, RepliesFit, Served
  <2>4. CASE r.client = c
    <3>1. ~Awaited(r)' BY <2>1, <2>4, <1>1, <1>2, MaxTryIsNat DEF Awaited, IsAt, InTry, Device
    <3> QED BY <3>1, <2>2, <2>3
  <2>5. CASE r.client # c
    <3>1. Awaited(r)' => Awaited(r) BY <2>1, <2>5, <1>2 DEF Awaited, IsAt, InTry
    <3> QED BY <3>1, <2>1, <2>2, <2>3, <2>5, <1>3 DEF FlowInv, RepliesFit
  <2> QED BY <2>4, <2>5
<1>11. AnswerFits' BY <1>4 DEF FlowInv, AnswerFits
<1> QED BY <1>6, <1>7, <1>8, <1>9, <1>10, <1>11 DEF FlowInv

\* The server makes a step: no script is run by it, and what it sends comes next.
LEMMA ServerStep ==
  ASSUME FlowInv, TypeOK', issued <= issued', ran' = ran, AnswerFits',
         device' \in [Clients -> Device],
         \A c \in Clients :
           device'[c] = device[c] \/ /\ device[c].at \in {"putting", "sending"}
                                     /\ device'[c].at \in {"sending", "stalled"}
                                     /\ device'[c].try = device[c].try
                                     /\ device'[c].script = device[c].script,
         rrqs' \subseteq rrqs, wrqs' \subseteq wrqs,
         replies' \subseteq replies \cup {r \in ReplyMessage :
           /\ r.try <= device[r.client].try
           /\ r.script # None => Served(r.script)' /\ After(r.script, ran[r.client])}
  PROVE  FlowInv'
<1>1. /\ device \in [Clients -> Device] /\ ran \in [Clients -> SUBSET Tokens]
      /\ rrqs \subseteq RRQMessage /\ wrqs \subseteq WRQMessage /\ replies \subseteq ReplyMessage
      /\ TypeOK
  BY DEF FlowInv, FlowTypeOK
<1>2. \A c \in Clients : device'[c].try = device[c].try OBVIOUS
<1>3. FlowTypeOK'
  <2>1. replies' \subseteq ReplyMessage BY <1>1
  <2> QED BY <1>1, <2>1 DEF FlowTypeOK
<1>4. DevicesRun'
  <2> SUFFICES ASSUME NEW c \in Clients PROVE DeviceRuns(device[c], ran[c])' BY DEF DevicesRun
  <2>1. DeviceRuns(device[c], ran[c]) BY DEF FlowInv, DevicesRun
  <2>2. device[c].at \in {"running", "putting", "sending", "stalled"} => Served(device[c].script)'
    BY <2>1, <1>1, ServedOn DEF DeviceRuns
  <2>3. CASE device'[c] = device[c] BY <2>1, <2>2, <2>3 DEF DeviceRuns, After
  <2>4. CASE device'[c] # device[c] BY <2>1, <2>2, <2>4 DEF DeviceRuns, After, Served
  <2> QED BY <2>3, <2>4
<1>5. RanIssued' BY <1>1 DEF FlowInv, FlowTypeOK, RanIssued, TypeOK, Tokens
<1>6. RequestsSent' BY <1>1, <1>2 DEF FlowInv, RequestsSent, RRQMessage, WRQMessage
<1>7. RepliesFit'
  <2> SUFFICES ASSUME NEW r \in replies'
               PROVE  /\ r.try <= device'[r.client].try
                      /\ r.script # None => /\ Served(r.script)'
                                            /\ Awaited(r)' => After(r.script, ran[r.client])
    BY DEF RepliesFit, After
  <2>1. CASE r \in replies
    <3>1. r.client \in Clients BY <2>1, <1>1 DEF ReplyMessage
    <3>2. Awaited(r)' => Awaited(r) BY <3>1 DEF Awaited, IsAt, InTry
    <3>3. r.script # None => Served(r.script)'
      BY <2>1, <1>1, ServedOn DEF FlowInv, RepliesFit
    <3> QED BY <3>1, <3>2, <3>3, <2>1, <1>2 DEF FlowInv, RepliesFit
  <2>2. CASE r \notin replies BY <2>2, <1>2 DEF ReplyMessage
  <2> QED BY <2>1, <2>2
<1> QED BY <1>3, <1>4, <1>5, <1>6, <1>7 DEF FlowInv

-------------------------------------------------------------------------------
(* What a hook does.                                                        *)

\* A script of its three parts.
LEMMA ScriptOf ==
  ASSUME NEW next \in Nat, NEW receive \in BOOLEAN, NEW probe \in BOOLEAN
  PROVE  [next |-> next, receive |-> receive, probe |-> probe] \in Script
BY DEF Script

\* A script is only ever answered together with a new token of its session.
LEMMA ScriptIsNew ==
  ASSUME TypeOK, NEW c \in Clients,
         \/ \E preset \in BOOLEAN : StartSession(c, preset)
         \/ \E value \in HushValues, status \in RecvStatus : ResumeSession(c, value, status)
         \/ \E t \in 0 .. issued : RefuseRRQ(c, t)
  PROVE  /\ issued <= issued'
         /\ out'.result = "script" => /\ sessions'[c] \in ClientSession
                                      /\ sessions'[c].token = issued + 1
                                      /\ issued' = issued + 1
<1>1. [Next]_vars BY DEF Next, RRQ
<1>2. TypeOK' BY <1>1, NextType
<1>3. issued \in Nat BY DEF TypeOK
<1>4. ASSUME NEW preset \in BOOLEAN, StartSession(c, preset)
      PROVE  /\ issued' = issued + 1 /\ sessions'[c] # None /\ sessions'[c].token = issued + 1
  <2>1. sessions'[c] = FreshSession(preset) BY <1>4, SaveEffect DEF StartSession
  <2>2. FreshSession(preset) \in ClientSession
    BY <1>3 DEF FreshSession, ClientSession, HandlerStates, NewToken, Tokens
  <2>3. FreshSession(preset).token = issued + 1 BY DEF FreshSession, NewToken
  <2>4. issued' = issued + 1 BY <1>4 DEF StartSession, NewToken
  <2> QED BY <2>1, <2>2, <2>3, <2>4, NoneIsNoSession
<1>5. ASSUME NEW value \in HushValues, NEW status \in RecvStatus, ResumeSession(c, value, status)
      PROVE  /\ issued <= issued'
             /\ out'.result = "script" => /\ sessions'[c] # None
                                          /\ sessions'[c].token = issued + 1
                                          /\ issued' = issued + 1
  <2>1. CASE Advance(c, value, status)
    <3>1. PICK ks \in SUBSET Artifacts : Kept(c, value, ks) \/ Ended(c, ks)
      BY <2>1, AdvanceOutcome
    <3>2. issued' = issued \/ issued' = issued + 1
      BY <3>1 DEF Kept, Ended, Instructed, Broken, NewToken
    <3>3. out'.result = "script" => issued' = issued + 1
      BY <2>1, <1>3 DEF Advance, ExecStep, RecvStep, FinalStep, HandlerReturns, HandlerRaises,
                        StrayAwait, Answer, NewToken
    <3>4. issued' = issued + 1 => Kept(c, value, ks) /\ Instructed(c)
      BY <3>1, <1>3 DEF Kept, Ended, Broken
    <3> QED BY <3>2, <3>3, <3>4, <1>3 DEF Kept, Instructed, NewToken
  <2>2. CASE ~Advance(c, value, status)
    BY <2>2, <1>5, <1>3 DEF ResumeSession, PreflightFails, HandlerNotCreated, NoHandler,
                            DeadHandler, ReceiveFails, Answer
  <2> QED BY <2>1, <2>2
<1>6. ASSUME NEW t \in 0 .. issued, RefuseRRQ(c, t)
      PROVE  issued' = issued /\ out'.result # "script"
  BY <1>6 DEF RefuseRRQ, Answer
<1>7. sessions'[c] \in ClientSession \cup {None} BY <1>2 DEF TypeOK
<1> QED BY <1>3, <1>4, <1>5, <1>6, <1>7

\* What is asked of a hook is what it answers to.
LEMMA AnswersAsked ==
  ASSUME TypeOK, NEW c \in Clients, NEW t,
         IF t = NoToken THEN StartSession(c, FALSE)
         ELSE IF Holds(c, t)
              THEN \E value \in HushValues, status \in RecvStatus : ResumeSession(c, value, status)
              ELSE RefuseRRQ(c, t)
  PROVE  out'.client = c /\ out'.asked = t
<1>1. CASE t = NoToken BY <1>1 DEF StartSession, Answer
<1>2. CASE t # NoToken /\ ~Holds(c, t) BY <1>2 DEF RefuseRRQ, Answer
<1>3. CASE t # NoToken /\ Holds(c, t)
  <2>1. PICK value \in HushValues, status \in RecvStatus : ResumeSession(c, value, status)
    BY <1>3
  <2>2. sessions[c].token = t BY <1>3 DEF Holds
  <2>3. CASE Advance(c, value, status) BY <2>2, <2>3, AdvanceOutcome
  <2>4. CASE ~Advance(c, value, status)
    BY <2>1, <2>2, <2>4 DEF ResumeSession, PreflightFails, HandlerNotCreated, NoHandler,
                            DeadHandler, ReceiveFails, Answer
  <2> QED BY <2>3, <2>4
<1> QED BY <1>1, <1>2, <1>3

-------------------------------------------------------------------------------
(* The server's side.                                                       *)

\* A request that arrives: a step of the core, whose script comes next.
LEMMA HandleRRQKeeps ==
  ASSUME FlowInv, NEW m \in rrqs, HandleRRQ(m) PROVE Next /\ FlowInv'
<1>0. TypeOK /\ FlowTypeOK /\ issued \in Nat BY DEF FlowInv, FlowTypeOK, TypeOK
<1> DEFINE c == m.client
<1>1. /\ m \in RRQMessage /\ c \in Clients /\ m.try \in 1 .. MaxTry
      /\ m.hush \in HushValues /\ m.status \in RecvStatus /\ m.token \in Nat
      /\ m.try <= device[c].try
  BY <1>0 DEF FlowTypeOK, RRQMessage, FlowInv, RequestsSent
<1>2. m.token = NoToken \/ m.token \in ran[c] BY DEF FlowInv, RequestsSent
<1>3. m.token \in 0 .. issued BY <1>1, <1>2, <1>0 DEF FlowInv, RanIssued, NoToken
<1>4. IF m.token = NoToken THEN StartSession(c, FALSE)
      ELSE IF Holds(c, m.token)
           THEN \E value \in HushValues, status \in RecvStatus : ResumeSession(c, value, status)
           ELSE RefuseRRQ(c, m.token)
  BY <1>1 DEF HandleRRQ
<1>5. \/ \E preset \in BOOLEAN : StartSession(c, preset)
      \/ \E value \in HushValues, status \in RecvStatus : ResumeSession(c, value, status)
      \/ \E t \in 0 .. issued : RefuseRRQ(c, t)
  BY <1>4, <1>3
<1>6. Next BY <1>1, <1>5 DEF Next, RRQ
<1>7. TypeOK' BY <1>0, <1>6, NextType
<1>8. /\ issued <= issued'
      /\ out'.result = "script" => /\ sessions'[c] \in ClientSession
                                   /\ sessions'[c].token = issued + 1
                                   /\ issued' = issued + 1
  BY <1>0, <1>1, <1>5, ScriptIsNew
<1>9. out'.client = c /\ out'.asked = m.token BY <1>0, <1>1, <1>4, AnswersAsked
<1>10. device' = device /\ wrqs' = wrqs /\ ran' = ran /\ rrqs' \subseteq rrqs
  BY DEF HandleRRQ, Consume
<1>11. AnswerFits' BY <1>1, <1>2, <1>9, <1>10 DEF AnswerFits
<1>12. \A t \in ran[c] : t \in Nat /\ t <= issued
  BY <1>0, <1>1 DEF FlowInv, RanIssued, FlowTypeOK, Tokens
<1> PICK script : script = IF out'.result = "miss" THEN None
                           ELSE IF out'.result = "script" THEN ScriptServed(sessions'[c])
                           ELSE LastScript
  OBVIOUS
<1>13. script # None => script \in Script /\ Served(script)' /\ After(script, ran[c])
  <2>1. CASE out'.result = "script"
    <3> PICK s : s = sessions'[c] OBVIOUS
    <3>1. s \in ClientSession /\ s.token = issued + 1 /\ issued' = issued + 1 BY <2>1, <1>8
    <3>2. script = [next |-> s.token, receive |-> s.pending # None, probe |-> s.preflight]
      BY <2>1 DEF ScriptServed
    <3>3. s.preflight \in BOOLEAN BY <3>1 DEF ClientSession
    <3>4. script.next = issued + 1 /\ script \in Script
      <4>1. script.next = s.token /\ s.token \in Nat BY <3>1, <3>2, <1>0
      <4>2. CASE s.pending = None
        <5>1. script = [next |-> s.token, receive |-> FALSE, probe |-> s.preflight]
          BY <3>2, <4>2
        <5> QED BY <4>1, <5>1, <3>1, <3>3, ScriptOf
      <4>3. CASE s.pending # None
        <5>1. script = [next |-> s.token, receive |-> TRUE, probe |-> s.preflight]
          BY <3>2, <4>3
        <5> QED BY <4>1, <5>1, <3>1, <3>3, ScriptOf
      <4> QED BY <4>2, <4>3
    <3> QED BY <3>1, <3>4, <1>12, <1>0 DEF Served, After, NoToken
  <2>2. CASE out'.result \notin {"script", "miss"}
    <3>1. script = LastScript BY <2>2
    <3>2. issued' \in Nat BY <1>7 DEF TypeOK
    <3>3. script \in Script BY <3>1, ScriptOf DEF LastScript, NoToken
    <3>5. script.next = NoToken /\ ~script.receive BY <3>1 DEF LastScript
    <3>4. NoToken <= issued' BY <3>2 DEF NoToken
    <3> QED BY <3>3, <3>4, <3>5 DEF Served, After
  <2>3. CASE out'.result = "miss" BY <2>3
  <2> QED BY <2>1, <2>2, <2>3
<1> PICK r : r = [client |-> c, try |-> m.try, script |-> script] OBVIOUS
<1>14. replies' \subseteq replies \cup {r}
  BY DEF HandleRRQ, OpenTransfer
<1>15. r.client = c /\ r.try = m.try /\ r.script = script OBVIOUS
<1>16. r \in ReplyMessage BY <1>1, <1>13 DEF ReplyMessage
<1>17. /\ r.try <= device[r.client].try
       /\ r.script # None => Served(r.script)' /\ After(r.script, ran[r.client])
  BY <1>1, <1>13, <1>15
<1>18. device' \in [Clients -> Device] BY <1>0, <1>10 DEF FlowTypeOK
<1>19. FlowInv' BY <1>7, <1>8, <1>10, <1>11, <1>14, <1>16, <1>17, <1>18, ServerStep
<1> QED BY <1>6, <1>19

\* The core's stores while nothing happens to them.
LEMMA CoreStill == ASSUME TypeOK, UNCHANGED vars PROVE TypeOK' /\ issued' = issued /\ out' = out
BY DEF vars, TypeOK

\* The end of an upload is a step of the core, which draws no token.
LEMMA CloseSteps ==
  ASSUME TypeOK, NEW p \in Peers, NEW body \in Bodies, CloseUpload(p, body) \/ CloseStale(p)
  PROVE  Next /\ TypeOK' /\ issued' = issued /\ out' = out
<1>1. Next BY DEF Next, WRQ
<1>2. TypeOK' BY <1>1, NextType
<1>3. issued' = issued /\ out' = out BY DEF CloseUpload, CloseStale
<1> QED BY <1>1, <1>2, <1>3

\* WRQs, broken transfers and restarts.
LEMMA HandleWRQKeeps ==
  ASSUME FlowInv, NEW m \in wrqs, HandleWRQ(m) PROVE Next /\ FlowInv'
<1>0. TypeOK /\ FlowTypeOK /\ device \in [Clients -> Device] /\ issued \in Nat
  BY DEF FlowInv, FlowTypeOK, TypeOK
<1>1. m.client \in Clients /\ m.try \in 1 .. MaxTry /\ <<m.client, m.try>> \in Peers
  BY <1>0, PeersArePorts DEF FlowTypeOK, WRQMessage
<1>2. m.token \in 1 .. issued
  BY <1>0, <1>1 DEF FlowInv, RequestsSent, RanIssued, FlowTypeOK, Tokens
<1>3. Next BY <1>1, <1>2 DEF HandleWRQ, Next, WRQ
<1>4. TypeOK' BY <1>0, <1>3, NextType
<1>5. issued' = issued /\ out' = out /\ ran' = ran /\ rrqs' = rrqs /\ replies' = replies
  BY DEF HandleWRQ, OpenUpload
<1>6. wrqs' \subseteq wrqs BY DEF HandleWRQ, Consume
<1>7. AnswerFits' BY <1>5 DEF FlowInv, AnswerFits
<1>8. device' \in [Clients -> Device] BY <1>0, <1>1 DEF HandleWRQ, Device
<1>9. \A c \in Clients :
        device'[c] = device[c] \/ /\ device[c].at \in {"putting", "sending"}
                                  /\ device'[c].at \in {"sending", "stalled"}
                                  /\ device'[c].try = device[c].try
                                  /\ device'[c].script = device[c].script
  BY <1>0, <1>1 DEF HandleWRQ, IsAt, Device
<1>10. FlowInv' BY <1>0, <1>4, <1>5, <1>6, <1>7, <1>8, <1>9, ServerStep
<1> QED BY <1>3, <1>10

LEMMA RefuseWRQKeeps ==
  ASSUME FlowInv, NEW m \in wrqs, RefuseWRQ(m) PROVE UNCHANGED vars /\ FlowInv'
<1>0. TypeOK /\ FlowTypeOK /\ device \in [Clients -> Device] /\ issued \in Nat
  BY DEF FlowInv, FlowTypeOK, TypeOK
<1>1. UNCHANGED vars /\ UNCHANGED <<device, rrqs, replies, ran>> BY DEF RefuseWRQ
<1>2. TypeOK' /\ issued' = issued /\ out' = out BY <1>0, <1>1, CoreStill
<1>3. wrqs' \subseteq wrqs BY DEF RefuseWRQ, Consume
<1>4. AnswerFits' BY <1>1, <1>2 DEF FlowInv, AnswerFits
<1> QED BY <1>0, <1>1, <1>2, <1>3, <1>4, ServerStep

LEMMA TransferFailsKeeps ==
  ASSUME FlowInv, NEW r \in replies, TransferFails(r) PROVE UNCHANGED vars /\ FlowInv'
<1>0. TypeOK /\ FlowTypeOK /\ device \in [Clients -> Device] /\ issued \in Nat
  BY DEF FlowInv, FlowTypeOK, TypeOK
<1>1. UNCHANGED vars /\ UNCHANGED <<device, rrqs, wrqs, ran>> /\ replies' \subseteq replies
  BY DEF TransferFails
<1>2. TypeOK' /\ issued' = issued /\ out' = out BY <1>0, <1>1, CoreStill
<1>3. AnswerFits' BY <1>1, <1>2 DEF FlowInv, AnswerFits
<1> QED BY <1>0, <1>1, <1>2, <1>3, ServerStep

LEMMA WriterTimesOutKeeps ==
  ASSUME FlowInv, NEW c \in Clients, NEW n \in 1 .. MaxTry, WriterTimesOut(c, n)
  PROVE  Next /\ FlowInv'
<1>0. TypeOK /\ FlowTypeOK /\ device \in [Clients -> Device] /\ issued \in Nat
  BY DEF FlowInv, FlowTypeOK, TypeOK
<1>1. <<c, n>> \in Peers /\ Part \in Bodies BY PeersArePorts, BodiesAreTwo
<1>2. Next /\ TypeOK' /\ issued' = issued /\ out' = out
  BY <1>0, <1>1, CloseSteps DEF WriterTimesOut
<1>3. UNCHANGED <<rrqs, wrqs, replies, ran>> BY DEF WriterTimesOut
<1>4. AnswerFits' BY <1>2, <1>3 DEF FlowInv, AnswerFits
<1>5. device' \in [Clients -> Device] BY <1>0 DEF WriterTimesOut, Device
<1>6. \A e \in Clients :
        device'[e] = device[e] \/ /\ device[e].at \in {"putting", "sending"}
                                  /\ device'[e].at \in {"sending", "stalled"}
                                  /\ device'[e].try = device[e].try
                                  /\ device'[e].script = device[e].script
  BY <1>0 DEF WriterTimesOut, IsAt, Device
<1>7. FlowInv' BY <1>0, <1>2, <1>3, <1>4, <1>5, <1>6, ServerStep
<1> QED BY <1>2, <1>7

LEMMA ServerRestartKeeps == ASSUME FlowInv, ServerRestart PROVE Next /\ FlowInv'
<1>0. TypeOK /\ FlowTypeOK /\ device \in [Clients -> Device] /\ issued \in Nat
  BY DEF FlowInv, FlowTypeOK, TypeOK
<1>1. Next BY DEF ServerRestart, Next
<1>2. TypeOK' BY <1>0, <1>1, NextType
<1>3. issued' = issued /\ UNCHANGED <<rrqs, wrqs, ran>> /\ replies' = {}
  BY DEF ServerRestart, Restart
<1>4. AnswerFits' BY DEF ServerRestart, Restart, Silence, AnswerFits
<1>5. \A e \in Clients :
        device'[e] = IF IsAt(e, "sending") THEN [device[e] EXCEPT !.at = "stalled"] ELSE device[e]
  BY DEF ServerRestart
<1>6. device' \in [Clients -> Device] BY <1>0 DEF ServerRestart, Device
<1>7. \A e \in Clients :
        device'[e] = device[e] \/ /\ device[e].at \in {"putting", "sending"}
                                  /\ device'[e].at \in {"sending", "stalled"}
                                  /\ device'[e].try = device[e].try
                                  /\ device'[e].script = device[e].script
  BY <1>0, <1>5 DEF IsAt, Device
<1>8. FlowInv' BY <1>0, <1>2, <1>3, <1>4, <1>6, <1>7, ServerStep
<1> QED BY <1>1, <1>8

-------------------------------------------------------------------------------
(* The device's side.                                                       *)

\* tftpboot: a request from a new transaction, with a token that was run or none.
LEMMA SendStep ==
  ASSUME FlowInv, TypeOK', issued' = issued, out' = out, NEW c \in Clients,
         NEW t \in Nat, NEW hush \in HushValues, NEW status \in RecvStatus,
         SendRRQ(c, t, hush, status),
         NEW new \in SUBSET Tokens, \A u \in new : u <= issued,
         ran' = [ran EXCEPT ![c] = @ \cup new], t = NoToken \/ t \in ran[c] \cup new,
         UNCHANGED <<wrqs, replies>>
  PROVE  FlowInv'
<1>1. device[c] \in Device BY DEF FlowInv, FlowTypeOK
<1> PICK d : d = [at |-> "asking", try |-> device[c].try + 1, script |-> None] OBVIOUS
<1>2. /\ d \in Device /\ Move(c, d) /\ d.at = "asking" /\ d.try = device[c].try + 1
      /\ d.try \in 1 .. MaxTry
  BY <1>1, MaxTryIsNat DEF SendRRQ, Device
<1>3. DeviceRuns(d, ran[c] \cup new) BY <1>2 DEF DeviceRuns
<1> PICK m : m = [client |-> c, try |-> d.try, token |-> t, hush |-> hush, status |-> status]
  OBVIOUS
<1>4. m \in RRQMessage /\ m.client = c /\ m.try = d.try /\ m.token = t
  BY <1>2 DEF RRQMessage
<1>5. rrqs' = rrqs \cup {m} BY <1>2 DEF SendRRQ
<1>6. \A x \in rrqs' : x \in rrqs \/ NewRRQ(x, c, d.try, ran[c] \cup new)
  BY <1>4, <1>5 DEF NewRRQ
<1>7. wrqs' = wrqs /\ replies' \subseteq replies OBVIOUS
<1> QED BY <1>2, <1>3, <1>6, <1>7, DeviceStep

\* A device that sends nothing.
LEMMA QuietStep ==
  ASSUME FlowInv, UNCHANGED vars, NEW c \in Clients, NEW d \in Device, Move(c, d),
         d.try = device[c].try, d.at # "asking", DeviceRuns(d, ran[c]),
         UNCHANGED <<rrqs, wrqs, ran>>, replies' \subseteq replies
  PROVE  FlowInv'
<1>1. TypeOK' /\ issued' = issued /\ out' = out BY CoreStill DEF FlowInv, FlowTypeOK
<1> PICK new \in SUBSET Tokens : new = {} OBVIOUS
<1>2. ran' = [ran EXCEPT ![c] = @ \cup new] BY DEF FlowInv, FlowTypeOK
<1>3. DeviceRuns(d, ran[c] \cup new) BY DEF DeviceRuns, After
<1>4. rrqs' = rrqs /\ wrqs' = wrqs /\ \A t \in new : t <= issued OBVIOUS
<1> QED BY <1>1, <1>2, <1>3, <1>4, DeviceStep

\* At the prompt there is no script.
LEMMA PromptStep ==
  ASSUME FlowInv, UNCHANGED vars, NEW c \in Clients, ToPrompt(c),
         UNCHANGED <<rrqs, wrqs, ran>>, replies' \subseteq replies
  PROVE  FlowInv'
<1>1. device[c] \in Device BY DEF FlowInv, FlowTypeOK
<1> PICK d : d = [at |-> "prompt", try |-> device[c].try, script |-> None] OBVIOUS
<1>2. d \in Device /\ Move(c, d) /\ d.at = "prompt" /\ d.try = device[c].try
  BY <1>1 DEF ToPrompt, Device
<1>3. DeviceRuns(d, ran[c]) BY <1>2 DEF DeviceRuns
<1> QED BY <1>2, <1>3, QuietStep

LEMMA StartOverKeeps ==
  ASSUME FlowInv, NEW c \in Clients, StartOver(c) PROVE UNCHANGED vars /\ FlowInv'
<1>1. UNCHANGED vars /\ UNCHANGED <<wrqs, replies, ran>> BY DEF StartOver
<1>2. TypeOK' /\ issued' = issued /\ out' = out BY <1>1, CoreStill DEF FlowInv, FlowTypeOK
<1> PICK new \in SUBSET Tokens : new = {} OBVIOUS
<1>3. ran' = [ran EXCEPT ![c] = @ \cup new] /\ \A t \in new : t <= issued
  BY <1>1 DEF FlowInv, FlowTypeOK
<1>4. SendRRQ(c, NoToken, "absent", "failed") BY DEF StartOver
<1>5. NoToken \in Nat /\ "absent" \in HushValues /\ "failed" \in RecvStatus
  BY DEF NoToken, HushValues, RecvStatus
<1> QED BY <1>1, <1>2, <1>3, <1>4, <1>5, SendStep

LEMMA TakeReplyKeeps ==
  ASSUME FlowInv, NEW r \in replies, TakeReply(r) PROVE UNCHANGED vars /\ FlowInv'
<1>0. TypeOK /\ FlowTypeOK /\ device \in [Clients -> Device] /\ issued \in Nat
  BY DEF FlowInv, FlowTypeOK, TypeOK
<1>1. UNCHANGED vars /\ UNCHANGED <<rrqs, wrqs, ran>> /\ replies' \subseteq replies
  BY DEF TakeReply
<1>2. TypeOK' /\ issued' = issued /\ out' = out BY <1>0, <1>1, CoreStill
<1> DEFINE c == r.client
<1>3. c \in Clients /\ device[c] \in Device BY <1>0 DEF FlowTypeOK, ReplyMessage
<1>4. CASE ~Awaited(r)
  <2>1. device' = device BY <1>4 DEF TakeReply, Awaited
  <2>2. AnswerFits' BY <1>1, <1>2 DEF FlowInv, AnswerFits
  <2>3. FlowInv' BY <1>0, <1>1, <1>2, <2>1, <2>2, ServerStep
  <2> QED BY <1>1, <2>3
<1>5. CASE Awaited(r) /\ r.script = None
  BY <1>1, <1>3, <1>5, PromptStep DEF TakeReply, Awaited
<1>6. CASE Awaited(r) /\ r.script # None
  <2> PICK d : d = [at |-> "running", try |-> r.try, script |-> r.script] OBVIOUS
  <2>1. Move(c, d) /\ device[c].try = r.try BY <1>6 DEF TakeReply, Awaited, InTry
  <2>2. Served(r.script) /\ After(r.script, ran[c]) BY <1>6 DEF FlowInv, RepliesFit
  <2>3. d \in Device BY <2>1, <2>2, <1>3 DEF Device, Served
  <2>4. DeviceRuns(d, ran[c]) BY <2>2 DEF DeviceRuns
  <2> QED BY <1>1, <1>3, <2>1, <2>3, <2>4, QuietStep
<1> QED BY <1>4, <1>5, <1>6

\* A script that continues: it counts as run from here on.
LEMMA RunContinueKeeps ==
  ASSUME FlowInv, NEW c \in Clients, RunContinue(c) PROVE UNCHANGED vars /\ FlowInv'
<1>1. UNCHANGED vars /\ UNCHANGED <<wrqs, replies>> BY DEF RunContinue
<1>2. TypeOK' /\ issued' = issued /\ out' = out BY <1>1, CoreStill DEF FlowInv, FlowTypeOK
<1> DEFINE t == device[c].script.next
<1>3. Served(device[c].script) BY DEF FlowInv, DevicesRun, DeviceRuns, RunContinue, IsAt
<1>4. t \in Tokens /\ t \in Nat /\ t <= issued
  BY <1>3 DEF Served, Script, RunContinue, NoToken, Tokens
<1>5. ran' = [ran EXCEPT ![c] = @ \cup {t}] BY DEF RunContinue, Remember
<1>6. PICK hush \in HushValues : SendRRQ(c, t, hush, "failed")
  BY DEF RunContinue, HushValues
<1>7. "failed" \in RecvStatus BY DEF RecvStatus
<1>8. {t} \in SUBSET Tokens /\ (\A u \in {t} : u <= issued) /\ t \in ran[c] \cup {t} BY <1>4
<1> HIDE DEF t
<1> QED BY <1>1, <1>2, <1>4, <1>5, <1>6, <1>7, <1>8, SendStep

LEMMA RunReceiveKeeps ==
  ASSUME FlowInv, NEW c \in Clients, RunReceive(c) PROVE UNCHANGED vars /\ FlowInv'
<1>1. UNCHANGED vars /\ UNCHANGED <<rrqs, replies>> BY DEF RunReceive
<1>2. TypeOK' /\ issued' = issued /\ out' = out BY <1>1, CoreStill DEF FlowInv, FlowTypeOK
<1>3. device[c] \in Device BY DEF FlowInv, FlowTypeOK
<1> PICK script : script = device[c].script OBVIOUS
<1>4. Served(script) BY DEF FlowInv, DevicesRun, DeviceRuns, RunReceive, IsAt
<1> DEFINE t == script.next
<1>5. t \in Tokens /\ t \in Nat /\ t <= issued
  BY <1>4 DEF Served, Script, RunReceive, NoToken, Tokens
<1>6. ran' = [ran EXCEPT ![c] = @ \cup {t}] BY DEF RunReceive, Remember
<1> PICK d : d = [at |-> "putting", try |-> device[c].try + 1, script |-> script] OBVIOUS
<1>7. /\ d \in Device /\ d.at = "putting" /\ d.try = device[c].try + 1
      /\ d.try \in 1 .. MaxTry /\ d.script = script
  BY <1>3, MaxTryIsNat DEF RunReceive, Device
<1>8. Move(c, d) BY DEF RunReceive
<1>9. DeviceRuns(d, ran[c] \cup {t}) BY <1>4, <1>7 DEF DeviceRuns
<1> PICK m : m = [client |-> c, try |-> d.try, token |-> t] OBVIOUS
<1>10. m \in WRQMessage /\ m.client = c /\ m.try = d.try /\ m.token = t
  BY <1>5, <1>7 DEF WRQMessage
<1>11. wrqs' = wrqs \cup {m} BY <1>7 DEF RunReceive
<1>12. \A x \in wrqs' : x \in wrqs \/ NewWRQ(x, c, d.try, ran[c] \cup {t})
  BY <1>10, <1>11 DEF NewWRQ
<1>13. {t} \in SUBSET Tokens /\ \A u \in {t} : u <= issued BY <1>5
<1> HIDE DEF t
<1>14. FlowInv' BY <1>1, <1>2, <1>6, <1>7, <1>8, <1>9, <1>12, <1>13, DeviceStep
<1> QED BY <1>1, <1>14

\* The continuation after an upload has the token of a script that was run.
LEMMA AfterPut ==
  ASSUME FlowInv, TypeOK', issued' = issued, out' = out, NEW c \in Clients,
         device[c].at \in {"putting", "sending", "stalled"}, NEW status \in RecvStatus,
         SendRRQ(c, device[c].script.next, "absent", status), UNCHANGED <<wrqs, replies, ran>>
  PROVE  FlowInv'
<1>1. device[c].script.next \in ran[c] BY DEF FlowInv, DevicesRun, DeviceRuns
<1>2. ran \in [Clients -> SUBSET Tokens] BY DEF FlowInv, FlowTypeOK
<1>3. device[c].script.next \in Nat BY <1>1, <1>2 DEF Tokens
<1> PICK new \in SUBSET Tokens : new = {} OBVIOUS
<1>4. ran' = [ran EXCEPT ![c] = @ \cup new] /\ \A t \in new : t <= issued BY <1>2
<1>5. "absent" \in HushValues BY DEF HushValues
<1> QED BY <1>1, <1>3, <1>4, <1>5, SendStep

LEMMA PutCompletesKeeps ==
  ASSUME FlowInv, NEW c \in Clients, PutCompletes(c) PROVE Next /\ FlowInv'
<1>1. TypeOK /\ device[c] \in Device BY DEF FlowInv, FlowTypeOK
<1>2. PICK status \in RecvStatus : SendRRQ(c, device[c].script.next, "absent", status)
  BY DEF PutCompletes, RecvStatus
<1>3. device[c].at = "sending" /\ UNCHANGED <<wrqs, replies, ran>> BY DEF PutCompletes, IsAt
<1> DEFINE p == <<c, device[c].try>>
<1>4. CloseUpload(p, Whole) \/ CloseStale(p) BY DEF PutCompletes
<1>5. p \in Peers
  <2>1. device[c].try # 0 BY <1>3 DEF FlowInv, DevicesRun, DeviceRuns
  <2>2. device[c].try \in 1 .. MaxTry BY <1>1, <2>1, MaxTryIsNat DEF Device
  <2> QED BY <2>2, PeersArePorts
<1>6. Whole \in Bodies BY BodiesAreTwo
<1> HIDE DEF p
<1>7. Next /\ TypeOK' /\ issued' = issued /\ out' = out BY <1>1, <1>4, <1>5, <1>6, CloseSteps
<1>8. FlowInv' BY <1>2, <1>3, <1>7, AfterPut
<1> QED BY <1>7, <1>8

LEMMA PutBreaksKeeps ==
  ASSUME FlowInv, NEW c \in Clients, PutBreaks(c) PROVE UNCHANGED vars /\ FlowInv'
<1>1. UNCHANGED vars /\ UNCHANGED <<wrqs, replies, ran>> BY DEF PutBreaks
<1>2. TypeOK' /\ issued' = issued /\ out' = out BY <1>1, CoreStill DEF FlowInv, FlowTypeOK
<1>3. SendRRQ(c, device[c].script.next, "absent", "failed") BY DEF PutBreaks
<1>4. device[c].at \in {"putting", "sending", "stalled"} BY DEF PutBreaks, IsAt
<1>5. "failed" \in RecvStatus BY DEF RecvStatus
<1> QED BY <1>1, <1>2, <1>3, <1>4, <1>5, AfterPut

-------------------------------------------------------------------------------
(* The theorems.                                                            *)

\* Every step keeps the invariant, and is a step of the core or leaves it alone.
LEMMA FlowStep == FlowInv /\ [FlowNext]_allVars => [Next]_vars /\ FlowInv'
<1> SUFFICES ASSUME FlowInv, [FlowNext]_allVars PROVE [Next]_vars /\ FlowInv' OBVIOUS
<1>1. CASE Serve BY <1>1, HandleRRQKeeps, HandleWRQKeeps, RefuseWRQKeeps DEF Serve
<1>2. CASE \E c \in Clients, n \in 1 .. MaxTry : WriterTimesOut(c, n)
  BY <1>2, WriterTimesOutKeeps
<1>3. CASE \E r \in replies : TakeReply(r) \/ TransferFails(r)
  BY <1>3, TakeReplyKeeps, TransferFailsKeeps
<1>4. ASSUME NEW c \in Clients, StartOver(c) \/ Go(c) PROVE [Next]_vars /\ FlowInv'
  <2>1. CASE StartOver(c) BY <2>1, StartOverKeeps
  <2>2. CASE RunLast(c)
    <3>1. UNCHANGED vars /\ ToPrompt(c) /\ UNCHANGED <<rrqs, wrqs, ran>> /\ replies' = replies
      BY <2>2 DEF RunLast
    <3> QED BY <3>1, PromptStep
  <2>3. CASE GiveUp(c)
    <3>1. UNCHANGED vars /\ ToPrompt(c) /\ UNCHANGED <<rrqs, wrqs, ran>> /\ replies' = replies
      BY <2>3 DEF GiveUp
    <3> QED BY <3>1, PromptStep
  <2>4. CASE RunContinue(c) BY <2>4, RunContinueKeeps
  <2>5. CASE RunReceive(c) BY <2>5, RunReceiveKeeps
  <2>6. CASE PutCompletes(c) BY <2>6, PutCompletesKeeps
  <2>7. CASE PutBreaks(c) BY <2>7, PutBreaksKeeps
  <2> QED BY <1>4, <2>1, <2>2, <2>3, <2>4, <2>5, <2>6, <2>7 DEF Go
<1>5. CASE ServerRestart BY <1>5, ServerRestartKeeps
<1>6. CASE UNCHANGED allVars
  <2>1. UNCHANGED vars /\ UNCHANGED <<device, rrqs, wrqs, replies, ran>>
    BY <1>6 DEF allVars, flowVars
  <2>2. TypeOK' /\ issued' = issued /\ out' = out
    BY <2>1, CoreStill DEF FlowInv, FlowTypeOK
  <2>3. issued \in Nat /\ device \in [Clients -> Device]
    BY DEF FlowInv, FlowTypeOK, TypeOK
  <2>4. AnswerFits' BY <2>1, <2>2 DEF FlowInv, AnswerFits
  <2> QED BY <2>1, <2>2, <2>3, <2>4, ServerStep
<1> QED BY <1>1, <1>2, <1>3, <1>4, <1>5, <1>6 DEF FlowNext

\* The invariant holds in every state.
THEOREM FlowInvariant == FlowSpec => []FlowInv
BY FlowInitInv, FlowStep, PTL DEF FlowSpec

\* Server, devices, network and requests have their types.
THEOREM FlowTypeCorrect == FlowSpec => []FlowTypeOK
<1>1. FlowInv => FlowTypeOK BY DEF FlowInv
<1> QED BY <1>1, FlowInvariant, PTL

\* Devices that run the generated scripts, over any network, ask nothing of the server
\* that the session core does not expect: every behaviour of the composition is a
\* behaviour of the core, and all that is proved of the core holds in it.
THEOREM FlowImplementsCore == FlowSpec => Spec
<1>1. FlowInit => Init BY DEF FlowInit
<1> QED BY <1>1, FlowStep, FlowInvariant, PTL DEF FlowSpec, Spec

\* A device runs the script of an instruction at most once, and in the handler's order,
\* whatever is repeated, delayed or overtaken (_append_continue, _append_receive).
THEOREM RunInOrder == FlowSpec => []ScriptsInOrder
<1>1. FlowInv => ScriptsInOrder
  BY DEF FlowInv, DevicesRun, DeviceRuns, After, ScriptsInOrder, IsAt
<1> QED BY <1>1, FlowInvariant, PTL

\* A step does not both run a script and answer a request.
LEMMA RunsOrAnswers == [FlowNext]_allVars => ran' = ran \/ out' = out
<1> SUFFICES ASSUME [FlowNext]_allVars PROVE ran' = ran \/ out' = out OBVIOUS
<1>1. CASE Serve BY <1>1 DEF Serve, HandleRRQ, HandleWRQ, RefuseWRQ
<1>2. CASE \E c \in Clients, n \in 1 .. MaxTry : WriterTimesOut(c, n)
  BY <1>2 DEF WriterTimesOut
<1>3. CASE \E r \in replies : TakeReply(r) \/ TransferFails(r)
  BY <1>3 DEF TakeReply, TransferFails
<1>4. CASE \E c \in Clients : StartOver(c) \/ Go(c)
  BY <1>4 DEF StartOver, Go, RunLast, RunContinue, RunReceive, PutCompletes, PutBreaks, GiveUp, vars
<1>5. CASE ServerRestart BY <1>5 DEF ServerRestart
<1>6. CASE UNCHANGED allVars BY <1>6 DEF allVars, flowVars
<1> QED BY <1>1, <1>2, <1>3, <1>4, <1>5, <1>6 DEF FlowNext

\* A continuation that resumes or ends a handler comes from a device that has run the
\* script which the handler awaits (_resume_session).
THEOREM StaysInStep == FlowSpec => HandlerInStep
<1>1. FlowInv /\ FlowInv' /\ [FlowNext]_allVars =>
        [\A c \in Live : out'.client = c /\ out'.asked = sessions[c].token
                           => sessions[c].token \in ran[c]]_allVars
  <2> SUFFICES ASSUME FlowInv, FlowInv', [FlowNext]_allVars, NEW c \in Live,
                      out'.client = c, out'.asked = sessions[c].token
               PROVE  sessions[c].token \in ran[c]
    OBVIOUS
  <2>1. sessions[c].token # NoToken
    BY LiveSession DEF FlowInv, FlowTypeOK, ClientSession, Tokens, NoToken
  <2>2. out'.asked \in ran'[c] BY <2>1 DEF FlowInv, AnswerFits
  <2>3. out' = out => out.asked \in ran[c] BY <2>1 DEF FlowInv, AnswerFits
  <2> QED BY <2>2, <2>3, RunsOrAnswers
<1> QED BY <1>1, FlowInvariant, PTL DEF FlowSpec, HandlerInStep

\* When nothing is lost, what is captured was sent to its end.
Complete == ~Lossy => \A u \in uploads : u.body = Whole

LEMMA CompleteStep == FlowInv /\ Complete /\ [FlowNext]_allVars => Complete'
<1> SUFFICES ASSUME FlowInv, Complete, [FlowNext]_allVars, ~Lossy
             PROVE  \A u \in uploads' : u.body = Whole
  BY DEF Complete
<1>0. TypeOK BY DEF FlowInv, FlowTypeOK
<1>1. uploads' \subseteq uploads => \A u \in uploads' : u.body = Whole BY DEF Complete
<1>2. CASE Serve
  <2>1. ASSUME NEW m \in rrqs, HandleRRQ(m) PROVE uploads' = uploads
    <3>2. CASE StartSession(m.client, FALSE) BY <3>2 DEF StartSession
    <3>3. CASE ResumeSession(m.client, m.hush, m.status)
      BY <3>3 DEF ResumeSession, PreflightFails, HandlerNotCreated, NoHandler, DeadHandler,
                  ReceiveFails, Advance, ExecStep, RecvStep, FinalStep, HandlerReturns,
                  HandlerRaises, StrayAwait
    <3>4. CASE RefuseRRQ(m.client, m.token) BY <3>4 DEF RefuseRRQ
    <3> QED BY <2>1, <3>2, <3>3, <3>4 DEF HandleRRQ
  <2> QED BY <1>2, <2>1, <1>1 DEF Serve, HandleWRQ, OpenUpload, RefuseWRQ, vars
<1>3. CASE \E c \in Clients, n \in 1 .. MaxTry : WriterTimesOut(c, n)
  BY <1>3 DEF WriterTimesOut
<1>4. CASE \E r \in replies : TakeReply(r) \/ TransferFails(r)
  BY <1>4, <1>1 DEF TakeReply, TransferFails, vars
<1>5. ASSUME NEW c \in Clients, StartOver(c) \/ Go(c) PROVE \A u \in uploads' : u.body = Whole
  <2>1. CASE PutCompletes(c) BY <2>1 DEF PutCompletes, CloseUpload, CloseStale, Complete
  <2>2. CASE ~PutCompletes(c)
    BY <1>5, <1>1, <2>2 DEF StartOver, Go, RunLast, RunContinue, RunReceive, PutBreaks, GiveUp, vars
  <2> QED BY <2>1, <2>2
<1>6. CASE ServerRestart BY <1>6 DEF ServerRestart, Restart
<1>7. CASE UNCHANGED allVars BY <1>7, <1>1 DEF allVars, vars
<1> QED BY <1>2, <1>3, <1>4, <1>5, <1>6, <1>7 DEF FlowNext

\* With a network that works, exec_recv returns what the device sent, all of it (record,
\* uploads.py).
THEOREM BodiesWhole == FlowSpec => [](~Lossy => OkBodyWhole)
<1>1. FlowInit => Complete BY DEF FlowInit, Init, Complete
<1>2. FlowSpec => []Complete BY <1>1, FlowInvariant, CompleteStep, PTL DEF FlowSpec
<1>3. Complete /\ DeliveredBodyIsOwn => (~Lossy => OkBodyWhole)
  BY DEF Complete, DeliveredBodyIsOwn, OkBodyWhole
<1> QED BY <1>2, <1>3, FlowImplementsCore, DeliverySafe, PTL

-------------------------------------------------------------------------------
(* No handler is left behind by a network that works.                       *)

\* A device has at most one request or answer under way, and waits for it.
OneAtATime ==
  /\ \A m \in rrqs : /\ Awaited(m)
                     /\ \A x \in rrqs : x.client = m.client => x = m
                     /\ \A r \in replies : r.client # m.client
  /\ \A r \in replies : /\ Awaited(r)
                        /\ \A x \in replies : x.client = r.client => x = r

\* A suspended handler will hear of its instruction: the script is with the device, or on
\* its way there, or its continuation is on its way back.
Bound(c) ==
  \/ /\ device[c].at \in {"running", "putting", "sending", "stalled"}
     /\ device[c].script.next = sessions[c].token
  \/ \E m \in rrqs : m.client = c /\ m.token = sessions[c].token
  \/ \E r \in replies : /\ r.client = c /\ r.script # None
                        /\ r.script.next = sessions[c].token

NoneForgotten == OneAtATime /\ \A c \in Clients : Suspended(c) => Bound(c)

LEMMA ForgottenNever == NoneForgotten => NotStranded
BY DEF NoneForgotten, OneAtATime, Bound, Awaited, NotStranded, IsAt

\* No session begins to wait, and none goes on.
NoneNew == \A c \in Clients : Suspended(c)' => /\ Suspended(c)
                                               /\ sessions'[c].token = sessions[c].token

\* A device that was not asking sends a request: with the token that is awaited.
LEMMA SendsNext ==
  ASSUME FlowInv, NoneForgotten, NoneNew, NEW c \in Clients, ~IsAt(c, "asking"),
         NEW t, NEW hush, NEW status, SendRRQ(c, t, hush, status), UNCHANGED replies,
         Suspended(c) => t = sessions[c].token
  PROVE  NoneForgotten'
<1>1. /\ device \in [Clients -> Device] /\ rrqs \subseteq RRQMessage /\ replies \subseteq ReplyMessage
  BY DEF FlowInv, FlowTypeOK
<1>2. (\A m \in rrqs : m.client # c) /\ (\A r \in replies : r.client # c)
  BY DEF NoneForgotten, OneAtATime, Awaited
<1> PICK m : m = [client |-> c, try |-> device[c].try + 1, token |-> t, hush |-> hush,
                  status |-> status]
  OBVIOUS
<1>3. rrqs' = rrqs \cup {m} /\ m.client = c /\ m.try = device[c].try + 1 /\ m.token = t
  BY DEF SendRRQ
<1>4. /\ \A e \in Clients \ {c} : device'[e] = device[e]
      /\ device'[c].at = "asking" /\ device'[c].try = device[c].try + 1
  BY <1>1 DEF SendRRQ, Move
<1>5. OneAtATime'
  <2>1. \A x \in rrqs : x.client \in Clients \ {c} /\ Awaited(x)'
    BY <1>1, <1>2, <1>4 DEF NoneForgotten, OneAtATime, Awaited, IsAt, InTry, RRQMessage
  <2>2. \A r \in replies : r.client \in Clients \ {c} /\ Awaited(r)'
    BY <1>1, <1>2, <1>4 DEF NoneForgotten, OneAtATime, Awaited, IsAt, InTry, ReplyMessage
  <2>3. Awaited(m)' BY <1>3, <1>4 DEF Awaited, IsAt, InTry
  <2> QED BY <1>3, <2>1, <2>2, <2>3 DEF NoneForgotten, OneAtATime
<1>6. ASSUME NEW e \in Clients, Suspended(e)' PROVE Bound(e)'
  <2>1. Suspended(e) /\ sessions'[e].token = sessions[e].token BY <1>6 DEF NoneNew
  <2>2. CASE e = c BY <2>1, <2>2, <1>3 DEF Bound
  <2>3. CASE e # c BY <2>1, <2>3, <1>3, <1>4 DEF NoneForgotten, Bound
  <2> QED BY <2>2, <2>3
<1> QED BY <1>5, <1>6 DEF NoneForgotten

\* A device that has nothing under way goes on with its script, or ends it.
LEMMA GoesOn ==
  ASSUME FlowInv, NoneForgotten, NoneNew, NEW c \in Clients, NEW d, Move(c, d),
         \A m \in rrqs : m.client # c, \A r \in replies' : r.client # c,
         rrqs' = rrqs, replies' \subseteq replies, \A r \in replies \ replies' : r.client = c,
         Suspended(c) => /\ d.at \in {"running", "putting", "sending", "stalled"}
                         /\ d.script.next = sessions[c].token
  PROVE  NoneForgotten'
<1>1. /\ device \in [Clients -> Device] /\ rrqs \subseteq RRQMessage /\ replies \subseteq ReplyMessage
  BY DEF FlowInv, FlowTypeOK
<1>2. (\A e \in Clients \ {c} : device'[e] = device[e]) /\ device'[c] = d BY <1>1 DEF Move
<1>3. OneAtATime'
  <2>1. \A x \in rrqs : Awaited(x)'
    BY <1>1, <1>2 DEF NoneForgotten, OneAtATime, Awaited, IsAt, InTry, RRQMessage
  <2>2. \A r \in replies' : Awaited(r)'
    BY <1>1, <1>2 DEF NoneForgotten, OneAtATime, Awaited, IsAt, InTry, ReplyMessage
  <2> QED BY <2>1, <2>2 DEF NoneForgotten, OneAtATime
<1>4. ASSUME NEW e \in Clients, Suspended(e)' PROVE Bound(e)'
  <2>1. Suspended(e) /\ sessions'[e].token = sessions[e].token BY <1>4 DEF NoneNew
  <2>2. CASE e = c BY <2>1, <2>2, <1>2 DEF Bound
  <2>3. CASE e # c BY <2>1, <2>3, <1>2 DEF NoneForgotten, Bound
  <2> QED BY <2>2, <2>3
<1> QED BY <1>3, <1>4 DEF NoneForgotten

\* A hook that leaves a handler suspended has sent a script, or has refused.
LEMMA SuspendedIsScripted ==
  ASSUME TypeOK, SessionShape, NEW c \in Clients, Suspended(c)',
         \/ StartSession(c, FALSE)
         \/ \E value \in HushValues, status \in RecvStatus : ResumeSession(c, value, status)
  PROVE  out'.result = "script"
<1>1. CASE StartSession(c, FALSE) BY <1>1 DEF StartSession, Answer
<1>2. ASSUME NEW value \in HushValues, NEW status \in RecvStatus, ResumeSession(c, value, status)
      PROVE  out'.result = "script"
  <2>1. CASE PreflightFails(c, value) \/ ReceiveFails(c, status)
    <3>1. sessions'[c] = None BY <2>1, DiscardEffect DEF PreflightFails, ReceiveFails
    <3> QED BY <3>1 DEF Suspended, Live
  <2>2. CASE HandlerNotCreated(c, value)
    <3>1. c \in Live /\ sessions'[c] = Entered(c, value) BY <2>2, SaveEffect DEF HandlerNotCreated
    <3>2. sessions'[c].handler = sessions[c].handler BY <3>1, EnteredFields
    <3>3. sessions[c].handler = "none" BY <2>2, <3>1 DEF HandlerNotCreated, SessionShape
    <3> QED BY <3>2, <3>3 DEF Suspended
  <2>3. CASE NoHandler(c) \/ DeadHandler(c)
    BY <2>3 DEF NoHandler, DeadHandler, Dead, Suspended, Live
  <2>4. CASE Advance(c, value, status)
    <3>1. PICK ks \in SUBSET Artifacts : \/ ExecStep(c, value, status, ks)
                                         \/ RecvStep(c, value, status, ks)
                                         \/ FinalStep(c, value, status, ks)
                                         \/ HandlerReturns(c, value, status, ks)
                                         \/ \E result \in {"miss", "raise"} :
                                              HandlerRaises(c, value, status, ks, result)
                                         \/ StrayAwait(c, value, status, ks)
      BY <2>4 DEF Advance
    <3>2. CASE ExecStep(c, value, status, ks) \/ RecvStep(c, value, status, ks)
      BY <3>2 DEF ExecStep, RecvStep, Answer
    <3>3. CASE FinalStep(c, value, status, ks) \/ HandlerReturns(c, value, status, ks)
      <4>1. sessions'[c] = None BY <3>3, DiscardEffect DEF FinalStep, HandlerReturns
      <4> QED BY <4>1 DEF Suspended, Live
    <3>4. CASE \/ \E result \in {"miss", "raise"} : HandlerRaises(c, value, status, ks, result)
               \/ StrayAwait(c, value, status, ks)
      <4>1. c \in Live BY <3>4 DEF HandlerRaises, StrayAwait, Resumable
      <4>2. Advanced(c, value, ks) \in ClientSession BY <4>1, AdvancedFields DEF Fields
      <4>3. sessions'[c].handler \in {"dead", "stray"}
        BY <3>4, <4>2, SaveEffect DEF HandlerRaises, StrayAwait, ClientSession
      <4> QED BY <4>3 DEF Suspended
    <3> QED BY <3>1, <3>2, <3>3, <3>4
  <2> QED BY <1>2, <2>1, <2>2, <2>3, <2>4 DEF ResumeSession
<1> QED BY <1>1, <1>2

\* An answer takes the place of its request.
LEMMA AnswerRemembered ==
  ASSUME FlowInv, SessionShape, ~Lossy, NoneForgotten, NEW m \in rrqs, HandleRRQ(m)
  PROVE  NoneForgotten'
<1>0. TypeOK /\ rrqs \subseteq RRQMessage /\ replies \subseteq ReplyMessage
  BY DEF FlowInv, FlowTypeOK
<1>1. /\ m.client \in Clients /\ m.hush \in HushValues /\ m.status \in RecvStatus
  BY <1>0 DEF RRQMessage
<1> PICK c \in Clients : c = m.client BY <1>1
<1>2. /\ device' = device /\ rrqs' = rrqs \ {m}
  BY DEF HandleRRQ, Consume
<1>3. /\ Awaited(m)
      /\ \A x \in rrqs : x.client = c => x = m
      /\ \A r \in replies : r.client # c
  BY DEF NoneForgotten, OneAtATime
<1> PICK script : script = IF out'.result = "miss" THEN None
                           ELSE IF out'.result = "script" THEN ScriptServed(sessions'[c])
                           ELSE LastScript
  OBVIOUS
<1> PICK r : r = [client |-> c, try |-> m.try, script |-> script] OBVIOUS
<1>4. r.client = c /\ r.try = m.try /\ r.script = script OBVIOUS
<1>5. replies' = IF out'.result = "raise" THEN replies ELSE replies \cup {r}
  BY DEF HandleRRQ, OpenTransfer
<1>6. OneAtATime'
  <2>1. Awaited(r) BY <1>3, <1>4 DEF Awaited
  <2>2. \A x : Awaited(x)' = Awaited(x) BY <1>2 DEF Awaited, IsAt, InTry
  <2>3. \A x \in rrqs' : x \in rrqs /\ x.client # c BY <1>2, <1>3
  <2>4. replies' \subseteq replies \cup {r} BY <1>5
  <2> QED BY <1>3, <1>4, <2>1, <2>2, <2>3, <2>4 DEF NoneForgotten, OneAtATime
<1>7. \/ StartSession(c, FALSE)
      \/ \E value \in HushValues, status \in RecvStatus : ResumeSession(c, value, status)
      \/ m.token # NoToken /\ ~Holds(c, m.token) /\ RefuseRRQ(c, m.token)
  BY <1>1 DEF HandleRRQ
<1>8. Others(c)
  <2>1. CASE RefuseRRQ(c, m.token) BY <2>1 DEF RefuseRRQ, Others
  <2>2. ~RefuseRRQ(c, m.token) => RRQ(c) BY <1>7 DEF RRQ
  <2> QED BY <1>0, <2>1, <2>2, OthersStay
<1>9. ASSUME NEW e \in Clients \ {c}, Suspended(e)' PROVE Bound(e)'
  <2>1. sessions'[e] = sessions[e] /\ Suspended(e) BY <1>8, <1>9 DEF Others, Suspended, Live
  <2>2. Bound(e) BY <2>1 DEF NoneForgotten
  <2> QED BY <2>1, <2>2, <1>2, <1>5 DEF Bound
<1>10. ASSUME Suspended(c)' PROVE Bound(c)'
  <2>1. CASE RefuseRRQ(c, m.token) /\ ~Holds(c, m.token)
    <3>1. sessions' = sessions BY <2>1 DEF RefuseRRQ
    <3>2. Suspended(c) /\ c \in Live BY <1>10, <3>1 DEF Suspended, Live
    <3>3. Bound(c) BY <3>2 DEF NoneForgotten
    <3>4. device[c].at = "asking" BY <1>3 DEF Awaited, IsAt
    <3>5. m.token = sessions[c].token BY <3>3, <3>4, <1>3 DEF Bound
    <3> QED BY <3>2, <3>5, <2>1 DEF Holds
  <2>2. CASE \/ StartSession(c, FALSE)
             \/ \E value \in HushValues, status \in RecvStatus : ResumeSession(c, value, status)
    <3>1. out'.result = "script" BY <1>0, <1>10, <2>2, SuspendedIsScripted
    <3>2. sessions'[c] \in ClientSession
      BY <1>0, <2>2, <3>1, ScriptIsNew
    <3>3. script = ScriptServed(sessions'[c]) BY <3>1
    <3>4. script.next = sessions'[c].token BY <3>3 DEF ScriptServed
    <3>5. script # None
      <4>1. sessions'[c].token \in Nat /\ sessions'[c].preflight \in BOOLEAN
        BY <3>2 DEF ClientSession, Tokens
      <4>2. ScriptServed(sessions'[c]) \in Script
        <5>1. CASE sessions'[c].pending = None
          <6>1. ScriptServed(sessions'[c]) = [next |-> sessions'[c].token, receive |-> FALSE,
                                              probe |-> sessions'[c].preflight]
            BY <5>1 DEF ScriptServed
          <6> QED BY <6>1, <4>1, ScriptOf
        <5>2. CASE sessions'[c].pending # None
          <6>1. ScriptServed(sessions'[c]) = [next |-> sessions'[c].token, receive |-> TRUE,
                                              probe |-> sessions'[c].preflight]
            BY <5>2 DEF ScriptServed
          <6> QED BY <6>1, <4>1, ScriptOf
        <5> QED BY <5>1, <5>2
      <4> QED BY <4>2, <3>3, NoneIsNoScript
    <3>6. r \in replies' BY <3>1, <1>5
    <3> QED BY <3>4, <3>5, <3>6, <1>4 DEF Bound
  <2> QED BY <1>7, <2>1, <2>2
<1> QED BY <1>6, <1>9, <1>10 DEF NoneForgotten

\* An upload that ends leaves token and handler of every session as they are.
LEMMA CloseKeepsWaiting ==
  ASSUME TypeOK, NEW p, NEW body, CloseUpload(p, body) \/ CloseStale(p) PROVE NoneNew
<1>1. CASE CloseUpload(p, body)
  <2> PICK c : c = writers[p].client OBVIOUS
  <2>1. c \in Live /\ Save(c, [sessions[c] EXCEPT !.pending.uploaded = body])
    BY <1>1 DEF CloseUpload, Expects
  <2>2. c \in Clients /\ sessions[c] \in ClientSession BY <2>1, LiveSession
  <2>3. /\ sessions'[c] = [sessions[c] EXCEPT !.pending.uploaded = body]
        /\ \A d \in Clients \ {c} : sessions'[d] = sessions[d]
    BY <2>1, <2>2, SaveEffect
  <2>4. /\ sessions'[c].handler = sessions[c].handler
        /\ sessions'[c].token = sessions[c].token
    BY <2>2, <2>3 DEF ClientSession
  <2> QED BY <2>1, <2>3, <2>4 DEF NoneNew, Suspended, Live
<1>2. CASE CloseStale(p) BY <1>2 DEF CloseStale, NoneNew, Suspended, Live
<1> QED BY <1>1, <1>2

LEMMA StillKeepsWaiting == ASSUME sessions' = sessions PROVE NoneNew
BY DEF NoneNew, Suspended, Live

\* A WRQ that is answered or refused, and a restart, leave every script where it is.
LEMMA ServerRemembers ==
  ASSUME FlowInv, ~Lossy, NoneForgotten,
         \/ \E m \in wrqs : HandleWRQ(m) \/ RefuseWRQ(m)
         \/ ServerRestart
  PROVE  NoneForgotten'
<1>0. device \in [Clients -> Device] /\ rrqs \subseteq RRQMessage /\ replies \subseteq ReplyMessage
      /\ wrqs \subseteq WRQMessage
  BY DEF FlowInv, FlowTypeOK
<1>1. rrqs' = rrqs /\ replies' \in {replies, {}}
  BY DEF HandleWRQ, RefuseWRQ, ServerRestart
<1>2. \A c \in Clients :
        device'[c] = device[c] \/ /\ device[c].at \in {"putting", "sending"}
                                  /\ device'[c].at \in {"sending", "stalled"}
                                  /\ device'[c].script = device[c].script
  <2>1. CASE ServerRestart
    <3>1. \A c \in Clients : device'[c] = IF IsAt(c, "sending")
                                         THEN [device[c] EXCEPT !.at = "stalled"] ELSE device[c]
      BY <2>1 DEF ServerRestart
    <3> QED BY <1>0, <3>1 DEF IsAt, Device
  <2>2. ASSUME NEW m \in wrqs, HandleWRQ(m)
        PROVE  \A c \in Clients :
                 device'[c] = device[c] \/ /\ device[c].at \in {"putting", "sending"}
                                           /\ device'[c].at \in {"sending", "stalled"}
                                           /\ device'[c].script = device[c].script
    <3>1. m.client \in Clients BY <1>0 DEF WRQMessage
    <3> QED BY <1>0, <2>2, <3>1 DEF HandleWRQ, IsAt, Device
  <2>3. ASSUME NEW m \in wrqs, RefuseWRQ(m) PROVE device' = device BY <2>3 DEF RefuseWRQ
  <2> QED BY <2>1, <2>2, <2>3
<1>3. \A x : x.client \in Clients /\ Awaited(x) => Awaited(x)'
  BY <1>2 DEF Awaited, IsAt, InTry
<1>4. OneAtATime'
  <2>1. \A x \in rrqs : x.client \in Clients BY <1>0 DEF RRQMessage
  <2>2. \A x \in replies : x.client \in Clients BY <1>0 DEF ReplyMessage
  <2> QED BY <1>1, <1>3, <2>1, <2>2 DEF NoneForgotten, OneAtATime
<1>5. CASE ServerRestart
  <2>1. \A c \in Clients : ~Suspended(c)' BY <1>5 DEF ServerRestart, Restart, Suspended, Live
  <2> QED BY <2>1, <1>4 DEF NoneForgotten
<1>6. CASE \E m \in wrqs : HandleWRQ(m) \/ RefuseWRQ(m)
  <2>1. sessions' = sessions /\ replies' = replies
    BY <1>6 DEF HandleWRQ, OpenUpload, RefuseWRQ, vars
  <2>2. ASSUME NEW c \in Clients, Suspended(c)' PROVE Bound(c)'
    <3>1. Suspended(c) /\ Bound(c) BY <2>1, <2>2 DEF NoneForgotten, Suspended, Live
    <3> QED BY <3>1, <2>1, <1>1, <1>2 DEF Bound
  <2> QED BY <1>4, <2>2 DEF NoneForgotten
<1> QED BY <1>5, <1>6

\* A device whose answer has come goes on with it.
LEMMA TakeRemembers ==
  ASSUME FlowInv, NoneForgotten, NEW r \in replies, TakeReply(r) PROVE NoneForgotten'
<1>0. r.client \in Clients BY DEF FlowInv, FlowTypeOK, ReplyMessage
<1> PICK c \in Clients : c = r.client BY <1>0
<1>1. /\ Awaited(r) /\ \A m \in rrqs : m.client # c
      /\ \A x \in replies : x.client = c => x = r
  BY DEF NoneForgotten, OneAtATime
<1>2. sessions' = sessions /\ rrqs' = rrqs /\ replies' = replies \ {r}
  BY DEF TakeReply, vars
<1>3. NoneNew BY <1>2, StillKeepsWaiting
<1> PICK d : d = IF r.script = None
                 THEN [at |-> "prompt", try |-> device[c].try, script |-> None]
                 ELSE [at |-> "running", try |-> r.try, script |-> r.script]
  OBVIOUS
<1>4. Move(c, d) BY <1>1 DEF TakeReply, ToPrompt, Awaited
<1>5. Suspended(c) => r.script # None /\ r.script.next = sessions[c].token
  BY <1>1 DEF NoneForgotten, Bound, Awaited, IsAt
<1>6. Suspended(c) => /\ d.at \in {"running", "putting", "sending", "stalled"}
                      /\ d.script.next = sessions[c].token
  BY <1>5
<1> QED BY <1>1, <1>2, <1>3, <1>4, <1>6, GoesOn

\* A device that goes on: it had nothing under way, or its request came to nothing.
LEMMA DeviceRemembers ==
  ASSUME FlowInv, ~Lossy, NoneForgotten, NEW c \in Clients, StartOver(c) \/ Go(c)
  PROVE  NoneForgotten'
<1>0. TypeOK BY DEF FlowInv, FlowTypeOK
<1>1. ~IsAt(c, "asking") => (\A m \in rrqs : m.client # c) /\ (\A r \in replies : r.client # c)
  BY DEF NoneForgotten, OneAtATime, Awaited
<1>2. ~IsAt(c, "asking") /\ Suspended(c)
        => /\ device[c].at \in {"running", "putting", "sending", "stalled"}
           /\ device[c].script.next = sessions[c].token
  BY <1>1 DEF NoneForgotten, Bound
<1>3. Suspended(c) => sessions[c].token # NoToken
  BY <1>0, LiveSession DEF Suspended, ClientSession, Tokens, NoToken
<1>4. CASE StartOver(c)
  <2>1. NoneNew BY <1>4, StillKeepsWaiting DEF StartOver, vars
  <2>2. ~Suspended(c) /\ ~IsAt(c, "asking") BY <1>2, <1>4 DEF StartOver, IsAt
  <2> QED BY <1>4, <2>1, <2>2, SendsNext DEF StartOver
<1>5. CASE RunContinue(c)
  <2>1. NoneNew BY <1>5, StillKeepsWaiting DEF RunContinue, vars
  <2>2. ~IsAt(c, "asking") BY <1>5 DEF RunContinue, IsAt
  <2>3. PICK hush : SendRRQ(c, device[c].script.next, hush, "failed") BY <1>5 DEF RunContinue
  <2> QED BY <1>5, <2>1, <2>2, <2>3, <1>2, SendsNext DEF RunContinue
<1>6. CASE PutCompletes(c)
  <2>1. NoneNew BY <1>0, <1>6, CloseKeepsWaiting DEF PutCompletes
  <2>2. ~IsAt(c, "asking") BY <1>6 DEF PutCompletes, IsAt
  <2>3. PICK status : SendRRQ(c, device[c].script.next, "absent", status)
    BY <1>6 DEF PutCompletes
  <2> QED BY <1>6, <2>1, <2>2, <2>3, <1>2, SendsNext DEF PutCompletes
<1>7. CASE PutBreaks(c)
  <2>1. NoneNew BY <1>7, StillKeepsWaiting DEF PutBreaks, vars
  <2>2. ~IsAt(c, "asking") BY <1>7 DEF PutBreaks, IsAt
  <2> QED BY <1>7, <2>1, <2>2, <1>2, SendsNext DEF PutBreaks
<1>8. CASE RunReceive(c)
  <2>1. NoneNew BY <1>8, StillKeepsWaiting DEF RunReceive, vars
  <2>2. ~IsAt(c, "asking") BY <1>8 DEF RunReceive, IsAt
  <2> PICK d : d = [at |-> "putting", try |-> device[c].try + 1, script |-> device[c].script]
    OBVIOUS
  <2>3. Move(c, d) /\ rrqs' = rrqs /\ replies' = replies BY <1>8 DEF RunReceive
  <2> QED BY <2>1, <2>2, <2>3, <1>1, <1>2, GoesOn
<1>9. CASE RunLast(c) \/ GiveUp(c)
  <2>1. NoneNew BY <1>9, StillKeepsWaiting DEF RunLast, GiveUp, vars
  <2> PICK d : d = [at |-> "prompt", try |-> device[c].try, script |-> None] OBVIOUS
  <2>2. Move(c, d) /\ rrqs' = rrqs /\ replies' = replies
    BY <1>9 DEF RunLast, GiveUp, ToPrompt
  <2>3. (\A m \in rrqs : m.client # c) /\ (\A r \in replies : r.client # c)
    <3>1. CASE RunLast(c) BY <3>1, <1>1 DEF RunLast, IsAt
    <3>2. CASE GiveUp(c)
      BY <3>2 DEF GiveUp, InTransfer, NoneForgotten, OneAtATime, Awaited, InTry
    <3> QED BY <1>9, <3>1, <3>2
  <2>4. ~Suspended(c)
    <3>1. CASE RunLast(c) BY <3>1, <1>2, <1>3 DEF RunLast, IsAt
    <3>2. CASE GiveUp(c) BY <3>2, <2>3 DEF GiveUp, NoneForgotten, Bound, IsAt
    <3> QED BY <1>9, <3>1, <3>2
  <2> QED BY <2>1, <2>2, <2>3, <2>4, GoesOn
<1> QED BY <1>4, <1>5, <1>6, <1>7, <1>8, <1>9 DEF Go

Remembered == ~Lossy => NoneForgotten

LEMMA RememberedStep ==
  FlowInv /\ SessionShape /\ Remembered /\ [FlowNext]_allVars => Remembered'
<1> SUFFICES ASSUME FlowInv, SessionShape, NoneForgotten, [FlowNext]_allVars, ~Lossy
             PROVE  NoneForgotten'
  BY DEF Remembered
<1>1. CASE Serve BY <1>1, AnswerRemembered, ServerRemembers DEF Serve
<1>2. CASE \E c \in Clients, n \in 1 .. MaxTry : WriterTimesOut(c, n)
  BY <1>2 DEF WriterTimesOut
<1>3. CASE \E r \in replies : TakeReply(r) \/ TransferFails(r)
  BY <1>3, TakeRemembers DEF TransferFails
<1>4. CASE \E c \in Clients : StartOver(c) \/ Go(c) BY <1>4, DeviceRemembers
<1>5. CASE ServerRestart BY <1>5, ServerRemembers
<1>6. CASE UNCHANGED allVars
  BY <1>6 DEF allVars, vars, flowVars, NoneForgotten, OneAtATime, Awaited, IsAt, InTry, Bound,
              Suspended, Live
<1> QED BY <1>1, <1>2, <1>3, <1>4, <1>5, <1>6 DEF FlowNext

\* With a network that works, a device is never back at its prompt while its handler is
\* suspended in exec or exec_recv.
THEOREM NobodyStranded == FlowSpec => [](~Lossy => NotStranded)
<1>1. FlowInit => Remembered
  BY DEF FlowInit, Init, Remembered, NoneForgotten, OneAtATime, Suspended, Live
<1>2. IInv => SessionShape BY DEF IInv
<1>3. FlowSpec => []Remembered
  BY <1>1, <1>2, FlowInvariant, FlowImplementsCore, Inductive, RememberedStep, PTL DEF FlowSpec
<1>4. Remembered => (~Lossy => NotStranded) BY ForgottenNever DEF Remembered
<1> QED BY <1>3, <1>4, PTL
===============================================================================
