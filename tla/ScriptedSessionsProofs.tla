------------------------- MODULE ScriptedSessionsProofs -------------------------
(***************************************************************************)
(* Proofs about the session core, for any sets of clients, contexts,        *)
(* downloads and contents and any number of tokens.                         *)
(***************************************************************************)
EXTENDS ScriptedSessions, TLAPS

-------------------------------------------------------------------------------
(* Records.                                                                 *)

\* A session read from the store has its type.
LEMMA LiveSession ==
  ASSUME TypeOK, NEW c \in Live
  PROVE  c \in Clients /\ sessions[c] \in ClientSession /\ sessions[c] # None
  BY DEF TypeOK, Live

\* What a continuation writes back, field by field.
LEMMA EnteredFields ==
  ASSUME TypeOK, NEW c \in Live, NEW value
  PROVE  /\ Entered(c, value) \in ClientSession
         /\ Entered(c, value).preflight = FALSE
         /\ Entered(c, value).handler = sessions[c].handler
         /\ Entered(c, value).pending = sessions[c].pending
         /\ Entered(c, value).token = sessions[c].token
         /\ Entered(c, value).artifacts = sessions[c].artifacts
         /\ Entered(c, value).phase = sessions[c].phase
         /\ Entered(c, value).hush =
              IF sessions[c].preflight THEN Merged(c, value) ELSE sessions[c].hush
  <1>1. sessions[c] \in ClientSession
    BY LiveSession
  <1>2. Merged(c, value) \in BOOLEAN
    BY <1>1 DEF Merged, ClientSession
  <1> QED
    BY <1>1, <1>2 DEF Entered, ClientSession

\* ... and once the handler has been resumed.
Fields(s, c, value, ks) ==
  /\ s \in ClientSession
  /\ s.preflight = FALSE
  /\ s.pending = None
  /\ s.token = sessions[c].token
  /\ s.artifacts = sessions[c].artifacts \cup ks
  /\ s.hush = IF sessions[c].preflight THEN Merged(c, value) ELSE sessions[c].hush

LEMMA AdvancedFields ==
  ASSUME TypeOK, NEW c \in Live, NEW value, NEW ks \in SUBSET Artifacts
  PROVE  Fields(Advanced(c, value, ks), c, value, ks)
  BY EnteredFields, LiveSession DEF Fields, Advanced, ClientSession

-------------------------------------------------------------------------------
(* Effects.                                                                 *)

\* Writing one session leaves the others alone.
LEMMA SaveEffect ==
  ASSUME TypeOK, NEW c \in Clients, NEW s, Save(c, s)
  PROVE  /\ sessions'[c] = s
         /\ \A d \in Clients \ {c} : sessions'[d] = sessions[d]
  BY DEF Save, TypeOK

\* Discarding one session leaves the others alone, and releases.
LEMMA DiscardEffect ==
  ASSUME TypeOK, NEW c \in Clients, NEW ks, Discard(c, ks)
  PROVE  /\ sessions' \in [Clients -> ClientSession \cup {None}]
         /\ sessions'[c] = None
         /\ \A d \in Clients \ {c} : sessions'[d] = sessions[d]
         /\ attached' \in [Artifacts -> SUBSET Clients]
         /\ \A k \in Artifacts : attached'[k] = IF k \in ks THEN attached[k] \ {c}
                                                            ELSE attached[k]
  BY DEF Discard, Release, TypeOK

\* The answer to an RRQ is a reply.
LEMMA AnswerType ==
  ASSUME NEW c \in Clients, NEW t \in Nat, NEW value \in Bodies \cup {None},
         NEW result \in Results, Answer(result, c, t, value)
  PROVE  out' \in Reply
  BY DEF Answer, Reply

\* The handler is resumed with bytes or with None.
LEMMA SentType ==
  ASSUME TypeOK, NEW c \in Live, NEW status
  PROVE  Sent(c, status) \in Bodies \cup {None}
  <1>1. sessions[c].pending \in PendingReceive \cup {None}
    BY LiveSession DEF ClientSession
  <1> QED
    BY <1>1 DEF Sent, PendingReceive

\* The session a handler's instruction leaves behind.
LEMMA InstructedType ==
  ASSUME TypeOK, NEW s \in ClientSession,
         NEW phase \in {"await_rrq", "await_upload"}, NEW handler \in HandlerStates,
         NEW pending \in PendingReceive \cup {None}
  PROVE  /\ [s EXCEPT !.handler = handler] \in ClientSession
         /\ [s EXCEPT !.phase = phase, !.token = NewToken, !.handler = handler]
              \in ClientSession
         /\ [s EXCEPT !.phase = phase, !.token = NewToken, !.handler = handler,
                      !.pending = pending] \in ClientSession
  <1>1. NewToken \in Tokens
    BY DEF NewToken, Tokens, TypeOK
  <1> QED
    BY <1>1 DEF ClientSession

-------------------------------------------------------------------------------
(* Type correctness.                                                        *)

LEMMA InitType == Init => TypeOK
  BY DEF Init, TypeOK, Silence, Reply, Results, NoToken

LEMMA NextType == TypeOK /\ [Next]_vars => TypeOK'
<1> SUFFICES ASSUME TypeOK, [Next]_vars PROVE TypeOK'
  OBVIOUS
<1>tok. NewToken \in Tokens /\ issued \in Nat
  BY DEF NewToken, Tokens, TypeOK
<1>live. \A c \in Live : c \in Clients /\ sessions[c].token \in Nat
  BY LiveSession DEF ClientSession, Tokens
<1>1. ASSUME NEW c \in Clients, NEW preset \in BOOLEAN, StartSession(c, preset)
      PROVE  TypeOK'
  <2>1. FreshSession(preset) \in ClientSession
    BY <1>tok DEF FreshSession, ClientSession, HandlerStates
  <2>2. out' \in Reply
    BY <1>1, AnswerType DEF StartSession, Results, NoToken
  <2> QED
    BY <1>1, <1>tok, <2>1, <2>2 DEF StartSession, Save, Release, TypeOK, Tokens
<1>2. ASSUME NEW c \in Clients, NEW t \in 0 .. issued, RefuseRRQ(c, t)
      PROVE  TypeOK'
  <2>1. out' \in Reply
    BY <1>2, <1>tok, AnswerType DEF RefuseRRQ, Results
  <2> QED
    BY <1>2, <2>1 DEF RefuseRRQ, TypeOK
<1>3. ASSUME NEW c \in Clients, NEW value \in HushValues, PreflightFails(c, value)
      PROVE  TypeOK'
  <2>1. out' \in Reply
    BY <1>3, <1>live, AnswerType DEF PreflightFails, Results
  <2> QED
    BY <1>3, <2>1, DiscardEffect DEF PreflightFails, TypeOK
<1>4. ASSUME NEW c \in Clients, NEW value \in HushValues, HandlerNotCreated(c, value)
      PROVE  TypeOK'
  <2>1. out' \in Reply
    BY <1>4, <1>live, AnswerType DEF HandlerNotCreated, Results
  <2>2. Entered(c, value) \in ClientSession
    BY <1>4, EnteredFields DEF HandlerNotCreated
  <2> QED
    BY <1>4, <2>1, <2>2 DEF HandlerNotCreated, Save, TypeOK
<1>5. ASSUME NEW c \in Clients, NoHandler(c)
      PROVE  TypeOK'
  <2>1. out' \in Reply
    BY <1>5, <1>live, AnswerType DEF NoHandler, Results
  <2> QED
    BY <1>5, <2>1 DEF NoHandler, TypeOK
<1>6. ASSUME NEW c \in Clients, DeadHandler(c)
      PROVE  TypeOK'
  <2>1. out' \in Reply
    BY <1>6, <1>live, AnswerType DEF DeadHandler, Results, Dead
  <2> QED
    BY <1>6, <2>1 DEF DeadHandler, TypeOK
<1>7. ASSUME NEW c \in Clients, NEW status \in RecvStatus, ReceiveFails(c, status)
      PROVE  TypeOK'
  <2>1. out' \in Reply
    BY <1>7, <1>live, AnswerType DEF ReceiveFails, Results
  <2> QED
    BY <1>7, <2>1, DiscardEffect DEF ReceiveFails, TypeOK
<1>8. ASSUME NEW c \in Clients, NEW value \in HushValues, NEW status \in RecvStatus,
             Advance(c, value, status)
      PROVE  TypeOK'
  <2> PICK ks \in SUBSET Artifacts :
        \/ ExecStep(c, value, status, ks)
        \/ RecvStep(c, value, status, ks)
        \/ FinalStep(c, value, status, ks)
        \/ HandlerReturns(c, value, status, ks)
        \/ \E result \in {"miss", "raise"} : HandlerRaises(c, value, status, ks, result)
        \/ StrayAwait(c, value, status, ks)
    BY <1>8 DEF Advance
  <2>live. c \in Live
    BY DEF ExecStep, RecvStep, FinalStep, HandlerReturns, HandlerRaises, StrayAwait, Resumable
  <2>sent. Sent(c, status) \in Bodies \cup {None}
    BY <2>live, SentType
  <2>adv. Advanced(c, value, ks) \in ClientSession
    BY <2>live, AdvancedFields DEF Fields
  <2>out. \A result \in Results :
            Answer(result, c, sessions[c].token, Sent(c, status)) => out' \in Reply
    BY <2>live, <2>sent, <1>live, AnswerType
  <2>att. Attach(c, ks) => attached' \in [Artifacts -> SUBSET Clients]
    BY DEF Attach, TypeOK
  <2>1. CASE ExecStep(c, value, status, ks)
    <3>1. [Advanced(c, value, ks) EXCEPT !.phase = "await_rrq", !.token = NewToken,
                                         !.handler = "exec"] \in ClientSession
      BY <2>adv, InstructedType DEF HandlerStates
    <3> QED
      BY <2>1, <2>out, <2>att, <3>1, <1>tok DEF ExecStep, Save, TypeOK, Results, Tokens
  <2>2. CASE RecvStep(c, value, status, ks)
    <3>1. [token |-> NewToken, uploaded |-> None] \in PendingReceive \cup {None}
      BY <1>tok DEF PendingReceive
    <3>2. [Advanced(c, value, ks) EXCEPT
             !.phase = "await_upload", !.token = NewToken, !.handler = "recv",
             !.pending = [token |-> NewToken, uploaded |-> None]] \in ClientSession
      BY <2>adv, <3>1, InstructedType DEF HandlerStates
    <3> QED
      BY <2>2, <2>out, <2>att, <3>2, <1>tok DEF RecvStep, Save, TypeOK, Results, Tokens
  <2>3. CASE FinalStep(c, value, status, ks)
    BY <2>3, <2>out, DiscardEffect DEF FinalStep, TypeOK, Results
  <2>4. CASE HandlerReturns(c, value, status, ks)
    BY <2>4, <2>out, DiscardEffect DEF HandlerReturns, TypeOK, Results
  <2>5. ASSUME NEW result \in {"miss", "raise"}, HandlerRaises(c, value, status, ks, result)
        PROVE  TypeOK'
    <3>1. [Advanced(c, value, ks) EXCEPT !.handler = "dead"] \in ClientSession
      BY <2>adv, InstructedType DEF HandlerStates
    <3>2. out' \in Reply
      BY <2>5, <2>out DEF HandlerRaises, Results
    <3> QED
      BY <2>5, <2>att, <3>1, <3>2 DEF HandlerRaises, Save, TypeOK
  <2>6. CASE StrayAwait(c, value, status, ks)
    <3>1. [Advanced(c, value, ks) EXCEPT !.handler = "stray"] \in ClientSession
      BY <2>adv, InstructedType DEF HandlerStates
    <3> QED
      BY <2>6, <2>out, <2>att, <3>1 DEF StrayAwait, Save, TypeOK, Results
  <2> QED
    BY <2>1, <2>2, <2>3, <2>4, <2>5, <2>6
<1>9. ASSUME NEW p \in Peers, NEW c \in Clients, NEW t \in 1 .. issued, OpenUpload(p, c, t)
      PROVE  TypeOK'
  BY <1>9, <1>tok DEF OpenUpload, TypeOK, Writer
<1>10. ASSUME NEW p \in Peers, NEW body \in Bodies, CloseUpload(p, body)
       PROVE  TypeOK'
  <2> DEFINE c == writers[p].client
             t == writers[p].token
  <2>1. c \in Clients /\ t \in Nat
    BY <1>10 DEF CloseUpload, TypeOK, Writer
  <2>2. c \in Live /\ sessions[c].pending # None /\ sessions[c].pending.token = t
    BY <1>10 DEF CloseUpload, Expects
  <2>3. sessions[c] \in ClientSession /\ sessions[c].pending \in PendingReceive
    BY <2>2, LiveSession DEF ClientSession
  <2>4. [sessions[c] EXCEPT !.pending.uploaded = body] \in ClientSession
    BY <2>3 DEF ClientSession, PendingReceive
  <2>5. t \in Tokens
    BY <2>2, <2>3 DEF PendingReceive
  <2>6. sessions' \in [Clients -> ClientSession \cup {None}]
    BY <1>10, <2>4, <2>1 DEF CloseUpload, Save, TypeOK
  <2>7. uploads' \subseteq [client : Clients, token : Tokens, body : Bodies]
    BY <1>10, <2>1, <2>5 DEF CloseUpload, TypeOK
  <2>8. writers' \in [Peers -> Writer \cup {None}]
    BY <1>10 DEF CloseUpload, Close, TypeOK
  <2> QED
    BY <1>10, <2>6, <2>7, <2>8 DEF CloseUpload, TypeOK
<1>11. ASSUME NEW p \in Peers, CloseStale(p)
       PROVE  TypeOK'
  BY <1>11 DEF CloseStale, Close, TypeOK
<1>12. CASE Restart
  BY <1>12 DEF Restart, TypeOK, Silence, Reply, Results, NoToken
<1>13. CASE UNCHANGED vars
  BY <1>13 DEF vars, TypeOK
<1> QED
  BY <1>1, <1>2, <1>3, <1>4, <1>5, <1>6, <1>7, <1>8, <1>9, <1>10, <1>11, <1>12, <1>13
  DEF Next, RRQ, ResumeSession, WRQ

\* The server's stores always hold values of their declared types, whatever
\* the handlers do and whatever arrives from the network.
THEOREM TypeCorrect == Spec => []TypeOK
<1> QED
  BY InitType, NextType, PTL DEF Spec

-------------------------------------------------------------------------------
(* What an advancing continuation can leave behind.                         *)

Others(c) == \A d \in Clients \ {c} : sessions'[d] = sessions[d]

\* Instructed: the session waits under a new token.
Instructed(c) ==
  /\ sessions'[c].token = NewToken
  /\ issued' = NewToken
  /\ \/ sessions'[c].handler = "exec" /\ sessions'[c].pending = None
     \/ /\ sessions'[c].handler = "recv"
        /\ sessions'[c].phase = "await_upload"
        /\ sessions'[c].pending = [token |-> NewToken, uploaded |-> None]

\* Broken: the session stays under its token, its handler will not be
\* resumed by a receive.
Broken(c) ==
  /\ sessions'[c].token = sessions[c].token
  /\ issued' = issued
  /\ sessions'[c].handler \in {"dead", "stray"}
  /\ sessions'[c].pending = None

Kept(c, value, ks) ==
  /\ sessions'[c] # None
  /\ ~sessions'[c].preflight
  /\ sessions'[c].hush = IF sessions[c].preflight THEN Merged(c, value)
                                                  ELSE sessions[c].hush
  /\ sessions'[c].artifacts = sessions[c].artifacts \cup ks
  /\ Attach(c, ks)
  /\ Instructed(c) \/ Broken(c)

Ended(c, ks) ==
  /\ sessions'[c] = None
  /\ Release(c, sessions[c].artifacts \cup ks)
  /\ issued' = issued

LEMMA AdvanceOutcome ==
  ASSUME TypeOK, NEW c \in Clients, NEW value \in HushValues, NEW status \in RecvStatus,
         Advance(c, value, status)
  PROVE  \E ks \in SUBSET Artifacts :
           /\ Resumable(c, value)
           /\ Kept(c, value, ks) \/ Ended(c, ks)
           /\ Others(c)
           /\ uploads' = uploads
           /\ writers' = writers
           /\ out'.sent = Sent(c, status)
           /\ out'.client = c
           /\ out'.asked = sessions[c].token
  <1> PICK ks \in SUBSET Artifacts :
        \/ ExecStep(c, value, status, ks)
        \/ RecvStep(c, value, status, ks)
        \/ FinalStep(c, value, status, ks)
        \/ HandlerReturns(c, value, status, ks)
        \/ \E result \in {"miss", "raise"} : HandlerRaises(c, value, status, ks, result)
        \/ StrayAwait(c, value, status, ks)
    BY DEF Advance
  <1>live. c \in Live
    BY DEF ExecStep, RecvStep, FinalStep, HandlerReturns, HandlerRaises, StrayAwait, Resumable
  <1> DEFINE s == Advanced(c, value, ks)
  <1>fields. Fields(s, c, value, ks)
    BY <1>live, AdvancedFields
  <1>adv. /\ s \in ClientSession
          /\ s.preflight = FALSE
          /\ s.pending = None
          /\ s.token = sessions[c].token
          /\ s.artifacts = sessions[c].artifacts \cup ks
          /\ s.hush = IF sessions[c].preflight THEN Merged(c, value) ELSE sessions[c].hush
    BY <1>fields DEF Fields
  <1>out. \A result : Answer(result, c, sessions[c].token, Sent(c, status)) =>
            /\ out'.sent = Sent(c, status)
            /\ out'.client = c
            /\ out'.asked = sessions[c].token
    BY DEF Answer
  <1>none. None \notin ClientSession
    BY NoneIsNoSession
  <1> HIDE DEF s
  <1> SUFFICES /\ Resumable(c, value)
               /\ Kept(c, value, ks) \/ Ended(c, ks)
               /\ Others(c)
               /\ uploads' = uploads
               /\ writers' = writers
               /\ out'.sent = Sent(c, status)
               /\ out'.client = c
               /\ out'.asked = sessions[c].token
    OBVIOUS
  <1>1. CASE ExecStep(c, value, status, ks)
    <2> DEFINE r == [s EXCEPT !.phase = "await_rrq", !.token = NewToken, !.handler = "exec"]
    <2>1. Save(c, r) /\ Attach(c, ks) /\ issued' = NewToken
      BY <1>1 DEF ExecStep, s
    <2>2. /\ r # None /\ r.preflight = FALSE /\ r.hush = s.hush /\ r.artifacts = s.artifacts
          /\ r.token = NewToken /\ r.handler = "exec" /\ r.pending = None
      <3>1. r \in ClientSession
        BY <1>adv, InstructedType DEF HandlerStates
      <3> QED
        BY <1>adv, <1>none, <3>1 DEF ClientSession
    <2>3. sessions'[c] = r /\ Others(c)
      BY <2>1, SaveEffect DEF Others
    <2>4. Kept(c, value, ks)
      BY <1>adv, <2>1, <2>2, <2>3 DEF Kept, Instructed
    <2> QED
      BY <1>1, <1>out, <2>3, <2>4 DEF ExecStep
  <1>2. CASE RecvStep(c, value, status, ks)
    <2> DEFINE w == [token |-> NewToken, uploaded |-> None]
               r == [s EXCEPT !.phase = "await_upload", !.token = NewToken,
                              !.handler = "recv", !.pending = w]
    <2>1. Save(c, r) /\ Attach(c, ks) /\ issued' = NewToken
      BY <1>2 DEF RecvStep, s
    <2>2. /\ r # None /\ r.preflight = FALSE /\ r.hush = s.hush /\ r.artifacts = s.artifacts
          /\ r.token = NewToken /\ r.handler = "recv" /\ r.pending = w
          /\ r.phase = "await_upload"
      <3>1. w \in PendingReceive \cup {None}
        BY DEF PendingReceive, NewToken, Tokens, TypeOK
      <3>2. r \in ClientSession
        BY <1>adv, <3>1, InstructedType DEF HandlerStates
      <3> QED
        BY <1>adv, <1>none, <3>2 DEF ClientSession
    <2>3. sessions'[c] = r /\ Others(c)
      BY <2>1, SaveEffect DEF Others
    <2>4. Kept(c, value, ks)
      BY <1>adv, <2>1, <2>2, <2>3 DEF Kept, Instructed
    <2> QED
      BY <1>2, <1>out, <2>3, <2>4 DEF RecvStep
  <1>3. CASE FinalStep(c, value, status, ks)
    <2>1. Ended(c, ks) /\ Others(c)
      BY <1>3, DiscardEffect DEF FinalStep, Ended, Others, Discard
    <2> QED
      BY <1>3, <1>out, <2>1 DEF FinalStep
  <1>4. CASE HandlerReturns(c, value, status, ks)
    <2>1. Ended(c, ks) /\ Others(c)
      BY <1>4, DiscardEffect DEF HandlerReturns, Ended, Others, Discard
    <2> QED
      BY <1>4, <1>out, <2>1 DEF HandlerReturns
  <1>5. ASSUME NEW handler \in {"dead", "stray"},
               Save(c, [s EXCEPT !.handler = handler]), Attach(c, ks), issued' = issued
        PROVE  Kept(c, value, ks) /\ Others(c)
    <2> DEFINE r == [s EXCEPT !.handler = handler]
    <2>1. /\ r # None /\ r.preflight = FALSE /\ r.hush = s.hush /\ r.artifacts = s.artifacts
          /\ r.token = s.token /\ r.handler = handler /\ r.pending = None
      <3>1. r \in ClientSession
        BY <1>adv, InstructedType DEF HandlerStates
      <3> QED
        BY <1>adv, <1>none, <3>1 DEF ClientSession
    <2>2. sessions'[c] = r /\ Others(c)
      BY <1>5, SaveEffect DEF Others
    <2> QED
      BY <1>5, <1>adv, <2>1, <2>2 DEF Kept, Broken
  <1>6. ASSUME NEW result \in {"miss", "raise"}, HandlerRaises(c, value, status, ks, result)
        PROVE  /\ Resumable(c, value) /\ Kept(c, value, ks) /\ Others(c)
               /\ uploads' = uploads /\ writers' = writers
               /\ out'.sent = Sent(c, status) /\ out'.client = c
               /\ out'.asked = sessions[c].token
    BY <1>6, <1>5, <1>out DEF HandlerRaises, s
  <1>7. CASE StrayAwait(c, value, status, ks)
    BY <1>7, <1>5, <1>out DEF StrayAwait, s
  <1> QED
    BY <1>1, <1>2, <1>3, <1>4, <1>6, <1>7

-------------------------------------------------------------------------------
(* Every step of the server, by what it does to the sessions.               *)

\* A client starts, its earlier session gives back what it held.
Started(c) ==
  /\ sessions'[c] # None
  /\ sessions'[c].preflight
  /\ sessions'[c].handler = "none"
  /\ sessions'[c].pending = None
  /\ sessions'[c].phase = "await_rrq"
  /\ sessions'[c].artifacts = {}
  /\ sessions'[c].token = NewToken
  /\ issued' = NewToken
  /\ Release(c, IF c \in Live THEN sessions[c].artifacts ELSE {})
  /\ Others(c)
  /\ uploads' = uploads
  /\ out'.sent = None

\* Nothing but the answer, or a writer that changes nothing else.
Quiet ==
  /\ UNCHANGED <<sessions, issued, attached, uploads>>
  /\ out' = out \/ out'.sent = None

\* A session ends before its handler runs, or because no upload came.
Refused(c) ==
  /\ Ended(c, {})
  /\ Others(c)
  /\ uploads' = uploads
  /\ out'.sent = None

\* The hush check succeeded but there is no handler to run.
Unhandled(c) ==
  /\ c \in Live
  /\ sessions[c].preflight
  /\ sessions'[c] # None
  /\ ~sessions'[c].preflight
  /\ sessions'[c].handler = sessions[c].handler
  /\ sessions'[c].pending = sessions[c].pending
  /\ sessions'[c].token = sessions[c].token
  /\ sessions'[c].artifacts = sessions[c].artifacts
  /\ Others(c)
  /\ UNCHANGED <<issued, attached, uploads>>
  /\ out'.sent = None

\* The bytes of a closing upload reach the receive that expects them.
Captured(c, t, body) ==
  /\ Expects(c, t)
  /\ sessions'[c] # None
  /\ sessions'[c].preflight = sessions[c].preflight
  /\ sessions'[c].handler = sessions[c].handler
  /\ sessions'[c].phase = sessions[c].phase
  /\ sessions'[c].hush = sessions[c].hush
  /\ sessions'[c].token = sessions[c].token
  /\ sessions'[c].artifacts = sessions[c].artifacts
  /\ sessions'[c].pending # None
  /\ sessions'[c].pending.token = t
  /\ sessions'[c].pending.uploaded = body
  /\ Others(c)
  /\ UNCHANGED <<issued, attached, out>>
  /\ uploads' = uploads \cup {[client |-> c, token |-> t, body |-> body]}

\* A handler is resumed and leaves its session waiting, stuck or ended.
Resumed(c, value, status, ks) ==
  /\ Resumable(c, value)
  /\ Kept(c, value, ks) \/ Ended(c, ks)
  /\ Others(c)
  /\ uploads' = uploads
  /\ out'.sent = Sent(c, status)
  /\ out'.client = c
  /\ out'.asked = sessions[c].token

LEMMA StepOutcome ==
  ASSUME TypeOK, [Next]_vars
  PROVE  \/ \E c \in Clients : Started(c) \/ Refused(c) \/ Unhandled(c)
         \/ \E c \in Clients, t \in Nat, body \in Bodies : Captured(c, t, body)
         \/ \E c \in Clients, value \in HushValues, status \in RecvStatus,
               ks \in SUBSET Artifacts : Resumed(c, value, status, ks)
         \/ Quiet
         \/ Restart
  <1>1. ASSUME NEW c \in Clients, NEW preset \in BOOLEAN, StartSession(c, preset)
        PROVE  Started(c)
    <2> DEFINE r == FreshSession(preset)
    <2>1. r # None
      <3>1. r \in ClientSession
        BY DEF FreshSession, ClientSession, HandlerStates, NewToken, Tokens, TypeOK
      <3> QED
        BY <3>1, NoneIsNoSession
    <2>2. sessions'[c] = r /\ Others(c)
      BY <1>1, SaveEffect DEF StartSession, Others
    <2> QED
      BY <1>1, <2>1, <2>2 DEF StartSession, FreshSession, Started, Answer
  <1>2. ASSUME NEW c \in Clients, NEW t \in 0 .. issued, RefuseRRQ(c, t)
        PROVE  Quiet
    BY <1>2 DEF RefuseRRQ, Quiet, Answer
  <1>3. ASSUME NEW c \in Clients, NEW value \in HushValues, PreflightFails(c, value)
        PROVE  Refused(c)
    BY <1>3, DiscardEffect DEF PreflightFails, Refused, Ended, Others, Discard, Answer, Release
  <1>4. ASSUME NEW c \in Clients, NEW value \in HushValues, HandlerNotCreated(c, value)
        PROVE  Unhandled(c)
    <2> DEFINE r == Entered(c, value)
    <2>1. /\ r \in ClientSession /\ r.preflight = FALSE /\ r.handler = sessions[c].handler
          /\ r.pending = sessions[c].pending /\ r.token = sessions[c].token
          /\ r.artifacts = sessions[c].artifacts
      BY <1>4, EnteredFields DEF HandlerNotCreated
    <2>2. sessions'[c] = r /\ Others(c)
      BY <1>4, SaveEffect DEF HandlerNotCreated, Others
    <2> HIDE DEF r
    <2> QED
      BY <1>4, <2>1, <2>2, NoneIsNoSession DEF HandlerNotCreated, Unhandled, Answer
  <1>5. ASSUME NEW c \in Clients, NoHandler(c) \/ DeadHandler(c)
        PROVE  Quiet
    BY <1>5 DEF NoHandler, DeadHandler, Quiet, Answer
  <1>6. ASSUME NEW c \in Clients, NEW status \in RecvStatus, ReceiveFails(c, status)
        PROVE  Refused(c)
    BY <1>6, DiscardEffect DEF ReceiveFails, Refused, Ended, Others, Discard, Answer, Release
  <1>7. ASSUME NEW c \in Clients, NEW value \in HushValues, NEW status \in RecvStatus,
             Advance(c, value, status)
        PROVE  \E ks \in SUBSET Artifacts : Resumed(c, value, status, ks)
    BY <1>7, AdvanceOutcome DEF Resumed
  <1>8. ASSUME NEW p \in Peers, NEW c \in Clients, NEW t \in 1 .. issued, OpenUpload(p, c, t)
        PROVE  Quiet
    BY <1>8 DEF OpenUpload, Quiet
  <1>9. ASSUME NEW p \in Peers, NEW body \in Bodies, CloseUpload(p, body)
        PROVE  \E c \in Clients, t \in Nat : Captured(c, t, body)
    <2> DEFINE c == writers[p].client
               t == writers[p].token
               r == [sessions[c] EXCEPT !.pending.uploaded = body]
    <2>1. c \in Clients /\ t \in Nat
      BY <1>9 DEF CloseUpload, TypeOK, Writer
    <2>2. Expects(c, t) /\ Save(c, r)
      BY <1>9 DEF CloseUpload
    <2>3. sessions[c] \in ClientSession /\ sessions[c].pending \in PendingReceive
      BY <2>2, LiveSession DEF Expects, ClientSession
    <2>4. /\ r \in ClientSession /\ r.pending \in PendingReceive
          /\ r.preflight = sessions[c].preflight /\ r.handler = sessions[c].handler
          /\ r.phase = sessions[c].phase /\ r.hush = sessions[c].hush
          /\ r.token = sessions[c].token /\ r.artifacts = sessions[c].artifacts
          /\ r.pending.token = t /\ r.pending.uploaded = body
      BY <2>2, <2>3 DEF Expects, ClientSession, PendingReceive
    <2>5. sessions'[c] = r /\ Others(c)
      BY <2>1, <2>2, SaveEffect DEF Others
    <2>6. /\ UNCHANGED <<issued, attached, out>>
          /\ uploads' = uploads \cup {[client |-> c, token |-> t, body |-> body]}
      BY <1>9 DEF CloseUpload
    <2> HIDE DEF c, t, r
    <2>7. Captured(c, t, body)
      BY <2>2, <2>4, <2>5, <2>6, NoneIsNoSession, NoneIsNoReceive DEF Captured
    <2> QED
      BY <2>1, <2>7
  <1>10. ASSUME NEW p \in Peers, CloseStale(p)
         PROVE  Quiet
    BY <1>10 DEF CloseStale, Quiet
  <1>11. CASE UNCHANGED vars
    BY <1>11 DEF vars, Quiet
  <1> QED
    BY <1>1, <1>2, <1>3, <1>4, <1>5, <1>6, <1>7, <1>8, <1>9, <1>10, <1>11
    DEF Next, RRQ, ResumeSession, WRQ

-------------------------------------------------------------------------------
(* Safety.  No conjunct is inductive alone: the bytes delivered are the      *)
(* client's own because the receive's token is the session's token, which    *)
(* holds because a token is drawn fresh, which no other session shares.       *)

IInv ==
  /\ TypeOK
  /\ SessionShape
  /\ TokensExclusive
  /\ RefcountExact
  /\ CapturedBodyIsOwn
  /\ DeliveredBodyIsOwn

LEMMA InitInv == Init => IInv
<1> SUFFICES ASSUME Init PROVE IInv
  OBVIOUS
<1>1. Live = {}
  BY DEF Init, Live
<1> QED
  BY <1>1, InitType DEF IInv, Init, SessionShape, TokensExclusive, RefcountExact,
     CapturedBodyIsOwn, DeliveredBodyIsOwn, Silence

\* After a restart there is no session left to speak about.
LEMMA RestartInv == TypeOK /\ Restart => /\ SessionShape' /\ TokensExclusive'
                                         /\ RefcountExact' /\ CapturedBodyIsOwn'
                                         /\ DeliveredBodyIsOwn'
<1> SUFFICES ASSUME TypeOK, Restart
             PROVE  /\ SessionShape' /\ TokensExclusive' /\ RefcountExact'
                    /\ CapturedBodyIsOwn' /\ DeliveredBodyIsOwn'
  OBVIOUS
<1>1. Live' = {}
  BY DEF Restart, Live
<1> QED
  BY <1>1 DEF Restart, SessionShape, TokensExclusive, RefcountExact, CapturedBodyIsOwn,
     DeliveredBodyIsOwn, Silence

\* What a step on one session leaves to prove about the others.
LEMMA LiveAfter ==
  ASSUME NEW c \in Clients, Others(c)
  PROVE  \A d \in Clients \ {c} : (d \in Live' <=> d \in Live) /\ sessions'[d] = sessions[d]
  BY DEF Others, Live

LEMMA NextShape == TypeOK /\ SessionShape /\ [Next]_vars => SessionShape'
<1> SUFFICES ASSUME TypeOK, SessionShape, [Next]_vars, NEW d \in Live'
             PROVE  /\ sessions'[d].preflight => /\ sessions'[d].handler = "none"
                                                 /\ sessions'[d].phase = "await_rrq"
                    /\ sessions'[d].handler # "none" => sessions'[d].hush
                    /\ sessions'[d].pending # None <=> sessions'[d].handler = "recv"
                    /\ sessions'[d].pending # None =>
                         /\ sessions'[d].pending.token = sessions'[d].token
                         /\ sessions'[d].phase = "await_upload"
  BY DEF SessionShape
<1>d. d \in Clients /\ sessions'[d] # None
  BY DEF Live
<1>0. CASE d \in Live /\ sessions'[d] = sessions[d]
  BY <1>0 DEF SessionShape
<1>1. ASSUME NEW c \in Clients, Started(c)
      PROVE  (sessions'[d] = sessions[d] /\ d \in Live) \/ d = c
  BY <1>1, <1>d, LiveAfter DEF Started
<1>2. ASSUME NEW c \in Clients, Started(c), d = c
      PROVE  /\ sessions'[d].handler = "none" /\ sessions'[d].phase = "await_rrq"
             /\ sessions'[d].pending = None
  BY <1>2 DEF Started
<1>3. ASSUME NEW c \in Clients, Refused(c)
      PROVE  sessions'[d] = sessions[d] /\ d \in Live
  BY <1>3, <1>d, LiveAfter DEF Refused, Ended
<1>4. ASSUME NEW c \in Clients, Unhandled(c)
      PROVE  (sessions'[d] = sessions[d] /\ d \in Live) \/ d = c
  BY <1>4, <1>d, LiveAfter DEF Unhandled
<1>5. ASSUME NEW c \in Clients, Unhandled(c), d = c
      PROVE  /\ ~sessions'[d].preflight /\ sessions'[d].handler = "none"
             /\ sessions'[d].pending = None
  BY <1>5 DEF Unhandled, SessionShape
<1>6. ASSUME NEW c \in Clients, NEW t \in Nat, NEW body \in Bodies, Captured(c, t, body)
      PROVE  (sessions'[d] = sessions[d] /\ d \in Live) \/ d = c
  BY <1>6, <1>d, LiveAfter DEF Captured
<1>7. ASSUME NEW c \in Clients, NEW t \in Nat, NEW body \in Bodies, Captured(c, t, body),
             d = c
      PROVE  /\ ~sessions'[d].preflight /\ sessions'[d].hush
             /\ sessions'[d].handler = "recv"
             /\ sessions'[d].pending # None
             /\ sessions'[d].pending.token = sessions'[d].token
             /\ sessions'[d].phase = "await_upload"
  BY <1>7 DEF Captured, Expects, SessionShape
<1>8. ASSUME NEW c \in Clients, NEW value \in HushValues, NEW status \in RecvStatus,
             NEW ks \in SUBSET Artifacts, Resumed(c, value, status, ks)
      PROVE  (sessions'[d] = sessions[d] /\ d \in Live) \/ (d = c /\ Kept(c, value, ks))
  <2>1. Others(c) /\ (Kept(c, value, ks) \/ Ended(c, ks))
    BY <1>8 DEF Resumed
  <2>2. d # c => sessions'[d] = sessions[d] /\ d \in Live
    BY <2>1, <1>d, LiveAfter
  <2>3. d = c => ~Ended(c, ks)
    BY <1>d DEF Ended
  <2> QED
    BY <2>1, <2>2, <2>3
<1>9. ASSUME NEW c \in Clients, NEW value \in HushValues, NEW status \in RecvStatus,
             NEW ks \in SUBSET Artifacts, Resumed(c, value, status, ks), d = c,
             Kept(c, value, ks)
      PROVE  /\ ~sessions'[d].preflight /\ sessions'[d].hush
             /\ \/ sessions'[d].handler # "recv" /\ sessions'[d].pending = None
                \/ /\ sessions'[d].handler = "recv"
                   /\ sessions'[d].pending # None
                   /\ sessions'[d].pending.token = sessions'[d].token
                   /\ sessions'[d].phase = "await_upload"
  <2>1. c \in Live /\ (IF sessions[c].preflight THEN Merged(c, value) ELSE sessions[c].hush)
    BY <1>9 DEF Resumed, Resumable, SessionShape
  <2>2. [token |-> NewToken, uploaded |-> None] # None
    BY NoneIsNoReceive DEF PendingReceive, NewToken, Tokens, TypeOK
  <2>3. ~sessions'[d].preflight /\ sessions'[d].hush
    BY <1>9, <2>1 DEF Kept
  <2>4. Instructed(c) \/ Broken(c)
    BY <1>9 DEF Kept
  <2> QED
    BY <1>9, <2>2, <2>3, <2>4 DEF Instructed, Broken
<1>10. CASE Quiet
  BY <1>10, <1>0, <1>d DEF Quiet, Live
<1>11. CASE Restart
  BY <1>11, <1>d DEF Restart
<1> QED
  BY <1>0, <1>1, <1>2, <1>3, <1>4, <1>5, <1>6, <1>7, <1>8, <1>9, <1>10, <1>11, StepOutcome

LEMMA NextTokens == TypeOK /\ TokensExclusive /\ [Next]_vars => TokensExclusive'
<1> SUFFICES ASSUME TypeOK, TokensExclusive, [Next]_vars PROVE TokensExclusive'
  OBVIOUS
<1>n. issued \in Nat /\ \A d \in Live : sessions[d].token \in Nat
  BY LiveSession DEF TypeOK, ClientSession, Tokens
\* The session of c goes away or keeps its token, ...
<1>1. ASSUME NEW c \in Clients, Others(c), issued' = issued,
             c \in Live' => c \in Live /\ sessions'[c].token = sessions[c].token
      PROVE  TokensExclusive'
  <2>1. \A d \in Live' : d \in Live /\ sessions'[d].token = sessions[d].token
    BY <1>1, LiveAfter DEF Live
  <2> QED
    BY <1>1, <2>1 DEF TokensExclusive
\* ... or it gets the new token, which no session has.
<1>2. ASSUME NEW c \in Clients, Others(c), issued' = NewToken, sessions'[c].token = NewToken
      PROVE  TokensExclusive'
  <2>1. \A d \in Live' \ {c} : d \in Live /\ sessions'[d].token = sessions[d].token
    BY <1>2, LiveAfter DEF Live
  <2> QED
    BY <1>2, <2>1, <1>n DEF TokensExclusive, NewToken
<1>3. ASSUME NEW c \in Clients, Started(c)
      PROVE  TokensExclusive'
  BY <1>3, <1>2 DEF Started
<1>4. ASSUME NEW c \in Clients, Refused(c)
      PROVE  TokensExclusive'
  BY <1>4, <1>1 DEF Refused, Ended, Live
<1>5. ASSUME NEW c \in Clients, Unhandled(c)
      PROVE  TokensExclusive'
  BY <1>5, <1>1 DEF Unhandled
<1>6. ASSUME NEW c \in Clients, NEW t \in Nat, NEW body \in Bodies, Captured(c, t, body)
      PROVE  TokensExclusive'
  BY <1>6, <1>1 DEF Captured, Expects
<1>7. ASSUME NEW c \in Clients, NEW value \in HushValues, NEW status \in RecvStatus,
             NEW ks \in SUBSET Artifacts, Resumed(c, value, status, ks)
      PROVE  TokensExclusive'
  <2>1. c \in Live /\ Others(c)
    BY <1>7 DEF Resumed, Resumable
  <2>2. CASE Kept(c, value, ks)
    BY <2>1, <2>2, <1>1, <1>2 DEF Kept, Instructed, Broken
  <2>3. CASE Ended(c, ks)
    BY <2>1, <2>3, <1>1 DEF Ended, Live
  <2> QED
    BY <1>7, <2>2, <2>3 DEF Resumed
<1>8. CASE Quiet
  BY <1>8 DEF Quiet, TokensExclusive, Live
<1>9. CASE Restart
  BY <1>9, RestartInv
<1> QED
  BY <1>3, <1>4, <1>5, <1>6, <1>7, <1>8, <1>9, StepOutcome

LEMMA NextRefcount == TypeOK /\ RefcountExact /\ [Next]_vars => RefcountExact'
<1> SUFFICES ASSUME TypeOK, RefcountExact, [Next]_vars PROVE RefcountExact'
  OBVIOUS
<1>hold. \A k \in Artifacts, d \in Clients :
           d \in attached[k] <=> d \in Live /\ k \in sessions[d].artifacts
  BY DEF RefcountExact, Live
<1>sub. \A k \in Artifacts : attached[k] \subseteq Clients
  BY DEF TypeOK
<1>1. ASSUME \A k \in Artifacts : attached'[k] \subseteq Clients,
             \A k \in Artifacts, d \in Clients :
               d \in attached'[k] <=> d \in Live' /\ k \in sessions'[d].artifacts
      PROVE  RefcountExact'
  BY <1>1 DEF RefcountExact, Live
\* A session gives back ks, which covers what it held.
<1>2. ASSUME NEW c \in Clients, NEW ks, Release(c, ks), Others(c),
             c \in Live => sessions[c].artifacts \subseteq ks,
             c \in Live' => sessions'[c].artifacts = {}
      PROVE  RefcountExact'
  <2>1. \A k \in Artifacts : attached'[k] = IF k \in ks THEN attached[k] \ {c}
                                                         ELSE attached[k]
    BY <1>2 DEF Release
  <2>2. \A k \in Artifacts, d \in Clients \ {c} :
          d \in attached'[k] <=> d \in Live' /\ k \in sessions'[d].artifacts
    BY <1>2, <2>1, <1>hold, LiveAfter
  <2>3. \A k \in Artifacts :
          c \in attached'[k] <=> c \in Live' /\ k \in sessions'[c].artifacts
    BY <1>2, <2>1, <1>hold
  <2>4. \A k \in Artifacts : attached'[k] \subseteq Clients
    BY <2>1, <1>sub
  <2> QED
    BY <2>2, <2>3, <2>4, <1>1
\* A session acquires ks.
<1>3. ASSUME NEW c \in Live, NEW ks \in SUBSET Artifacts, Attach(c, ks), Others(c),
             c \in Live', sessions'[c].artifacts = sessions[c].artifacts \cup ks
      PROVE  RefcountExact'
  <2>1. \A k \in Artifacts : attached'[k] = IF k \in ks THEN attached[k] \cup {c}
                                                         ELSE attached[k]
    BY <1>3 DEF Attach
  <2>2. c \in Clients
    BY DEF Live
  <2>3. ASSUME NEW k \in Artifacts, NEW d \in Clients \ {c}
        PROVE  d \in attached'[k] <=> d \in Live' /\ k \in sessions'[d].artifacts
    <3>1. (d \in Live' <=> d \in Live) /\ sessions'[d] = sessions[d]
      BY <1>3, <2>2, LiveAfter
    <3>2. d \in attached'[k] <=> d \in attached[k]
      BY <2>1
    <3> QED
      BY <3>1, <3>2, <1>hold
  <2>4. \A k \in Artifacts :
          c \in attached'[k] <=> c \in Live' /\ k \in sessions'[c].artifacts
    BY <1>3, <2>1, <2>2, <1>hold
  <2>5. \A k \in Artifacts : attached'[k] \subseteq Clients
    BY <2>1, <2>2, <1>sub
  <2> QED
    BY <2>3, <2>4, <2>5, <1>1
\* The references stay.
<1>4. ASSUME NEW c \in Live, attached' = attached, Others(c), c \in Live',
             sessions'[c].artifacts = sessions[c].artifacts
      PROVE  RefcountExact'
  <2>1. c \in Clients
    BY DEF Live
  <2>2. \A k \in Artifacts, d \in Clients :
          d \in attached'[k] <=> d \in Live' /\ k \in sessions'[d].artifacts
    BY <1>4, <2>1, <1>hold, LiveAfter
  <2> QED
    BY <1>4, <2>2, <1>sub, <1>1
<1>5. ASSUME NEW c \in Clients, Started(c)
      PROVE  RefcountExact'
  BY <1>5, <1>2 DEF Started
<1>6. ASSUME NEW c \in Clients, Refused(c)
      PROVE  RefcountExact'
  <2>1. /\ Release(c, sessions[c].artifacts \cup {}) /\ Others(c)
        /\ sessions'[c] = None
    BY <1>6 DEF Refused, Ended
  <2> QED
    BY <2>1, <1>2 DEF Live
<1>7. ASSUME NEW c \in Clients, Unhandled(c)
      PROVE  RefcountExact'
  BY <1>7, <1>4 DEF Unhandled, Live
<1>8. ASSUME NEW c \in Clients, NEW t \in Nat, NEW body \in Bodies, Captured(c, t, body)
      PROVE  RefcountExact'
  BY <1>8, <1>4 DEF Captured, Expects, Live
<1>9. ASSUME NEW c \in Clients, NEW value \in HushValues, NEW status \in RecvStatus,
             NEW ks \in SUBSET Artifacts, Resumed(c, value, status, ks)
      PROVE  RefcountExact'
  <2>1. c \in Live /\ Others(c) /\ (Kept(c, value, ks) \/ Ended(c, ks))
    BY <1>9 DEF Resumed, Resumable
  <2>2. CASE Kept(c, value, ks)
    <3>1. c \in Live' /\ Attach(c, ks) /\ sessions'[c].artifacts = sessions[c].artifacts \cup ks
      BY <2>1, <2>2 DEF Kept, Live
    <3> QED
      BY <2>1, <3>1, <1>3
  <2>3. CASE Ended(c, ks)
    <3>1. Release(c, sessions[c].artifacts \cup ks) /\ c \notin Live'
      BY <2>3 DEF Ended, Live
    <3> QED
      BY <2>1, <3>1, <1>2
  <2> QED
    BY <2>1, <2>2, <2>3
<1>10. CASE Quiet
  BY <1>10 DEF Quiet, RefcountExact, Live
<1>11. CASE Restart
  BY <1>11, RestartInv
<1> QED
  BY <1>5, <1>6, <1>7, <1>8, <1>9, <1>10, <1>11, StepOutcome

LEMMA NextCaptured == TypeOK /\ CapturedBodyIsOwn /\ [Next]_vars => CapturedBodyIsOwn'
<1> SUFFICES ASSUME TypeOK, CapturedBodyIsOwn, [Next]_vars,
                    NEW d \in Live', sessions'[d].pending # None
             PROVE  \/ sessions'[d].pending.uploaded = None
                    \/ [client |-> d, token |-> sessions'[d].pending.token,
                        body |-> sessions'[d].pending.uploaded] \in uploads'
  BY DEF CapturedBodyIsOwn
<1> DEFINE Own == \/ sessions'[d].pending.uploaded = None
                  \/ [client |-> d, token |-> sessions'[d].pending.token,
                      body |-> sessions'[d].pending.uploaded] \in uploads'
<1>d. d \in Clients /\ sessions'[d] # None
  BY DEF Live
\* A receive that was there before, and captures that only grow.
<1>0. ASSUME uploads \subseteq uploads', d \in Live, sessions'[d].pending = sessions[d].pending
      PROVE  Own
  BY <1>0 DEF CapturedBodyIsOwn
<1>1. ASSUME NEW c \in Clients, Started(c)
      PROVE  Own
  <2>1. d # c
    BY <1>1 DEF Started
  <2> QED
    BY <1>1, <2>1, <1>d, <1>0, LiveAfter DEF Started
<1>2. ASSUME NEW c \in Clients, Refused(c)
      PROVE  Own
  <2>1. d # c
    BY <1>2, <1>d DEF Refused, Ended
  <2> QED
    BY <1>2, <2>1, <1>d, <1>0, LiveAfter DEF Refused
<1>3. ASSUME NEW c \in Clients, Unhandled(c)
      PROVE  Own
  <2>1. CASE d = c
    BY <1>3, <2>1, <1>0 DEF Unhandled
  <2>2. CASE d # c
    BY <1>3, <2>2, <1>d, <1>0, LiveAfter DEF Unhandled
  <2> QED
    BY <2>1, <2>2
<1>4. ASSUME NEW c \in Clients, NEW t \in Nat, NEW body \in Bodies, Captured(c, t, body)
      PROVE  Own
  <2>1. CASE d = c
    BY <1>4, <2>1 DEF Captured
  <2>2. CASE d # c
    <3>1. uploads \subseteq uploads' /\ Others(c)
      BY <1>4 DEF Captured
    <3> QED
      BY <2>2, <3>1, <1>d, <1>0, LiveAfter
  <2> QED
    BY <2>1, <2>2
<1>5. ASSUME NEW c \in Clients, NEW value \in HushValues, NEW status \in RecvStatus,
             NEW ks \in SUBSET Artifacts, Resumed(c, value, status, ks)
      PROVE  Own
  <2>1. CASE d = c
    <3>1. Instructed(c) \/ Broken(c)
      BY <1>5, <2>1, <1>d DEF Resumed, Kept, Ended
    <3> QED
      BY <2>1, <3>1 DEF Instructed, Broken
  <2>2. CASE d # c
    BY <1>5, <2>2, <1>d, <1>0, LiveAfter DEF Resumed
  <2> QED
    BY <2>1, <2>2
<1>6. CASE Quiet
  BY <1>6, <1>0, <1>d DEF Quiet, Live
<1>7. CASE Restart
  BY <1>7, <1>d DEF Restart
<1> QED
  BY <1>1, <1>2, <1>3, <1>4, <1>5, <1>6, <1>7, StepOutcome

LEMMA NextDelivered ==
  TypeOK /\ SessionShape /\ CapturedBodyIsOwn /\ DeliveredBodyIsOwn /\ [Next]_vars
    => DeliveredBodyIsOwn'
<1> SUFFICES ASSUME TypeOK, SessionShape, CapturedBodyIsOwn, DeliveredBodyIsOwn,
                    [Next]_vars, out'.sent # None
             PROVE  [client |-> out'.client, token |-> out'.asked, body |-> out'.sent]
                      \in uploads'
  BY DEF DeliveredBodyIsOwn
<1>1. ASSUME NEW c \in Clients, Started(c) \/ Refused(c) \/ Unhandled(c)
      PROVE  FALSE
  BY <1>1 DEF Started, Refused, Unhandled
<1>2. ASSUME out' = out, uploads \subseteq uploads'
      PROVE  [client |-> out'.client, token |-> out'.asked, body |-> out'.sent] \in uploads'
  BY <1>2 DEF DeliveredBodyIsOwn
<1>3. ASSUME NEW c \in Clients, NEW t \in Nat, NEW body \in Bodies, Captured(c, t, body)
      PROVE  out' = out /\ uploads \subseteq uploads'
  BY <1>3 DEF Captured
\* The handler is resumed with the bytes of its own receive, whose token is
\* the one that the continuation asked for.
<1>4. ASSUME NEW c \in Clients, NEW value \in HushValues, NEW status \in RecvStatus,
             NEW ks \in SUBSET Artifacts, Resumed(c, value, status, ks)
      PROVE  [client |-> out'.client, token |-> out'.asked, body |-> out'.sent] \in uploads'
  <2>1. /\ c \in Live /\ out'.client = c /\ out'.asked = sessions[c].token
        /\ out'.sent = Sent(c, status) /\ uploads' = uploads
    BY <1>4 DEF Resumed, Resumable
  <2>2. sessions[c].pending # None /\ out'.sent = sessions[c].pending.uploaded
    BY <2>1 DEF Sent
  <2>3. sessions[c].pending.token = sessions[c].token
    BY <2>1, <2>2 DEF SessionShape
  <2> QED
    BY <2>1, <2>2, <2>3 DEF CapturedBodyIsOwn
<1>5. CASE Quiet
  BY <1>5, <1>2 DEF Quiet
<1>6. CASE Restart
  BY <1>6 DEF Restart, Silence
<1> QED
  BY <1>1, <1>2, <1>3, <1>4, <1>5, <1>6, StepOutcome

LEMMA NextInv == IInv /\ [Next]_vars => IInv'
  BY NextType, NextShape, NextTokens, NextRefcount, NextCaptured, NextDelivered DEF IInv

LEMMA Inductive == Spec => []IInv
  BY InitInv, NextInv, PTL DEF Spec

\* No interleaving of requests, uploads and restarts makes the fields of a
\* session disagree: no handler before the hush check, a receive exactly while
\* the handler waits in exec_recv, and under the session's own token.
THEOREM ShapeSafe == Spec => []SessionShape
<1>1. IInv => SessionShape
  BY DEF IInv
<1> QED
  BY <1>1, Inductive, PTL

\* A continuation token never belongs to two sessions.
THEOREM TokensSafe == Spec => []TokensExclusive
<1>1. IInv => TokensExclusive
  BY DEF IInv
<1> QED
  BY <1>1, Inductive, PTL

\* Shared downloads are held by the live sessions that acquired them, exactly.
THEOREM RefcountSafe == Spec => []RefcountExact
<1>1. IInv => RefcountExact
  BY DEF IInv
<1> QED
  BY <1>1, Inductive, PTL

\* The bytes that wait for a handler were always captured from its own client,
\* under the token that the handler awaits.
THEOREM CaptureSafe == Spec => []CapturedBodyIsOwn
<1>1. IInv => CapturedBodyIsOwn
  BY DEF IInv
<1> QED
  BY <1>1, Inductive, PTL

\* What exec_recv returns was uploaded by that client under that token.
THEOREM DeliverySafe == Spec => []DeliveredBodyIsOwn
<1>1. IInv => DeliveredBodyIsOwn
  BY DEF IInv
<1> QED
  BY <1>1, Inductive, PTL

-------------------------------------------------------------------------------
(* What a step may never do.                                                *)

\* A hook changes no session but that of its client.
LEMMA OthersStay == ASSUME TypeOK, NEW c \in Clients, RRQ(c) PROVE Others(c)
<1>1. ASSUME NEW preset \in BOOLEAN, StartSession(c, preset) PROVE Others(c)
  BY <1>1, SaveEffect DEF StartSession, Others
<1>2. ASSUME NEW t, RefuseRRQ(c, t) PROVE Others(c)
  BY <1>2 DEF RefuseRRQ, Others
<1>3. ASSUME NEW value \in HushValues, NEW status \in RecvStatus, ResumeSession(c, value, status)
      PROVE  Others(c)
  <2>1. CASE Advance(c, value, status) BY <2>1, AdvanceOutcome
  <2>2. CASE PreflightFails(c, value) \/ ReceiveFails(c, status)
    BY <2>2, DiscardEffect DEF PreflightFails, ReceiveFails, Others
  <2>3. CASE HandlerNotCreated(c, value) BY <2>3, SaveEffect DEF HandlerNotCreated, Others
  <2>4. CASE NoHandler(c) \/ DeadHandler(c) BY <2>4 DEF NoHandler, DeadHandler, Others
  <2> QED BY <1>3, <2>1, <2>2, <2>3, <2>4 DEF ResumeSession
<1> QED BY <1>1, <1>2, <1>3 DEF RRQ

\* No RRQ brings bytes to a receive.
LEMMA RRQBringsNothing ==
  ASSUME TypeOK, NEW c \in Clients, RRQ(c), NEW d \in Clients, sessions'[d] # None
  PROVE  \/ sessions'[d].pending = None
         \/ sessions'[d].pending.uploaded = None
         \/ sessions[d] # None /\ sessions'[d].pending = sessions[d].pending
<1>1. CASE d # c BY <1>1, OthersStay DEF Others
<1>2. ASSUME d = c, NEW preset \in BOOLEAN, StartSession(c, preset)
      PROVE  sessions'[d].pending = None
  BY <1>2, SaveEffect DEF StartSession, FreshSession
<1>3. ASSUME d = c, NEW t, RefuseRRQ(c, t) PROVE sessions' = sessions
  BY <1>3 DEF RefuseRRQ
<1>4. ASSUME d = c, NEW value \in HushValues, NEW status \in RecvStatus,
             ResumeSession(c, value, status)
      PROVE  \/ sessions'[d].pending = None
             \/ sessions'[d].pending.uploaded = None
             \/ sessions[d] # None /\ sessions'[d].pending = sessions[d].pending
  <2>1. CASE Advance(c, value, status)
    <3>1. PICK ks \in SUBSET Artifacts : Kept(c, value, ks) \/ Ended(c, ks)
      BY <2>1, AdvanceOutcome
    <3> QED BY <3>1, <1>4 DEF Kept, Ended, Instructed, Broken
  <2>2. CASE PreflightFails(c, value) \/ ReceiveFails(c, status)
    BY <2>2, <1>4, DiscardEffect DEF PreflightFails, ReceiveFails
  <2>3. CASE HandlerNotCreated(c, value)
    <3>1. c \in Live /\ sessions'[c] = Entered(c, value) BY <2>3, SaveEffect DEF HandlerNotCreated
    <3>2. sessions'[c].pending = sessions[c].pending BY <3>1, EnteredFields
    <3> QED BY <3>1, <3>2, <1>4, LiveSession
  <2>4. CASE NoHandler(c) \/ DeadHandler(c) BY <2>4, <1>4 DEF NoHandler, DeadHandler
  <2> QED BY <1>4, <2>1, <2>2, <2>3, <2>4 DEF ResumeSession
<1> QED BY <1>1, <1>2, <1>3, <1>4 DEF RRQ

\* Bytes come to a receive only when an upload ends that was opened under its token.
LEMMA LateUploadStep ==
  ASSUME TypeOK, [Next]_vars, NEW c \in Clients,
         sessions'[c] # None, sessions'[c].pending # None,
         sessions'[c].pending.uploaded # None,
         sessions[c] = None \/ sessions'[c].pending # sessions[c].pending
  PROVE  \E p \in Peers :
           /\ writers[p] = [client |-> c, token |-> sessions'[c].pending.token]
           /\ writers'[p] = None
<1>1. ASSUME NEW d \in Clients, RRQ(d) PROVE FALSE BY <1>1, RRQBringsNothing
<1>2. ASSUME NEW p \in Peers, NEW body \in Bodies, CloseUpload(p, body)
      PROVE  /\ writers[p] = [client |-> c, token |-> sessions'[c].pending.token]
             /\ writers'[p] = None
  <2> PICK d : d = writers[p].client OBVIOUS
  <2> PICK t : t = writers[p].token OBVIOUS
  <2>1. Expects(d, t) /\ Save(d, [sessions[d] EXCEPT !.pending.uploaded = body])
    BY <1>2 DEF CloseUpload
  <2>2. d \in Clients /\ sessions[d] \in ClientSession /\ d \in Live
    BY <2>1, LiveSession DEF Expects
  <2>3. c = d BY <2>1, <2>2, SaveEffect
  <2>4. sessions[c].pending \in PendingReceive /\ sessions[c].pending.token = t
    BY <2>1, <2>2, <2>3 DEF Expects, ClientSession
  <2>5. sessions'[c].pending.token = t
    BY <2>1, <2>2, <2>3, <2>4, SaveEffect DEF ClientSession, PendingReceive
  <2>6. writers[p] \in Writer BY <1>2 DEF CloseUpload, TypeOK
  <2>7. writers[p] = [client |-> d, token |-> t] BY <2>6 DEF Writer
  <2>8. writers'[p] = None BY <1>2 DEF CloseUpload, Close, TypeOK
  <2> QED BY <2>3, <2>5, <2>7, <2>8
<1>3. ASSUME NEW p \in Peers, CloseStale(p) PROVE FALSE BY <1>3 DEF CloseStale
<1>4. ASSUME NEW p \in Peers, NEW d, NEW t, OpenUpload(p, d, t) PROVE FALSE
  BY <1>4 DEF OpenUpload
<1>5. CASE Restart BY <1>5 DEF Restart
<1>6. CASE UNCHANGED vars BY <1>6 DEF vars
<1> QED BY <1>1, <1>2, <1>3, <1>4, <1>5, <1>6 DEF Next, WRQ

\* A late upload, from before the session moved on or was replaced, changes no session
\* (record).
THEOREM LateIsInert == Spec => LateUploadIsInert
<1>1. IInv /\ [Next]_vars =>
        [\A c \in Clients :
           (/\ sessions'[c] # None
            /\ sessions'[c].pending # None
            /\ sessions'[c].pending.uploaded # None
            /\ sessions[c] = None \/ sessions'[c].pending # sessions[c].pending)
           => \E p \in Peers :
                /\ writers[p] = [client |-> c, token |-> sessions'[c].pending.token]
                /\ writers'[p] = None]_vars
  BY LateUploadStep DEF IInv
<1> QED BY <1>1, Inductive, PTL DEF Spec, LateUploadIsInert

\* A session whose handler has died gives no script, and takes no bytes.
LEMMA DeadStep ==
  ASSUME TypeOK, SessionShape, [Next]_vars, NEW c \in Dead
  PROVE  \/ sessions'[c] = sessions[c] /\ (out' = out \/ out'.client # c \/ out'.result # "script")
         \/ c \notin Live'
         \/ sessions'[c].preflight
<1>0. /\ c \in Live /\ c \in Clients /\ sessions[c].handler = "dead"
      /\ ~sessions[c].preflight /\ sessions[c].pending = None
  BY LiveSession DEF Dead, SessionShape
<1>1. ASSUME NEW d \in Clients, RRQ(d), d # c
      PROVE  sessions'[c] = sessions[c] /\ out'.client # c
  <2>1. sessions'[c] = sessions[c] BY <1>0, <1>1, OthersStay DEF Others
  <2>2. out'.client = d
    <3>1. ASSUME NEW value \in HushValues, NEW status \in RecvStatus, Advance(d, value, status)
          PROVE  out'.client = d
      BY <3>1, AdvanceOutcome
    <3> QED BY <1>1, <3>1 DEF RRQ, StartSession, RefuseRRQ, ResumeSession, PreflightFails,
                              HandlerNotCreated, NoHandler, DeadHandler, ReceiveFails, Answer
  <2> QED BY <2>1, <2>2, <1>1
<1>2. ASSUME NEW preset \in BOOLEAN, StartSession(c, preset) PROVE sessions'[c].preflight
  BY <1>0, <1>2, SaveEffect DEF StartSession, FreshSession
<1>3. ASSUME NEW t, RefuseRRQ(c, t) PROVE sessions'[c] = sessions[c] /\ out'.result # "script"
  BY <1>3 DEF RefuseRRQ, Answer
<1>4. ASSUME NEW value, NEW status, ResumeSession(c, value, status)
      PROVE  sessions'[c] = sessions[c] /\ out'.result # "script"
  <2>1. DeadHandler(c)
    BY <1>0, <1>4 DEF ResumeSession, PreflightFails, HandlerNotCreated, NoHandler, ReceiveFails,
                      Advance, ExecStep, RecvStep, FinalStep, HandlerReturns, HandlerRaises,
                      StrayAwait, Resumable
  <2> QED BY <2>1 DEF DeadHandler, Answer
<1>5. ASSUME NEW p \in Peers, WRQ(p) PROVE sessions'[c] = sessions[c] /\ out' = out
  <2>1. ASSUME NEW body \in Bodies, CloseUpload(p, body)
        PROVE  sessions'[c] = sessions[c] /\ out' = out
    <3>1. Expects(writers[p].client, writers[p].token) BY <2>1 DEF CloseUpload
    <3>2. writers[p].client \in Clients /\ writers[p].client # c
      BY <3>1, <1>0 DEF Expects, Live
    <3> QED BY <2>1, <3>2, <1>0, SaveEffect DEF CloseUpload
  <2> QED BY <1>5, <2>1 DEF WRQ, OpenUpload, CloseStale
<1>6. CASE Restart BY <1>0, <1>6 DEF Restart, Live
<1>7. CASE UNCHANGED vars BY <1>7 DEF vars
<1>8. ASSUME RRQ(c)
      PROVE  \/ sessions'[c] = sessions[c] /\ out'.result # "script"
             \/ sessions'[c].preflight
  BY <1>2, <1>3, <1>4, <1>8 DEF RRQ
<1> QED BY <1>1, <1>5, <1>6, <1>7, <1>8 DEF Next

\* A handler that ended by an exception is not run again until its client starts anew
\* (_advance_session).
THEOREM DeadIsSilent == Spec => DeadStaysSilent
<1>1. IInv /\ [Next]_vars =>
        [\A c \in Dead :
           \/ sessions'[c] = sessions[c] /\ (out' = out \/ out'.client # c \/ out'.result # "script")
           \/ c \notin Live'
           \/ sessions'[c].preflight]_vars
  BY DeadStep DEF IInv
<1> QED BY <1>1, Inductive, PTL DEF Spec, DeadStaysSilent

-------------------------------------------------------------------------------
(* The token contract.                                                      *)

\* The tokens handed out stay within the bound of the model.
Bounded == issued <= MaxToken

LEMMA NextBounded == TypeOK /\ Bounded /\ [Next]_vars => Bounded'
<1> SUFFICES ASSUME TypeOK, Bounded, [Next]_vars PROVE Bounded'
  OBVIOUS
<1>1. issued < MaxToken => NewToken <= MaxToken
  BY MaxTokenIsNat DEF TypeOK, NewToken
<1>2. ASSUME NEW c \in Clients, NEW value \in HushValues, NEW status \in RecvStatus,
             ResumeSession(c, value, status)
      PROVE  issued' = issued \/ (issued < MaxToken /\ issued' = NewToken)
  <2>1. CASE Advance(c, value, status)
    BY <2>1 DEF Advance, ExecStep, RecvStep, FinalStep, HandlerReturns, HandlerRaises,
       StrayAwait
  <2> QED
    BY <1>2, <2>1 DEF ResumeSession, PreflightFails, HandlerNotCreated, NoHandler,
       DeadHandler, ReceiveFails
<1>3. issued' = issued \/ (issued < MaxToken /\ issued' = NewToken)
  BY <1>2 DEF Next, vars, RRQ, WRQ, StartSession, RefuseRRQ, OpenUpload, CloseUpload,
     CloseStale, Restart
<1> QED
  BY <1>1, <1>3 DEF Bounded

\* The token of a session is neither NoToken nor beyond the last one drawn.
LEMMA CurrentToken ==
  ASSUME TypeOK, TokensExclusive, NEW c \in Clients
  PROVE  /\ Current[c] \in 0 .. issued
         /\ (Current[c] = NoToken) <=> (c \notin Live)
         /\ c \in Live => Current[c] = sessions[c].token
  BY LiveSession DEF Current, Live, TokensExclusive, TypeOK, ClientSession, Tokens, NoToken

\* A new token for c: the earlier one, if any, is spent.
LEMMA RotateMaps ==
  ASSUME IInv, NEW c \in Clients, Others(c), issued' = NewToken,
         sessions'[c] # None, sessions'[c].token = NewToken
  PROVE  /\ Contract!Unused(NewToken)
         /\ Current' = [Current EXCEPT ![c] = NewToken]
         /\ Contract!Spend(c)
  <1>n. issued \in Nat /\ NewToken = issued + 1
    BY DEF IInv, TypeOK, NewToken
  <1>cur. \A d \in Clients : Current[d] \in 0 .. issued
    BY CurrentToken DEF IInv
  <1>1. Contract!Unused(NewToken)
    BY <1>n, <1>cur DEF Contract!Unused, Spent
  <1>2. Current' = [Current EXCEPT ![c] = NewToken]
    BY DEF Current, Others
  <1>vals. Current'[c] = NewToken /\ \A d \in Clients \ {c} : Current'[d] = Current[d]
    BY DEF Current, Others
  <1>excl. \A d \in Clients \ {c} : Current[d] = NoToken \/ Current[d] # Current[c]
    BY CurrentToken DEF IInv, TokensExclusive
  <1>3. Spent' = Spent \cup ({Current[c]} \ {NoToken})
    <2>1. ASSUME NEW t \in Spent'
          PROVE  t \in Spent \cup ({Current[c]} \ {NoToken})
      <3>1. t \in 1 .. NewToken /\ \A d \in Clients : Current'[d] # t
        BY DEF Spent
      <3>2. t # NewToken /\ \A d \in Clients \ {c} : Current[d] # t
        BY <3>1, <1>vals
      <3> QED
        BY <3>1, <3>2, <1>n DEF Spent, NoToken
    <2>2. ASSUME NEW t \in Spent \cup ({Current[c]} \ {NoToken})
          PROVE  t \in Spent'
      <3>1. t \in 1 .. issued /\ \A d \in Clients \ {c} : Current[d] # t
        BY <1>cur, <1>excl, <1>n DEF Spent, NoToken
      <3>2. \A d \in Clients : Current'[d] # t
        BY <3>1, <1>vals, <1>n
      <3> QED
        BY <3>1, <3>2, <1>n DEF Spent
    <2> QED
      BY <2>1, <2>2
  <1> QED
    BY <1>1, <1>2, <1>3 DEF Contract!Spend

\* The end of c's session: its token is spent.
LEMMA EndMaps ==
  ASSUME IInv, NEW c \in Clients, Others(c), issued' = issued, sessions'[c] = None
  PROVE  /\ Current' = [Current EXCEPT ![c] = NoToken]
         /\ Contract!Spend(c)
  <1>n. issued \in Nat
    BY DEF IInv, TypeOK
  <1>cur. \A d \in Clients : Current[d] \in 0 .. issued
    BY CurrentToken DEF IInv
  <1>1. Current' = [Current EXCEPT ![c] = NoToken]
    BY DEF Current, Others
  <1>vals. Current'[c] = NoToken /\ \A d \in Clients \ {c} : Current'[d] = Current[d]
    BY DEF Current, Others
  <1>excl. \A d \in Clients \ {c} : Current[d] = NoToken \/ Current[d] # Current[c]
    BY CurrentToken DEF IInv, TokensExclusive
  <1>2. Spent' = Spent \cup ({Current[c]} \ {NoToken})
    <2>1. ASSUME NEW t \in Spent'
          PROVE  t \in Spent \cup ({Current[c]} \ {NoToken})
      <3>1. t \in 1 .. issued /\ \A d \in Clients \ {c} : Current[d] # t
        BY <1>vals DEF Spent
      <3> QED
        BY <3>1, <1>n DEF Spent, NoToken
    <2>2. ASSUME NEW t \in Spent \cup ({Current[c]} \ {NoToken})
          PROVE  t \in Spent'
      <3>1. t \in 1 .. issued /\ \A d \in Clients \ {c} : Current[d] # t
        BY <1>cur, <1>excl, <1>n DEF Spent, NoToken
      <3>2. \A d \in Clients : Current'[d] # t
        BY <3>1, <1>vals, <1>n DEF NoToken
      <3> QED
        BY <3>1, <3>2 DEF Spent
    <2> QED
      BY <2>1, <2>2
  <1> QED
    BY <1>1, <1>2 DEF Contract!Spend

\* A step that changes neither sessions nor tokens drawn.
LEMMA KeepMaps ==
  ASSUME IInv, NEW c \in Clients, Others(c), issued' = issued, c \in Live,
         sessions'[c] # None, sessions'[c].token = sessions[c].token
  PROVE  Current' = Current /\ Spent' = Spent
  <1>1. Current' = Current
    BY DEF Current, Others, Live
  <1> QED
    BY <1>1 DEF Spent

LEMMA RestartMaps ==
  ASSUME IInv, Restart
  PROVE  /\ Current' = [c \in Clients |-> NoToken]
         /\ Spent' = Spent \cup ({Current[c] : c \in Clients} \ {NoToken})
  <1>1. Current' = [c \in Clients |-> NoToken]
    BY DEF Restart, Current
  <1>cur. \A d \in Clients : Current[d] \in 0 .. issued
    BY CurrentToken DEF IInv
  <1>n. issued \in Nat
    BY DEF IInv, TypeOK
  <1>2. Spent' = 1 .. issued
    <2>1. issued' = issued /\ \A d \in Clients : Current'[d] = 0
      BY <1>1 DEF Restart, NoToken
    <2> QED
      BY <2>1, <1>n DEF Spent
  <1>3. \A t \in 1 .. issued : t \in Spent \/ \E d \in Clients : Current[d] = t
    BY DEF Spent
  <1>4. Spent \subseteq 1 .. issued
    BY DEF Spent
  <1>5. {Current[c] : c \in Clients} \ {NoToken} \subseteq 1 .. issued
    BY <1>cur, <1>n DEF NoToken
  <1>6. 1 .. issued \subseteq Spent \cup ({Current[c] : c \in Clients} \ {NoToken})
    BY <1>3, <1>n DEF NoToken
  <1> QED
    BY <1>1, <1>2, <1>4, <1>5, <1>6

Tells(scripted, c, t) ==
  /\ (out'.result = "script") = scripted
  /\ out'.client = c
  /\ out'.asked = t

\* The concrete steps behind each step of the contract.
LEMMA StepMaps ==
  ASSUME IInv, IInv', Bounded, Bounded', [Next]_vars
  PROVE  \/ \E c \in Clients : \/ /\ Started(c)
                                  /\ Tells(TRUE, c, NoToken)
                               \/ /\ c \in Live /\ Others(c) /\ sessions'[c] # None
                                  /\ Instructed(c)
                                  /\ Tells(TRUE, c, sessions[c].token)
                               \/ /\ c \in Live /\ Others(c) /\ sessions'[c] = None
                                  /\ issued' = issued
                                  /\ Tells(FALSE, c, sessions[c].token)
                               \/ /\ c \in Live /\ Others(c) /\ sessions'[c] # None
                                  /\ sessions'[c].token = sessions[c].token
                                  /\ issued' = issued
                                  /\ \/ out' = out
                                     \/ Tells(FALSE, c, sessions[c].token)
         \/ /\ UNCHANGED <<sessions, issued>>
            /\ \/ out' = out
               \/ \E c \in Clients, t \in 0 .. issued : Tells(FALSE, c, t)
         \/ Restart
  <1>n. issued \in Nat /\ \A d \in Live : sessions[d].token \in 0 .. issued
    BY LiveSession DEF IInv, TypeOK, TokensExclusive, ClientSession, Tokens
  <1>ans. \A result, c, t, v : Answer(result, c, t, v) =>
            /\ out'.result = result /\ out'.client = c /\ out'.asked = t
    BY DEF Answer
  <1>type. TypeOK
    BY DEF IInv
  <1>1. ASSUME NEW c \in Clients, NEW preset \in BOOLEAN, StartSession(c, preset)
        PROVE  Started(c) /\ Tells(TRUE, c, NoToken)
    <2> DEFINE r == FreshSession(preset)
    <2>1. r # None
      <3>1. r \in ClientSession
        BY <1>n DEF FreshSession, ClientSession, HandlerStates, NewToken, Tokens
      <3> QED
        BY <3>1, NoneIsNoSession
    <2>2. sessions'[c] = r /\ Others(c)
      BY <1>1, <1>type, SaveEffect DEF StartSession, Others
    <2>3. Started(c)
      BY <1>1, <2>1, <2>2 DEF StartSession, FreshSession, Started, Answer
    <2> QED
      BY <1>1, <1>ans, <2>3 DEF StartSession, Tells
  <1>2. ASSUME NEW c \in Clients, NEW t \in 0 .. issued, RefuseRRQ(c, t)
        PROVE  UNCHANGED <<sessions, issued>> /\ Tells(FALSE, c, t)
    BY <1>2, <1>ans DEF RefuseRRQ, Tells
  <1>3. ASSUME NEW c \in Clients, NoHandler(c) \/ DeadHandler(c)
        PROVE  /\ UNCHANGED <<sessions, issued>>
               /\ Tells(FALSE, c, sessions[c].token) /\ c \in Live
    BY <1>3, <1>ans DEF NoHandler, DeadHandler, Dead, Tells
  \* Whatever discards the session of c.
  <1>4. ASSUME NEW c \in Clients, NEW ks, Discard(c, ks)
        PROVE  Others(c) /\ sessions'[c] = None
    BY <1>4, <1>type, DiscardEffect DEF Others
  <1>5. ASSUME NEW c \in Clients, NEW value \in HushValues, PreflightFails(c, value)
        PROVE  /\ c \in Live /\ Others(c) /\ sessions'[c] = None /\ issued' = issued
               /\ Tells(FALSE, c, sessions[c].token)
    BY <1>5, <1>4, <1>ans DEF PreflightFails, Tells
  <1>6. ASSUME NEW c \in Clients, NEW status \in RecvStatus, ReceiveFails(c, status)
        PROVE  /\ c \in Live /\ Others(c) /\ sessions'[c] = None /\ issued' = issued
               /\ Tells(FALSE, c, sessions[c].token)
    BY <1>6, <1>4, <1>ans DEF ReceiveFails, Tells
  <1>7. ASSUME NEW c \in Clients, NEW value \in HushValues, HandlerNotCreated(c, value)
        PROVE  /\ c \in Live /\ Others(c) /\ sessions'[c] # None
               /\ sessions'[c].token = sessions[c].token /\ issued' = issued
               /\ Tells(FALSE, c, sessions[c].token)
    <2>1. c \in Live /\ Save(c, Entered(c, value))
      BY <1>7 DEF HandlerNotCreated
    <2>2. sessions'[c] = Entered(c, value) /\ Others(c)
      BY <2>1, <1>type, SaveEffect DEF Others
    <2>3. Entered(c, value) \in ClientSession /\ Entered(c, value).token = sessions[c].token
      BY <2>1, <1>type, EnteredFields
    <2> QED
      BY <1>7, <1>ans, <2>1, <2>2, <2>3, NoneIsNoSession DEF HandlerNotCreated, Tells
  <1>8. ASSUME NEW c \in Clients, NEW value \in HushValues, NEW status \in RecvStatus,
             Advance(c, value, status)
        PROVE  /\ c \in Live /\ Others(c)
               /\ \/ /\ sessions'[c] # None /\ Instructed(c)
                     /\ Tells(TRUE, c, sessions[c].token)
                  \/ /\ sessions'[c] = None /\ issued' = issued
                     /\ Tells(FALSE, c, sessions[c].token)
                  \/ /\ sessions'[c] # None /\ sessions'[c].token = sessions[c].token
                     /\ issued' = issued
                     /\ Tells(FALSE, c, sessions[c].token)
    <2>1. /\ c \in Live /\ Others(c)
          /\ out'.client = c /\ out'.asked = sessions[c].token
          /\ \/ sessions'[c] # None /\ Instructed(c)
             \/ sessions'[c] # None /\ Broken(c)
             \/ sessions'[c] = None /\ issued' = issued
      BY <1>8, <1>type, AdvanceOutcome DEF Resumable, Kept, Ended
    <2>2. \/ out'.result = "script" /\ issued' = NewToken
          \/ out'.result # "script" /\ issued' = issued
      BY <1>8, <1>ans DEF Advance, ExecStep, RecvStep, FinalStep, HandlerReturns,
         HandlerRaises, StrayAwait
    <2>3. NewToken # issued
      BY <1>n DEF NewToken
    <2> QED
      BY <2>1, <2>2, <2>3 DEF Instructed, Broken, Tells
  <1>9. ASSUME NEW p \in Peers, NEW body \in Bodies, CloseUpload(p, body)
        PROVE  \E c \in Clients : /\ c \in Live /\ Others(c) /\ sessions'[c] # None
                                  /\ sessions'[c].token = sessions[c].token
                                  /\ issued' = issued /\ out' = out
    <2> DEFINE c == writers[p].client
               r == [sessions[c] EXCEPT !.pending.uploaded = body]
    <2>1. c \in Live /\ Save(c, r)
      BY <1>9 DEF CloseUpload, Expects
    <2>2. c \in Clients /\ sessions[c] \in ClientSession
      BY <2>1, <1>type, LiveSession
    <2>3. sessions'[c] = r /\ Others(c)
      BY <2>1, <2>2, <1>type, SaveEffect DEF Others
    <2>4. r.token = sessions[c].token
      BY <2>2 DEF ClientSession
    <2>5. sessions'[c] # None
      <3>1. sessions'[c] \in ClientSession \/ sessions'[c] = None
        BY <2>2 DEF IInv, TypeOK
      <3>2. sessions[c].pending \in PendingReceive
        BY <1>9, <2>2 DEF CloseUpload, Expects, ClientSession
      <3>3. r \in ClientSession
        BY <2>2, <3>2 DEF ClientSession, PendingReceive
      <3> QED
        BY <2>3, <3>3, NoneIsNoSession
    <2> QED
      BY <1>9, <2>1, <2>2, <2>3, <2>4, <2>5 DEF CloseUpload
  <1>10. ASSUME NEW p \in Peers, NEW c \in Clients, NEW t \in 1 .. issued,
                OpenUpload(p, c, t) \/ CloseStale(p)
         PROVE  UNCHANGED <<sessions, issued, out>>
    BY <1>10 DEF OpenUpload, CloseStale
  <1>11. ASSUME NEW p \in Peers, CloseStale(p)
         PROVE  UNCHANGED <<sessions, issued, out>>
    BY <1>11 DEF CloseStale
  <1>12. CASE UNCHANGED vars
    BY <1>12 DEF vars
  <1>13. CASE \E c \in Clients : RRQ(c)
    BY <1>13, <1>1, <1>2, <1>3, <1>5, <1>6, <1>7, <1>8, <1>n DEF RRQ, ResumeSession
  <1>14. CASE \E p \in Peers : WRQ(p)
    <2>1. CASE \E p \in Peers, c \in Clients, t \in 1 .. issued : OpenUpload(p, c, t)
      BY <2>1, <1>10
    <2>2. CASE \E p \in Peers, body \in Bodies : CloseUpload(p, body)
      BY <2>2, <1>9
    <2>3. CASE \E p \in Peers : CloseStale(p)
      BY <2>3, <1>11
    <2> QED
      BY <1>14, <2>1, <2>2, <2>3 DEF WRQ
  <1> QED
    BY <1>12, <1>13, <1>14 DEF Next

LEMMA InitMaps == Init => Contract!Init
<1> SUFFICES ASSUME Init PROVE Contract!Init
  OBVIOUS
<1>1. Current = [c \in Clients |-> NoToken]
  BY DEF Init, Current
<1>2. Spent = {}
  BY DEF Init, Spent
<1> QED
  BY <1>1, <1>2 DEF Init, Contract!Init, Silence

LEMMA StepImplements ==
  ASSUME IInv, IInv', Bounded, Bounded', [Next]_vars
  PROVE  [Contract!Next]_(Contract!vars)
  <1>n. /\ issued \in Nat /\ issued <= MaxToken /\ MaxToken \in Nat
        /\ NewToken = issued + 1
    BY MaxTokenIsNat DEF IInv, TypeOK, Bounded, NewToken
  <1>tell. ASSUME NEW scripted \in BOOLEAN, NEW c, NEW t, Tells(scripted, c, t)
           PROVE  Contract!Tell(scripted, c, t)
    BY <1>tell DEF Tells, Contract!Tell
  <1>cur. \A c \in Live : c \in Clients /\ Current[c] = sessions[c].token
                          /\ Current[c] # NoToken /\ Current[c] \in 0 .. issued
    BY CurrentToken DEF IInv, Live
  <1>1. ASSUME NEW c \in Clients, Started(c), Tells(TRUE, c, NoToken)
        PROVE  Contract!Begin(c)
    <2>1. /\ Contract!Unused(NewToken) /\ Contract!Spend(c)
          /\ Current' = [Current EXCEPT ![c] = NewToken]
      BY <1>1, RotateMaps DEF Started
    <2>2. NewToken \in 1 .. MaxToken
      BY <1>1, <1>n DEF Started, Bounded
    <2> QED
      BY <1>1, <1>tell, <2>1, <2>2 DEF Contract!Begin
  <1>2. ASSUME NEW c \in Clients, c \in Live, Others(c), sessions'[c] # None,
               Instructed(c), Tells(TRUE, c, sessions[c].token)
        PROVE  Contract!Continue(c)
    <2>1. /\ Contract!Unused(NewToken) /\ Contract!Spend(c)
          /\ Current' = [Current EXCEPT ![c] = NewToken]
      BY <1>2, RotateMaps DEF Instructed
    <2>2. NewToken \in 1 .. MaxToken
      BY <1>2, <1>n DEF Instructed, Bounded
    <2>3. Contract!Tell(TRUE, c, Current[c]) /\ Current[c] # NoToken
      BY <1>2, <1>tell, <1>cur
    <2> QED
      BY <2>1, <2>2, <2>3 DEF Contract!Continue
  <1>3. ASSUME NEW c \in Clients, c \in Live, Others(c), sessions'[c] = None,
               issued' = issued, Tells(FALSE, c, sessions[c].token)
        PROVE  Contract!End(c)
    <2>1. Contract!Spend(c) /\ Current' = [Current EXCEPT ![c] = NoToken]
      BY <1>3, EndMaps
    <2>2. Contract!Tell(FALSE, c, Current[c]) /\ Current[c] # NoToken
      BY <1>3, <1>tell, <1>cur
    <2> QED
      BY <2>1, <2>2 DEF Contract!End
  <1>refuse. ASSUME NEW c \in Clients, NEW t \in 0 .. issued, Tells(FALSE, c, t),
                    Current' = Current, Spent' = Spent
             PROVE  Contract!Next
    <2>1. Contract!Refuse(c, t)
      BY <1>refuse, <1>tell DEF Contract!Refuse
    <2>2. t \in (1 .. MaxToken) \cup {NoToken}
      BY <1>n DEF NoToken
    <2> QED
      BY <2>1, <2>2 DEF Contract!Next
  <1>stutter. ASSUME out' = out, Current' = Current, Spent' = Spent
              PROVE  UNCHANGED Contract!vars
    BY <1>stutter DEF Contract!vars
  <1>4. ASSUME NEW c \in Clients, c \in Live, Others(c), sessions'[c] # None,
               sessions'[c].token = sessions[c].token, issued' = issued,
               out' = out \/ Tells(FALSE, c, sessions[c].token)
        PROVE  Contract!Next \/ UNCHANGED Contract!vars
    <2>1. Current' = Current /\ Spent' = Spent
      BY <1>4, KeepMaps
    <2>2. sessions[c].token \in 0 .. issued
      BY <1>4, <1>cur
    <2> QED
      BY <1>4, <2>1, <2>2, <1>refuse, <1>stutter
  <1>5. ASSUME UNCHANGED <<sessions, issued>>,
               out' = out \/ \E c \in Clients, t \in 0 .. issued : Tells(FALSE, c, t)
        PROVE  Contract!Next \/ UNCHANGED Contract!vars
    <2>1. Current' = Current /\ Spent' = Spent
      BY <1>5 DEF Current, Spent
    <2> QED
      BY <1>5, <2>1, <1>refuse, <1>stutter
  <1>6. ASSUME Restart
        PROVE  Contract!Crash
    <2>1. /\ Current' = [c \in Clients |-> NoToken]
          /\ Spent' = Spent \cup ({Current[c] : c \in Clients} \ {NoToken})
      BY <1>6, RestartMaps
    <2>2. out' = Silence
      BY <1>6 DEF Restart
    <2> QED
      BY <2>1, <2>2 DEF Contract!Crash, Silence
  <1> QED
    BY <1>1, <1>2, <1>3, <1>4, <1>5, <1>6, StepMaps DEF Contract!Next

\* The scripted provider implements the token contract: whatever is delivered,
\* repeated or lost, a token is answered by at most one script, for the client
\* that it was given to, and is never accepted again.
THEOREM ContractImplemented == Spec => ContractSpec
<1>1. Init => IInv /\ Bounded
  BY InitInv, MaxTokenIsNat DEF Init, Bounded
<1>2. IInv /\ Bounded /\ [Next]_vars => IInv' /\ Bounded'
  BY NextInv, NextBounded DEF IInv
<1>3. Spec => [](IInv /\ Bounded)
  BY <1>1, <1>2, PTL DEF Spec
<1>4. IInv /\ IInv' /\ Bounded /\ Bounded' /\ [Next]_vars
        => [Contract!Next]_(Contract!vars)
  BY StepImplements
<1> QED
  BY InitMaps, <1>3, <1>4, PTL DEF Spec, ContractSpec, Contract!Spec

===============================================================================
