--------------------------- MODULE ScriptedSessions ---------------------------
(***************************************************************************)
(* The session core of the TFTP server: the session store, the scripted     *)
(* session provider with the user's coroutine, the capture of session       *)
(* uploads, and the attachment of shared downloads to sessions.             *)
(*                                                                          *)
(* The server is one thread that runs one hook at a time, so every hook     *)
(* (an RRQ opened, a WRQ opened, an upload closed) is one action.  What the *)
(* network does between two hooks is the interleaving of these actions: any *)
(* request, old or new, may arrive at any time.                             *)
(*                                                                          *)
(* The user's handler is any coroutine: resumed, it awaits another          *)
(* instruction, returns, or raises.                                         *)
(***************************************************************************)
EXTENDS Naturals

CONSTANTS
  Clients,    \* normalised client identifiers
  Artifacts,  \* keys of shared downloads
  Peers,      \* transfer contexts a WRQ can occupy
  Bodies,     \* contents an upload can end up with
  None,       \* Python's None
  MaxToken    \* bound: how many continuation tokens are handed out

ASSUME NoneIsNoBody == None \notin Bodies
ASSUME MaxTokenIsNat == MaxToken \in Nat

VARIABLES
  sessions,   \* InMemorySessionStore._sessions
  issued,     \* the last token drawn: tokens are 1, 2, ... and never repeat
  attached,   \* attached_sessions of each download entry
  writers,    \* the session upload each transfer context has open
  uploads,    \* InMemoryUploadStore.uploads
  out         \* how the last RRQ hook ended

vars == <<sessions, issued, attached, writers, uploads, out>>

-------------------------------------------------------------------------------
Tokens == Nat \ {0}
NoToken == 0

PendingReceive == [token : Tokens, uploaded : Bodies \cup {None}]

\* Where the handler is: not created, suspended in exec or in exec_recv,
\* suspended in a foreign awaitable, or ended by an exception.
HandlerStates == {"none", "exec", "recv", "stray", "dead"}

\* phase "complete" is only ever given to a session that is then discarded.
ClientSession ==
  [phase     : {"await_rrq", "await_upload"},
   token     : Tokens,
   preflight : BOOLEAN,
   hush      : BOOLEAN,
   handler   : HandlerStates,
   pending   : PendingReceive \cup {None},
   artifacts : SUBSET Artifacts]

ASSUME NoneIsNoSession == None \notin ClientSession
ASSUME NoneIsNoReceive == None \notin PendingReceive

Writer == [client : Clients, token : Nat]

ASSUME NoneIsNoWriter == None \notin Writer

\* A hook returns a script, or nothing because of FileNotFoundError (a miss),
\* or lets another exception escape.  sent is what the handler was resumed with.
Results == {"none", "script", "failure", "final", "miss", "raise"}
Reply == [result : Results, client : Clients \cup {None}, asked : Nat,
          sent : Bodies \cup {None}]

Silence == [result |-> "none", client |-> None, asked |-> NoToken, sent |-> None]

Live == {c \in Clients : sessions[c] # None}
Dead == {c \in Live : sessions[c].handler = "dead"}

\* MUTANT: one token per process instead of one per instruction.
NewTokenOnce == IF issued = 0 THEN 1 ELSE issued
NewToken == issued + 1

Answer(result, c, t, value) ==
  out' = [result |-> result, client |-> c, asked |-> t, sent |-> value]

-------------------------------------------------------------------------------
(* The session store and the attachments.                                  *)

Save(c, session) == sessions' = [sessions EXCEPT ![c] = session]

\* acquire_download: the entry gains the session, the session the artifact.
Attach(c, ks) ==
  attached' = [k \in Artifacts |-> IF k \in ks THEN attached[k] \cup {c}
                                               ELSE attached[k]]

\* The artifacts that a discarded session releases.
Release(c, ks) ==
  attached' = [k \in Artifacts |-> IF k \in ks THEN attached[k] \ {c}
                                               ELSE attached[k]]

\* MUTANT: a discarded session forgets to release its downloads.
DiscardUnreleased(c, ks) == /\ sessions' = [sessions EXCEPT ![c] = None]
                            /\ UNCHANGED attached

Discard(c, ks) == /\ sessions' = [sessions EXCEPT ![c] = None]
                  /\ Release(c, ks)

FreshSession(preset) ==
  [phase |-> "await_rrq", token |-> NewToken, preflight |-> TRUE,
   hush |-> preset, handler |-> "none", pending |-> None, artifacts |-> {}]

-------------------------------------------------------------------------------
(* RRQs.                                                                    *)

\* An RRQ without a token.  preset: the configuration or the request already
\* sets hush_shell=true.
StartSession(c, preset) ==
  /\ issued < MaxToken
  /\ Save(c, FreshSession(preset))
  /\ Release(c, IF c \in Live THEN sessions[c].artifacts ELSE {})
  /\ issued' = NewToken
  /\ Answer("script", c, NoToken, None)
  /\ UNCHANGED <<writers, uploads>>

\* MUTANT: any token continues the session.
HoldsAny(c, t) == c \in Live

Holds(c, t) == c \in Live /\ sessions[c].token = t

\* A continuation for a session or a token that is not there.
RefuseRRQ(c, t) ==
  /\ ~Holds(c, t)
  /\ Answer("miss", c, t, None)
  /\ UNCHANGED <<sessions, issued, attached, writers, uploads>>

\* The hush_shell value a continuation brings, merged into the session's env.
HushValues == {"absent", "true", "other"}
Merged(c, value) == IF value = "absent" THEN sessions[c].hush ELSE value = "true"

PreflightFails(c, value) ==
  /\ c \in Live
  /\ sessions[c].preflight
  /\ ~Merged(c, value)
  /\ Discard(c, sessions[c].artifacts)
  /\ Answer("failure", c, sessions[c].token, None)
  /\ UNCHANGED <<issued, writers, uploads>>

\* The session once preflight is decided: env is read for it only this once.
Entered(c, value) ==
  [sessions[c] EXCEPT !.preflight = FALSE,
                      !.hush = IF sessions[c].preflight THEN Merged(c, value) ELSE @]

\* entry_func is missing or does not return a coroutine.
HandlerNotCreated(c, value) ==
  /\ c \in Live
  /\ sessions[c].preflight
  /\ Merged(c, value)
  /\ Save(c, Entered(c, value))
  /\ Answer("raise", c, sessions[c].token, None)
  /\ UNCHANGED <<issued, attached, writers, uploads>>

NoHandler(c) ==
  /\ c \in Live
  /\ ~sessions[c].preflight
  /\ sessions[c].handler = "none"
  /\ Answer("miss", c, sessions[c].token, None)
  /\ UNCHANGED <<sessions, issued, attached, writers, uploads>>

\* Sending to a coroutine that has already ended: RuntimeError.
DeadHandler(c) ==
  /\ c \in Dead
  /\ Answer("raise", c, sessions[c].token, None)
  /\ UNCHANGED <<sessions, issued, attached, writers, uploads>>

\* MUTANT: a handler that ended by an exception is created anew.
ResumableAgain(c, value) ==
  /\ c \in Live
  /\ IF sessions[c].preflight THEN Merged(c, value) ELSE sessions[c].handler # "none"

\* The continuation reaches a handler that can run: one just created, or
\* one that is suspended.
Resumable(c, value) ==
  /\ c \in Live
  /\ IF sessions[c].preflight THEN Merged(c, value)
                              ELSE sessions[c].handler \in {"exec", "recv", "stray"}

RecvStatus == {"ok", "failed"}

\* MUTANT: the receive itself is sent, not its bytes.
SentReceive(c, status) ==
  IF sessions[c].pending # None /\ status = "ok" THEN sessions[c].pending ELSE None

Sent(c, status) ==
  IF sessions[c].pending # None /\ status = "ok" THEN sessions[c].pending.uploaded
                                                 ELSE None

\* MUTANT: the receive that the continuation answers stays.
AdvancedUncleared(c, value, ks) == [Entered(c, value) EXCEPT !.artifacts = @ \cup ks]

Advanced(c, value, ks) ==
  [Entered(c, value) EXCEPT !.pending = None, !.artifacts = @ \cup ks]

\* MUTANT: an instruction goes out under the token that was just used.
ExecStepSameToken(c, value, status, ks) ==
  /\ Resumable(c, value)
  /\ Save(c, [Advanced(c, value, ks) EXCEPT !.phase = "await_rrq", !.handler = "exec"])
  /\ Attach(c, ks)
  /\ Answer("script", c, sessions[c].token, Sent(c, status))
  /\ UNCHANGED <<issued, writers, uploads>>

\* The handler, having acquired the artifacts ks, awaits tftp.exec(script).
ExecStep(c, value, status, ks) ==
  /\ issued < MaxToken
  /\ Resumable(c, value)
  /\ Save(c, [Advanced(c, value, ks) EXCEPT !.phase = "await_rrq", !.token = NewToken,
                                            !.handler = "exec"])
  /\ Attach(c, ks)
  /\ issued' = NewToken
  /\ Answer("script", c, sessions[c].token, Sent(c, status))
  /\ UNCHANGED <<writers, uploads>>

\* MUTANT: a second receive in a row starts with the bytes of the first.
RecvStepCarrying(c, value, status, ks) ==
  /\ issued < MaxToken
  /\ Resumable(c, value)
  /\ Save(c, [Advanced(c, value, ks) EXCEPT
                !.phase = "await_upload", !.token = NewToken, !.handler = "recv",
                !.pending = [token |-> NewToken,
                             uploaded |-> IF sessions[c].pending = None THEN None
                                          ELSE sessions[c].pending.uploaded]])
  /\ Attach(c, ks)
  /\ issued' = NewToken
  /\ Answer("script", c, sessions[c].token, Sent(c, status))
  /\ UNCHANGED <<writers, uploads>>

\* ... awaits tftp.exec_recv(script, size).
RecvStep(c, value, status, ks) ==
  /\ issued < MaxToken
  /\ Resumable(c, value)
  /\ Save(c, [Advanced(c, value, ks) EXCEPT
                !.phase = "await_upload", !.token = NewToken, !.handler = "recv",
                !.pending = [token |-> NewToken, uploaded |-> None]])
  /\ Attach(c, ks)
  /\ issued' = NewToken
  /\ Answer("script", c, sessions[c].token, Sent(c, status))
  /\ UNCHANGED <<writers, uploads>>

\* MUTANT: the session stays after its last script.
FinalStepKept(c, value, status, ks) ==
  /\ Resumable(c, value)
  /\ Save(c, [Advanced(c, value, ks) EXCEPT !.phase = "await_rrq", !.handler = "exec"])
  /\ Attach(c, ks)
  /\ Answer("final", c, sessions[c].token, Sent(c, status))
  /\ UNCHANGED <<issued, writers, uploads>>

\* ... awaits tftp.exec(script, final=True).
FinalStep(c, value, status, ks) ==
  /\ Resumable(c, value)
  /\ Discard(c, sessions[c].artifacts \cup ks)
  /\ Answer("final", c, sessions[c].token, Sent(c, status))
  /\ UNCHANGED <<issued, writers, uploads>>

\* ... returns.
HandlerReturns(c, value, status, ks) ==
  /\ Resumable(c, value)
  /\ Discard(c, sessions[c].artifacts \cup ks)
  /\ Answer("miss", c, sessions[c].token, Sent(c, status))
  /\ UNCHANGED <<issued, writers, uploads>>

\* exec_recv found no upload and the handler lets ReceiveFailedError through.
ReceiveFails(c, status) ==
  /\ c \in Live
  /\ sessions[c].handler = "recv"
  /\ Sent(c, status) = None
  /\ Discard(c, sessions[c].artifacts)
  /\ Answer("miss", c, sessions[c].token, None)
  /\ UNCHANGED <<issued, writers, uploads>>

\* ... raises anything else; FileNotFoundError is then taken for a miss.
HandlerRaises(c, value, status, ks, result) ==
  /\ Resumable(c, value)
  /\ Save(c, [Advanced(c, value, ks) EXCEPT !.handler = "dead"])
  /\ Attach(c, ks)
  /\ Answer(result, c, sessions[c].token, Sent(c, status))
  /\ UNCHANGED <<issued, writers, uploads>>

\* ... awaits something that is not a tftp helper: TypeError.
StrayAwait(c, value, status, ks) ==
  /\ Resumable(c, value)
  /\ Save(c, [Advanced(c, value, ks) EXCEPT !.handler = "stray"])
  /\ Attach(c, ks)
  /\ Answer("raise", c, sessions[c].token, Sent(c, status))
  /\ UNCHANGED <<issued, writers, uploads>>

-------------------------------------------------------------------------------
(* What the script of an answer makes its device do.                        *)

\* next: the token in the script's commands, NoToken when it has none.
\* receive: it uploads first.  probe: it reports hush_shell.
Script == [next : Nat, receive : BOOLEAN, probe : BOOLEAN]

\* A "failure" and a "final" script.
LastScript == [next |-> NoToken, receive |-> FALSE, probe |-> FALSE]

\* MUTANT: the script of an exec has no continuation appended.
ScriptServedBare(session) ==
  IF session.handler = "exec" THEN LastScript
  ELSE [next |-> session.token, receive |-> session.pending # None,
        probe |-> session.preflight]

\* A "script": the commands that go with the session's new token and pending receive.
ScriptServed(session) ==
  [next |-> session.token, receive |-> session.pending # None,
   probe |-> session.preflight]

-------------------------------------------------------------------------------
(* WRQs.                                                                    *)

\* MUTANT: any receive of the client will do.
ExpectsAny(c, t) == c \in Live /\ sessions[c].pending # None

Expects(c, t) == /\ c \in Live
                 /\ sessions[c].pending # None
                 /\ sessions[c].pending.token = t

OpenUpload(p, c, t) ==
  /\ writers[p] = None
  /\ Expects(c, t)
  /\ writers' = [writers EXCEPT ![p] = [client |-> c, token |-> t]]
  /\ UNCHANGED <<sessions, issued, attached, uploads, out>>

\* The writer is closed when the transfer ends, completed or not.
Close(p) == writers' = [writers EXCEPT ![p] = None]

\* MUTANT: checked when the upload opens, not when it closes.
CloseUploadUnchecked(p, body) ==
  /\ writers[p] # None
  /\ LET c == writers[p].client
         t == writers[p].token
     IN /\ c \in Live /\ sessions[c].pending # None
        /\ Save(c, [sessions[c] EXCEPT !.pending.uploaded = body])
        /\ uploads' = uploads \cup {[client |-> c, token |-> t, body |-> body]}
  /\ Close(p)
  /\ UNCHANGED <<issued, attached, out>>

CloseUpload(p, body) ==
  /\ writers[p] # None
  /\ LET c == writers[p].client
         t == writers[p].token
     IN /\ Expects(c, t)
        /\ Save(c, [sessions[c] EXCEPT !.pending.uploaded = body])
        /\ uploads' = uploads \cup {[client |-> c, token |-> t, body |-> body]}
  /\ Close(p)
  /\ UNCHANGED <<issued, attached, out>>

\* record refuses: the body is lost.
CloseStale(p) ==
  /\ writers[p] # None
  /\ ~Expects(writers[p].client, writers[p].token)
  /\ Close(p)
  /\ UNCHANGED <<sessions, issued, attached, uploads, out>>

\* The process ends and is started again: every store is empty.
Restart ==
  /\ sessions' = [c \in Clients |-> None]
  /\ attached' = [k \in Artifacts |-> {}]
  /\ writers' = [p \in Peers |-> None]
  /\ uploads' = {}
  /\ out' = Silence
  /\ UNCHANGED issued

-------------------------------------------------------------------------------
Init ==
  /\ sessions = [c \in Clients |-> None]
  /\ issued = 0
  /\ attached = [k \in Artifacts |-> {}]
  /\ writers = [p \in Peers |-> None]
  /\ uploads = {}
  /\ out = Silence

\* A continuation that advances the handler, whatever the handler then does.
Advance(c, value, status) ==
  \E ks \in SUBSET Artifacts :
    \/ ExecStep(c, value, status, ks)
    \/ RecvStep(c, value, status, ks)
    \/ FinalStep(c, value, status, ks)
    \/ HandlerReturns(c, value, status, ks)
    \/ \E result \in {"miss", "raise"} : HandlerRaises(c, value, status, ks, result)
    \/ StrayAwait(c, value, status, ks)

\* A continuation that carries the session's token.
ResumeSession(c, value, status) ==
  \/ PreflightFails(c, value)
  \/ HandlerNotCreated(c, value)
  \/ NoHandler(c)
  \/ DeadHandler(c)
  \/ ReceiveFails(c, status)
  \/ Advance(c, value, status)

RRQ(c) ==
  \/ \E preset \in BOOLEAN : StartSession(c, preset)
  \/ \E t \in 0 .. issued : RefuseRRQ(c, t)
  \/ \E value \in HushValues, status \in RecvStatus : ResumeSession(c, value, status)

WRQ(p) ==
  \/ \E c \in Clients, t \in 1 .. issued : OpenUpload(p, c, t)
  \/ \E body \in Bodies : CloseUpload(p, body)
  \/ CloseStale(p)

Next ==
  \/ \E c \in Clients : RRQ(c)
  \/ \E p \in Peers : WRQ(p)
  \/ Restart

Spec == Init /\ [][Next]_vars

-------------------------------------------------------------------------------
(* What must hold.                                                          *)

\* Every store holds values of its type; the server's state is always one
\* that sessions.py and uploads.py declare.
TypeOK ==
  /\ sessions \in [Clients -> ClientSession \cup {None}]
  /\ issued \in Nat
  /\ attached \in [Artifacts -> SUBSET Clients]
  /\ writers \in [Peers -> Writer \cup {None}]
  /\ uploads \subseteq [client : Clients, token : Tokens, body : Bodies]
  /\ out \in Reply

\* The fields of a session agree, whatever requests came in whatever order: no
\* handler exists before the hush preflight has succeeded; an upload is
\* expected exactly while the handler is suspended in exec_recv, and only under
\* the token that also continues the session.
SessionShape ==
  \A c \in Live :
    /\ sessions[c].preflight => /\ sessions[c].handler = "none"
                                /\ sessions[c].phase = "await_rrq"
    /\ sessions[c].handler # "none" => sessions[c].hush
    /\ sessions[c].pending # None <=> sessions[c].handler = "recv"
    /\ sessions[c].pending # None => /\ sessions[c].pending.token = sessions[c].token
                                     /\ sessions[c].phase = "await_upload"

\* A token continues at most one session: a continuation or an upload that
\* carries it cannot reach another client's handler.
TokensExclusive ==
  /\ \A c \in Live : sessions[c].token <= issued
  /\ \A c, d \in Live : sessions[c].token = sessions[d].token => c = d

\* A download entry counts exactly the live sessions that acquired it: neither
\* a session that ended, in whatever way, nor one that was replaced by a new
\* start keeps its reference, and a live session never loses one.
RefcountExact ==
  \A k \in Artifacts : attached[k] = {c \in Live : k \in sessions[c].artifacts}

\* The bytes waiting for a handler are bytes that were captured from an upload
\* of that client under that token.
CapturedBodyIsOwn ==
  \A c \in Live :
    sessions[c].pending # None =>
      \/ sessions[c].pending.uploaded = None
      \/ [client |-> c, token |-> sessions[c].pending.token,
          body |-> sessions[c].pending.uploaded] \in uploads

\* What exec_recv returned is what this client uploaded under the token of the
\* continuation that resumed it: not an earlier receive's bytes, not those of
\* the session that this one replaced, not another client's.
DeliveredBodyIsOwn ==
  out.sent # None =>
    [client |-> out.client, token |-> out.asked, body |-> out.sent] \in uploads

\* The bytes of a receive change only when an upload closes that was opened
\* under the token of this very receive: an upload opened before the session
\* moved on, or before it was replaced, leaves every session as it is.
LateUploadIsInert ==
  [][\A c \in Clients :
       (/\ sessions'[c] # None
        /\ sessions'[c].pending # None
        /\ sessions'[c].pending.uploaded # None
        /\ sessions[c] = None \/ sessions'[c].pending # sessions[c].pending)
       => \E p \in Peers :
            /\ writers[p] = [client |-> c, token |-> sessions'[c].pending.token]
            /\ writers'[p] = None]_vars

\* A handler that ended by an exception is never run again, and its session
\* never gets another script: only a new start brings the client back.
DeadStaysSilent ==
  [][\A c \in Dead :
       \/ sessions'[c] = sessions[c] /\ (out' = out \/ out'.client # c \/ out'.result # "script")
       \/ c \notin Live'
       \/ sessions'[c].preflight]_vars

-------------------------------------------------------------------------------
(* The contract of the continuation tokens.                                *)

Current == [c \in Clients |-> IF sessions[c] = None THEN NoToken ELSE sessions[c].token]

Spent == {t \in 1 .. issued : \A c \in Clients : Current[c] # t}

Contract == INSTANCE SessionContract
              WITH Tokens <- 1 .. MaxToken, current <- Current, spent <- Spent,
                   reply <- [scripted |-> out.result = "script", to |-> out.client,
                             asked |-> out.asked]

\* The provider implements the token contract: a token belongs to one client,
\* continues its session by at most one script, and never comes back.
ContractSpec == Contract!Spec
===============================================================================
