------------------------------ MODULE DeviceFlow ------------------------------
(***************************************************************************)
(* Devices that run the scripts which the session core generates, over UDP. *)
(*                                                                          *)
(* A script ends with the commands that _append_continue or _append_receive *)
(* wrote: tftpboot the continuation and source it, or first tftpput the     *)
(* memory and then tftpboot the "ok" or the "failed" continuation.  Each    *)
(* tftpboot and tftpput is a transaction from a port of its own: the server *)
(* answers to that port, and the device takes no answer to another one.     *)
(*                                                                          *)
(* With Lossy = TRUE a request stays in the network after it was handled,   *)
(* so it may be delayed, repeated and overtaken, and every transfer may     *)
(* fail on either side.  With Lossy = FALSE none of this happens.  The      *)
(* server may restart in both.                                              *)
(***************************************************************************)
EXTENDS ScriptedSessions

CONSTANTS
  MaxTry,      \* bound: how many transactions a device makes
  Lossy,       \* does the network lose, repeat and delay?
  Whole, Part  \* an upload that was completed, and one that was cut short

ASSUME MaxTryIsNat == MaxTry \in Nat
ASSUME LossyIsBoolean == Lossy \in BOOLEAN
ASSUME BodiesAreTwo == Whole # Part /\ Bodies = {Whole, Part}
ASSUME PeersArePorts == Peers = Clients \X (1 .. MaxTry)
ASSUME NoneIsNoScript == None \notin Script

VARIABLES
  device,   \* what each device does, and in which transaction
  rrqs,     \* RRQs in the network
  wrqs,     \* WRQs in the network
  replies,  \* the RRQ transfers that the server has open
  ran       \* the tokens whose script each device has run

flowVars == <<device, rrqs, wrqs, replies, ran>>
allVars == <<vars, flowVars>>

-------------------------------------------------------------------------------
\* putting: the WRQ is not yet answered; sending: it is; stalled: the server
\* has dropped the transfer and the device does not know.
Device == [at : {"prompt", "asking", "running", "putting", "sending", "stalled"},
           try : 0 .. MaxTry, script : Script \cup {None}]

RRQMessage == [client : Clients, try : 1 .. MaxTry, token : Nat,
               hush : HushValues, status : RecvStatus]
WRQMessage == [client : Clients, try : 1 .. MaxTry, token : Nat]
ReplyMessage == [client : Clients, try : 1 .. MaxTry, script : Script \cup {None}]

IsAt(c, at) == device[c].at = at
InTry(c, n) == device[c].try = n
Move(c, d) == device' = [device EXCEPT ![c] = d]
ToPrompt(c) == Move(c, [at |-> "prompt", try |-> device[c].try, script |-> None])

\* tftpboot, from a port of its own.
SendRRQ(c, t, hush, status) ==
  /\ device[c].try < MaxTry
  /\ rrqs' = rrqs \cup {[client |-> c, try |-> device[c].try + 1, token |-> t,
                         hush |-> hush, status |-> status]}
  /\ Move(c, [at |-> "asking", try |-> device[c].try + 1, script |-> None])

-------------------------------------------------------------------------------
(* The server's side of a transfer.                                         *)

Consume(box, m) == IF Lossy THEN box ELSE box \ {m}

InTransfer(c, n) == \E r \in replies : r.client = c /\ r.try = n

\* A script or an error goes out; an exception that escapes the hook ends the
\* transfer without either.  "failure" and "final" scripts continue nothing.
OpenTransfer(m) ==
  replies' = IF out'.result = "raise" THEN replies
             ELSE replies \cup
               {[client |-> m.client, try |-> m.try,
                 script |-> IF out'.result = "miss" THEN None
                            ELSE IF out'.result = "script"
                                 THEN ScriptServed(sessions'[m.client])
                                 ELSE LastScript]}

\* A request from a port that is in transfer is dropped.
HandleRRQ(m) ==
  /\ ~InTransfer(m.client, m.try)
  /\ IF m.token = NoToken THEN StartSession(m.client, FALSE)
     ELSE IF Holds(m.client, m.token) THEN ResumeSession(m.client, m.hush, m.status)
     ELSE RefuseRRQ(m.client, m.token)
  /\ rrqs' = Consume(rrqs, m)
  /\ OpenTransfer(m)
  /\ UNCHANGED <<device, wrqs, ran>>

\* A device answers only the first writer that its WRQ opens.
HandleWRQ(m) ==
  /\ OpenUpload(<<m.client, m.try>>, m.client, m.token)
  /\ wrqs' = Consume(wrqs, m)
  /\ device' = IF IsAt(m.client, "putting") /\ InTry(m.client, m.try)
               THEN [device EXCEPT ![m.client].at = "sending"] ELSE device
  /\ UNCHANGED <<rrqs, replies, ran>>

RefuseWRQ(m) ==
  /\ writers[<<m.client, m.try>>] = None
  /\ ~Expects(m.client, m.token)
  /\ wrqs' = Consume(wrqs, m)
  /\ UNCHANGED <<vars, device, rrqs, replies, ran>>

\* The server's retries are used up: the writer is closed with what it has.
WriterTimesOut(c, n) ==
  /\ Lossy
  /\ CloseUpload(<<c, n>>, Part) \/ CloseStale(<<c, n>>)
  /\ device' = IF IsAt(c, "sending") /\ InTry(c, n)
               THEN [device EXCEPT ![c].at = "stalled"] ELSE device
  /\ UNCHANGED <<rrqs, wrqs, replies, ran>>

\* What is in the network stays there; transfers are cut.
ServerRestart ==
  /\ Restart
  /\ replies' = {}
  /\ device' = [c \in Clients |->
                  IF IsAt(c, "sending") THEN [device[c] EXCEPT !.at = "stalled"]
                                        ELSE device[c]]
  /\ UNCHANGED <<rrqs, wrqs, ran>>

-------------------------------------------------------------------------------
(* The device.                                                              *)

\* The operator, or bootcmd, begins a session.
StartOver(c) ==
  /\ IsAt(c, "prompt")
  /\ issued < MaxToken
  /\ SendRRQ(c, NoToken, "absent", "failed")
  /\ UNCHANGED <<vars, wrqs, replies, ran>>

\* tftpboot ends: the script is sourced, or the error is printed.
TakeReply(r) ==
  /\ IF IsAt(r.client, "asking") /\ InTry(r.client, r.try)
     THEN IF r.script = None THEN ToPrompt(r.client)
          ELSE Move(r.client, [at |-> "running", try |-> r.try, script |-> r.script])
     ELSE UNCHANGED device
  /\ replies' = replies \ {r}
  /\ UNCHANGED <<vars, rrqs, wrqs, ran>>

TransferFails(r) ==
  /\ Lossy
  /\ replies' = replies \ {r}
  /\ UNCHANGED <<vars, device, rrqs, wrqs, ran>>

\* tftpboot fails: "continuation RRQ failed".
GiveUp(c) ==
  /\ IsAt(c, "asking")
  /\ \/ Lossy
     \/ /\ ~InTransfer(c, device[c].try)
        /\ \A m \in rrqs : m.client = c => m.try # device[c].try
  /\ ToPrompt(c)
  /\ UNCHANGED <<vars, rrqs, wrqs, replies, ran>>

Remember(c) == ran' = [ran EXCEPT ![c] = @ \cup {device[c].script.next}]

\* A script without a continuation ends at the prompt.
RunLast(c) ==
  /\ IsAt(c, "running")
  /\ device[c].script.next = NoToken
  /\ ToPrompt(c)
  /\ UNCHANGED <<vars, rrqs, wrqs, replies, ran>>

\* The commands _append_continue added; a probe brings hush_shell, true or not.
RunContinue(c) ==
  /\ IsAt(c, "running")
  /\ device[c].script.next # NoToken
  /\ ~device[c].script.receive
  /\ \E hush \in IF device[c].script.probe THEN {"true", "other"} ELSE {"absent"} :
       SendRRQ(c, device[c].script.next, hush, "failed")
  /\ Remember(c)
  /\ UNCHANGED <<vars, wrqs, replies>>

\* The commands _append_receive added, up to its tftpput.
RunReceive(c) ==
  /\ IsAt(c, "running")
  /\ device[c].script.receive
  /\ device[c].try < MaxTry
  /\ wrqs' = wrqs \cup {[client |-> c, try |-> device[c].try + 1,
                         token |-> device[c].script.next]}
  /\ Move(c, [at |-> "putting", try |-> device[c].try + 1, script |-> device[c].script])
  /\ Remember(c)
  /\ UNCHANGED <<vars, rrqs, replies>>

\* The server acknowledges the last block and closes the writer; when that
\* acknowledgement is lost, tftpput fails all the same.
PutCompletes(c) ==
  /\ IsAt(c, "sending")
  /\ LET p == <<c, device[c].try>> IN CloseUpload(p, Whole) \/ CloseStale(p)
  /\ \E status \in IF Lossy THEN RecvStatus ELSE {"ok"} :
       SendRRQ(c, device[c].script.next, "absent", status)
  /\ UNCHANGED <<wrqs, replies, ran>>

\* tftpput fails: the "failed" continuation.
PutBreaks(c) ==
  /\ \/ IsAt(c, "stalled")
     \/ Lossy /\ (IsAt(c, "putting") \/ IsAt(c, "sending"))
     \/ /\ IsAt(c, "putting")
        /\ \A m \in wrqs : m.client = c => m.try # device[c].try
  /\ SendRRQ(c, device[c].script.next, "absent", "failed")
  /\ UNCHANGED <<vars, wrqs, replies, ran>>

-------------------------------------------------------------------------------
FlowInit ==
  /\ Init
  /\ device = [c \in Clients |-> [at |-> "prompt", try |-> 0, script |-> None]]
  /\ rrqs = {} /\ wrqs = {} /\ replies = {}
  /\ ran = [c \in Clients |-> {}]

Serve == \/ \E m \in rrqs : HandleRRQ(m)
         \/ \E m \in wrqs : HandleWRQ(m) \/ RefuseWRQ(m)

Go(c) == \/ RunLast(c) \/ RunContinue(c) \/ RunReceive(c)
         \/ PutCompletes(c) \/ PutBreaks(c) \/ GiveUp(c)

FlowNext ==
  \/ Serve
  \/ \E c \in Clients, n \in 1 .. MaxTry : WriterTimesOut(c, n)
  \/ \E r \in replies : TakeReply(r) \/ TransferFails(r)
  \/ \E c \in Clients : StartOver(c) \/ Go(c)
  \/ ServerRestart

FlowSpec == FlowInit /\ [][FlowNext]_allVars

\* The server handles what arrives, and a device runs its script on.
FlowFairness == /\ WF_allVars(Serve)
                /\ WF_allVars(\E r \in replies : TakeReply(r))
                /\ \A c \in Clients : WF_allVars(Go(c))

FairFlowSpec == FlowSpec /\ FlowFairness

-------------------------------------------------------------------------------
(* What must hold.                                                          *)

\* The server's stores keep their types, and what the network and the devices
\* hold are scripts and requests that the server can have caused.
FlowTypeOK ==
  /\ TypeOK
  /\ device \in [Clients -> Device]
  /\ rrqs \subseteq RRQMessage /\ wrqs \subseteq WRQMessage /\ replies \subseteq ReplyMessage
  /\ ran \in [Clients -> SUBSET Tokens]

\* The handler is resumed, or ended, by a continuation only when its device
\* has run the script that the handler awaits: no delayed or repeated request
\* of an earlier script takes its place.
HandlerInStep ==
  [][\A c \in Live : out'.client = c /\ out'.asked = sessions[c].token
                       => sessions[c].token \in ran[c]]_allVars

\* A device never runs the script of an instruction twice, nor one that its
\* handler gave before another that it has run.
ScriptsInOrder ==
  \A c \in Clients :
    IsAt(c, "running") /\ device[c].script.next # NoToken
      => \A t \in ran[c] : t < device[c].script.next

Suspended(c) == c \in Live /\ sessions[c].handler \in {"exec", "recv"}

\* When nothing is lost, a device is back at its prompt only when no handler
\* waits for it.
NotStranded == \A c \in Clients : IsAt(c, "prompt") => ~Suspended(c)

\* exec_recv returns what the device sent, all of it.
OkBodyWhole == out.sent \in {None, Whole}

\* When nothing is lost, every exec and every exec_recv returns, or raises, or
\* its session ends.
InstructionEnds ==
  \A c \in Clients : \A t \in 1 .. MaxToken :
    (Suspended(c) /\ sessions[c].token = t) ~> ~(Suspended(c) /\ sessions[c].token = t)
===============================================================================
