---------------------------- MODULE SimulatedClient ----------------------------
(***************************************************************************)
(* uboot-tftp-client, the simulated device, against the session core.       *)
(*                                                                          *)
(* run_client downloads a script, does its upload, and takes the            *)
(* continuation for the next round.  Variables in a path are substituted    *)
(* from its own small environment: of the names the server asks for it      *)
(* knows filesize, so hush_shell stays the text "${hush_shell}".  Any       *)
(* transfer error ends it.                                                  *)
(***************************************************************************)
EXTENDS ScriptedSessions

CONSTANTS
  Client,   \* its identifier
  Rounds    \* --rounds

VARIABLE sim   \* where run_client is, its round, and the remote it is about to ask

simVars == <<vars, sim>>

-------------------------------------------------------------------------------
Remote == [token : Nat, hush : HushValues, status : RecvStatus]

Sim == [at : {"asking", "scripted", "sending", "stopped", "failed"},
        round : 1 .. Rounds + 1, remote : Remote, script : Script]

IsAt(at) == sim.at = at
Fail == sim' = [sim EXCEPT !.at = "failed"]

\* The continuation that choose_next_remote takes from a script.
NextRemote(script) ==
  [token |-> script.next,
   hush |-> IF script.probe THEN "other" ELSE "absent",
   status |-> IF script.receive THEN "ok" ELSE "failed"]

Ask(remote) ==
  sim' = [sim EXCEPT !.remote = remote, !.round = @ + 1,
                     !.at = IF sim.round < Rounds THEN "asking" ELSE "stopped"]

-------------------------------------------------------------------------------
\* _download: a script, or an error that run_client does not catch.
Download ==
  /\ IsAt("asking")
  /\ IF sim.remote.token = NoToken THEN \E preset \in BOOLEAN : StartSession(Client, preset)
     ELSE IF Holds(Client, sim.remote.token)
          THEN ResumeSession(Client, sim.remote.hush, sim.remote.status)
          ELSE RefuseRRQ(Client, sim.remote.token)
  /\ IF out'.result \in {"miss", "raise"} THEN Fail
     ELSE sim' = [sim EXCEPT !.at = "scripted",
                             !.script = IF out'.result = "script"
                                        THEN ScriptServed(sessions'[Client]) ELSE LastScript]

\* No continuation RRQ found; stopping.
Stop ==
  /\ IsAt("scripted")
  /\ sim.script.next = NoToken
  /\ sim' = [sim EXCEPT !.at = "stopped"]
  /\ UNCHANGED vars

\* No upload: the first continuation.
FollowContinue ==
  /\ IsAt("scripted")
  /\ sim.script.next # NoToken
  /\ ~sim.script.receive
  /\ Ask(NextRemote(sim.script))
  /\ UNCHANGED vars

\* _upload_dummy: the WRQ.
BeginUpload(p) ==
  /\ IsAt("scripted")
  /\ sim.script.receive
  /\ OpenUpload(p, Client, sim.script.next)
  /\ sim' = [sim EXCEPT !.at = "sending"]

UploadRefused ==
  /\ IsAt("scripted")
  /\ sim.script.receive
  /\ ~Expects(Client, sim.script.next)
  /\ Fail
  /\ UNCHANGED vars

\* The upload is complete: the continuation with recv=ok.
FollowUpload(p, body) ==
  /\ IsAt("sending")
  /\ CloseUpload(p, body) \/ CloseStale(p)
  /\ Ask(NextRemote(sim.script))

SimRestart ==
  /\ Restart
  /\ IF IsAt("sending") THEN Fail ELSE UNCHANGED sim

\* run_client has returned, or let an error through.
Over == sim.at \in {"stopped", "failed"} /\ UNCHANGED simVars

-------------------------------------------------------------------------------
SimInit ==
  /\ Init
  /\ sim = [at |-> "asking", round |-> 1, script |-> LastScript,
            remote |-> [token |-> NoToken, hush |-> "absent", status |-> "failed"]]

SimNext ==
  \/ Download \/ Stop \/ FollowContinue \/ UploadRefused
  \/ \E p \in Peers : BeginUpload(p) \/ \E body \in Bodies : FollowUpload(p, body)
  \/ SimRestart
  \/ Over

SimSpec == SimInit /\ [][SimNext]_simVars

-------------------------------------------------------------------------------
(* What must hold.                                                          *)

\* The simulated client exercises the session flow: the server takes it for a
\* device whose shell can run the scripts, and creates the handler.
FlowExercised == out.result # "failure"
===============================================================================
