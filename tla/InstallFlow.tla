------------------------------ MODULE InstallFlow ------------------------------
(***************************************************************************)
(* The OpenIPC handler (commands install, backup, probe and boot, and the   *)
(* answer to others) and the camera it drives: probe the flash, back it up, *)
(* download and patch an image, erase and write.                            *)
(*                                                                          *)
(* The handler and the camera take turns, as DeviceFlow shows: the camera   *)
(* runs the script of the instruction that the handler awaits, and asks for *)
(* the next one.  Around them the power may fail, the server may restart,   *)
(* an upload, a download or a fetch may fail.  Of what the console shows    *)
(* only the completion message is kept.                                     *)
(***************************************************************************)
EXTENDS Naturals

CONSTANTS
  FlashSize,    \* the blocks of the flash
  Small, Large, \* the sizes that are supported: 8 MB and 16 MB, in blocks
  ProbeSizes,   \* the sizes that the probe tries, each the double of the last
  Requests,     \* the inputs: the request and the camera's environment
  Faults,       \* what may go wrong
  MaxInstalls,  \* bound: how many installations get as far as the backup
  None

ASSUME SizesAreBlocks == /\ FlashSize \in Nat
                         /\ Small \in Nat \ {0} /\ Large \in Nat \ {0}
                         /\ Small < Large
                         /\ ProbeSizes \subseteq Nat \ {0}
ASSUME MaxInstallsIsNat == MaxInstalls \in Nat

\* cap: the nor_size of the request.  named: vendor and soc are known.
\* mac: the camera's ethaddr is its own, a placeholder, or not set.
Request ==
  [cmd : {"install", "backup", "probe", "boot", "other"}, fw : {"lite", "ultimate", "other"},
   named : BOOLEAN, cap : Nat, mac : {"own", "placeholder", "none"}, static : BOOLEAN]

ASSUME RequestsAreRequests == Requests \subseteq Request

Blocks == 1 .. FlashSize
FlashSizes == {Small, Large}

\* The original contents, erased, the patched image, anything else.
Contents == {"orig", "blank", "new", "junk"}
Copies == UNION {[1 .. n -> Contents] : n \in FlashSizes}

\* An image is a file named after its firmware and size; its value is its length.
Images == {"lite", "ultimate"} \X FlashSizes

Scripts == {"export", "putenv", "envok", "sfprobe", "size", "showsize", "refuse",
            "backingup", "putflash", "saved", "cached", "downloading", "progress",
            "extracting", "patched", "restore", "newip", "finished", "countdown",
            "reset", "nomatch", "waiting", "boot"}
JobStates == {"none", "pending", "done", "failed"}

\* at: the instruction awaited.  size: what was probed.  stamp: in the name of
\* the backup.  image: the length of the image.  saw: the artifact's state.
Session == [req : Request, at : Scripts, size : Nat, stamp : Nat,
            image : Nat, saw : JobStates]

\* size: the argument of the script.  line: the progress of the restore.
\* uploaded: its upload was accepted; copy: the blocks that it delivered.
Device == [at : {"prompt", "running", "asking", "bricked"}, script : Scripts \cup {None},
           size : Nat, line : Nat, uploaded : BOOLEAN, copy : Copies \cup {<<>>}]

VARIABLES
  session,  \* the camera's session with its handler
  device,   \* where the camera is
  flash,    \* the NOR flash
  ram,      \* what is in memory where the image is fetched to
  spoilt,   \* an sf erase or sf write has failed since it was fetched
  backups,  \* the files under backup/
  images,   \* the files under install/, by name
  jobs,     \* the download entries
  stamp,    \* the last time stamp drawn
  told      \* the completion message of the last request, if it was sent

vars == <<session, device, flash, ram, spoilt, backups, images, jobs, stamp, told>>

ASSUME NoneIsNothing == /\ None \notin Session /\ None \notin Scripts
                        /\ None \notin Nat

-------------------------------------------------------------------------------
(* The handler.                                                             *)

AtPrompt == [at |-> "prompt", script |-> None, size |-> 0, line |-> 0,
             uploaded |-> FALSE, copy |-> <<>>]
Running(s, n) == [AtPrompt EXCEPT !.at = "running", !.script = s, !.size = n]

\* The completion message, for a flash of that size.
Message == [finished : BOOLEAN, size : Nat]
Untold == [finished |-> FALSE, size |-> 0]

\* The handler is resumed: the camera comes back after script s.
Resumed(s) == device.at = "asking" /\ session # None /\ session.at = s

\* exec and exec_recv: the next instruction, whose script is about n blocks.
Instruct(s, n, state) == /\ session' = [state EXCEPT !.at = s]
                         /\ device' = Running(s, n)

\* exec(final=True) ends the session.
Last(s) == session' = None /\ device' = Running(s, 0)

\* The handler ends without a script, and tftpboot fails on the camera.
Leave == session' = None /\ device' = AtPrompt

files == <<backups, images, jobs>>
memory == <<flash, ram, spoilt>>

FirstScript(r) == CASE r.cmd = "install" -> "export"
                    [] r.cmd = "other"   -> "nomatch"
                    [] OTHER             -> "sfprobe"

\* The operator runs the bootstrap command; the preflight is passed.
Start(r) ==
  /\ device.at = "prompt"
  /\ stamp < MaxInstalls
  /\ r.cmd # "boot"
  /\ Instruct(FirstScript(r), 0,
              [req |-> r, at |-> "export", size |-> 0, stamp |-> 0, image |-> 0,
               saw |-> "none"])
  /\ told' = Untold
  /\ UNCHANGED <<memory, files, stamp>>

\* The command boot: there is no countdown, its first script is its last.
Boot(r) ==
  /\ device.at = "prompt"
  /\ r.cmd = "boot"
  /\ Last("boot")
  /\ told' = Untold
  /\ UNCHANGED <<memory, files, stamp>>

\* Instructions that lead to the next one whatever the camera did.
Then == [export |-> "putenv", envok |-> "sfprobe", backingup |-> "putflash",
         finished |-> "countdown", nomatch |-> "waiting"]

GoOn ==
  /\ \E s \in DOMAIN Then :
       Resumed(s) /\ Instruct(Then[s], IF Then[s] = "putflash" THEN session.size ELSE 0,
                              session)
  /\ UNCHANGED <<memory, files, stamp, told>>

CountedDown ==
  /\ \/ Resumed("countdown") /\ Last("reset")
     \/ Resumed("waiting") /\ Last("boot")
  /\ UNCHANGED <<memory, files, stamp, told>>

EnvReceived ==
  /\ Resumed("putenv")
  /\ device.uploaded
  /\ Instruct("envok", 0, session)
  /\ UNCHANGED <<memory, files, stamp, told>>

\* ReceiveFailedError.
ReceiveFails ==
  /\ Resumed("putenv") \/ Resumed("putflash")
  /\ ~device.uploaded
  /\ Leave
  /\ UNCHANGED <<memory, files, stamp, told>>

-------------------------------------------------------------------------------
(* uboot_nor_probe and what each command does with the size.                *)

\* The last size that could be read, of those that do not exceed cap.
Probes(cap, size) ==
  LET good == {n \in ProbeSizes : n <= cap /\ n <= FlashSize}
  IN  IF good = {} THEN size = 0 ELSE size \in good /\ \A n \in good : n <= size

\* status = 0: the sizes are tried, by the last script of the command probe.
ProbeSucceeds ==
  /\ Resumed("sfprobe")
  /\ IF session.req.cmd = "probe" THEN Last("showsize")
                                  ELSE Instruct("size", 0, session)
  /\ UNCHANGED <<memory, files, stamp, told>>

\* check_install_args.
Named(r) == r.named /\ r.fw \in {"lite", "ultimate"}

\* MUTANT: any size is supported.
AcceptableAnySize(r, size) == Named(r) /\ size > 0

Acceptable(r, size) == /\ Named(r)
                       /\ size \in FlashSizes
                       /\ ~(r.fw = "ultimate" /\ size < Large)

\* Two of the messages cannot be built: the one for an unknown firmware names the
\* variable fw (NameError), the one for ultimate on a small flash appends to msg
\* (UnboundLocalError).
Misspelt(r, size) ==
  \/ r.fw = "other"
  \/ size \in FlashSizes /\ size < Large /\ r.fw = "ultimate"

\* MUTANT: one name for all backups of a camera.
SameStamp == 1
NewStamp == stamp + 1

\* The size is known, or 0 after a probe that failed.
Accept(size) ==
  /\ Acceptable(session.req, size)
  /\ stamp' = NewStamp
  /\ Instruct("backingup", 0, [session EXCEPT !.size = size, !.stamp = NewStamp])
  /\ UNCHANGED <<memory, files, told>>

Refuse(size) ==
  /\ ~Acceptable(session.req, size)
  /\ ~Misspelt(session.req, size)
  /\ Last("refuse")
  /\ UNCHANGED <<memory, files, stamp, told>>

RefuseMisspelt(size) ==
  /\ Misspelt(session.req, size)
  /\ Leave
  /\ UNCHANGED <<memory, files, stamp, told>>

\* The command backup names a variable that does not exist: NameError.
BackupRaises ==
  /\ session.req.cmd = "backup"
  /\ Leave
  /\ UNCHANGED <<memory, files, stamp, told>>

\* The command probe has nothing left to say: StopIteration.
ProbeReturns ==
  /\ session.req.cmd = "probe"
  /\ Leave
  /\ UNCHANGED <<memory, files, stamp, told>>

UseSize(size) ==
  \/ session.req.cmd = "install" /\ (Accept(size) \/ Refuse(size) \/ RefuseMisspelt(size))
  \/ BackupRaises
  \/ ProbeReturns

ProbeFails == "probe" \in Faults /\ Resumed("sfprobe") /\ UseSize(0)

SizeKnown ==
  /\ Resumed("size")
  /\ \E size \in ProbeSizes \cup {0} : Probes(session.req.cap, size) /\ UseSize(size)

-------------------------------------------------------------------------------
(* Backup, download, patch.                                                 *)

\* write_file: a file of the same name is replaced.
SaveBackup ==
  /\ Resumed("putflash")
  /\ device.uploaded
  /\ backups' = {b \in backups : b.stamp # session.stamp}
                  \cup {[stamp |-> session.stamp, body |-> device.copy]}
  /\ Instruct("saved", 0, session)
  /\ UNCHANGED <<memory, images, jobs, stamp, told>>

\* The file that the session's image is downloaded to.
Image == <<session.req.fw, session.size>>

UseCached ==
  /\ Resumed("saved")
  /\ images[Image] # None
  /\ Instruct("cached", 0, session)
  /\ UNCHANGED <<memory, files, stamp, told>>

\* acquire: an entry that is there is shared, whatever its state.
AcquireImage ==
  /\ Resumed("saved")
  /\ images[Image] = None
  /\ jobs' = [jobs EXCEPT ![Image] = IF @ = "none" THEN "pending" ELSE @]
  /\ Instruct("downloading", 0, session)
  /\ UNCHANGED <<memory, backups, images, stamp, told>>

StillPending == Resumed("progress") /\ session.saw = "pending"

\* A snapshot of the entry, shown before it is looked at.
Poll ==
  /\ Resumed("downloading") \/ StillPending
  /\ Instruct("progress", 0, [session EXCEPT !.saw = jobs[Image]])
  /\ UNCHANGED <<memory, files, stamp, told>>

\* MUTANT: a failed download is polled on.
DownloadFailedNot ==
  /\ Resumed("progress")
  /\ session.saw = "failed"
  /\ Instruct("progress", 0, session)
  /\ UNCHANGED <<memory, files, stamp, told>>

\* The message cannot be built, uboot_err is not imported there: NameError.
DownloadFailed ==
  /\ Resumed("progress")
  /\ session.saw = "failed"
  /\ Leave
  /\ UNCHANGED <<memory, files, stamp, told>>

Downloaded == Resumed("cached") \/ (Resumed("progress") /\ session.saw = "done")

ReadImage ==
  /\ Downloaded
  /\ images[Image] \notin {None, 0}
  /\ Instruct("extracting", 0, [session EXCEPT !.image = images[Image]])
  /\ UNCHANGED <<memory, files, stamp, told>>

ReadEmpty ==
  /\ Downloaded
  /\ images[Image] = 0
  /\ Leave
  /\ UNCHANGED <<memory, files, stamp, told>>

\* The environment is found, and it has the camera's ethaddr.
PatchEnv ==
  /\ Resumed("extracting")
  /\ session.req.mac # "none"
  /\ Instruct("patched", 0, session)
  /\ UNCHANGED <<memory, files, stamp, told>>

\* No environment in the image (its message is a TypeError), no ethaddr
\* (KeyError), or an environment too large for its partition.
PatchRaises ==
  /\ Resumed("extracting") \/ Resumed("patched")
  /\ Leave
  /\ UNCHANGED <<memory, files, stamp, told>>

\* The patched image is as long as the image.
Restore ==
  /\ Resumed("patched")
  /\ Instruct("restore", session.image, session)
  /\ UNCHANGED <<memory, files, stamp, told>>

\* A new address is asked for when the camera gets a new ethaddr.
NewMac == ~session.req.static /\ session.req.mac = "placeholder"

AskNewAddress ==
  /\ Resumed("restore")
  /\ NewMac
  /\ Instruct("newip", 0, session)
  /\ UNCHANGED <<memory, files, stamp, told>>

Finish ==
  /\ Resumed("newip") \/ (Resumed("restore") /\ ~NewMac)
  /\ Instruct("finished", 0, session)
  /\ told' = [finished |-> TRUE, size |-> session.size]
  /\ UNCHANGED <<memory, files, stamp>>

-------------------------------------------------------------------------------
(* The camera.                                                              *)

Runs(s) == device.at = "running" /\ device.script = s

Ask == device' = [device EXCEPT !.at = "asking"]
AskAfterPut(copy) ==
  device' = [device EXCEPT !.at = "asking", !.uploaded = TRUE, !.copy = copy]

\* Scripts that neither upload nor touch the flash, nor end.
PlainScripts == Scripts \ {"putenv", "putflash", "restore", "refuse", "showsize",
                           "reset", "boot"}

RunPlain ==
  /\ \E s \in PlainScripts : Runs(s)
  /\ Ask
  /\ UNCHANGED <<session, memory, files, stamp, told>>

\* What sf read leaves in memory that was filled with 0xFF.
ReadFlash == {[b \in 1 .. device.size |-> flash[b]]}
               \cup (IF "read" \in Faults THEN {[b \in 1 .. device.size |-> "blank"]} ELSE {})

\* The upload is accepted while the session is there.
RunPut ==
  /\ Runs("putenv") \/ Runs("putflash")
  /\ session # None
  /\ \E copy \in IF Runs("putenv") THEN {<<>>} ELSE ReadFlash : AskAfterPut(copy)
  /\ UNCHANGED <<session, memory, files, stamp, told>>

PutBreaks ==
  /\ Runs("putenv") \/ Runs("putflash")
  /\ session = None \/ "upload" \in Faults
  /\ Ask
  /\ UNCHANGED <<session, memory, files, stamp, told>>

\* The lines of the restore script do not test each other.
NextLine == device' = [device EXCEPT !.line = @ + 1]

FetchImage ==
  /\ Runs("restore")
  /\ device.line = 0
  /\ ram' \in {"new"} \cup (IF "fetch" \in Faults THEN {"junk"} ELSE {})
  /\ spoilt' = FALSE
  /\ NextLine
  /\ UNCHANGED <<session, flash, files, stamp, told>>

\* Memory cells are set by an erase; a write only clears them.
Programmed(old, data) == IF old \in {"blank", data} THEN data ELSE "junk"

\* MUTANT: one block more than the image has is erased.
EraseTooMuch ==
  /\ Runs("restore")
  /\ device.line \in 1 .. device.size
  /\ flash' = [b \in Blocks |-> IF b \in {device.line, device.line + 1} THEN "blank"
                                                                        ELSE flash[b]]
  /\ NextLine
  /\ UNCHANGED <<session, ram, spoilt, files, stamp, told>>

EraseBlock ==
  /\ Runs("restore")
  /\ device.line \in 1 .. device.size
  /\ flash' = [flash EXCEPT ![device.line] = "blank"]
  /\ NextLine
  /\ UNCHANGED <<session, ram, spoilt, files, stamp, told>>

\* sf erase reports an error, the length is no multiple of a sector or the flash does
\* not answer: what it has not come to stays, and sf write is next.
EraseFails ==
  /\ "flash" \in Faults
  /\ Runs("restore")
  /\ device.line \in 1 .. device.size
  /\ \E c \in {flash[device.line], "junk"} : flash' = [flash EXCEPT ![device.line] = c]
  /\ device' = [device EXCEPT !.line = device.size + 1]
  /\ spoilt' = TRUE
  /\ UNCHANGED <<session, ram, files, stamp, told>>

\* MUTANT: the image is written from where the script was loaded.
WriteScript ==
  /\ Runs("restore")
  /\ device.line \in device.size + 1 .. 2 * device.size
  /\ flash' = [flash EXCEPT ![device.line - device.size] = "junk"]
  /\ NextLine
  /\ UNCHANGED <<session, ram, spoilt, files, stamp, told>>

WriteBlock ==
  /\ Runs("restore")
  /\ device.line \in device.size + 1 .. 2 * device.size
  /\ flash' = [flash EXCEPT ![device.line - device.size] = Programmed(@, ram)]
  /\ NextLine
  /\ UNCHANGED <<session, ram, spoilt, files, stamp, told>>

\* sf write reports an error, and the script comes to its end.
WriteFails ==
  /\ "flash" \in Faults
  /\ Runs("restore")
  /\ device.line \in device.size + 1 .. 2 * device.size
  /\ \E c \in {flash[device.line - device.size], "junk"} :
       flash' = [flash EXCEPT ![device.line - device.size] = c]
  /\ device' = [device EXCEPT !.line = 2 * device.size + 1]
  /\ spoilt' = TRUE
  /\ UNCHANGED <<session, ram, files, stamp, told>>

RunRestored ==
  /\ Runs("restore")
  /\ device.line > 2 * device.size
  /\ Ask
  /\ UNCHANGED <<session, memory, files, stamp, told>>

RunLast ==
  /\ Runs("refuse") \/ Runs("showsize")
  /\ device' = AtPrompt
  /\ UNCHANGED <<session, memory, files, stamp, told>>

\* U-Boot starts from the first block.
Boots == FlashSize > 0 => flash[1] \in {"orig", "new"}
Reboot ==
  /\ device' = IF Boots THEN AtPrompt ELSE [AtPrompt EXCEPT !.at = "bricked"]
  /\ ram' = "junk"
  /\ spoilt' = FALSE
  /\ UNCHANGED <<session, flash, files, stamp, told>>

\* A system that was booted is back at U-Boot after its next reset.
RunReset == (Runs("reset") \/ Runs("boot")) /\ Reboot

\* The continuation of a session that is not there.
MissContinuation ==
  /\ device.at = "asking"
  /\ session = None
  /\ device' = AtPrompt
  /\ UNCHANGED <<session, memory, files, stamp, told>>

-------------------------------------------------------------------------------
(* The download thread, and what happens from outside.                      *)

\* The server publishes what it got, whole or not.
Publish(i) ==
  /\ jobs[i] = "pending"
  /\ \E n \in IF "truncate" \in Faults THEN 0 .. i[2] ELSE {i[2]} :
       images' = [images EXCEPT ![i] = n]
  /\ jobs' = [jobs EXCEPT ![i] = "done"]
  /\ UNCHANGED <<session, device, memory, backups, stamp, told>>

FailDownload(i) ==
  /\ "download" \in Faults
  /\ jobs[i] = "pending"
  /\ jobs' = [jobs EXCEPT ![i] = "failed"]
  /\ UNCHANGED <<session, device, memory, backups, images, stamp, told>>

PowerFails == "power" \in Faults /\ device.at # "bricked" /\ Reboot

\* The operator presses Ctrl+C.
Interrupt ==
  /\ device.at \in {"running", "asking"}
  /\ device' = AtPrompt
  /\ UNCHANGED <<session, memory, files, stamp, told>>

ServerRestart ==
  /\ session' = None
  /\ jobs' = [i \in Images |-> "none"]
  /\ UNCHANGED <<device, memory, backups, images, stamp, told>>

-------------------------------------------------------------------------------
Init ==
  /\ session = None
  /\ device = AtPrompt
  /\ flash = [b \in Blocks |-> "orig"]
  /\ ram = "junk"
  /\ spoilt = FALSE
  /\ backups = {}
  /\ images = [i \in Images |-> None]
  /\ jobs = [i \in Images |-> "none"]
  /\ stamp = 0
  /\ told = Untold

Handle ==
  \/ GoOn \/ CountedDown \/ EnvReceived \/ ReceiveFails
  \/ ProbeSucceeds \/ ProbeFails \/ SizeKnown
  \/ SaveBackup \/ UseCached \/ AcquireImage \/ Poll \/ DownloadFailed
  \/ ReadImage \/ ReadEmpty \/ PatchEnv \/ PatchRaises \/ Restore
  \/ AskNewAddress \/ Finish

Run ==
  \/ RunPlain \/ RunPut \/ PutBreaks
  \/ FetchImage \/ EraseBlock \/ EraseFails \/ WriteBlock \/ WriteFails \/ RunRestored
  \/ RunLast \/ RunReset \/ MissContinuation

Download == \E i \in Images : Publish(i) \/ FailDownload(i)

Next ==
  \/ \E r \in Requests : Start(r) \/ Boot(r)
  \/ Handle
  \/ Run
  \/ Download
  \/ PowerFails
  \/ Interrupt
  \/ ServerRestart

Spec == Init /\ [][Next]_vars

\* The camera goes on with its script, the server answers, threads run.
FairSpec == Spec /\ WF_vars(Handle) /\ WF_vars(Run) /\ WF_vars(Download)

-------------------------------------------------------------------------------
(* Properties.                                                              *)

Backup == [stamp : Nat, body : Copies]

\* The variables have their types; in particular the restore script stays within
\* the image and a backup is as long as a size that is supported.
InstallTypeOK ==
  /\ session \in Session \cup {None}
  /\ device \in Device
  /\ device.line \in 0 .. 2 * device.size + 1
  /\ flash \in [Blocks -> Contents]
  /\ ram \in {"new", "junk"}
  /\ spoilt \in BOOLEAN
  /\ backups \subseteq Backup
  /\ images \in [Images -> Nat \cup {None}]
  /\ jobs \in [Images -> JobStates]
  /\ stamp \in Nat
  /\ told \in Message

Held == {b \in Blocks : flash[b] = "orig"}
Saved == {b \in Blocks : \E copy \in backups :
                           b \in DOMAIN copy.body /\ copy.body[b] = "orig"}

\* A camera can always be restored to what it was: every block of its first
\* contents is in the flash or in a backup that the server keeps, however many
\* installations were begun, broken off and repeated (openipc_install).
OriginalKept == Held \cup Saved = Blocks

\* The blocks that can be erased without a loss.
Spare == Saved \cup {b \in Blocks : flash[b] # "orig"}

AfterBackup == {"saved", "cached", "downloading", "progress", "extracting", "patched",
                "restore", "newip", "finished", "countdown"}

\* What the kept original rests on: the flash is backed up before a session
\* gets to its download, the restore script stays within what was backed up,
\* a backup that arrives is the flash as it still is, and its name is new.
BackupFirst ==
  /\ (session # None /\ session.at \in AfterBackup) => 1 .. session.size \subseteq Spare
  /\ device.script = "restore" => 1 .. device.size \subseteq Spare
  /\ (device.at = "asking" /\ device.script = "putflash" /\ device.uploaded) =>
       device.copy = [b \in 1 .. device.size |-> flash[b]]
  /\ (session # None /\ session.at \in {"backingup", "putflash"}) =>
       \A copy \in backups : copy.stamp < session.stamp
  /\ session # None => session.stamp <= stamp
  /\ \A copy \in backups : copy.stamp <= stamp

\* A session and its camera agree on the script and on the sizes.
InStep ==
  /\ (session # None /\ device.at \in {"running", "asking"}) => device.script = session.at
  /\ device.at = "running" => ~device.uploaded
  /\ (session # None /\ device.script = "putflash" /\ session.at = "putflash") =>
       device.size = session.size
  /\ (session # None /\ session.at \in AfterBackup \cup {"backingup", "putflash"}) =>
       /\ session.size \in FlashSizes /\ session.size <= FlashSize
       /\ session.req.fw \in {"lite", "ultimate"}
  /\ session # None => session.image <= session.size
  /\ (session # None /\ session.at \notin AfterBackup) => session.image = 0
  /\ \A i \in Images : images[i] # None => images[i] <= i[2]

Promise == INSTANCE FlashPromise WITH held <- Held, saved <- Saved

\* The install flow implements the promise: a block is only ever erased when a
\* backup has it, and no later backup replaces an earlier one.
PromiseKept == Promise!Spec

\* What is reported as finished is what was fetched: when the completion message
\* is sent, every block of the image in the flash is the memory that the script
\* loaded, whatever was on the flash and whatever failed, was broken off or begun
\* again before, unless sf erase or sf write of this very script reported an error,
\* which no line of it tests (openipc_nor_restore).
WrittenAsFetched ==
  [][~told.finished /\ told'.finished /\ ~spoilt =>
       \A b \in 1 .. session.image : flash[b] = ram]_vars

\* The completion message is not sent before the whole patched image is in the
\* flash (openipc_install, openipc_nor_restore).
FinishedMeansFlashed ==
  told.finished => \A b \in 1 .. told.size : flash[b] = "new"

\* A camera that runs or asks gets back to its prompt, or is bricked.
InstallEnds ==
  device.at \in {"running", "asking"} ~> device.at \in {"prompt", "bricked"}
===============================================================================
