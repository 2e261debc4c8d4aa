--------------------------- MODULE InstallFlowProofs ---------------------------
(***************************************************************************)
(* Proofs about InstallFlow, for every flash size, every set of requests    *)
(* and every set of faults.  That the original is kept needs a flash that   *)
(* can be read; the rest does not.                                          *)
(***************************************************************************)
EXTENDS InstallFlow, TLAPS

\* What sf read gives is what is in the flash.
Faithful == "read" \notin Faults

\* A backup that arrives has a size that is supported, and the restore script ends
\* within the flash.
Sized ==
  /\ device.at = "asking" /\ device.script = "putflash" /\ device.uploaded =>
       device.copy \in Copies
  /\ device.script = "restore" => device.size <= FlashSize

\* The inductive invariant.
IInv == InstallTypeOK /\ InStep /\ Sized /\ (Faithful => BackupFirst)

-------------------------------------------------------------------------------
(* What the three forms of a handler's step do to the types.                *)

\* An instruction (Instruct): the session keeps all but the instruction, and the camera
\* runs its script.
LEMMA Instructed ==
  ASSUME NEW s \in Scripts, NEW n \in Nat, NEW state \in Session, Instruct(s, n, state)
  PROVE  /\ session' \in Session /\ session' # None
         /\ session' = [state EXCEPT !.at = s]
         /\ session'.at = s /\ session'.req = state.req /\ session'.size = state.size
         /\ session'.stamp = state.stamp /\ session'.image = state.image
         /\ session'.saw = state.saw
         /\ device' \in Device
         /\ device'.at = "running" /\ device'.script = s /\ device'.size = n
         /\ device'.line = 0 /\ device'.uploaded = FALSE
<1>1. session' = [state EXCEPT !.at = s] BY DEF Instruct
<1>2. /\ session'.at = s /\ session'.req = state.req /\ session'.size = state.size
      /\ session'.stamp = state.stamp /\ session'.image = state.image
      /\ session'.saw = state.saw
      /\ session' \in Session
  BY <1>1 DEF Session
<1>3. session' # None BY <1>2, NoneIsNothing
<1>4. device' = [at |-> "running", script |-> s, size |-> n, line |-> 0,
                 uploaded |-> FALSE, copy |-> <<>>]
  BY DEF Instruct, Running, AtPrompt
<1>5. device' \in Device BY <1>4 DEF Device
<1> QED BY <1>1, <1>2, <1>3, <1>4, <1>5

\* A camera at its prompt (AtPrompt) is a camera.
LEMMA PromptIsDevice ==
  /\ AtPrompt \in Device
  /\ AtPrompt.at = "prompt" /\ AtPrompt.script = None /\ AtPrompt.size = 0
  /\ AtPrompt.line = 0 /\ ~AtPrompt.uploaded
BY DEF AtPrompt, Device

\* What may be erased depends on the flash and the backups only.
LEMMA SpareSame ==
  ASSUME UNCHANGED <<flash, backups>>
  PROVE  Spare' = Spare /\ Saved' = Saved /\ Held' = Held
BY DEF Spare, Saved, Held

-------------------------------------------------------------------------------
(* Steps that leave the flash and the files alone: what has to be known of   *)
(* the step for the invariant to survive it.                                 *)

Idle == UNCHANGED <<flash, ram, spoilt, backups, images>>

\* The invariant without the types of the variables that do not take part in it.
Core == /\ session \in Session \cup {None}
        /\ device \in Device
        /\ device.line \in 0 .. 2 * device.size + 1
        /\ InStep /\ Sized /\ (Faithful => BackupFirst)

\* What has to be known of the next instruction and the state it is sent in.
Ready(s, n, state) ==
  /\ stamp \in Nat /\ stamp' \in Nat /\ stamp <= stamp'
  /\ Faithful => state.stamp <= stamp'
  /\ Faithful /\ s = "restore" => 1 .. n \subseteq Spare
  /\ Faithful /\ s \in AfterBackup => 1 .. state.size \subseteq Spare
  /\ Faithful /\ s \in {"backingup", "putflash"} =>
       \A copy \in backups : copy.stamp < state.stamp
  /\ s = "putflash" => n = state.size
  /\ s = "restore" => n <= FlashSize
  /\ s \in AfterBackup \cup {"backingup", "putflash"} =>
       /\ state.size \in FlashSizes /\ state.size <= FlashSize
       /\ state.req.fw \in {"lite", "ultimate"}
  /\ state.image <= state.size
  /\ s \notin AfterBackup => state.image = 0

\* An instruction keeps the invariant if it is sent when that is known.
LEMMA InstructKeeps ==
  ASSUME IInv, Idle,
         NEW s \in Scripts, NEW n \in Nat, NEW state \in Session, Instruct(s, n, state),
         Ready(s, n, state)
  PROVE  Core'
<1>1. /\ session' \in Session /\ session' # None
      /\ session'.at = s /\ session'.req = state.req /\ session'.size = state.size
      /\ session'.stamp = state.stamp /\ session'.image = state.image
      /\ device' \in Device
      /\ device'.at = "running" /\ device'.script = s /\ device'.size = n
      /\ device'.line = 0 /\ ~device'.uploaded
  BY Instructed
<1>2. Spare' = Spare BY SpareSame DEF Idle
<1>3. Faithful => \A copy \in backups : copy.stamp <= stamp'
  <2>1. backups \subseteq Backup /\ (Faithful => \A copy \in backups : copy.stamp <= stamp)
    BY DEF IInv, InstallTypeOK, BackupFirst
  <2> QED BY <2>1 DEF Backup, Ready
<1>4. Faithful => BackupFirst'
  BY <1>1, <1>2, <1>3 DEF BackupFirst, Idle, Ready
<1>5. InStep'
  <2>1. \A i \in Images : images[i] # None => images[i] <= i[2]
    BY DEF IInv, InStep
  <2> QED BY <1>1, <2>1 DEF InStep, Idle, Ready
<1> QED BY <1>1, <1>4, <1>5 DEF Core, Sized, Ready

\* So does the end of a session, with or without a last script.
LEMMA EndKeeps ==
  ASSUME IInv, Idle, session' = None, UNCHANGED stamp,
         device' = AtPrompt \/ \E s \in Scripts \ {"restore"} : device' = Running(s, 0)
  PROVE  Core'
<1>1. /\ device' \in Device /\ device'.at # "asking" /\ device'.script # "restore"
      /\ device'.line = 0 /\ device'.size = 0 /\ ~device'.uploaded
  <2>1. CASE device' = AtPrompt
    BY <2>1, PromptIsDevice, NoneIsNothing DEF Scripts
  <2>2. CASE \E s \in Scripts \ {"restore"} : device' = Running(s, 0)
    <3>1. PICK s \in Scripts \ {"restore"} : device' = Running(s, 0) BY <2>2
    <3> QED BY <3>1 DEF Running, AtPrompt, Device
  <2> QED BY <2>1, <2>2
<1>2. Faithful => BackupFirst'
  BY <1>1 DEF BackupFirst, Idle, IInv
<1>3. InStep'
  BY <1>1 DEF InStep, Idle, IInv
<1> QED BY <1>1, <1>2, <1>3 DEF Core, Sized

\* The types that Core leaves out.
Rest == /\ flash \in [Blocks -> Contents] /\ ram \in {"new", "junk"}
        /\ spoilt \in BOOLEAN
        /\ backups \subseteq Backup /\ images \in [Images -> Nat \cup {None}]
        /\ jobs \in [Images -> JobStates] /\ stamp \in Nat
        /\ told \in Message

LEMMA Parts == ASSUME Core', Rest' PROVE IInv'
BY DEF IInv, InstallTypeOK, Core, Rest

LEMMA RestHolds == IInv => Rest
BY DEF IInv, InstallTypeOK, Rest

\* What is known of the state in which the handler is resumed after a script.
LEMMA ResumedIs ==
  ASSUME IInv, NEW s \in Scripts, Resumed(s)
  PROVE  /\ session \in Session /\ session.at = s /\ device.script = s
         /\ session.size \in Nat /\ session.stamp \in Nat /\ session.image \in Nat
         /\ session.req \in Request /\ session.image <= session.size
         /\ s \notin AfterBackup => session.image = 0
         /\ stamp \in Nat
         /\ Faithful => session.stamp <= stamp
         /\ Faithful /\ s \in AfterBackup => 1 .. session.size \subseteq Spare
         /\ s \in AfterBackup \cup {"backingup", "putflash"} =>
              /\ session.size \in FlashSizes /\ session.size <= FlashSize
              /\ session.req.fw \in {"lite", "ultimate"}
         /\ Faithful /\ s \in {"backingup", "putflash"} =>
              \A copy \in backups : copy.stamp < session.stamp
<1>1. session \in Session /\ session.at = s /\ stamp \in Nat
  BY DEF IInv, InstallTypeOK, Resumed
<1>2. /\ session.size \in Nat /\ session.stamp \in Nat /\ session.image \in Nat
      /\ session.req \in Request
  BY <1>1 DEF Session
<1> QED BY <1>1, <1>2 DEF IInv, BackupFirst, InStep, Resumed

\* A handler that leaves keeps the invariant.
LEMMA LeaveKeeps ==
  ASSUME IInv, Idle, UNCHANGED <<jobs, stamp, told>>, Leave
  PROVE  IInv'
<1>1. Core' BY EndKeeps DEF Leave
<1> QED BY <1>1, Parts, RestHolds DEF Rest, Idle

\* And a handler that sends its last script.
LEMMA LastKeeps ==
  ASSUME IInv, Idle, UNCHANGED <<jobs, stamp, told>>,
         NEW s \in Scripts \ {"restore"}, Last(s)
  PROVE  IInv'
<1>1. Core' BY EndKeeps DEF Last
<1> QED BY <1>1, Parts, RestHolds DEF Rest, Idle

-------------------------------------------------------------------------------
(* The handler's steps that leave the files alone.                          *)

\* An instruction for the session as it is, that needs nothing new.
LEMMA NextKeeps ==
  ASSUME IInv, Idle, NEW s \in Scripts, Resumed(s), NEW t \in Scripts, NEW n \in Nat,
         Instruct(t, n, session), jobs' \in [Images -> JobStates], UNCHANGED stamp,
         told' \in Message,
         t \in AfterBackup <=> s \in AfterBackup,
         t \in {"backingup", "putflash"} => s = "backingup",
         t = "restore" => n <= session.size,
         t = "putflash" => n = session.size
  PROVE  IInv'
<1>1. /\ session \in Session /\ session.size \in Nat /\ stamp \in Nat
      /\ session.image <= session.size
      /\ s \notin AfterBackup => session.image = 0
      /\ Faithful => session.stamp <= stamp
      /\ Faithful /\ s \in AfterBackup => 1 .. session.size \subseteq Spare
      /\ s \in AfterBackup \cup {"backingup", "putflash"} =>
              /\ session.size \in FlashSizes /\ session.size <= FlashSize
              /\ session.req.fw \in {"lite", "ultimate"}
      /\ Faithful /\ s \in {"backingup", "putflash"} =>
              \A copy \in backups : copy.stamp < session.stamp
  BY ResumedIs
<1>2. Faithful /\ t = "restore" => 1 .. n \subseteq Spare
  <2>1. t = "restore" => 1 .. n \subseteq 1 .. session.size
    BY <1>1
  <2> QED BY <1>1, <2>1 DEF AfterBackup
<1>3. stamp' \in Nat /\ stamp <= stamp' /\ (Faithful => session.stamp <= stamp')
  <2>1. session.stamp \in Nat BY ResumedIs
  <2> QED BY <1>1, <2>1
<1>4. t = "restore" => n <= FlashSize BY <1>1, SizesAreBlocks DEF AfterBackup
<1>6. Ready(t, n, session) BY <1>1, <1>2, <1>3, <1>4 DEF Ready, AfterBackup
<1>5. Core' BY <1>1, <1>6, InstructKeeps
<1> QED BY <1>3, <1>5, Parts, RestHolds DEF Rest, Idle

\* The reply to a request: the first instruction of a session.
LEMMA StartKeeps ==
  ASSUME IInv, NEW r \in Requests, Start(r)
  PROVE  IInv'
<1> DEFINE fresh == [req |-> r, at |-> "export", size |-> 0, stamp |-> 0, image |-> 0,
                     saw |-> "none"]
<1>1. /\ fresh \in Session /\ fresh.size = 0 /\ fresh.stamp = 0 /\ fresh.image = 0
  BY RequestsAreRequests DEF Session, Scripts, JobStates
<1>2. Instruct(FirstScript(r), 0, fresh) /\ Idle /\ UNCHANGED <<jobs, stamp>>
  BY DEF Start, Idle, files, memory
<1>3. FirstScript(r) \in {"export", "nomatch", "sfprobe"} BY DEF FirstScript
<1>4. stamp \in Nat BY DEF IInv, InstallTypeOK
<1> HIDE DEF fresh
<1>5. FirstScript(r) \in Scripts /\ Ready(FirstScript(r), 0, fresh)
  BY <1>1, <1>2, <1>3, <1>4 DEF Scripts, AfterBackup, Ready
<1>7. Core' BY <1>1, <1>2, <1>5, InstructKeeps
<1>6. told' \in Message
  BY DEF Start, Untold, Message
<1> QED BY <1>2, <1>6, <1>7, Parts, RestHolds DEF Rest, Idle

\* And the request whose first script is its last.
LEMMA BootKeeps ==
  ASSUME IInv, NEW r \in Requests, Boot(r)
  PROVE  IInv'
<1>1. Idle /\ Last("boot") /\ UNCHANGED <<jobs, stamp>>
  BY DEF Boot, Idle, files, memory
<1>2. "boot" \in Scripts \ {"restore"} BY DEF Scripts
<1>3. told' \in Message BY DEF Boot, Untold, Message
<1>4. Core' BY <1>1, <1>2, EndKeeps DEF Last
<1> QED BY <1>1, <1>3, <1>4, Parts, RestHolds DEF Rest, Idle

\* Steps of the handler that go on without a choice.
LEMMA GoOnKeeps == ASSUME IInv, GoOn PROVE IInv'
<1>1. PICK s \in DOMAIN Then :
        Resumed(s) /\ Instruct(Then[s], IF Then[s] = "putflash" THEN session.size ELSE 0,
                               session)
  BY DEF GoOn
<1>2. /\ s \in Scripts /\ Then[s] \in Scripts
      /\ Then[s] # "restore" /\ Then[s] # "backingup"
      /\ Then[s] = "putflash" => s = "backingup"
      /\ Then[s] \in AfterBackup <=> s \in AfterBackup
  BY DEF Then, Scripts, AfterBackup
<1>3. session.size \in Nat BY <1>1, <1>2, ResumedIs
<1>4. Idle /\ UNCHANGED <<jobs, stamp, told>>
  BY DEF GoOn, Idle, files, memory
<1>5. jobs' \in [Images -> JobStates] /\ told' \in Message
  BY <1>4 DEF IInv, InstallTypeOK
<1> DEFINE n == IF Then[s] = "putflash" THEN session.size ELSE 0
<1>6. n \in Nat /\ Instruct(Then[s], n, session) BY <1>1, <1>3
<1>7. Then[s] = "putflash" => n = session.size OBVIOUS
<1> HIDE DEF n
<1> QED BY <1>1, <1>2, <1>4, <1>5, <1>6, <1>7, NextKeeps

\* Steps that lead from one instruction to the next and leave the rest alone.
LEMMA SimpleStepsKeep ==
  ASSUME IInv, EnvReceived \/ UseCached \/ PatchEnv \/ Restore \/ AskNewAddress
               \/ AcquireImage \/ Finish
               \/ (ProbeSucceeds /\ session.req.cmd # "probe")
  PROVE  IInv'
<1>1. jobs \in [Images -> JobStates] /\ told \in Message
  BY DEF IInv, InstallTypeOK
<1> USE DEF Scripts, AfterBackup
<1>2. CASE EnvReceived
  <2>1. Resumed("putenv") /\ Instruct("envok", 0, session) /\ Idle
        /\ UNCHANGED <<jobs, stamp, told>>
    BY <1>2 DEF EnvReceived, Idle, files, memory
  <2> QED BY <1>1, <2>1, NextKeeps
<1>3. CASE UseCached
  <2>1. Resumed("saved") /\ Instruct("cached", 0, session) /\ Idle
        /\ UNCHANGED <<jobs, stamp, told>>
    BY <1>3 DEF UseCached, Idle, files, memory
  <2> QED BY <1>1, <2>1, NextKeeps
<1>4. CASE PatchEnv
  <2>1. Resumed("extracting") /\ Instruct("patched", 0, session) /\ Idle
        /\ UNCHANGED <<jobs, stamp, told>>
    BY <1>4 DEF PatchEnv, Idle, files, memory
  <2> QED BY <1>1, <2>1, NextKeeps
<1>5. CASE Restore
  <2>1. Resumed("patched") /\ Instruct("restore", session.image, session) /\ Idle
        /\ UNCHANGED <<jobs, stamp, told>>
    BY <1>5 DEF Restore, Idle, files, memory
  <2>2. session.image \in Nat /\ session.image <= session.size
    BY <2>1, ResumedIs
  <2> QED BY <1>1, <2>1, <2>2, NextKeeps
<1>6. CASE AskNewAddress
  <2>1. Resumed("restore") /\ Instruct("newip", 0, session) /\ Idle
        /\ UNCHANGED <<jobs, stamp, told>>
    BY <1>6 DEF AskNewAddress, Idle, files, memory
  <2> QED BY <1>1, <2>1, NextKeeps
<1>7. CASE AcquireImage
  <2>1. Resumed("saved") /\ Instruct("downloading", 0, session) /\ Idle
        /\ UNCHANGED <<stamp, told>>
    BY <1>7 DEF AcquireImage, Idle, memory
  <2>2. jobs' \in [Images -> JobStates]
    BY <1>1, <1>7 DEF AcquireImage, JobStates
  <2> QED BY <1>1, <2>1, <2>2, NextKeeps
<1>8. CASE Finish
  <2>1. (Resumed("newip") \/ Resumed("restore")) /\ Instruct("finished", 0, session)
        /\ Idle /\ UNCHANGED <<jobs, stamp>>
    BY <1>8 DEF Finish, Idle, files, memory
  <2>2. session.size \in Nat /\ session.stamp \in Nat
    BY <2>1, ResumedIs
  <2>3. told' \in Message BY <1>8, <2>2 DEF Finish, Message
  <2> QED BY <1>1, <2>1, <2>3, NextKeeps
<1>9. CASE ProbeSucceeds /\ session.req.cmd # "probe"
  <2>1. Resumed("sfprobe") /\ Instruct("size", 0, session)
        /\ Idle /\ UNCHANGED <<jobs, stamp, told>>
    BY <1>9 DEF ProbeSucceeds, Idle, files, memory
  <2> QED BY <1>1, <2>1, NextKeeps
<1> QED BY <1>2, <1>3, <1>4, <1>5, <1>6, <1>7, <1>8, <1>9

\* The snapshot of the download, and its image, are noted in the session.
LEMMA PollKeeps == ASSUME IInv, Poll PROVE IInv'
<1> DEFINE state == [session EXCEPT !.saw = jobs[Image]]
<1>1. PICK s \in {"downloading", "progress"} : Resumed(s)
  BY DEF Poll, StillPending
<1>2. /\ session \in Session /\ stamp \in Nat /\ session.size \in Nat
      /\ session.stamp \in Nat
      /\ session.image <= session.size
      /\ Faithful => session.stamp <= stamp /\ 1 .. session.size \subseteq Spare
      /\ session.size \in FlashSizes /\ session.size <= FlashSize
      /\ session.req.fw \in {"lite", "ultimate"}
  BY <1>1, ResumedIs DEF Scripts, AfterBackup
<1>3. jobs[Image] \in JobStates
  BY <1>2 DEF IInv, InstallTypeOK, Image, Images
<1>4. /\ state \in Session /\ state.req = session.req /\ state.size = session.size
      /\ state.stamp = session.stamp /\ state.image = session.image
  BY <1>2, <1>3 DEF Session
<1>5. Instruct("progress", 0, state) /\ Idle /\ UNCHANGED <<jobs, stamp, told>>
  BY DEF Poll, Idle, files, memory
<1> HIDE DEF state
<1>6. "progress" \in Scripts /\ Ready("progress", 0, state)
  BY <1>2, <1>4, <1>5 DEF Scripts, AfterBackup, Ready
<1>7. Core' BY <1>4, <1>5, <1>6, InstructKeeps
<1> QED BY <1>5, <1>7, Parts, RestHolds DEF Rest, Idle

LEMMA ReadImageKeeps == ASSUME IInv, ReadImage PROVE IInv'
<1> DEFINE state == [session EXCEPT !.image = images[Image]]
<1>1. PICK s \in {"cached", "progress"} : Resumed(s)
  BY DEF ReadImage, Downloaded
<1>2. /\ session \in Session /\ stamp \in Nat /\ session.size \in Nat
      /\ session.stamp \in Nat
      /\ Faithful => session.stamp <= stamp /\ 1 .. session.size \subseteq Spare
      /\ session.size \in FlashSizes /\ session.size <= FlashSize
      /\ session.req.fw \in {"lite", "ultimate"}
  BY <1>1, ResumedIs DEF Scripts, AfterBackup
<1>3. images[Image] \in Nat /\ images[Image] <= session.size
  <2>1. Image \in Images /\ Image[2] = session.size BY <1>2 DEF Image, Images
  <2>2. images[Image] # None BY DEF ReadImage
  <2> QED BY <2>1, <2>2 DEF IInv, InstallTypeOK, InStep
<1>4. /\ state \in Session /\ state.req = session.req /\ state.size = session.size
      /\ state.stamp = session.stamp /\ state.image = images[Image]
  BY <1>2, <1>3 DEF Session
<1>5. Instruct("extracting", 0, state) /\ Idle /\ UNCHANGED <<jobs, stamp, told>>
  BY DEF ReadImage, Idle, files, memory
<1> HIDE DEF state
<1>6. "extracting" \in Scripts /\ Ready("extracting", 0, state)
  BY <1>2, <1>3, <1>4, <1>5 DEF Scripts, AfterBackup, Ready
<1>7. Core' BY <1>4, <1>5, <1>6, InstructKeeps
<1> QED BY <1>5, <1>7, Parts, RestHolds DEF Rest, Idle

\* A request that is accepted has a size that the flash has, and a new stamp.
LEMMA AcceptKeeps ==
  ASSUME IInv, NEW s \in {"sfprobe", "size"}, Resumed(s), NEW size \in Nat,
         size <= FlashSize, Accept(size)
  PROVE  IInv'
<1> DEFINE state == [session EXCEPT !.size = size, !.stamp = NewStamp]
<1>1. /\ session \in Session /\ stamp \in Nat /\ session.image = 0
      /\ session.req \in Request
  BY ResumedIs DEF Scripts, AfterBackup
<1>2. /\ size \in FlashSizes
      /\ session.req.fw \in {"lite", "ultimate"}
  BY DEF Accept, Acceptable, Named
<1>3. NewStamp \in Nat /\ stamp < NewStamp /\ stamp' = NewStamp
  BY <1>1 DEF NewStamp, Accept
<1>4. /\ state \in Session /\ state.req = session.req /\ state.size = size
      /\ state.stamp = NewStamp /\ state.image = 0
  BY <1>1, <1>3 DEF Session
<1>5. Faithful => \A copy \in backups : copy.stamp < NewStamp
  <2>1. backups \subseteq Backup /\ (Faithful => \A copy \in backups : copy.stamp <= stamp)
    BY DEF IInv, InstallTypeOK, BackupFirst
  <2> QED BY <1>1, <1>3, <2>1 DEF Backup
<1>6. Instruct("backingup", 0, state) /\ Idle /\ UNCHANGED <<jobs, told>>
  BY DEF Accept, Idle, files, memory
<1> HIDE DEF state
<1>7. "backingup" \in Scripts /\ Ready("backingup", 0, state)
  <2>1. 0 <= size OBVIOUS
  <2> QED BY <1>1, <1>2, <1>3, <1>4, <1>5, <2>1 DEF Scripts, AfterBackup, Ready
<1>8. Core' BY <1>4, <1>6, <1>7, InstructKeeps
<1> QED BY <1>3, <1>6, <1>8, Parts, RestHolds DEF Rest, Idle

\* Whatever a command does with the size that the probe found.
LEMMA UseSizeKeeps ==
  ASSUME IInv, NEW s \in {"sfprobe", "size"}, Resumed(s), NEW size \in Nat,
         size <= FlashSize, UseSize(size)
  PROVE  IInv'
<1>1. session \in Session BY ResumedIs DEF Scripts
<1>2. CASE Accept(size) BY <1>2, AcceptKeeps
<1>3. CASE Refuse(size)
  BY <1>1, <1>3, LastKeeps DEF Refuse, Idle, files, memory, Scripts
<1>4. CASE RefuseMisspelt(size)
  BY <1>1, <1>4, LeaveKeeps DEF RefuseMisspelt, Idle, files, memory
<1>5. CASE BackupRaises
  BY <1>1, <1>5, LeaveKeeps DEF BackupRaises, Idle, files, memory
<1>6. CASE ProbeReturns
  BY <1>1, <1>6, LeaveKeeps DEF ProbeReturns, Idle, files, memory
<1> QED BY <1>2, <1>3, <1>4, <1>5, <1>6 DEF UseSize

\* The probe never reports more than the flash has.
LEMMA ProbesWithin ==
  ASSUME NEW cap \in Nat, NEW size \in ProbeSizes \cup {0}, Probes(cap, size)
  PROVE  size \in Nat /\ size <= FlashSize
BY SizesAreBlocks DEF Probes

LEMMA ProbeKeeps ==
  ASSUME IInv, ProbeFails \/ SizeKnown \/ (ProbeSucceeds /\ session.req.cmd = "probe")
  PROVE  IInv'
<1>1. CASE ProbeFails
  BY <1>1, UseSizeKeeps, SizesAreBlocks DEF ProbeFails
<1>2. CASE SizeKnown
  <2>1. PICK size \in ProbeSizes \cup {0} : Probes(session.req.cap, size) /\ UseSize(size)
    BY <1>2 DEF SizeKnown
  <2>2. session.req.cap \in Nat
    <3>1. session.req \in Request BY <1>2, ResumedIs DEF SizeKnown, Scripts
    <3> QED BY <3>1 DEF Request
  <2>3. size \in Nat /\ size <= FlashSize BY <2>1, <2>2, ProbesWithin
  <2> QED BY <1>2, <2>1, <2>3, UseSizeKeeps DEF SizeKnown
<1>3. CASE ProbeSucceeds /\ session.req.cmd = "probe"
  <2>1. session \in Session BY <1>3, ResumedIs DEF ProbeSucceeds, Scripts
  <2> QED BY <1>3, <2>1, LastKeeps DEF ProbeSucceeds, Idle, files, memory, Scripts
<1> QED BY <1>1, <1>2, <1>3

\* Every way in which a handler ends after the probe.
LEMMA EndsKeep ==
  ASSUME IInv, CountedDown \/ ReceiveFails \/ DownloadFailed \/ ReadEmpty \/ PatchRaises
  PROVE  IInv'
<1>1. session \in Session
  BY ResumedIs DEF CountedDown, ReceiveFails, DownloadFailed, ReadEmpty, Downloaded,
                   PatchRaises, Scripts
<1>2. CASE CountedDown
  BY <1>1, <1>2, LastKeeps DEF CountedDown, Idle, files, memory, Scripts
<1>3. CASE ReceiveFails
  BY <1>1, <1>3, LeaveKeeps DEF ReceiveFails, Idle, files, memory
<1>4. CASE DownloadFailed
  BY <1>1, <1>4, LeaveKeeps DEF DownloadFailed, Idle, files, memory
<1>5. CASE ReadEmpty
  BY <1>1, <1>5, LeaveKeeps DEF ReadEmpty, Idle, files, memory
<1>6. CASE PatchRaises
  BY <1>1, <1>6, LeaveKeeps DEF PatchRaises, Idle, files, memory
<1> QED BY <1>2, <1>3, <1>4, <1>5, <1>6

-------------------------------------------------------------------------------
(* The steps that the promise is about.                                     *)

\* SaveBackup replaces no file, and adds the original blocks that the flash holds.
LEMMA SaveAdds ==
  ASSUME IInv, Faithful, SaveBackup
  PROVE  /\ backups' = backups \cup {[stamp |-> session.stamp,
                                      body |-> [b \in 1 .. session.size |-> flash[b]]]}
         /\ backups' \subseteq Backup
         /\ Saved' = Saved \cup {b \in 1 .. session.size : flash[b] = "orig"}
         /\ 1 .. session.size \subseteq Spare'
         /\ Held' = Held
<1> DEFINE body == [b \in 1 .. session.size |-> flash[b]]
           file == [stamp |-> session.stamp, body |-> body]
<1>1. Resumed("putflash") /\ device.uploaded BY DEF SaveBackup
<1>2. /\ session \in Session /\ device.script = "putflash"
      /\ session.size \in FlashSizes /\ session.size <= FlashSize
      /\ session.stamp \in Nat /\ session.size \in Nat
      /\ \A copy \in backups : copy.stamp < session.stamp
  BY <1>1, ResumedIs DEF Scripts
<1>3. device.size = session.size /\ device.copy = body
  BY <1>1, <1>2 DEF IInv, InStep, BackupFirst, Resumed
<1>4. {b \in backups : b.stamp # session.stamp} = backups
  <2>1. backups \subseteq Backup BY DEF IInv, InstallTypeOK
  <2> QED BY <1>2, <2>1 DEF Backup
<1>5. backups' = backups \cup {file} BY <1>3, <1>4 DEF SaveBackup
<1>6. flash \in [Blocks -> Contents] /\ flash' = flash
  BY DEF IInv, InstallTypeOK, SaveBackup, memory
<1>7. 1 .. session.size \subseteq Blocks BY <1>2, SizesAreBlocks DEF Blocks
<1>8. body \in Copies
  <2>1. body \in [1 .. session.size -> Contents] BY <1>6, <1>7
  <2> QED BY <1>2, <2>1 DEF Copies
<1>9. backups' \subseteq Backup
  <2>1. backups \subseteq Backup BY DEF IInv, InstallTypeOK
  <2> HIDE DEF body
  <2>2. file \in Backup BY <1>2, <1>8 DEF Backup
  <2> QED BY <1>5, <2>1, <2>2
<1>10. Saved' = Saved \cup {b \in 1 .. session.size : flash[b] = "orig"}
  <2>1. file.body = body BY DEF file
  <2>2. DOMAIN body = 1 .. session.size /\ \A b \in 1 .. session.size : body[b] = flash[b]
    BY DEF body
  <2> HIDE DEF file, body
  <2>3. \A b \in Blocks :
          (\E copy \in backups' : b \in DOMAIN copy.body /\ copy.body[b] = "orig")
            <=> \/ \E copy \in backups : b \in DOMAIN copy.body /\ copy.body[b] = "orig"
                \/ b \in 1 .. session.size /\ flash[b] = "orig"
    BY <1>5, <2>1, <2>2
  <2> QED BY <1>7, <2>3 DEF Saved
<1>11. 1 .. session.size \subseteq Spare'
  BY <1>6, <1>7, <1>10 DEF Spare
<1> QED BY <1>5, <1>6, <1>9, <1>10, <1>11 DEF Held

LEMMA SaveKeeps == ASSUME IInv, SaveBackup PROVE IInv'
<1>1. Resumed("putflash") BY DEF SaveBackup
<1>2. /\ session \in Session /\ session.size \in Nat /\ session.stamp \in Nat
      /\ session.size \in FlashSizes /\ session.size <= FlashSize
      /\ session.req.fw \in {"lite", "ultimate"}
      /\ stamp \in Nat /\ session.image <= session.size
      /\ Faithful => session.stamp <= stamp
  BY <1>1, ResumedIs DEF Scripts
<1>3. Instruct("saved", 0, session) /\ UNCHANGED <<memory, images, jobs, stamp, told>>
  BY DEF SaveBackup
<1>4. /\ session' \in Session /\ session' # None
      /\ session'.at = "saved" /\ session'.req = session.req
      /\ session'.size = session.size
      /\ session'.stamp = session.stamp /\ session'.image = session.image
      /\ device' \in Device
      /\ device'.at = "running" /\ device'.script = "saved" /\ device'.size = 0
      /\ device'.line = 0 /\ ~device'.uploaded
  BY <1>2, <1>3, Instructed DEF Scripts
<1>5. Faithful => BackupFirst'
  <2> SUFFICES ASSUME Faithful PROVE BackupFirst' OBVIOUS
  <2>1. \A copy \in backups' : copy.stamp <= stamp'
    <3>1. \A copy \in backups : copy.stamp <= stamp BY DEF IInv, BackupFirst
    <3> QED BY <1>2, <1>3, <3>1, SaveAdds
  <2>2. 1 .. session'.size \subseteq Spare' BY <1>4, SaveAdds
  <2> QED BY <1>2, <1>3, <1>4, <2>1, <2>2 DEF BackupFirst
<1>6. InStep'
  <2>1. \A i \in Images : images[i] # None => images[i] <= i[2]
    BY DEF IInv, InStep
  <2> QED BY <1>2, <1>3, <1>4, <2>1 DEF InStep, AfterBackup
<1>7. Core' BY <1>4, <1>5, <1>6 DEF Core, Sized
<1>8. backups' \subseteq Backup
  <2>1. device.copy \in Copies /\ backups \subseteq Backup
    BY <1>1, ResumedIs DEF IInv, InstallTypeOK, Sized, SaveBackup, Resumed, Scripts
  <2> DEFINE file == [stamp |-> session.stamp, body |-> device.copy]
  <2>2. file \in Backup BY <1>2, <2>1 DEF Backup
  <2>3. backups' = {b \in backups : b.stamp # session.stamp} \cup {file} BY DEF SaveBackup
  <2> HIDE DEF file
  <2> QED BY <2>1, <2>2, <2>3
<1> QED BY <1>3, <1>7, <1>8, Parts, RestHolds DEF Rest, memory

\* A line of the restore script, whether it succeeds or fails, changes at most one block,
\* never into an original one, and with faithful backups one that is spare.
FlashStep(b, v) == /\ flash' = [flash EXCEPT ![b] = v]
                   /\ v = flash[b] \/ v # "orig"
                   /\ Faithful => b \in Spare
                   /\ \E l \in device.line + 1 .. 2 * device.size + 1 :
                        device' = [device EXCEPT !.line = l]
                   /\ device.at = "running" /\ device.script = "restore"
                   /\ spoilt' \in BOOLEAN
                   /\ UNCHANGED <<session, ram, files, stamp, told>>

FlashLine == EraseBlock \/ EraseFails \/ WriteBlock \/ WriteFails

LEMMA RestoreSteps ==
  ASSUME IInv, FlashLine
  PROVE  \E b \in Blocks, v \in Contents : FlashStep(b, v)
<1> DEFINE Goes(l) == device' = [device EXCEPT !.line = l]
<1>1. /\ device.at = "running" /\ device.script = "restore"
      /\ device.size \in Nat /\ device.line \in Nat
      /\ device.size <= FlashSize /\ flash \in [Blocks -> Contents]
      /\ Faithful => 1 .. device.size \subseteq Spare
      /\ spoilt \in BOOLEAN
      /\ UNCHANGED <<session, ram, files, stamp, told>>
  BY DEF FlashLine, EraseBlock, EraseFails, WriteBlock, WriteFails, Runs, IInv,
         InstallTypeOK, Device, BackupFirst, Sized
<1>2. 1 .. device.size \subseteq Blocks BY <1>1, SizesAreBlocks DEF Blocks
<1>3. CASE EraseBlock
  <2>1. /\ device.line \in 1 .. device.size
        /\ device.line + 1 \in device.line + 1 .. 2 * device.size + 1
    BY <1>1, <1>3 DEF EraseBlock
  <2>2. Goes(device.line + 1) BY <1>3 DEF EraseBlock, NextLine
  <2>3. FlashStep(device.line, "blank")
    BY <1>1, <1>3, <2>1, <2>2 DEF EraseBlock, FlashStep
  <2> QED BY <1>2, <2>1, <2>3 DEF Contents
<1>4. CASE EraseFails
  <2>1. /\ device.line \in 1 .. device.size
        /\ device.size + 1 \in device.line + 1 .. 2 * device.size + 1
    BY <1>1, <1>4 DEF EraseFails
  <2>2. PICK c \in {flash[device.line], "junk"} : flash' = [flash EXCEPT ![device.line] = c]
    BY <1>4 DEF EraseFails
  <2>3. Goes(device.size + 1) /\ spoilt' \in BOOLEAN BY <1>4 DEF EraseFails
  <2>4. FlashStep(device.line, c) BY <1>1, <2>1, <2>2, <2>3 DEF FlashStep
  <2>5. c \in Contents BY <1>1, <1>2, <2>1 DEF Contents
  <2> QED BY <1>2, <2>1, <2>4, <2>5
<1>5. CASE WriteBlock
  <2> DEFINE w == device.line - device.size
  <2>1. /\ w \in 1 .. device.size
        /\ device.line + 1 \in device.line + 1 .. 2 * device.size + 1
    BY <1>1, <1>5 DEF WriteBlock
  <2>2. Programmed(flash[w], ram) \in {"new", "junk"}
    BY DEF IInv, InstallTypeOK, Programmed
  <2>3. Goes(device.line + 1) BY <1>5 DEF WriteBlock, NextLine
  <2>4. flash' = [flash EXCEPT ![w] = Programmed(flash[w], ram)] /\ spoilt' = spoilt
    BY <1>5 DEF WriteBlock
  <2> HIDE DEF w
  <2>5. FlashStep(w, Programmed(flash[w], ram))
    BY <1>1, <2>1, <2>2, <2>3, <2>4 DEF FlashStep
  <2> QED BY <1>2, <2>1, <2>2, <2>5 DEF Contents
<1>6. CASE WriteFails
  <2> DEFINE w == device.line - device.size
  <2>1. /\ w \in 1 .. device.size
        /\ 2 * device.size + 1 \in device.line + 1 .. 2 * device.size + 1
    BY <1>1, <1>6 DEF WriteFails
  <2>2. PICK c \in {flash[w], "junk"} : flash' = [flash EXCEPT ![w] = c]
    BY <1>6 DEF WriteFails
  <2>3. Goes(2 * device.size + 1) /\ spoilt' \in BOOLEAN BY <1>6 DEF WriteFails
  <2> HIDE DEF w
  <2>4. FlashStep(w, c) BY <1>1, <2>1, <2>2, <2>3 DEF FlashStep
  <2>5. c \in Contents BY <1>1, <1>2, <2>1 DEF Contents
  <2> QED BY <1>2, <2>1, <2>4, <2>5
<1> QED BY <1>3, <1>4, <1>5, <1>6 DEF FlashLine

\* Such a step gives up at most the one block, which is saved.
LEMMA FlashStepGivesUp ==
  ASSUME IInv, NEW b \in Blocks, NEW v \in Contents, FlashStep(b, v)
  PROVE  /\ Saved' = Saved /\ Spare \subseteq Spare'
         /\ Held' = Held \/ Held' = Held \ {b}
         /\ Faithful => b \in Saved \/ b \notin Held
<1>1. flash \in [Blocks -> Contents] /\ flash' = [flash EXCEPT ![b] = v]
      /\ (v = flash[b] \/ v # "orig") /\ (Faithful => b \in Spare) /\ backups' = backups
  BY DEF IInv, InstallTypeOK, FlashStep, files
<1>2. Saved' = Saved BY <1>1 DEF Saved
<1>3. Held' = Held \/ Held' = Held \ {b}
  <2>1. CASE v = flash[b] BY <1>1, <2>1 DEF Held
  <2>2. CASE v # "orig" BY <1>1, <2>2 DEF Held
  <2> QED BY <1>1, <2>1, <2>2
<1>4. Spare \subseteq Spare' BY <1>1, <1>2 DEF Spare
<1> QED BY <1>1, <1>2, <1>3, <1>4 DEF Spare, Held

LEMMA FlashStepKeeps ==
  ASSUME IInv, NEW b \in Blocks, NEW v \in Contents, FlashStep(b, v)
  PROVE  IInv'
<1>1. /\ device \in Device /\ device.line \in Nat /\ device.size \in Nat
      /\ session \in Session \cup {None} /\ flash \in [Blocks -> Contents]
  BY DEF IInv, InstallTypeOK, Device
<1>2. PICK l \in device.line + 1 .. 2 * device.size + 1 : device' = [device EXCEPT !.line = l]
  BY DEF FlashStep
<1>11. l \in Nat /\ device.at = "running" /\ device.script = "restore"
  BY <1>1, <1>2 DEF FlashStep
<1>3. /\ device' \in Device /\ device'.line = l
      /\ device'.size = device.size /\ device'.at = "running"
      /\ device'.script = "restore" /\ ~device'.uploaded
  BY <1>1, <1>2, <1>11 DEF Device, IInv, InStep
<1>4. device'.line \in 0 .. 2 * device'.size + 1 BY <1>1, <1>2, <1>3
<1>5. UNCHANGED <<session, ram, backups, images, jobs, stamp, told>> /\ spoilt' \in BOOLEAN
  BY DEF FlashStep, files
<1>6. flash' \in [Blocks -> Contents] BY <1>1 DEF FlashStep
<1>7. Spare \subseteq Spare' BY FlashStepGivesUp
<1>8. Faithful => BackupFirst'
  BY <1>11, <1>3, <1>5, <1>7 DEF BackupFirst, IInv
<1>9. InStep' /\ Sized'
  BY <1>11, <1>3, <1>5 DEF InStep, Sized, IInv
<1>10. Core' BY <1>1, <1>3, <1>4, <1>5, <1>8, <1>9 DEF Core
<1> QED BY <1>5, <1>6, <1>10, Parts, RestHolds DEF Rest

-------------------------------------------------------------------------------
(* The camera's other steps, the thread, and what comes from outside.       *)

\* A camera that goes on or stops, while memory may change.
Moves == /\ UNCHANGED <<session, flash, backups, images, jobs, stamp, told>>
         /\ ram' \in {"new", "junk"} /\ spoilt' \in BOOLEAN

LEMMA MoveKeeps ==
  ASSUME IInv, Moves, device' \in Device,
         device'.line \in 0 .. 2 * device'.size + 1,
         \/ device'.at \notin {"running", "asking"} /\ device'.script = None
         \/ /\ device.at = "running"
            /\ device'.script = device.script /\ device'.size = device.size,
         device'.at = "running" => ~device'.uploaded,
         device'.at = "asking" /\ device'.script = "putflash" /\ device'.uploaded =>
           /\ device'.copy \in Copies
           /\ Faithful => device'.copy = [b \in 1 .. device'.size |-> flash[b]]
  PROVE  IInv'
<1>1. Spare' = Spare BY SpareSame DEF Moves
<1>2. None # "restore" /\ None # "putflash"
  BY NoneIsNothing DEF Scripts
<1>3. Faithful => BackupFirst'
  BY <1>1, <1>2 DEF BackupFirst, Moves, IInv
<1>4. InStep' /\ Sized'
  BY <1>2 DEF InStep, Sized, Moves, IInv
<1>5. Core' BY <1>3, <1>4 DEF Core, IInv, InstallTypeOK, Moves
<1> QED BY <1>5, Parts, RestHolds DEF Rest, Moves

\* A camera that asks has its script and size still; it brings what it uploaded.
LEMMA AskIs ==
  ASSUME IInv, device.at = "running", NEW up \in BOOLEAN, NEW copy \in Copies \cup {<<>>},
         device' = [device EXCEPT !.at = "asking", !.uploaded = up, !.copy = copy]
  PROVE  /\ device' \in Device /\ device'.at = "asking" /\ device'.uploaded = up
         /\ device'.script = device.script /\ device'.size = device.size
         /\ device'.line = device.line /\ device'.copy = copy
         /\ device'.line \in 0 .. 2 * device'.size + 1
BY DEF IInv, InstallTypeOK, Device

\* Nothing was uploaded while the camera runs.
LEMMA PlainAskKeeps ==
  ASSUME IInv, Moves, device.at = "running", Ask
  PROVE  IInv'
<1>1. /\ device \in Device /\ device.line \in 0 .. 2 * device.size + 1
      /\ device' = [device EXCEPT !.at = "asking"]
  BY DEF IInv, InstallTypeOK, Ask
<1>2. /\ device' \in Device /\ device'.at = "asking"
      /\ device'.script = device.script /\ device'.size = device.size
      /\ device'.line = device.line /\ ~device'.uploaded
  BY <1>1 DEF Device, IInv, InStep
<1> QED BY <1>1, <1>2, MoveKeeps

LEMMA RunPutKeeps ==
  ASSUME IInv, RunPut
  PROVE  IInv'
<1>1. /\ device.at = "running" /\ device.script \in {"putenv", "putflash"}
      /\ session # None /\ session \in Session /\ device \in Device
  BY DEF RunPut, Runs, IInv, InstallTypeOK
<1>2. Moves
  BY DEF RunPut, Moves, files, memory, IInv, InstallTypeOK
<1>3. CASE device.script = "putenv"
  <2>1. device' = [device EXCEPT !.at = "asking", !.uploaded = TRUE, !.copy = <<>>]
    BY <1>1, <1>3 DEF RunPut, Runs, AskAfterPut
  <2> QED BY <1>1, <1>2, <1>3, <2>1, AskIs, MoveKeeps
<1>4. CASE device.script = "putflash"
  <2>1. PICK body \in ReadFlash :
          device' = [device EXCEPT !.at = "asking", !.uploaded = TRUE, !.copy = body]
    BY <1>1, <1>4 DEF RunPut, Runs, AskAfterPut
  <2>2. session.at = "putflash" BY <1>1, <1>4 DEF IInv, InStep
  <2>3. device.size = session.size /\ session.size \in FlashSizes
        /\ session.size <= FlashSize
    BY <1>1, <1>4, <2>2 DEF IInv, InStep
  <2>4. 1 .. device.size \subseteq Blocks
    BY <2>3, SizesAreBlocks DEF Blocks, FlashSizes
  <2>5. body \in [1 .. device.size -> Contents]
    BY <2>4 DEF IInv, InstallTypeOK, ReadFlash, Contents
  <2>6. body \in Copies BY <2>3, <2>5 DEF Copies
  <2>7. /\ device' \in Device /\ device'.at = "asking"
        /\ device'.script = device.script /\ device'.size = device.size
        /\ device'.copy = body
        /\ device'.line \in 0 .. 2 * device'.size + 1
    BY <1>1, <2>1, <2>6, AskIs
  <2>8. Faithful => device'.copy = [b \in 1 .. device'.size |-> flash[b]]
    BY <2>7 DEF Faithful, ReadFlash
  <2> QED BY <1>1, <1>2, <2>6, <2>7, <2>8, MoveKeeps
<1> QED BY <1>1, <1>3, <1>4

\* The camera back at its prompt, or bricked.
LEMMA StopKeeps ==
  ASSUME IInv, Moves, device' = AtPrompt \/ device' = [AtPrompt EXCEPT !.at = "bricked"]
  PROVE  IInv'
<1>1. /\ device' \in Device /\ device'.at \in {"prompt", "bricked"}
      /\ device'.script = None /\ device'.size = 0 /\ device'.line = 0
  <2>1. CASE device' = AtPrompt BY <2>1 DEF AtPrompt, Device
  <2>2. CASE device' = [AtPrompt EXCEPT !.at = "bricked"]
    <3>1. device' = [at |-> "bricked", script |-> None, size |-> 0, line |-> 0,
                     uploaded |-> FALSE, copy |-> <<>>]
      BY <2>2 DEF AtPrompt
    <3> QED BY <3>1 DEF Device
  <2> QED BY <2>1, <2>2
<1> QED BY <1>1, MoveKeeps

LEMMA RebootKeeps == ASSUME IInv, Reboot PROVE IInv'
BY StopKeeps DEF Reboot, Moves, files

LEMMA RunKeeps ==
  ASSUME IInv, Run
  PROVE  IInv'
<1>1. ram \in {"new", "junk"} /\ spoilt \in BOOLEAN BY DEF IInv, InstallTypeOK
<1>2. CASE RunPlain \/ PutBreaks \/ RunRestored
  BY <1>1, <1>2, PlainAskKeeps
     DEF RunPlain, PutBreaks, RunRestored, Runs, Moves, files, memory
<1>3. CASE RunPut BY <1>3, RunPutKeeps
<1>4. CASE FetchImage
  <2>1. /\ device \in Device /\ device.line = 0 /\ device.at = "running"
        /\ device.size \in Nat /\ ~device.uploaded
        /\ device' = [device EXCEPT !.line = @ + 1]
    BY <1>4 DEF FetchImage, NextLine, Runs, IInv, InstallTypeOK, InStep, Device
  <2>2. /\ device' \in Device /\ device'.line = 1 /\ device'.at = "running"
        /\ device'.script = device.script /\ device'.size = device.size
        /\ ~device'.uploaded
    BY <2>1 DEF Device
  <2>3. device'.line \in 0 .. 2 * device'.size + 1 BY <2>1, <2>2
  <2>4. Moves BY <1>4 DEF FetchImage, Moves, files
  <2> QED BY <2>1, <2>2, <2>3, <2>4, MoveKeeps
<1>5. CASE FlashLine
  BY <1>5, RestoreSteps, FlashStepKeeps
<1>6. CASE RunLast \/ MissContinuation
  BY <1>1, <1>6, StopKeeps DEF RunLast, MissContinuation, Moves, files, memory
<1>7. CASE RunReset BY <1>7, RebootKeeps DEF RunReset
<1> QED BY <1>2, <1>3, <1>4, <1>5, <1>6, <1>7 DEF Run, FlashLine

\* The download thread publishes no more than an image has.
LEMMA DownloadKeeps == ASSUME IInv, Download PROVE IInv'
<1>1. PICK i \in Images : Publish(i) \/ FailDownload(i) BY DEF Download
<1>2. UNCHANGED <<session, device, flash, ram, spoilt, backups, stamp, told>>
  BY <1>1 DEF Publish, FailDownload, memory
<1>3. /\ images' \in [Images -> Nat \cup {None}] /\ jobs' \in [Images -> JobStates]
      /\ \A j \in Images : images'[j] # None => images'[j] <= j[2]
  <2>1. /\ images \in [Images -> Nat \cup {None}] /\ jobs \in [Images -> JobStates]
        /\ \A j \in Images : images[j] # None => images[j] <= j[2]
    BY DEF IInv, InstallTypeOK, InStep
  <2>2. CASE FailDownload(i) BY <2>1, <2>2 DEF FailDownload, JobStates
  <2>3. CASE Publish(i)
    <3>1. i[2] \in Nat BY SizesAreBlocks DEF Images, FlashSizes
    <3>2. PICK n \in (IF "truncate" \in Faults THEN 0 .. i[2] ELSE {i[2]}) :
            images' = [images EXCEPT ![i] = n]
      BY <2>3 DEF Publish
    <3>3. n \in Nat /\ n <= i[2] BY <3>1, <3>2
    <3> QED BY <2>1, <2>3, <3>2, <3>3 DEF Publish, JobStates
  <2> QED BY <1>1, <2>2, <2>3
<1>4. Spare' = Spare BY <1>2, SpareSame
<1>5. Faithful => BackupFirst' BY <1>2, <1>4 DEF BackupFirst, IInv
<1>6. InStep' /\ Sized' BY <1>2, <1>3 DEF InStep, Sized, IInv
<1>7. Core' BY <1>2, <1>5, <1>6 DEF Core, IInv, InstallTypeOK
<1> QED BY <1>2, <1>3, <1>7, Parts, RestHolds DEF Rest

LEMMA RestartKeeps == ASSUME IInv, ServerRestart PROVE IInv'
<1>1. /\ session' = None
      /\ UNCHANGED <<device, flash, ram, spoilt, backups, images, stamp, told>>
      /\ jobs' \in [Images -> JobStates]
  BY DEF ServerRestart, memory, JobStates
<1>2. Spare' = Spare BY <1>1, SpareSame
<1>3. Faithful => BackupFirst' BY <1>1, <1>2 DEF BackupFirst, IInv
<1>4. InStep' /\ Sized' BY <1>1 DEF InStep, Sized, IInv
<1>5. Core' BY <1>1, <1>3, <1>4 DEF Core, IInv, InstallTypeOK
<1> QED BY <1>1, <1>5, Parts, RestHolds DEF Rest

LEMMA HandleKeeps == ASSUME IInv, Handle PROVE IInv'
<1>1. CASE ProbeSucceeds
  BY <1>1, SimpleStepsKeep, ProbeKeeps
<1> QED BY <1>1, GoOnKeeps, SimpleStepsKeep, EndsKeep, ProbeKeeps, SaveKeeps, PollKeeps,
           ReadImageKeeps DEF Handle

LEMMA StutterKeeps == ASSUME IInv, UNCHANGED vars PROVE IInv'
<1>1. Spare' = Spare BY SpareSame DEF vars
<1>2. Faithful => BackupFirst' BY <1>1 DEF BackupFirst, IInv, vars
<1>3. InStep' /\ Sized' BY DEF InStep, Sized, IInv, vars
<1>4. Core' BY <1>2, <1>3 DEF Core, IInv, InstallTypeOK, vars
<1> QED BY <1>4, Parts, RestHolds DEF Rest, vars

-------------------------------------------------------------------------------
(* The theorems.                                                            *)

LEMMA InitHolds == Init => IInv
<1> SUFFICES ASSUME Init PROVE IInv OBVIOUS
<1>1. AtPrompt \in Device /\ AtPrompt.at = "prompt" /\ AtPrompt.script = None
      /\ AtPrompt.line = 0 /\ AtPrompt.size = 0 /\ ~AtPrompt.uploaded
  BY PromptIsDevice
<1>2. None # "restore" /\ None # "putflash" BY NoneIsNothing DEF Scripts
<1>3. InstallTypeOK
  <2>2. told \in Message BY DEF Init, Untold, Message
  <2>3. flash \in [Blocks -> Contents] BY DEF Init, Contents
  <2>4. images \in [Images -> Nat \cup {None}] /\ jobs \in [Images -> JobStates]
    BY DEF Init, JobStates
  <2>5. device.line \in 0 .. 2 * device.size + 1 BY <1>1 DEF Init
  <2> QED BY <1>1, <2>2, <2>3, <2>4, <2>5 DEF Init, InstallTypeOK
<1>4. BackupFirst BY <1>1, <1>2 DEF Init, BackupFirst
<1>5. InStep BY <1>1, <1>2 DEF Init, InStep
<1>6. Sized BY <1>1, <1>2 DEF Init, Sized
<1> QED BY <1>3, <1>4, <1>5, <1>6 DEF IInv

LEMMA Inductive == ASSUME IInv, [Next]_vars PROVE IInv'
<1>1. CASE PowerFails BY <1>1, RebootKeeps DEF PowerFails
<1>2. CASE Interrupt
  BY <1>2, StopKeeps DEF Interrupt, Moves, files, memory, IInv, InstallTypeOK
<1> QED BY <1>1, <1>2, StartKeeps, BootKeeps, HandleKeeps, RunKeeps, DownloadKeeps, RestartKeeps,
           StutterKeeps DEF Next

\* The invariant holds in every state.
LEMMA Invariant == Spec => []IInv
<1>1. IInv /\ [Next]_vars => IInv' BY Inductive
<1> QED BY <1>1, InitHolds, PTL DEF Spec

\* Every variable keeps its type: in particular the restore script stays
\* within the image, and a backup has a size that is supported.
THEOREM InstallTypeCorrect == Spec => []InstallTypeOK
<1>1. IInv => InstallTypeOK BY DEF IInv
<1> QED BY <1>1, Invariant, PTL

\* What a step does to the original blocks that are held and saved: nothing, or a
\* backup of held ones, or the loss of one that is saved.
LEMMA StepPromise ==
  ASSUME IInv, Faithful, [Next]_vars
  PROVE  [Promise!Next]_(Promise!vars)
<1>1. CASE UNCHANGED <<flash, backups>>
  BY <1>1, SpareSame DEF Promise!vars
<1>2. CASE SaveBackup
  <2> DEFINE S == {b \in 1 .. session.size : flash[b] = "orig"}
  <2>1. Saved' = Saved \cup S /\ Held' = Held BY <1>2, SaveAdds
  <2>2. S \subseteq Blocks /\ S \subseteq Held
    <3>1. session.size \in Nat /\ session.size <= FlashSize
      BY <1>2, ResumedIs DEF SaveBackup, Scripts
    <3>2. 1 .. session.size \subseteq Blocks BY <3>1, SizesAreBlocks DEF Blocks
    <3> QED BY <3>2 DEF Held
  <2> HIDE DEF S
  <2>3. Promise!Save(S) BY <2>1, <2>2 DEF Promise!Save
  <2> QED BY <2>2, <2>3 DEF Promise!Next
<1>3. CASE FlashLine
  <2>1. PICK b \in Blocks, v \in Contents : FlashStep(b, v) BY <1>3, RestoreSteps
  <2>2. /\ Saved' = Saved /\ (Held' = Held \/ Held' = Held \ {b})
        /\ b \in Saved \/ b \notin Held
    BY <2>1, FlashStepGivesUp
  <2>3. CASE b \in Saved /\ Held' = Held \ {b}
    <3>1. Promise!GiveUp(b) BY <2>2, <2>3 DEF Promise!GiveUp
    <3> QED BY <3>1 DEF Promise!Next
  <2>4. CASE b \notin Held \/ Held' = Held
    BY <2>2, <2>4 DEF Promise!vars
  <2> QED BY <2>2, <2>3, <2>4
<1>4. \/ UNCHANGED <<flash, backups>> \/ SaveBackup \/ FlashLine
  <2>1. CASE \E r \in Requests : Start(r) \/ Boot(r)
    BY <2>1 DEF Start, Boot, files, memory
  <2>2. CASE Handle
    <3>1. CASE ProbeFails \/ SizeKnown
      BY <3>1 DEF ProbeFails, SizeKnown, UseSize, Accept, Refuse, RefuseMisspelt,
                  BackupRaises, ProbeReturns, files, memory
    <3> QED BY <2>2, <3>1
       DEF Handle, GoOn, CountedDown, EnvReceived, ReceiveFails, ProbeSucceeds,
           UseCached, AcquireImage, Poll, DownloadFailed, ReadImage,
           ReadEmpty, PatchEnv, PatchRaises, Restore, AskNewAddress, Finish, files, memory
  <2>3. CASE Run
    BY <2>3 DEF Run, FlashLine, RunPlain, RunPut, PutBreaks, FetchImage, RunRestored, RunLast,
                RunReset, Reboot, MissContinuation, files, memory
  <2>4. CASE Download BY <2>4 DEF Download, Publish, FailDownload, memory
  <2>5. CASE PowerFails \/ Interrupt
    BY <2>5 DEF PowerFails, Reboot, Interrupt, files, memory
  <2>6. CASE ServerRestart BY <2>6 DEF ServerRestart, memory
  <2>7. CASE UNCHANGED vars BY <2>7 DEF vars
  <2> QED BY <2>1, <2>2, <2>3, <2>4, <2>5, <2>6, <2>7 DEF Next
<1> QED BY <1>1, <1>2, <1>3, <1>4

\* The install flow implements the promise of the flash: however installations
\* are broken off and repeated, a block is erased only when a backup has it, and no
\* backup is ever lost (openipc_install).
THEOREM PromiseImplemented == ASSUME "read" \notin Faults PROVE Spec => PromiseKept
<1>1. Init => Promise!Init
  BY DEF Init, Promise!Init, Held, Saved
<1>2. IInv /\ [Next]_vars => [Promise!Next]_(Promise!vars)
  BY StepPromise DEF Faithful
<1> QED BY <1>1, <1>2, Invariant, PTL DEF Spec, PromiseKept, Promise!Spec

\* A block of the original is in the flash or in a backup, always.
THEOREM OriginalSafe == ASSUME "read" \notin Faults PROVE Spec => []OriginalKept
<1>1. Init => OriginalKept
  BY DEF Init, OriginalKept, Held, Saved
<1>2. OriginalKept /\ [Promise!Next]_(Promise!vars) => OriginalKept'
  BY DEF OriginalKept, Promise!Next, Promise!Save, Promise!GiveUp, Promise!vars,
         Held, Saved, Blocks
<1>3. IInv /\ [Next]_vars => [Promise!Next]_(Promise!vars)
  BY StepPromise DEF Faithful
<1> QED BY <1>1, <1>2, <1>3, Invariant, PTL DEF Spec

-------------------------------------------------------------------------------
(* What is reported as finished.                                            *)

\* The lines of the restore script that are done have erased the blocks before the one
\* they come to, and have written the blocks before it from the memory.
BlockWritten(b) == IF b + device.size < device.line THEN flash[b] = ram
                                                    ELSE b < device.line => flash[b] = "blank"

\* If no erase and no write of the restore script failed, its lines did what they say;
\* when it has run, and as long as the camera goes on with the same session, the image is
\* in the flash.  A reboot, which spoils the memory, ends this: the camera is at its
\* prompt.
Written ==
  /\ session # None /\ device.at \in {"running", "asking"} /\ session.at = "restore" =>
       device.size = session.image
  /\ ~spoilt =>
       /\ Runs("restore") => \A b \in 1 .. device.size : BlockWritten(b)
       /\ device.at = "asking" /\ device.script = "restore" =>
            \A b \in 1 .. device.size : flash[b] = ram
       /\ session # None /\ device.at \in {"running", "asking"} /\ session.at = "newip" =>
            \A b \in 1 .. session.image : flash[b] = ram

\* An instruction claims nothing new, but for two of them.
LEMMA InstructWritten ==
  ASSUME UNCHANGED memory, NEW s \in Scripts, NEW n \in Nat, NEW state \in Session,
         Instruct(s, n, state),
         s = "restore" => n = state.image,
         s = "newip" /\ ~spoilt => \A b \in 1 .. state.image : flash[b] = ram
  PROVE  Written'
<1>1. /\ session' # None /\ session'.at = s /\ session'.image = state.image
      /\ device'.at = "running" /\ device'.script = s /\ device'.size = n
      /\ device'.line = 0
  BY Instructed
<1>2. \A b \in 1 .. n : ~(b + n < 0) /\ ~(b < 0) OBVIOUS
<1> QED BY <1>1, <1>2 DEF Written, BlockWritten, Runs, memory

\* Nor does the end of a session, nor a camera that stops.
LEMMA EndWritten ==
  ASSUME \/ device'.at \notin {"running", "asking"}
         \/ session' = None /\ device'.script # "restore"
  PROVE  Written'
BY DEF Written, Runs

LEMMA RebootWritten == ASSUME Reboot PROVE Written'
<1>1. device' = AtPrompt \/ device' = [AtPrompt EXCEPT !.at = "bricked"] BY DEF Reboot
<1>2. device'.at \in {"prompt", "bricked"} BY <1>1 DEF AtPrompt
<1> QED BY <1>2, EndWritten

LEMMA LeaveWritten ==
  ASSUME Leave \/ \E s \in Scripts \ {"restore"} : Last(s)
  PROVE  Written'
<1>1. CASE Leave BY <1>1, PromptIsDevice, EndWritten DEF Leave
<1>2. CASE \E s \in Scripts \ {"restore"} : Last(s)
  <2>1. PICK s \in Scripts \ {"restore"} : session' = None /\ device' = Running(s, 0)
    BY <1>2 DEF Last
  <2>2. device'.script = s BY <2>1 DEF Running, AtPrompt
  <2> QED BY <2>1, <2>2, EndWritten
<1> QED BY <1>1, <1>2

\* When the restore script is over, and when the new address is asked for, the image of
\* the session is in the flash.
LEMMA RestoredIs ==
  ASSUME IInv, Written, ~spoilt, Resumed("restore") \/ Resumed("newip")
  PROVE  \A b \in 1 .. session.image : flash[b] = ram
<1>1. CASE Resumed("restore")
  <2>1. device.script = "restore" BY <1>1, ResumedIs DEF Scripts
  <2> QED BY <1>1, <2>1 DEF Written, Resumed
<1>2. CASE Resumed("newip") BY <1>2 DEF Written, Resumed
<1> QED BY <1>1, <1>2

\* A handler's step sends an instruction other than these two, ends the session, or is
\* one of three.
Speaks == \E s \in Scripts \ {"restore", "newip"}, n \in Nat, state \in Session :
            Instruct(s, n, state)
Stops == Leave \/ \E s \in Scripts \ {"restore"} : Last(s)

LEMMA ProbedSpeaks ==
  ASSUME IInv, NEW s \in {"sfprobe", "size"}, Resumed(s), NEW size \in Nat, UseSize(size)
  PROVE  UNCHANGED memory /\ (Speaks \/ Stops)
<1>1. CASE Accept(size)
  <2> DEFINE state == [session EXCEPT !.size = size, !.stamp = NewStamp]
  <2>1. session \in Session /\ stamp \in Nat BY ResumedIs DEF Scripts
  <2>2. NewStamp \in Nat BY <2>1 DEF NewStamp
  <2>3. Instruct("backingup", 0, state) /\ UNCHANGED memory BY <1>1 DEF Accept
  <2>4. state \in Session
    <3> HIDE DEF NewStamp
    <3> QED BY <2>1, <2>2 DEF Session
  <2> HIDE DEF state
  <2> QED BY <2>3, <2>4 DEF Speaks, Scripts
<1>2. CASE Refuse(size) BY <1>2 DEF Refuse, Stops, Scripts
<1>3. CASE RefuseMisspelt(size) BY <1>3 DEF RefuseMisspelt, Stops
<1>4. CASE BackupRaises \/ ProbeReturns BY <1>4 DEF BackupRaises, ProbeReturns, Stops
<1> QED BY <1>1, <1>2, <1>3, <1>4 DEF UseSize

LEMMA NotesSpeak ==
  ASSUME IInv, Poll \/ ReadImage
  PROVE  UNCHANGED memory /\ Speaks
<1>1. session \in Session
  BY ResumedIs DEF Poll, StillPending, ReadImage, Downloaded, Scripts
<1>2. CASE Poll
  <2> DEFINE state == [session EXCEPT !.saw = jobs[Image]]
  <2>1. Image \in Images
    <3>1. PICK s \in {"downloading", "progress"} : Resumed(s) BY <1>2 DEF Poll, StillPending
    <3> QED BY <3>1, ResumedIs DEF Image, Images, Scripts, AfterBackup
  <2>2. state \in Session BY <1>1, <2>1 DEF Session, IInv, InstallTypeOK
  <2>3. Instruct("progress", 0, state) /\ UNCHANGED memory BY <1>2 DEF Poll
  <2> HIDE DEF state
  <2> QED BY <2>2, <2>3 DEF Speaks, Scripts
<1>3. CASE ReadImage
  <2> DEFINE state == [session EXCEPT !.image = images[Image]]
  <2>1. Image \in Images
    <3>1. PICK s \in {"cached", "progress"} : Resumed(s) BY <1>3 DEF ReadImage, Downloaded
    <3> QED BY <3>1, ResumedIs DEF Image, Images, Scripts, AfterBackup
  <2>2. images[Image] \in Nat BY <1>3, <2>1 DEF ReadImage, IInv, InstallTypeOK
  <2>3. state \in Session BY <1>1, <2>2 DEF Session
  <2>4. Instruct("extracting", 0, state) /\ UNCHANGED memory BY <1>3 DEF ReadImage
  <2> HIDE DEF state
  <2> QED BY <2>3, <2>4 DEF Speaks, Scripts
<1> QED BY <1>2, <1>3

LEMMA HandleSpeaks ==
  ASSUME IInv, Handle
  PROVE  UNCHANGED memory /\ (Speaks \/ Stops \/ Restore \/ AskNewAddress)
<1>1. CASE GoOn
  <2>1. PICK s \in DOMAIN Then :
          Resumed(s) /\ Instruct(Then[s], IF Then[s] = "putflash" THEN session.size ELSE 0,
                                 session)
    BY <1>1 DEF GoOn
  <2>2. s \in Scripts /\ Then[s] \in Scripts \ {"restore", "newip"} BY DEF Then, Scripts
  <2>3. session \in Session /\ session.size \in Nat BY <2>1, <2>2, ResumedIs
  <2> DEFINE n == IF Then[s] = "putflash" THEN session.size ELSE 0
  <2>4. n \in Nat /\ Instruct(Then[s], n, session) BY <2>1, <2>3
  <2> HIDE DEF n
  <2> QED BY <1>1, <2>2, <2>3, <2>4 DEF GoOn, Speaks
<1>2. CASE EnvReceived \/ UseCached \/ AcquireImage \/ PatchEnv \/ SaveBackup \/ Finish
  <2>1. session \in Session
    BY <1>2, ResumedIs DEF EnvReceived, UseCached, AcquireImage, PatchEnv, SaveBackup, Finish,
                           Scripts
  <2> QED BY <1>2, <2>1
     DEF EnvReceived, UseCached, AcquireImage, PatchEnv, SaveBackup, Finish, Speaks, Scripts
<1>3. CASE CountedDown \/ ReceiveFails \/ DownloadFailed \/ ReadEmpty \/ PatchRaises
  BY <1>3 DEF CountedDown, ReceiveFails, DownloadFailed, ReadEmpty, PatchRaises, Stops, Scripts
<1>4. CASE ProbeSucceeds
  <2>1. session \in Session BY <1>4, ResumedIs DEF ProbeSucceeds, Scripts
  <2> QED BY <1>4, <2>1 DEF ProbeSucceeds, Speaks, Stops, Scripts
<1>5. CASE ProbeFails BY <1>5, ProbedSpeaks DEF ProbeFails
<1>6. CASE SizeKnown
  <2>1. PICK size \in ProbeSizes \cup {0} : UseSize(size) BY <1>6 DEF SizeKnown
  <2>2. size \in Nat BY SizesAreBlocks
  <2> QED BY <1>6, <2>1, <2>2, ProbedSpeaks DEF SizeKnown
<1>7. CASE Restore \/ AskNewAddress BY <1>7 DEF Restore, AskNewAddress
<1> QED BY <1>1, <1>2, <1>3, <1>4, <1>5, <1>6, <1>7, NotesSpeak DEF Handle

LEMMA HandleWritten == ASSUME IInv, Written, Handle PROVE Written'
<1>1. UNCHANGED memory /\ (Speaks \/ Stops \/ Restore \/ AskNewAddress) BY HandleSpeaks
<1>2. CASE Speaks BY <1>1, <1>2, InstructWritten DEF Speaks
<1>3. CASE Stops BY <1>3, LeaveWritten DEF Stops
<1>4. CASE Restore
  <2>1. session \in Session /\ session.image \in Nat
    BY <1>4, ResumedIs DEF Restore, Scripts
  <2> QED BY <1>1, <1>4, <2>1, InstructWritten DEF Restore, Scripts
<1>5. CASE AskNewAddress
  <2>1. session \in Session BY <1>5, ResumedIs DEF AskNewAddress, Scripts
  <2>2. ~spoilt => \A b \in 1 .. session.image : flash[b] = ram
    BY <1>5, RestoredIs DEF AskNewAddress
  <2> QED BY <1>1, <1>5, <2>1, <2>2, InstructWritten DEF AskNewAddress, Scripts
<1> QED BY <1>1, <1>2, <1>3, <1>4, <1>5

\* A camera that has run a script other than restore.
LEMMA AskWritten ==
  ASSUME IInv, Written, device.at = "running", device.script # "restore",
         UNCHANGED <<session, memory>>, NEW up, NEW copy,
         device' = [device EXCEPT !.at = "asking", !.uploaded = up, !.copy = copy] \/ Ask
  PROVE  Written'
<1>1. device \in Device BY DEF IInv, InstallTypeOK
<1>2. /\ device'.at = "asking" /\ device'.script = device.script
      /\ device'.size = device.size
  BY <1>1 DEF Device, Ask
<1> QED BY <1>2 DEF Written, Runs, memory

\* The lines of the restore script: the image is fetched, blocks are erased, and each
\* is written.
LEMMA FetchWritten == ASSUME IInv, Written, FetchImage PROVE Written'
<1>1. /\ device \in Device /\ device.size \in Nat /\ device.line = 0 /\ device.at = "running"
      /\ device.script = "restore"
      /\ device' = [device EXCEPT !.line = @ + 1] /\ UNCHANGED session
  BY DEF FetchImage, Runs, NextLine, IInv, InstallTypeOK, Device
<1>2. /\ device'.at = "running" /\ device'.script = "restore" /\ device'.line = 1
      /\ device'.size = device.size
  BY <1>1 DEF Device
<1>3. \A b \in 1 .. device.size : ~(b + device.size < 1) /\ ~(b < 1) BY <1>1
<1>4. session # None => session.at = "restore" BY <1>1 DEF IInv, InStep
<1> QED BY <1>1, <1>2, <1>3, <1>4 DEF Written, BlockWritten, Runs

LEMMA LineWritten ==
  ASSUME IInv, Written, EraseBlock \/ WriteBlock
  PROVE  Written'
<1>1. /\ device \in Device /\ device.size \in Nat /\ device.line \in Nat
      /\ device.at = "running" /\ device.script = "restore"
      /\ 1 .. device.size \subseteq Blocks
      /\ device' = [device EXCEPT !.line = @ + 1] /\ UNCHANGED <<session, ram, spoilt>>
      /\ flash \in [Blocks -> Contents]
  BY SizesAreBlocks
     DEF EraseBlock, WriteBlock, Runs, NextLine, IInv, InstallTypeOK, Device, Sized, Blocks
<1>2. /\ device'.at = "running" /\ device'.script = "restore"
      /\ device'.line = device.line + 1 /\ device'.size = device.size
  BY <1>1 DEF Device
<1>3. session # None => session.at = "restore" BY <1>1 DEF IInv, InStep
<1>4. ASSUME ~spoilt, NEW b \in 1 .. device.size
      PROVE  BlockWritten(b)'
  <2>1. BlockWritten(b) BY <1>1, <1>4 DEF Written, Runs
  <2>2. CASE EraseBlock
    <3>1. device.line \in 1 .. device.size /\ flash' = [flash EXCEPT ![device.line] = "blank"]
      BY <2>2 DEF EraseBlock
    <3>2. ~(b + device.size < device.line + 1) /\ ~(b + device.size < device.line)
      BY <1>1, <3>1
    <3>3. b < device.line + 1 => b = device.line \/ b < device.line BY <1>1
    <3>4. b < device.line + 1 => flash'[b] = "blank"
      BY <1>1, <2>1, <3>1, <3>2, <3>3 DEF BlockWritten
    <3> QED BY <1>2, <3>2, <3>4 DEF BlockWritten
  <2>3. CASE WriteBlock
    <3> DEFINE w == device.line - device.size
    <3>1. /\ flash' = [flash EXCEPT ![w] = Programmed(flash[w], ram)]
          /\ w \in 1 .. device.size
      BY <1>1, <2>3 DEF WriteBlock
    <3>2. /\ b < device.line /\ b < device.line + 1
          /\ b + device.size < device.line + 1 <=> b = w \/ b + device.size < device.line
          /\ ~(w + device.size < device.line) /\ w < device.line
      BY <1>1, <3>1
    <3> HIDE DEF w
    <3>3. CASE b = w
      <4>1. flash[w] = "blank" BY <2>1, <3>2, <3>3 DEF BlockWritten
      <4>2. flash'[b] = ram BY <1>1, <3>1, <3>3, <4>1 DEF Programmed
      <4> QED BY <1>1, <1>2, <3>2, <3>3, <4>2 DEF BlockWritten
    <3>4. CASE b # w
      <4>1. flash'[b] = flash[b] BY <1>1, <3>1, <3>4
      <4> QED BY <1>1, <1>2, <2>1, <3>2, <3>4, <4>1 DEF BlockWritten
    <3> QED BY <3>3, <3>4
  <2> QED BY <2>2, <2>3
<1>5. session' # None /\ session'.at = "restore" => device'.size = session'.image
  BY <1>1, <1>2 DEF Written
<1> QED BY <1>1, <1>2, <1>3, <1>4, <1>5 DEF Written, Runs

\* Of a script whose erase or write failed nothing is claimed.
LEMMA FailWritten ==
  ASSUME IInv, Written, EraseFails \/ WriteFails
  PROVE  Written'
<1>1. /\ device \in Device /\ device.at = "running" /\ session' = session /\ spoilt' = TRUE
      /\ \E l : device' = [device EXCEPT !.line = l]
  BY DEF EraseFails, WriteFails, Runs, IInv, InstallTypeOK
<1>2. device'.size = device.size BY <1>1 DEF Device
<1> QED BY <1>1, <1>2 DEF Written

LEMMA RestoredWritten == ASSUME IInv, Written, RunRestored PROVE Written'
<1>1. /\ device \in Device /\ device.size \in Nat /\ device.line \in Nat
      /\ device.at = "running" /\ device.script = "restore"
      /\ device.line > 2 * device.size
      /\ device' = [device EXCEPT !.at = "asking"] /\ UNCHANGED <<session, memory>>
  BY DEF RunRestored, Ask, Runs, IInv, InstallTypeOK, Device
<1>2. /\ device'.at = "asking" /\ device'.script = "restore" /\ device'.size = device.size
  BY <1>1 DEF Device
<1>3. \A b \in 1 .. device.size : b + device.size < device.line BY <1>1
<1> QED BY <1>1, <1>2, <1>3 DEF Written, BlockWritten, Runs, memory

LEMMA RunWritten == ASSUME IInv, Written, Run PROVE Written'
<1>1. CASE RunPlain \/ PutBreaks
  <2>1. /\ device.at = "running" /\ device.script # "restore" /\ Ask
        /\ UNCHANGED <<session, memory>>
    BY <1>1 DEF RunPlain, PutBreaks, Runs, PlainScripts
  <2> QED BY <2>1, AskWritten
<1>2. CASE RunPut
  <2>1. /\ device.at = "running" /\ device.script # "restore"
        /\ UNCHANGED <<session, memory>>
        /\ \E copy : AskAfterPut(copy)
    BY <1>2 DEF RunPut, Runs
  <2> QED BY <2>1, AskWritten DEF AskAfterPut
<1>3. CASE RunLast \/ MissContinuation
  BY <1>3, PromptIsDevice, EndWritten DEF RunLast, MissContinuation
<1>4. CASE RunReset BY <1>4, RebootWritten DEF RunReset
<1> QED BY <1>1, <1>2, <1>3, <1>4, FetchWritten, LineWritten, FailWritten, RestoredWritten
       DEF Run

\* What is written stays what was fetched, whatever happens.
LEMMA WrittenInductive == ASSUME IInv, Written, [Next]_vars PROVE Written'
<1>1. CASE \E r \in Requests : Start(r)
  <2>1. PICK r \in Requests : Start(r) BY <1>1
  <2> DEFINE fresh == [req |-> r, at |-> "export", size |-> 0, stamp |-> 0, image |-> 0,
                       saw |-> "none"]
  <2>2. fresh \in Session BY RequestsAreRequests DEF Session, Scripts, JobStates
  <2>3. Instruct(FirstScript(r), 0, fresh) /\ UNCHANGED memory BY <2>1 DEF Start
  <2>4. FirstScript(r) \in Scripts \ {"restore", "newip"} BY DEF FirstScript, Scripts
  <2> HIDE DEF fresh
  <2> QED BY <2>2, <2>3, <2>4, InstructWritten
<1>2. CASE \E r \in Requests : Boot(r) BY <1>2, LeaveWritten DEF Boot, Scripts
<1>3. CASE Handle BY <1>3, HandleWritten
<1>4. CASE Run BY <1>4, RunWritten
<1>5. CASE Download
  <2>1. UNCHANGED <<session, device, memory>>
    BY <1>5 DEF Download, Publish, FailDownload
  <2> QED BY <2>1 DEF Written, BlockWritten, Runs, memory
<1>6. CASE PowerFails BY <1>6, RebootWritten DEF PowerFails
<1>7. CASE Interrupt BY <1>7, PromptIsDevice, EndWritten DEF Interrupt
<1>8. CASE ServerRestart
  <2>1. session' = None /\ UNCHANGED <<device, memory>> BY <1>8 DEF ServerRestart
  <2> QED BY <2>1 DEF Written, BlockWritten, Runs, memory
<1>9. CASE UNCHANGED vars BY <1>9 DEF vars, Written, BlockWritten, Runs
<1> QED BY <1>1, <1>2, <1>3, <1>4, <1>5, <1>6, <1>7, <1>8, <1>9 DEF Next

\* Only one step sends the completion message.
LEMMA OnlyFinish ==
  ASSUME [Next]_vars, ~told.finished, told'.finished
  PROVE  Finish
<1>1. told' = told \/ told' = Untold \/ Finish
  <2>1. CASE \E r \in Requests : Start(r) \/ Boot(r) BY <2>1 DEF Start, Boot
  <2>2. CASE Handle
    <3>1. CASE ProbeFails \/ SizeKnown
      BY <3>1 DEF ProbeFails, SizeKnown, UseSize, Accept, Refuse, RefuseMisspelt,
                  BackupRaises, ProbeReturns
    <3> QED BY <2>2, <3>1
       DEF Handle, GoOn, CountedDown, EnvReceived, ReceiveFails, ProbeSucceeds, SaveBackup,
           UseCached, AcquireImage, Poll, DownloadFailed, ReadImage,
           ReadEmpty, PatchEnv, PatchRaises, Restore, AskNewAddress
  <2>3. CASE Run
    BY <2>3 DEF Run, RunPlain, RunPut, PutBreaks, FetchImage, EraseBlock, EraseFails,
                WriteBlock, WriteFails, RunRestored, RunLast, RunReset, Reboot, MissContinuation
  <2>4. CASE Download BY <2>4 DEF Download, Publish, FailDownload
  <2>5. CASE PowerFails \/ Interrupt \/ ServerRestart
    BY <2>5 DEF PowerFails, Reboot, Interrupt, ServerRestart
  <2>6. CASE UNCHANGED vars BY <2>6 DEF vars
  <2> QED BY <2>1, <2>2, <2>3, <2>4, <2>5, <2>6 DEF Next
<1> QED BY <1>1 DEF Untold

\* The completion message is only sent when the flash holds, over the length of the
\* image, what the restore script had fetched, or when sf erase or sf write of that
\* script reported an error, which the script does not test: no line of it was skipped,
\* whatever was broken off, interrupted or restarted before, and also when the flash
\* could not be read (openipc_nor_restore).
THEOREM FinishedIsFetched == Spec => WrittenAsFetched
<1>1. Init => IInv /\ Written
  BY InitHolds, PromptIsDevice, EndWritten DEF Init, Written, Runs
<1>2. IInv /\ Written /\ [Next]_vars => (IInv /\ Written)'
  BY Inductive, WrittenInductive
<1>3. ASSUME IInv, Written, [Next]_vars, ~told.finished, told'.finished, ~spoilt
      PROVE  \A b \in 1 .. session.image : flash[b] = ram
  BY <1>3, OnlyFinish, RestoredIs DEF Finish
<1>4. IInv /\ Written /\ [Next]_vars =>
        [~told.finished /\ told'.finished /\ ~spoilt =>
           \A b \in 1 .. session.image : flash[b] = ram]_vars
  BY <1>3
<1> QED BY <1>1, <1>2, <1>4, PTL DEF Spec, WrittenAsFetched
===============================================================================
