# uboot-tftp: specification and proofs

TLA+ models of the `uboot-tftp` daemon in this repository: what its session
core, its upload capture, its shared downloads and the scripts that it sends to
devices do when requests are repeated, delayed, overtaken or lost, when
handlers fail, and when the process restarts; what its OpenIPC handler does
to a camera's flash when any of that, or a power failure, happens to an
installation; and what becomes of served files, of the environment in a flash image,
and of the variables of a session.  TLC checks the models on small instances; TLAPS
proves, for instances of any size, every safety property that a passing run checks: of the
session core, of the devices that talk to it, of downloads, of the installation, of served
files, of the environment in a flash image, and of a session's variables and the searches
that use them.

Paths below are relative to the repository; `uboot_tftp/` is `src/uboot_tftp/`.

## 1. The system

A U-Boot device asks for `id=<client>/...` by TFTP.  The daemon starts a
*session*, answers with a script image that tests the device's shell, and then
runs the user's coroutine (the *handler*).  Each `await tftp.exec(...)` or
`await tftp.exec_recv(...)` suspends the handler and sends a script; the script
ends with a command that makes the device come back with a *continuation
token*, which resumes the handler.  `exec_recv` also makes the device upload
memory first.

| component | state | operations | who calls it |
|---|---|---|---|
| session store (`sessions.py`) | `_sessions`: one `ClientSession` per client | replace, require, get, discard | provider, upload store |
| scripted provider (`scripted.py`) | fields of a session: token, phase, handler, pending receive, env, downloads | start, resume, advance, result of an instruction, discard | RRQ hook |
| upload capture (`uploads.py`) | `uploads`, one open capture per transfer | open, close, record | WRQ hook, tftpy when it closes the file |
| TFTP hooks (`server.py`) | none of its own | open RRQ, open WRQ | tftpy's single-threaded loop |
| download jobs (`download_jobs.py`) | one entry per key, one thread per entry, `.part` and final files | acquire, get, release, progress, done, failed | handlers; the threads |
| `uboot_download_url` (`ubootops.py`) | the handler's snapshot of an entry | cache test, acquire, poll loop | handlers |
| scripts on the device (text of `_append_continue`, `_append_receive`) | where the device is in a script | tftpboot, tftpput, source | the device |
| static files (`server.py`, `SessionHandle.write_file`) | the files under the root directory | static RRQ and WRQ, `write_file`, `replace` of a download | tftpy's loop; handlers; the threads |
| session variables (`protocol.py`, `config.py`, `_session_env`, `_merge_continuation_values`) | `env` and `public_env` of a session | parse a path, route a client, start, merge | provider |
| memory checksums and active ranges (`scripts/openipc.py`) | what the handler has found so far | `crc32`, `find_active` | the operator's `run bootstrap` |
| environment images (`ubootenv.py`, `ubootenv_cli.py`) | the image | infer the layout, extract, patch, build | install flow; command line |
| install flow (`scripts/openipc.py`, with `ubootops.py` and `ubootscript.py`) | the camera's flash and memory, the files under `backup/`, `install/` and `patched/` | probe, back up, download, patch, erase, write | the operator's `run bootstrap` |
| simulated client (`test_client.py`) | round, remote, environment | download, upload, follow | command line |
| GitHub manifest (`scripts/openipc.py`), script images and terminal text (`mkimage.py`, `ubootterm.py`) | none | filtering, building | the above |

How they interact.  tftpy's loop calls one hook at a time, so a hook is atomic
with respect to other hooks, but a *transfer* is not: it is opened by one hook,
runs over many packets, and its file is closed much later.  The session store
is shared by the RRQ hook, the WRQ hook and that close.  Download threads run
in parallel to all of it and share the entries (under a lock) and the file
system (without one) with the handlers.

What is hard here.

* Requests are UDP datagrams: a continuation or a WRQ may be handled twice,
  late, or after a newer one.
* The right to upload is checked at open and again at close.
* A start request replaces a session at any moment: handler suspended, upload
  open, downloads attached.
* A handler may end in six ways, and not all of them remove its session.
* A download becomes visible in several steps, and the loop that waits for it
  acts on a snapshot taken before the handler was suspended.
* The process may end anywhere; memory is lost, files are not.
* An installation erases the flash that the camera boots from.  It may be
  broken off at every step by the power, the operator, the server or the network,
  and begun again on what is left.
* A served file is emptied and rewritten in place while others read and write it.
* Where the environment of a flash image lies is inferred from the image, and a patch
  changes the image.
* The same variables carry the results of every script, of every batch and of
  earlier sessions, and a device pastes them into a path unquoted.

What makes each component correct.

* *Session core*: the fields of a session agree; a token continues one session
  and is accepted once; a handler is only ever resumed by the answer to the
  instruction it awaits; `exec_recv` returns this client's upload for this
  receive; a download's reference count is the set of its live users.
* *Device flow*: device and handler stay in step; no script runs twice or out
  of order; with a network that works, no handler is left waiting.
* *Downloads*: no half-written file is ever visible; "done" means published;
  a settled entry stays settled; waiting ends; the payload is complete and is
  that of the URL.
* *Install flow*: whatever goes wrong, and however often it is begun again, the
  original flash can be restored; what is reported as finished is flashed as it was
  fetched, if the flash took it; an installation ends.
* *Static files*: a body that was written undisturbed is whole from its close on, and is
  served whole unless its file is opened for writing again meanwhile.
* *Environment images*: what is patched in, in the form that the device reads, is what it
  loads, and is what is read back; the boot partition and the kernel are left alone.
* *Session variables and active ranges*: what a handler reads is what the device has
  answered to its last script; the two copies agree; the search finds what changes,
  and nothing else, and ends.

`PROJECT.json` lists every hazard at its line with the properties that cover it.

## 2. Modules

| module | models | checked by |
|---|---|---|
| `ScriptedSessions` | session store, provider, upload capture, attachments | `sessions` |
| `SessionContract` | abstract: the promise made of a continuation token | as a property of `sessions` |
| `ScriptedSessionsProofs` | proofs about `ScriptedSessions` | TLAPS |
| `DeviceFlow` | devices running the scripts over a network; extends `ScriptedSessions` | `flow_reliable`, `flow_lossy`, `flow_stale_upload` |
| `DeviceFlowProofs` | proofs about `DeviceFlow`, on top of `ScriptedSessionsProofs` | TLAPS |
| `SimulatedClient` | `uboot-tftp-client` against the session core; extends `ScriptedSessions` | `simulated_preflight` |
| `DownloadJobs` | entries, threads, files, waiting handlers | `downloads`, `download_truncated` |
| `DownloadJobsProofs` | proofs about `DownloadJobs` | TLAPS |
| `InstallFlow` | the OpenIPC handler and the camera it drives | `install_promise`, `install_fetch` |
| `FlashPromise` | abstract: what an installation may do to the original flash | as a property of `install_promise` |
| `InstallFlowProofs` | proofs about `InstallFlow` | TLAPS |
| `StaticFiles` | one served file, its readers and writers | `static_files` |
| `StaticFilesProofs` | proofs about `StaticFiles` | TLAPS |
| `UbootEnv` | flash images, `ubootenv_extract` and `ubootenv_patch` | `uboot_env` |
| `UbootEnvProofs` | proofs about `UbootEnv` | TLAPS |
| `SessionEnv` | paths, configuration and the variables of a session, as operators | through `ActiveRanges` |
| `ActiveRanges` | sessions of one device whose handlers work with its answers: `active`, `crc32`, any other; extends `SessionEnv` | `active_ranges` |
| `ActiveRangesProofs` | proofs about `ActiveRanges` and `SessionEnv` | TLAPS |
| `SequenceFacts` | facts that two of the proof modules need: least and greatest numbers, induction by them, finite sets, ranks, multiples, flattened sequences | TLAPS |
| `MC...` | values for the constants | |

Definitions marked `MUTANT` are deliberately wrong variants of the definition
that follows them.  No specification uses them; substituting one for its
original must violate the property that `PROJECT.json` pairs it with, which
shows that the property can fail.

### ScriptedSessions

Each hook is one action, with every call that it makes.

| TLA+ | code |
|---|---|
| `StartSession` | `_start_session`: discard the old session (releasing its downloads), replace, new token, probe script |
| `RefuseRRQ` | unknown session or wrong token: `FileNotFoundError`, a miss |
| `PreflightFails` | first continuation, `hush_shell` is not `true`: discard, failure script |
| `HandlerNotCreated`, `NoHandler` | `_create_handler` raises; later continuations of such a session |
| `ExecStep`, `RecvStep`, `FinalStep` | the handler was resumed and awaits `exec`, `exec_recv`, `exec(final=True)` |
| `HandlerReturns`, `ReceiveFails` | `StopIteration`, `ReceiveFailedError`: discard, a miss |
| `HandlerRaises`, `DeadHandler` | any other exception; resuming the ended coroutine |
| `StrayAwait` | the handler awaits a foreign object: `TypeError` |
| `OpenUpload`, `CloseUpload`, `CloseStale` | `_open_upload`; close of the capture, when `record` accepts and when it refuses |
| `Restart` | the process ends and is started again |

The handler is *any* coroutine: a continuation that reaches it may have any of
the outcomes, having acquired any set of downloads on the way.  Requests are
not stored: any client may send any continuation at any time, which includes
every repeated and delayed one.  Tokens are numbers in the order they are
drawn; `secrets.token_urlsafe` is taken not to repeat.  An uploaded body is an
element of `Bodies`.  `hush_shell` is the only environment variable that the
provider itself tests; it is `absent`, `true` or `other` in a request.

`SessionContract` knows only the current token of each client, the spent
tokens, and the last answer.  The refinement mapping (`Contract` in
`ScriptedSessions`) takes a client's current token from its session and calls
every issued token spent that is nobody's.

### DeviceFlow

Here the requests are sent by devices that run the scripts.  A device is at its
prompt, asking (tftpboot), running a script, putting (WRQ sent), sending, or
stalled.  Each transaction has a port of its own, numbered by `try`.
With `Lossy = TRUE` a request stays in the network for ever once sent, so it
may be handled again at any time; every transfer may fail on either side; the
server may time out with part of an upload.  With `Lossy = FALSE` none of that
happens, but the server may still restart.  U-Boot, UDP and tftpy are external:
they are modelled from how the generated commands and the hooks use them.  A
request from a port that is already in transfer is dropped, as tftpy does.

### DownloadJobs

A thread's step is one hold of the lock, one file operation or one read of the
connection: copy the request, connect (progress 0), create the `.part` file,
read and write a chunk, report it, notice the end, rename, mark done; or, from
any step that can raise, mark failed, then unlink.  A payload has `Size`
chunks; the end of the connection may come after any number of them.  A handler
in `uboot_download_url` is idle, waiting for its cached file to be read,
about to poll, or suspended with the snapshot's state.  A handler whose session
is discarded or replaced leaves.

### SimulatedClient

`run_client`: download, look for uploads and continuations, take the next.
The one thing that matters is what it substitutes for the variables of a path.

### InstallFlow

One camera, one server.  `DeviceFlow` shows that handler and device take turns;
here that is taken as given, so one instruction of the handler is one action
when the camera comes back (`Resumed`), and one or more actions in which the
camera runs the script.  The requests are the commands `install`, `backup`, `probe`
and `boot`, and one that is unknown (which is answered, and then counted down like
`boot`), with the values that the handler tests: firmware, whether vendor and SoC are
named, the `nor_size` cap, the kind of `ethaddr`, and `ip=static`.

| TLA+ | code |
|---|---|
| `Start`, `Boot` | `default`, up to the first instruction of the command |
| `GoOn`, `EnvReceived`, `ReceiveFails`, `CountedDown` | `fetch_env`, `exec` without a result, `ReceiveFailedError`, the countdown before the reset |
| `ProbeSucceeds`, `ProbeFails`, `SizeKnown`, `Probes` | `uboot_nor_probe`, the nested script of `uboot_nor_gen_probe` |
| `Accept`, `Refuse`, `RefuseMisspelt`, `BackupRaises`, `ProbeReturns` | what each command does with the size |
| `SaveBackup` | `openipc_nor_backup`, `write_file` |
| `UseCached`, `AcquireImage`, `Poll`, `ReadImage`, `ReadEmpty`, `DownloadFailed` | `uboot_download_url` with `cache=True` |
| `PatchEnv`, `PatchRaises`, `Restore` | extracting, merging and patching the environment; the patched file |
| `FetchImage`, `EraseBlock`, `WriteBlock` | the lines of `openipc_nor_restore`, erase and write block by block |
| `EraseFails`, `WriteFails` | `sf erase` or `sf write` reports an error, and the next line is run all the same |
| `AskNewAddress`, `Finish` | the address after a new `ethaddr`; the completion message |
| `PowerFails`, `Interrupt`, `ServerRestart` | at every step |

A block holds the original, nothing (erased), the patched image or something
else; an image is a length.  Memory cells are set by an erase and only cleared by a write
(`Programmed`), so a block that is written without having been erased becomes something
else.  `spoilt` is history: an erase or a write has failed since the image was fetched.  A
camera whose first block holds neither the
original nor the patched image is bricked after a restart.
A handler that raises is taken to be gone, since `ScriptedSessions` shows that a dead
one stays silent.  The constant `Faults` says what may fail: the probe, an upload, a
download, the completeness of a download, the fetch of the image, the power, the
erase and the write of the flash (`flash`), and its read.  `DownloadJobs` shows that
`truncate` is a real fault.

What is taken for granted, and why:

* The flash can be read (`read` is in no run).  No line of the script tests `sf read`,
  so an unreadable flash would be backed up as the 0xFF that memory was filled with.
* An upload that is accepted is whole.  `flow_stale_upload` shows the exception.
* Two accepted installations of one id do not begin in the same second, which is
  the resolution of the name of a backup.
* A probe reads successfully up to the size of the flash and fails beyond it.
* An image is no longer than the size that was asked for.  The code never compares the two:
  a longer one would be erased and written past what was backed up (`openipc.py:308`).

A failed erase or write is *not* excluded: the original is kept through it, but the
completion message is sent although the flash is not what was fetched, so
`WrittenAsFetched` speaks of the scripts only in which neither failed.

`FlashPromise` knows which blocks are still original (`held`) and of which a
copy is on the server (`saved`).  A block may leave `held` only when it is in
`saved`, and nothing leaves `saved`.  The mapping takes `held` from the flash
and `saved` from the bodies of the backups.

### StaticFiles

One name under the root directory.  The name leads to an inode and whoever has opened an
inode keeps it, which is what tells `open("w+b")` and `open("wb")` (the same inode, emptied)
from the rename of a download (a new one under the name).  `OpenUpload`, `Receive`, `Flush`,
`Complete` and `Abort` are a static WRQ through `_TransferLogFile`, whose blocks reach the
disk when the buffer is full or at the close.  `WriteFile` is `write_file` of a handler: it
opens the file as a WRQ does, with the whole body at hand, and then goes through `Flush`,
`Complete` and `Abort` too.  It holds tftpy's loop (`Idle`) until it is through, so that only
`Publish`, in the thread of a download, and `Restart` can come between its steps.  A flush
may get any part of what it has to disk: the process can be killed in it, and the disk be
full (`Abort`).

tftpy, whose `tftproot` is the root of the static files, opens a file that exists itself and
sends it block by block from the inode (`OpenRead`, `Send`).  The hook is asked only when
there is no file (`MissRead`), so `_static_result` and the temporary file of
`fileobj_from_result` come in only when a download publishes one just then (`FetchRead`).
Read-ahead of a buffered file is left out: it matters only for what an RRQ sends whose file
was opened for writing meanwhile, of which nothing is claimed.

`Restart` loses the transfers and the buffers.  `settled`, `crowded`, and the field `calm` of
an RRQ are history: the version that was written whole and closed with nobody else on its
inode, the inodes that had two writers at a time, and whether the RRQ's inode was left alone
since it was opened.

### UbootEnv

An image is a row of 64 KB blocks, and a block shows what the code looks for in it.
`Inferred` and `Resolved` are the search for the layout in the code's order: the
best-scoring default environment, its mtdparts, the first magic number of a kernel, the
common sizes in front of it.  `ubootenv_extract` and `ubootenv_patch` are used as the
command (`PatchByCommand`) and the installation (`PatchByInstall`) use them, on a flash
that the device also writes (`SaveEnv`, `SaveBreaks`, `EraseEnv`).  `truth` is how the flash
really is laid out, with the header and the order of bytes that this U-Boot was built for;
the code does not see it.  The parser takes either header and either order
(`ubootenv_parse_part`), the device only its own (`DeviceEnv`), and what is built has the low
byte of the checksum first (`ubootenv_build`).  The command patches with a flags byte or
without, the installation always without.  `wrote` keeps what was patched in and its header,
and `Native` says whether the device can read it.  A block is one thing: the one that has the
default environment does not look like a kernel at the same time.

### SessionEnv and ActiveRanges

A path is a sequence of segments, a key and a text or a text alone.  A variable of the
device is a sequence of segments too, since U-Boot pastes it into the path as it is and a
slash in it begins a new segment.  `SessionEnvOf` is what a start request gets from `[env]`,
`[default]`, the client's section and itself; `Merge` is what a continuation does to the two
dictionaries.  A step of `ActiveRanges` is one round (`Round`): the device runs the script
that the handler asked for, on memory that changes or does not, and returns variables, and
the handler goes on with what it reads.  `Refused` is a round whose answer carries a token
of the device's own making.  Checksums are the contents that they are taken of, in the byte
order of the device.

## 3. What the runs show

| run | instance | result |
|---|---|---|
| `sessions` | 2 devices, 2 upload contexts, 1 download, 2 bodies, 3 tokens | tokens, references and bytes never cross sessions; fields agree; late uploads and dead handlers are inert; the provider refines `SessionContract` |
| `flow_reliable` | 1 device, 6 tokens, 12 transactions, restarts, fair | nobody is left waiting, uploads are whole |
| `flow_lossy` | 1 device, 4 tokens, 6 transactions | device and handler stay in step |
| `downloads` | 2 keys with one destination, 1 handler, 1 chunk, fair | only complete writes are ever visible; done stays done; waiting ends |
| `install_promise` | flash of 4 blocks, sizes 2 and 4, two accepted installations, 7 kinds of fault, fair | no original block is lost, what is reported as finished was written as it was fetched unless its erase or write failed, and an installation ends |
| `static_files` | 2 uploads, 1 `write_file`, 1 reader, 3 chunks, 4 versions | an undisturbed body is whole on disk from its close on, and on the wire while nobody opens its file; only two writers at a time mix bodies |
| `uboot_env` | 6 layouts, two of them of big-endian devices and three with a flags byte; 3 environments without and 2 with the mtdparts of the layout, all combinations of the boundaries that a user passes | a patch takes if it is in the device's form, is read back, and touches nothing else |
| `active_ranges` | 4 units of memory, 2 checksums in a script, 5 lists of ranges; 5 documents, 4 devices; 2 starts; fair | the search is complete, exact and ends; answers are those of the last script; the two dictionaries agree |

Four runs end in a counterexample: the code does not do what its documentation
or its messages say.

* `download_truncated`: an early close of the connection is taken for the end
  of the payload (`download_jobs.py:278`), renamed into place and returned.
* `flow_stale_upload`: a WRQ that is served again after its upload is complete,
  and before the continuation, overwrites the complete body by a partial one
  (`uploads.py:82`).
* `simulated_preflight`: the simulated client knows no `hush_shell`, so the
  preflight always refuses it (`test_client.py:273`, `scripted.py:257`).
* `install_fetch`: the script goes on to erase and write after a fetch that failed,
  and the handler reports a finished installation (`openipc.py:136`).

Seen while modelling, and not checked:

* Error paths that read names which do not exist: the command `backup` after its probe
  (`openipc.py:497`), the refusals of an unknown firmware (`:212`) and of `ultimate`
  on a small flash (`:259`), the message for a failed download (`ubootops.py:62`).  In the
  model the handler dies there, as it does in the code.
* The completion message names the backup without its directory (`openipc.py:327`).
* A payload is read back by its path, not its URL (`ubootops.py:60`), which matters when
  two URLs are saved at one path.
* Environment images.  With the size alone passed, the place is inferred for 64 KB, and a
  larger environment is written over the start of the kernel (`ubootenv.py:284`, `:332`).  Without
  mtdparts and without boundaries 64 KB always wins (`:329`), so that a larger partition is
  taken for its last 64 KB.  Without the place, a partition with a broken checksum may be
  taken for the default (`:144`, `:169`).  Four bytes in the code that look like a kernel end the
  search too early.  `uboot-tftp-env --set` with an output replaces the whole environment,
  where its help says "Set or replace an env key".  A patch past the end of the image
  lengthens it (`:253`).  The installation patches with the low byte of the checksum first and
  no flags byte (`ubootenv.py:132`, `openipc.py:294`): a big-endian camera, or one with a
  flags byte, does not load what was patched in and starts with its default, as the TODO at
  `openipc.py:290` suspects; reading the image back does not show it.
  The properties of `UbootEnv` say in their premises where each of these is left out.
* Session variables.  A slash in a returned value sets other variables, or the token
  (`scripted.py:558`); `token` and `recv` cannot be asked for (`:546`); percent escapes
  in what the device returns are decoded.
* `find_active` with ranges of different sizes, which no command passes, refines some too
  little or raises (`openipc.py:457`); its comment says that it relies on equal ones.

### Bounds

* `MaxToken` bounds the tokens drawn and with them the length of a history.
  Three tokens let two devices be in different instructions at once, one of
  them be replaced, and a device pass the preflight, receive, and be at the next
  instruction when its upload ends late.  The proofs do not depend on the bound.
* Two upload contexts and two bodies suffice for overlapping uploads of one
  receive with different contents; they are interchangeable, hence the
  symmetry.  One download is enough since downloads do not interact in the
  session core.
* `MaxTry` is twice `MaxToken` in `flow_reliable`, so that a device never runs
  out of transactions (an instruction takes two at most) and the liveness
  property is not cut short by the bound.  At `MaxToken` the handler can only end;
  that does not help `InstructionEnds`, since the handler must be *reached* for
  that by the device.
* `flow_lossy` has four tokens and six transactions: preflight, a receive, an
  instruction after it and a replacement, each with repeated requests.
* In `downloads` a payload has one chunk, so a connection may end before and after it.
  Two keys share a destination, which is the only way in which entries touch each
  other.  A handler may leave and come back with any of the jobs; two handlers meet only in
  the entries and files, which the threads change without them.  The proofs hold for any number.
* In the install runs a block is 4 MB, so that the two supported sizes are 2 and 4
  blocks and the probe tries 1, 2, 4 and 8; the flash has 4 blocks, and a cap makes it
  look like 2 or 1 (too small to be accepted) or 0.  `MaxInstalls = 2` lets a second
  installation meet the erased flash, the cached image and the backup that the first one
  left, in all pairs of sizes; requests that are refused are not bounded.  Two requests can
  be accepted, one of either size, with and without a new address at the end; the others
  stand for each way to end early.
* In `static_files` three chunks let a buffer be written in the middle of a body, and
  four versions let two uploads meet a body that was there before and one that comes
  later.  The proofs depend on neither.
* In `uboot_env` an environment has one or two blocks and the boot partition two or three,
  so that the inference for 64 KB fits, falls short, or meets a decoy in front of
  or behind the default.  Patches with either header meet devices with either header and of
  either endianness.  Any number of patches and saves in any order is covered.
* In `active_ranges` four units are two levels of bisection and two batches per pass.
  At most one unit changes only now and then (at every round, either way); the others always or
  never.  `MaxStarts = 2` lets a session replace another in the middle of a search.

### Fairness

* `flow_reliable`: the server's loop handles what arrives, a finished transfer
  is delivered, and a device goes on with its script.  This is what a network
  that works, the single-threaded loop and U-Boot give.  Starting a session and
  restarting the server are not fair.
* `downloads`: a thread that can run does (weak fairness per thread; the
  connection and every read have a timeout, so they return or raise), and a device that
  was sent a script comes back, so that the handler's loop continues.
  The wait also ends when the session does.
* `install_promise`: the handler answers, the camera goes on with its script,
  a download thread goes on.  Starting, the power, Ctrl+C and restarts are not fair.
* `active_ranges`: a device that was sent a script runs it and comes back.  Starting
  is not fair, and bounded.
* Safety runs use no fairness.

### Deadlock

All runs but `active_ranges` check deadlock; there a session that has ended is not begun
again once the starts are used up.  A restart is possible in every state of the sessions,
the downloads and the installation, so what deadlock checking adds is small; that a device
or a handler is not stuck is what `NotStranded`, `InstructionEnds`, `WaitingEnds` and
`InstallEnds` are for.

## 4. What is proved

`ScriptedSessionsProofs`, for any sets of clients, downloads, upload contexts
and bodies, and any `MaxToken`:

| theorem | states |
|---|---|
| `TypeCorrect` | `[]TypeOK` |
| `ShapeSafe` | `[]SessionShape` |
| `TokensSafe` | `[]TokensExclusive` |
| `RefcountSafe` | `[]RefcountExact` |
| `CaptureSafe` | `[]CapturedBodyIsOwn` |
| `DeliverySafe` | `[]DeliveredBodyIsOwn` |
| `LateIsInert` | `LateUploadIsInert` |
| `DeadIsSilent` | `DeadStaysSilent` |
| `ContractImplemented` | `Spec => ContractSpec`, the refinement |

Assumptions: `None` is no body, no session, no pending receive and no writer;
`MaxToken` is a natural number.

The argument.  `IInv` is the conjunction of the six invariants.  It is
inductive, while `DeliveredBodyIsOwn` alone is not: a delivered body was
the body waiting in the pending receive, so `CapturedBodyIsOwn` is needed one
step earlier, and that the receive's token is the token of the continuation is
in `SessionShape`.  The seventeen ways a step can go are first reduced to a few
*outcomes* (`StepOutcome`: a session started, moved on, ended, kept; an upload
captured; a restart), each described by what it does to the fields; each
invariant is then proved once per outcome.  The refinement uses `IInv` and the
bound on tokens (`Bounded`): an outcome that rotates the token maps to `Begin`
or `Continue`, one that removes the session to `End`, the others to `Refuse`
or a stuttering step, and a restart to `Crash`.

`DeviceFlowProofs`, for any devices and downloads, any number of tokens and transactions,
and a network that loses, repeats and delays or does not (`Lossy`):

| theorem | states |
|---|---|
| `FlowTypeCorrect` | `[]FlowTypeOK` |
| `FlowImplementsCore` | `FlowSpec => Spec`: the composition implements the session core |
| `RunInOrder` | `[]ScriptsInOrder` |
| `StaysInStep` | `HandlerInStep` |
| `BodiesWhole` | `[](~Lossy => OkBodyWhole)` |
| `NobodyStranded` | `[](~Lossy => NotStranded)` |

Assumptions: those of the core; each transaction of a device is an upload context; the two
bodies are the complete and the partial one; `None` is no script.

The argument.  `FlowInv` says where tokens can be: a request carries the token of a script
that its device has run (`RequestsSent`), an answer that a device still waits for has a
script that comes after all that it has run (`RepliesFit`), since the token was drawn for it
and the device ran nothing while it waited, and an answer for an earlier transaction is not
awaited.  So a token that reaches the provider was issued, which makes every hook call one
of the core's steps: with that the six invariants of the core and its contract hold for the
devices, and what the provider was last asked for (`AnswerFits`) was run.  For a network
that works, `NoneForgotten` adds that a device has at most one request or answer under way
(`OneAtATime`), and that for every suspended handler the script, or its continuation, is
with the device or between the two (`Bound`).

`DownloadJobsProofs`, for any keys, destinations and handlers and any size of a payload:

| theorem | states |
|---|---|
| `TypeCorrect` | `[]TypeOK` |
| `NothingHalfWritten` | `[]NoHalfWrittenFile` |
| `DoneMeansPublished` | `[]DoneIsPublished` |
| `SettledForGood` | `SettledStays` |

Assumptions: a job has a key and a destination of the model; a size is a number; `None` is
nothing else.

The argument.  That a file is whole is known to the thread alone, one step earlier.
`ThreadsWork` ties its position to its entry (pending until it is marked), to its `.part`
file (as long as what it has written, and whole at the rename) and to the file at its
destination (there from the rename on).  `HandlersWait` ties a handler to an entry of its
own URL, since no entry is removed or taken over while the process runs.

`ActiveRangesProofs`, for any documents, requests, devices, memory and ranges and any number
of starts:

| theorem | states |
|---|---|
| `TypeCorrect` | `[]TypeOK` |
| `DictionariesAgree` | `[]PublicIsVisible` |
| `StartOrder` | `[]StartPrecedence` |
| `AnswersChangeWhatIsAsked` | `AnswersMerge` |
| `SearchFinds` | `[]FindsActive` |
| `ChecksumsShown` | `[]CrcShown` |

Assumptions: a script has one to six checksums, as many as there are names for them
(`openipc.py:381`); the smallest range is positive; `Worlds` are of the right kinds: paths
and documents are sequences, every section has names of variables only, and ranges are in
the memory; `None` is no name; the client's name in the requests is in lower case.  That the
search keeps nothing that is still is stated, as in the code's comment, for ranges of one
size, which is `min_chunk` times a power of two, at multiples of `min_chunk` (`Even`).

The argument.  `IInv` says of the one session what its handler may rely on at the point
where it is (`Good`).  The dictionaries: they are written in three places, and `PublicMerge`
is the fact behind their agreement: to hide the private keys of what was merged is to merge
without them, which fails as soon as two of the places name different keys.  The search: in
the middle of a pass (`SearchOK`) every unit that always changes lies in a range that was
found changed or in a batch that is still to come, and at the second script of a batch the
checksums kept from the first are those of the memory as it then was.  That the same keys
carry the results of all batches does no harm because a handler goes on only when the
session accepts the answer, and the answer to a script that asked for those keys has all of
them (`ScriptAnswers`).  Halving and merging are lemmas about sets of ranges.  Induction
over numbers is done by least counterexamples (`Induction` in `SequenceFacts`), as the
library's theorem cannot be used.

`InstallFlowProofs`, for any size of the flash, any two supported sizes, any sizes
the probe tries, any requests, any number of installations, and any faults:

| theorem | states |
|---|---|
| `InstallTypeCorrect` | `[]InstallTypeOK` |
| `OriginalSafe` | `[]OriginalKept` |
| `PromiseImplemented` | `Spec => PromiseKept`, the refinement of `FlashPromise` |
| `FinishedIsFetched` | `WrittenAsFetched` |

Assumptions: sizes are positive numbers of blocks and `Small < Large`; requests are
requests; `None` is nothing else.  `OriginalSafe` and `PromiseImplemented` also need a flash
that can be read (`"read" \notin Faults`), which the code takes for granted; the other two
do not.

The argument.  `OriginalKept` says nothing of what the camera is about to do,
so the inductive invariant (`IInv`) adds `BackupFirst` and `InStep`.  A block is
*spare* when a backup has its original or it is no longer original.  Spare blocks
stay spare: an erase does not touch the backups, and a new backup has a name of its
own (its stamp is greater than all before).  From the instruction after the
upload on, all blocks of the session's size are spare, since the upload was the
flash as it was then and nothing wrote to it since; and the restore script is no longer
than the session's size (`InStep`: an image is at most as long as the size
it was asked for).  So every block that is erased is spare, which is what `GiveUp`
needs; `OriginalKept` then follows from the refinement.  The steps are grouped
by what they do to the invariant's variables (`InstructKeeps`, `LeaveKeeps` and
the like), as the many handler steps differ only in that.
For `FinishedIsFetched` the invariant is `Written`: unless a line failed, the blocks before
the one that the restore script erases are blank, those before the one that it writes are
as in memory, and so is the image as long as the camera goes on with this session.  That a
block is blank when it is written is needed, as writing another would not give what is in
memory.  A reboot, after which the memory is another, takes the camera out of the script.

`StaticFilesProofs`, for any sets of uploads and reads, any size of a body and any
number of versions:

| theorem | states |
|---|---|
| `TypeCorrect` | `[]TypeOK` |
| `SettledStaysWhole` | `[]SettledIsWhole` |
| `ReadsAreWhole` | `[]CalmReadIsWhole` |
| `NeverMixed` | `[]NoMix` |

Assumptions: a body has at least one chunk; `None` is no version and no transfer; the
handler is none of the WRQs.

The argument.  None of the three safety properties is inductive: what is on disk is only
part of what a writer has taken, and who else writes decides whether it may be relied on.
`IInv` adds that a writer has flushed no more than it has received (`HandsWrite`); that one
that is `alone` is the only writer of its inode, and its inode holds just what it has flushed
(`AloneIsAlone`); that a writer on an inode that was never crowded is alone
(`UncrowdedIsAlone`); that such an inode is a prefix of one body (`UncrowdedIsPrefix`); that
a settled inode has no writer (`SettledIsLeft`); and that the inode of a calm RRQ of a settled
file has none either, is whole, and what was sent is the beginning of it (`ReadsSend`).
`WrittenPrefix` is the fact that all of it rests on: writing the next chunks
of a body behind its beginning gives a longer beginning of it.

`UbootEnvProofs`, for any environments, layouts, arguments, number of patches and length of
what follows the environment:

| theorem | states |
|---|---|
| `NothingElseIsWritten` | `[]BootAndKernelKept` |
| `DeviceTakesPatches` | `[]PatchTakes` |
| `PatchesReadBack` | `[]ReadsBack` |
| `EffectiveIsTheDevices` | `[]EffectiveEnv` |

Assumptions: environments and layouts are of their kinds, with something behind the
environment; `None` is nothing else.  A device of either endianness and with either header is
a layout.

The argument.  What is resolved depends on what is found in the image, and the image on what
was resolved before, so a patch in the wrong place changes what the next search finds.
`IInv` cuts this circle in two places.  Whatever the user passes, no layout begins in front
of the default environment in the code (`BehindCode`): one that is inferred begins behind a
default environment that was found, and nothing in front of the code's can be taken for
one.  So the code's default stays for ever (`UpToCode`).  And as long as nothing but the
partition was written (`Kept`), the kernel is found where it is (`BoundaryIs`), and what is
resolved is a function of the layout, the arguments and the code's default (`ResolvedKept`),
although the best environment that is found may be one in the partition: that one names the
same layout or none.  With safe arguments the next patch is then inside the partition
(`InsidePart`), and it is exactly the partition once a layout is known (`ExactPart`).  What
a patch writes, and what a slice reads back, are lemmas on sequences (`PastedIs`,
`SliceEquals`).  The last part of `IInv` says what the partition holds (`Holds`): the last
patch in the form that it was built in, or, when the device wrote last, no environment in
another form than the device's own (`OwnForm`).  As a checksum fits behind one header and in
one order only (`CheckedIs`), the device then loads a patch exactly if it is in its form, and
the parser, which takes every form, finds what the device finds.

Only model-checked: all liveness (`InstructionEnds`, `WaitingEnds`, `InstallEnds`,
`FindEnds`), as temporal proofs with fairness and `ENABLED` are out of this prover's reach;
the counterexamples of the four runs that have one; and `SimulatedClient`, whose only run is
one of these.

## 5. What is not modelled, and the plan

Left out for good: TOML reading and logging, the image header and its
checksums, terminal text, percent escapes, decompression and the numbers of the scoring
heuristics of the environment extractor (library code and heuristics), tftpy's blocks and
windows, the parsing of scripts by the simulated client.  Timestamps, counters and
`by_client_id` are written and never read.  The command `manifest` filters a list and
calls `uboot_download_url` once per match; it touches no flash and has no order of its own.

Left to do, in this order:

1. `InstallFlow` over `DownloadJobs`, with two cameras that share an image, so that what a
   handler reads as its image is what a thread has published.
2. What the restore script leaves behind when it is broken off: for which images the camera
   can be installed again.
