-------------------------------- MODULE UbootEnv --------------------------------
(***************************************************************************)
(* Environments in flash images: ubootenv_extract, ubootenv_patch and what  *)
(* they rest on, the command uboot-tftp-env, and the images they meet.      *)
(*                                                                          *)
(* An image is a sequence of 64 KB blocks, the smallest environment that    *)
(* the code tries; offsets and sizes are in blocks.  A block shows what the *)
(* code looks for in it: U-Boot code with a default environment (plain or   *)
(* packed, the scan finds both), an environment behind a checksum, one as   *)
(* text, the first bytes of a kernel or file system, 0xFF, or other data.   *)
(* A checksum fits one content only, and read in the other order of bytes   *)
(* none.                                                                    *)
(***************************************************************************)
EXTENDS Integers, Sequences, FiniteSetsExt

CONSTANTS
  Envs,     \* the environments, with what the code sees of them
  Layouts,  \* how flashes are laid out
  Rest,     \* how many blocks follow the environment
  None      \* Python's None; a result that is not there: ValueError

\* An environment: how many keys it has, how many of them core keys, the score of
\* its text, and the values of its mtdparts keys in the order they are tried.
Partition == [name : {"boot", "env", "other"}, size : Nat \cup {None}]
Env == [id : STRING, keys : Nat, core : Nat, score : Nat, specs : Seq(Seq(Partition))]

\* The low byte first, or the high one.
Orders == {"little", "big"}

\* start: where the boot partition begins; header: 5 with a flags byte; order: which
\* byte of a checksum comes first in this U-Boot; code: the block of the boot partition
\* that has the default environment; decoy: another, if there is one, that holds four
\* bytes that look like the start of a kernel.
Layout ==
  {l \in [start : Nat, boot : Nat \ {0}, env : Nat \ {0}, header : {4, 5}, order : Orders,
          code : Nat \ {0}, decoy : Nat] : l.code <= l.boot /\ l.decoy <= l.boot /\ l.decoy # l.code}

ASSUME EnvsAreEnvs == Envs \subseteq Env
ASSUME LayoutsAreLayouts == Layouts \subseteq Layout /\ Rest \in Nat \ {0}
ASSUME NoneIsNothing ==
  /\ None \notin Envs \cup Nat \cup [boot : Nat, env : Nat]
  /\ None \notin [boot : Nat, at : Nat, size : Nat, default : Envs \cup {None}]
  /\ None \notin [env : Envs, header : {4, 5}]

VARIABLES
  truth,  \* the layout of this flash
  args,   \* the partition boundaries that the user passes
  image,  \* the flash image
  first,  \* what it was at first
  wrote   \* what was patched in last and with which header, unless the device wrote later

vars == <<truth, args, image, first, wrote>>

-------------------------------------------------------------------------------
(* Blocks.                                                                  *)

\* kind: code, env, raw, magic, data or erased; the rest says what code, text (raw) and
\* an environment partition hold, good whether its checksum fits, and in which order.
Plain(kind) == [kind |-> kind, env |-> None, size |-> 0, header |-> 0, order |-> None,
                good |-> FALSE]
Erased == Plain("erased")
Text(kind, e) == [Plain(kind) EXCEPT !.env = e]

\* A header, the environment, and 0xFF up to the size.
EnvImage(e, size, header, order) ==
  [i \in 1 .. size |->
     IF i = 1 THEN [kind |-> "env", env |-> e, size |-> size, header |-> header,
                    order |-> order, good |-> TRUE]
              ELSE Erased]

\* The checksum is written with its low byte first, whatever the device is.
ubootenv_build(e, size, header) == EnvImage(e, size, header, "little")

Or(x, y) == IF x # None THEN x ELSE y

\* image[offset : offset + size]
Slice(img, offset, size) == SubSeq(img, offset + 1, Min({offset + size, Len(img)}))

-------------------------------------------------------------------------------
(* Reading environments.                                                    *)

\* The checksum behind a header of this length fits in this order, and there are entries.
Checked(part, header, order) ==
  /\ part[1].kind = "env" /\ part[1].good
  /\ part = EnvImage(part[1].env, Len(part), header, order)
  /\ part[1].env.keys > 0

\* Text after leading 0xFF, with two keys at least.
Used(part) == {i \in 1 .. Len(part) : part[i] # Erased}
Raw(part) == part[Min(Used(part))].kind = "raw" /\ part[Min(Used(part))].env.keys >= 2

\* MUTANT: an environment with a flags byte is not recognised.
ParsePlain(part) ==
  IF Used(part) # {} /\ (\E order \in Orders : Checked(part, 4, order)) THEN part[1].env
  ELSE None

\* Either header and either order will do.
ubootenv_parse_part(part) ==
  IF Used(part) = {} THEN None
  ELSE IF \E header \in {4, 5}, order \in Orders : Checked(part, header, order)
       THEN part[1].env
  ELSE IF Raw(part) THEN part[Min(Used(part))].env
  ELSE None

Plausible(e) == e.keys >= 5 /\ e.core >= 2

\* The best of all environments in a region, the first among equals: the default
\* in the code, but also those of partitions, whether their checksum fits or not.
Best(region, found) ==
  IF found = {} THEN None
  ELSE region[Min({i \in found : \A j \in found : region[i].env.score >= region[j].env.score})].env
extract_default_env_from_uboot(region) ==
  Best(region, {i \in 1 .. Len(region) : region[i].env # None /\ Plausible(region[i].env)})

-------------------------------------------------------------------------------
(* Where the partitions are.                                                *)

\* _parse_mtdparts_spec: a list that begins with boot and env, of known size.
Parts(spec) ==
  IF /\ Len(spec) >= 2
     /\ spec[1].name = "boot" /\ spec[1].size # None
     /\ spec[2].name = "env" /\ spec[2].size # None
  THEN [boot |-> spec[1].size, env |-> spec[2].size]
  ELSE None

\* _find_mtdparts_layout: the first value that is such a list.
Mtdparts(e) ==
  LET read == {i \in 1 .. Len(e.specs) : Parts(e.specs[i]) # None}
  IN IF read = {} THEN None ELSE Parts(e.specs[Min(read)])

\* _find_first_post_boot_magic: the first 64 KB of the boot partition are skipped.
Boundary(img, offset) ==
  LET marks == {o \in offset + 1 .. Len(img) - 1 : img[o + 1].kind = "magic"}
  IN IF marks = {} THEN None ELSE Min(marks)

ProbeLimit == 32
CommonEnvSizes == {1, 2, 4}

\* A layout with the environment at a place, and the default that is in front of it.
Before(img, offset, at, size) ==
  [boot |-> at - offset, at |-> at, size |-> size,
   default |-> extract_default_env_from_uboot(Slice(img, offset, at - offset))]

\* MUTANT: the environment is taken to begin where the kernel does.
GuessBehind(img, offset, boundary) == Before(img, offset, boundary, 1)

\* The first common size that leaves a default environment in front of it.
Smallest(layouts) ==
  IF layouts = {} THEN None ELSE CHOOSE p \in layouts : \A q \in layouts : p.size <= q.size
GuessByBoundary(img, offset, boundary) ==
  Smallest({p \in {Before(img, offset, boundary - size, size) :
                     size \in {n \in CommonEnvSizes : boundary - n > offset}} : p.default # None})

\* What the default environment says, and else what the kernel's place suggests.
ByDefault(img, offset, boundary, default) ==
  LET parts == Mtdparts(default)
  IN IF default = None THEN None
     ELSE IF parts # None
          THEN [boot |-> parts.boot, at |-> offset + parts.boot, size |-> parts.env,
                default |-> default]
     ELSE IF boundary = None THEN None
     ELSE GuessByBoundary(img, offset, boundary)

\* _guess_boot_probe_size
ProbeSize(img, offset, boundary) ==
  IF boundary # None THEN boundary - offset ELSE Min({Len(img) - offset, ProbeLimit})

\* _infer_partition_layout, in the region of the boot partition or what may be it.
InferredIn(img, offset, boundary, probe) ==
  IF Len(Slice(img, offset, probe)) # probe THEN None
  ELSE ByDefault(img, offset, boundary, extract_default_env_from_uboot(Slice(img, offset, probe)))
Inferred(img, offset, boundary, boot) ==
  InferredIn(img, offset, boundary, Or(boot, ProbeSize(img, offset, boundary)))

\* _resolve_partition_layout: what is not passed follows from what is, or is inferred.
Sensible(a, p) == IF p.boot > 0 /\ p.size > 0 /\ p.at >= a.offset THEN p ELSE None
Completed(a, p, guess) ==
  IF guess = None THEN None
  ELSE Sensible(a, [boot |-> Or(p.boot, guess.boot), at |-> Or(p.at, guess.at),
                    size |-> Or(p.size, guess.size), default |-> guess.default])
Given(a) ==
  [boot |-> IF a.boot = None /\ a.at # None THEN a.at - a.offset ELSE a.boot,
   at |-> IF a.at = None /\ a.boot # None THEN a.offset + a.boot ELSE a.at,
   size |-> a.size, default |-> None]
ResolvedFrom(img, a, p) ==
  IF None \notin {p.boot, p.at, p.size} THEN Sensible(a, p)
  ELSE Completed(a, p, Inferred(img, a.offset, Boundary(img, a.offset), p.boot))
Resolved(img, a) == ResolvedFrom(img, a, Given(a))

-------------------------------------------------------------------------------
(* The two functions.                                                       *)

\* MUTANT: the default that was found on the way is preferred to the partition.
ExtractDefaultFirst(img, a, p) ==
  IF p = None THEN None
  ELSE IF Len(Slice(img, p.at, p.size)) # p.size THEN None
  ELSE Or(p.default, ubootenv_parse_part(Slice(img, p.at, p.size)))

\* The partition, which must be in the image, and else the default.
ExtractAt(img, a, p) ==
  IF p = None THEN None
  ELSE IF Len(Slice(img, p.at, p.size)) # p.size THEN None
  ELSE Or(ubootenv_parse_part(Slice(img, p.at, p.size)),
          Or(p.default,
             IF Len(Slice(img, a.offset, p.boot)) # p.boot THEN None
             ELSE extract_default_env_from_uboot(Slice(img, a.offset, p.boot))))

ubootenv_extract(img, a) == ExtractAt(img, a, Resolved(img, a))

\* MUTANT: the flags byte is left out.
PatchUnflagged(img, p, e, header) ==
  IF p = None THEN None
  ELSE Slice(img, 0, p.at) \o ubootenv_build(e, p.size, 4)
         \o Slice(img, p.at + p.size, Len(img))

\* The environment is written whether or not the image holds all of its partition.
PatchAt(img, p, e, header) ==
  IF p = None THEN None
  ELSE Slice(img, 0, p.at) \o ubootenv_build(e, p.size, header)
         \o Slice(img, p.at + p.size, Len(img))

ubootenv_patch(img, a, e, header) == PatchAt(img, Resolved(img, a), e, header)

-------------------------------------------------------------------------------
(* What is done with an image.                                              *)

EnvAt == truth.start + truth.boot
EnvBlocks == EnvAt + 1 .. EnvAt + truth.env

\* mtdparts that contradict this flash are in no environment of it.
HereEnvs == {e \in Envs : Mtdparts(e) \in {None, [boot |-> truth.boot, env |-> truth.env]}}

Patched(e, header) ==
  /\ \E patched \in {ubootenv_patch(image, args, e, header)} \ {None} : image' = patched
  /\ wrote' = [env |-> e, header |-> header]
  /\ UNCHANGED <<truth, args, first>>

\* uboot-tftp-env --output: only what the user passes is written, and something is, with
\* a flags byte or without.
PatchByCommand(e) == e.keys > 0 /\ \E header \in {4, 5} : Patched(e, header)

\* openipc_install: the environment is extracted, entries are replaced and added,
\* and it is written back where the image itself says that it is, without a flags byte
\* whatever the device has.
NoArgs == [offset |-> 0, boot |-> None, at |-> None, size |-> None]
Merged(e) == {n \in HereEnvs : n.specs = e.specs /\ n.keys >= e.keys /\ n.core >= e.core}
PatchByInstall ==
  /\ args = NoArgs
  /\ \E old \in {ubootenv_extract(image, args)} \ {None} : \E e \in Merged(old) : Patched(e, 4)

\* The device runs, saves its environment, is switched off while it does, or the
\* partition is erased, and the flash is read again.
DeviceWrites(part) ==
  /\ image' = [i \in 1 .. Len(image) |-> IF i \in EnvBlocks THEN part[i - EnvAt] ELSE image[i]]
  /\ wrote' = None
  /\ UNCHANGED <<truth, args, first>>

DeviceImage(e) == EnvImage(e, truth.env, truth.header, truth.order)
SaveEnv(e) == DeviceWrites(DeviceImage(e))
SaveBreaks(e) == DeviceWrites([DeviceImage(e) EXCEPT ![1].good = FALSE])
EraseEnv == DeviceWrites([i \in 1 .. truth.env |-> Erased])

-------------------------------------------------------------------------------
(* The images that there are at first: something in front of the boot       *)
(* partition or not, U-Boot, an environment partition that is erased or     *)
(* holds text, a kernel and the rest.                                       *)

FlashImage(default, part) ==
  [i \in 1 .. truth.start |-> Plain("data")]
    \o [i \in 1 .. truth.boot |-> CASE i = truth.code -> Text("code", default)
                                    [] i = truth.decoy -> Plain("magic")
                                    [] OTHER -> Plain("data")]
    \o part
    \o [i \in 1 .. Rest |-> Plain(IF i = 1 THEN "magic" ELSE "data")]

ErasedPart == [i \in 1 .. truth.env |-> Erased]
FirstParts == {ErasedPart} \cup {[ErasedPart EXCEPT ![truth.env] = Text("raw", e)] : e \in HereEnvs}

\* What a user who knows the flash passes or leaves out, or a size that the image
\* does not have.
Arguments ==
  [offset : {truth.start}, boot : {truth.boot, None}, at : {EnvAt, None},
   size : {truth.env, truth.env + Rest + 1, None}]

Init ==
  /\ truth \in Layouts
  /\ args \in Arguments
  /\ \E default \in {e \in HereEnvs : Plausible(e)}, part \in FirstParts :
       image = FlashImage(default, part)
  /\ first = image
  /\ wrote = None

Next ==
  \/ \E e \in HereEnvs : PatchByCommand(e) \/ SaveEnv(e) \/ SaveBreaks(e)
  \/ PatchByInstall
  \/ EraseEnv

Spec == Init /\ [][Next]_vars

-------------------------------------------------------------------------------
(* What must hold.                                                          *)

\* What the user says of the partition's place, and what the image says of it.
Default == image[truth.start + truth.code].env
Placed == args.boot # None \/ args.at # None
TrueSize == args.size \in {truth.env, None}
Marked == Mtdparts(Default) # None
NoDecoy == truth.decoy = 0

\* The layout that is found does not hang on what the environment partition holds:
\* it is passed, or the mtdparts in the code decide since the partition is out of
\* the region that is searched, or the kernel is right behind an environment of
\* the smallest size.
Known ==
  \/ Placed /\ (args.size = truth.env \/ (Marked /\ args.size = None))
  \/ TrueSize /\ Marked /\ truth.decoy > truth.code
  \/ TrueSize /\ NoDecoy /\ truth.env = Min(CommonEnvSizes)

\* No sequence of patches touches the boot partition, the kernel or what follows, or
\* makes the image longer, when the user passes where the environment is, or nothing at
\* all and the code can be told from a kernel.  With its size alone passed it does not hold: the place
\* is then inferred for 64 KB and a larger environment is written over the start of
\* the kernel (_resolve_partition_layout, _infer_partition_layout, ubootenv_patch).
BootAndKernelKept ==
  TrueSize /\ (Placed \/ (args.size = None /\ (NoDecoy \/ Marked))) =>
    /\ Len(image) = Len(first)
    /\ \A i \in (1 .. Len(first)) \ EnvBlocks : image[i] = first[i]

\* The environment that U-Boot itself takes: that of its partition when the checksum
\* fits behind the header that it was built for and in its own order of bytes, else the
\* default in its code.
DeviceEnv ==
  LET part == Slice(image, EnvAt, truth.env)
  IN IF Len(part) = truth.env /\ Checked(part, truth.header, truth.order) THEN part[1].env
     ELSE Default

\* What the two functions wrote is in the form that this device reads.
Native == wrote.header = truth.header /\ truth.order = "little"

\* Once a layout is known, what was patched in is what the device itself loads, as size
\* and place are those that U-Boot expects, if it was patched with the header that this
\* U-Boot has and U-Boot reads the low byte of the checksum first.  Otherwise, as on a
\* big-endian camera, the device ignores the patch and falls back to the default in its
\* code (ubootenv_build, ubootenv_patch, the TODO in openipc_install).
PatchTakes ==
  Known /\ wrote # None => DeviceEnv = IF Native THEN wrote.env ELSE Default

\* ... and what ubootenv_extract returns when it is called the same way, although
\* the patched text now takes part in the search for the layout.  That the device reads
\* it too does not follow: either header and either order of bytes will do here.
ReadsBack == Known /\ wrote # None => ubootenv_extract(image, args) = wrote.env

\* With the place known, the effective environment is the one that the device
\* uses: its partition if the checksum fits, whatever that partition held before,
\* and else the default in its code.  This needs a partition that the device wrote last,
\* or a patch in its own form: of another patch ubootenv_extract returns the environment,
\* which the device does not use (ReadsBack, PatchTakes).  Without the place it does not
\* hold: a partition with a broken checksum is found in the search for the default and
\* may be taken for it (ubootenv_extract, extract_default_env_from_uboot).
EffectiveEnv ==
  Known /\ Placed /\ (wrote # None => Native) /\ (\A i \in EnvBlocks : image[i].kind # "raw") =>
    ubootenv_extract(image, args) = DeviceEnv
===============================================================================
