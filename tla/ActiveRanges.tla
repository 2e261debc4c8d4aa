------------------------------ MODULE ActiveRanges ------------------------------
(***************************************************************************)
(* Sessions of one device whose handlers work through the variables that    *)
(* the device returns: the commands active and crc32, which have the device *)
(* compute checksums of its memory, and any other handler.                  *)
(*                                                                          *)
(* A step is one round: the device runs the script it has, asks to continue *)
(* and gets what the handler makes of the answer.  Transfers, tokens and    *)
(* receives are in ScriptedSessions and DeviceFlow.  Memory is a row of     *)
(* units; a checksum is the contents of its units, so that different        *)
(* contents have different checksums.                                       *)
(***************************************************************************)
EXTENDS SessionEnv, FiniteSets

CONSTANTS
  Worlds,     \* documents, requests, asks, variables, ranges, memories, endianness
  MinChunk,   \* min_chunk of find_active
  MaxRanges,  \* max_ranges: checksums in one script
  MaxStarts   \* bounds the start requests

\* The keys of the checksums in one script, as many as max_ranges has by default, and
\* as the ranges of the command crc32.
KeyNames == <<"_0", "_1", "_2", "_3", "_4", "_5">>

ASSUME SizesAreNats ==
  MinChunk \in Nat \ {0} /\ MaxRanges \in 1 .. Len(KeyNames) /\ MaxStarts \in Nat

VARIABLES
  world,    \* what does not change: one of Worlds
  session,  \* env, public_env and the return keys of the last script
  handler,  \* where the handler is
  vars,     \* the variables of the device
  memory,   \* a bit for each unit
  started   \* the start requests so far, the last of them at the end

activeVars == <<world, session, handler, vars, memory, started>>

Client == "cam"
ASSUME ClientIsLower == Lower[Client] = Client
ASSUME NoneIsNoName == None \notin {"token", "hush_shell"} \cup ToSet(KeyNames)
Token == <<"current">>
Idle == [at |-> "idle"]
Plain(text) == <<Segment(None, text)>>

-------------------------------------------------------------------------------
(* The memory of the device.  A unit that holds the script changes with     *)
(* each script, whose token is new.                                         *)

Units == DOMAIN world.memory
Flip(bit) == IF bit = "0" THEN "1" ELSE "0"
Ticks(m) ==
  {n \in [Units -> {"0", "1"}] :
     \A u \in Units : CASE world.memory[u] = "still" -> n[u] = m[u]
                        [] world.memory[u] = "always" -> n[u] = Flip(m[u])
                        [] OTHER -> TRUE}

MemoryRange == [addr : Nat, size : Nat \ {0}]
Within(r) == r.addr .. r.addr + r.size - 1

\* Paths, variables and documents are sequences, and names are not None.
IsSequence(s) == s \in Seq(ToSet(s))

ASSUME WorldsAreTyped ==
  \A w \in Worlds :
    /\ IsSequence(w.doc) /\ \A i \in DOMAIN w.doc : None \notin DOMAIN w.doc[i].table
    /\ \A segments \in w.requests : IsSequence(segments)
    /\ \A keys \in w.asks : IsSequence(keys) /\ None \notin ToSet(keys)
    /\ \A k \in DOMAIN w.vars : IsSequence(w.vars[k])
    /\ w.ranges \in Seq(MemoryRange) /\ Len(w.ranges) <= Len(KeyNames)
    /\ \A i \in DOMAIN w.ranges : Within(w.ranges[i]) \subseteq DOMAIN w.memory
    /\ w.le \in BOOLEAN
Contents(m, r) == [i \in 1 .. r.size |-> m[r.addr + i - 1]]

\* U-Boot stores a checksum big-endian and setexpr.l reads the word in the
\* device's own order; struct.unpack reads it as the handler believes it to be.
Swapped(word) == [word EXCEPT ![1] = IF @ = "right" THEN "swapped" ELSE "right"]
Word(m, r) == <<"right">> \o Contents(m, r)
Stored(m, r) == IF world.le THEN Swapped(Word(m, r)) ELSE Word(m, r)
Unpack(word, le) == IF le THEN Swapped(word) ELSE word

\* crc32: the keys _0, _1, ... of a batch
Key(i) == KeyNames[i]
Keys(ranges) == [i \in DOMAIN ranges |-> Key(i)]
KeyIndex(k) == CHOOSE i \in 1 .. Len(KeyNames) : Key(i) = k
CrcVars(m, ranges) ==
  [k \in {Key(i) : i \in DOMAIN ranges} |-> Plain(Stored(m, ranges[KeyIndex(k)]))]
Crcs(env, ranges, le) == [i \in DOMAIN ranges |-> Unpack(env[Key(i)], le)]

-------------------------------------------------------------------------------
(* openipc.py: find_active.                                                 *)

batched(items) ==
  [i \in 1 .. (Len(items) + MaxRanges - 1) \div MaxRanges |->
     SubSeq(items, (i - 1) * MaxRanges + 1,
            IF i * MaxRanges < Len(items) THEN i * MaxRanges ELSE Len(items))]

\* MUTANT: the half of an odd range is rounded.
DividesAny(r) == TRUE

Divides(r) == r.size % 2 = 0

split_range(r) ==
  <<[addr |-> r.addr, size |-> r.size \div 2],
    [addr |-> r.addr + r.size \div 2, size |-> r.size \div 2]>>

End(r) == r.addr + r.size

\* Where a merged range starts: all ranges before it, in order of their addresses, end
\* before it and do not even touch it.
Starts(all) == {a \in {r.addr : r \in all} : \A r \in all : r.addr < a => End(r) < a}

coalesce_ranges(ranges) ==
  LET all == ToSet(ranges)
      start(i) == CHOOSE a \in Starts(all) : Cardinality({b \in Starts(all) : b < a}) = i - 1
      upto(a) == {End(r) : r \in {s \in all : s.addr >= a /\ ~\E b \in Starts(all) : a < b /\ b <= s.addr}}
  IN  [i \in 1 .. Cardinality(Starts(all)) |->
         [addr |-> start(i), size |-> Max(upto(start(i))) - start(i)]]

\* The ranges of a batch whose checksums differ.
ChangedOf(batch, first, second) ==
  FlattenSeq([i \in DOMAIN batch |-> IF first[i] # second[i] THEN <<batch[i]>> ELSE <<>>])

\* Batch b of the ranges cur; changed of the batches before.
Finding(cur, b, changed) ==
  [at |-> "first", cur |-> cur, b |-> b, changed |-> changed, crcs |-> <<>>]
Batch == batched(handler.cur)[handler.b]

Found(ranges) == [at |-> "found", ranges |-> ranges]

\* MUTANT: a pass goes on with the ranges that it has found, whole.
PassEndsAgain(changed) ==
  IF changed = <<>> THEN Found(<<>>)
  ELSE IF changed[1].size <= MinChunk THEN Found(coalesce_ranges(changed))
  ELSE Finding(changed, 1, <<>>)

\* A pass over cur is complete.
PassEnds(changed) ==
  IF changed = <<>> THEN Found(<<>>)
  ELSE IF changed[1].size <= MinChunk THEN Found(coalesce_ranges(changed))
  ELSE IF \E i \in DOMAIN changed : ~Divides(changed[i]) THEN [at |-> "raised"]
  ELSE Finding(FlattenSeq([i \in DOMAIN changed |-> split_range(changed[i])]), 1, <<>>)

\* The two checksum calls of a batch have returned.
BatchEnds(changed) ==
  IF handler.b < Len(batched(handler.cur)) THEN Finding(handler.cur, handler.b + 1, changed)
                                           ELSE PassEnds(changed)

-------------------------------------------------------------------------------
(* What a script does to the variables, by where the handler is.            *)

HushProbe == [k \in {"hush_shell"} |-> Plain(<<"true">>)]
LeProbe == [k \in {"_1"} |-> Plain(IF world.le THEN <<"44">> ELSE <<"11">>)]
Ran(m) ==
  CASE handler.at = "preflight"          -> Updated(vars, HushProbe)
    [] handler.at = "le"                 -> Updated(vars, LeProbe)
    [] handler.at \in {"first", "second"} -> Updated(vars, CrcVars(m, Batch))
    [] handler.at = "crc"                -> Updated(vars, CrcVars(m, world.ranges))
    [] OTHER                             -> vars

\* Where a handler may go from its answer, with the return keys of its next script.
Go(s, h, keys) == {[session |-> [s EXCEPT !.asked = keys], handler |-> h]}
Ends(h) == {[session |-> None, handler |-> h]}

IsDefault(command) ==
  /\ RouteFor(world.doc, Client).entry_func = <<"default">>
  /\ started.segments # <<>>
  /\ Command(started.segments) = Segment(None, <<command>>)

\* Another handler asks for some variables, or is done; env is what it saw last.
UserGoes(s) ==
  Ends([at |-> "done", env |-> s.public_env]) \cup UNION {Go(s, [at |-> "user"], keys) : keys \in world.asks}

\* _create_handler and the dispatch of default
Enter(s) ==
  IF IsDefault("active") THEN
    IF world.ranges = <<>> THEN Ends(Found(<<>>))
    ELSE Go(s, Finding(world.ranges, 1, <<>>), Keys(batched(world.ranges)[1]))
  ELSE IF IsDefault("crc32") THEN Go(s, [at |-> "le"], <<"_1">>)
  ELSE UserGoes(s)

\* find_active moves on, raises, which leaves the session as it is, or is done.
FindGoes(s, h) ==
  CASE h.at = "first"  -> Go(s, h, Keys(batched(h.cur)[h.b]))
    [] h.at = "raised" -> {[session |-> s, handler |-> h]}
    [] OTHER           -> Ends(h)

FirstGoes(s) ==
  Go(s, [handler EXCEPT !.at = "second", !.crcs = Crcs(s.public_env, Batch, TRUE)],
     Keys(Batch))

\* MUTANT: the second checksums are compared with themselves.
ChangedStale(s) ==
  {handler.changed \o ChangedOf(Batch, crcs, crcs) : crcs \in {Crcs(s.public_env, Batch, TRUE)}}

\* What has changed so far in this pass.
ChangedUpTo(s) ==
  {handler.changed \o ChangedOf(Batch, handler.crcs, crcs) :
     crcs \in {Crcs(s.public_env, Batch, TRUE)}}

SecondGoes(s) == UNION {FindGoes(s, h) : h \in {BatchEnds(changed) : changed \in ChangedUpTo(s)}}

LeGoes(s) ==
  Go(s, [at |-> "crc", le |-> s.public_env["_1"] = <<"44">>], Keys(world.ranges))

\* MUTANT: the endianness is looked up when the checksums are there.
CrcGoesLate(s) ==
  Ends([at |-> "shown", crcs |-> Crcs(s.public_env, world.ranges,
                                      s.public_env["_1"] = <<"44">>)])

CrcGoes(s) ==
  Ends([at |-> "shown", crcs |-> Crcs(s.public_env, world.ranges, handler.le)])

Goes(s) ==
  CASE handler.at = "preflight" -> Enter(s)
    [] handler.at = "first"     -> FirstGoes(s)
    [] handler.at = "second"    -> SecondGoes(s)
    [] handler.at = "le"        -> LeGoes(s)
    [] handler.at = "crc"       -> CrcGoes(s)
    [] handler.at = "user"      -> UserGoes(s)

-------------------------------------------------------------------------------
\* /id=<client>/<command>/<key>=<value>..., typed or booted at any time: the
\* session of the client is replaced.  One with a token is a continuation.
Start(segments) ==
  /\ ConfigLoads(world.doc)
  /\ started.count < MaxStarts
  /\ ~IsContinuation(segments)
  /\ LET env == SessionEnvOf(world.doc, Client, segments)
     IN  session' = [env |-> env, public_env |-> PublicEnv(env), asked |-> <<"hush_shell">>]
  /\ handler' = [at |-> "preflight"]
  /\ started' = [count |-> started.count + 1, segments |-> segments]
  /\ UNCHANGED <<world, vars, memory>>

\* The device has run the script and asks to continue, with the current token unless
\* what was pasted into the path sets another.
Answers(m) == {ContinuePath(Ran(m), Token, session.asked)}

Round ==
  /\ session # None /\ handler.at # "raised"
  /\ \E m \in Ticks(memory) : \E path \in Answers(m) :
       /\ Values(path)["token"] = Token
       /\ \E s \in {Merge(session, Values(path))} : \E next \in Goes(s) :
            session' = next.session /\ handler' = next.handler
       /\ vars' = Ran(m)
       /\ memory' = m
  /\ UNCHANGED <<world, started>>

\* It does: FileNotFoundError, and the device is left at its prompt.
Refused ==
  /\ session # None
  /\ \E m \in Ticks(memory) : \E path \in Answers(m) :
       /\ Values(path)["token"] # Token
       /\ vars' = Ran(m)
       /\ memory' = m
  /\ UNCHANGED <<world, session, handler, started>>

Init ==
  /\ world \in Worlds
  /\ session = None
  /\ handler = Idle
  /\ vars = world.vars
  /\ memory = [u \in Units |-> "0"]
  /\ started = [count |-> 0, segments |-> <<>>]

Next == (\E segments \in world.requests : Start(segments)) \/ Round \/ Refused

Spec == Init /\ [][Next]_activeVars

\* U-Boot runs the script that it has and continues.
FairSpec == Spec /\ WF_activeVars(Round)

-------------------------------------------------------------------------------
(* What must hold.                                                          *)

\* A session has the three variables that the provider's own scripts are made of,
\* however the document and the request are written (_validate_base_env), and the
\* handler works on ranges that are not empty.
TypeOK ==
  /\ session # None =>
       /\ Hidden \subseteq DOMAIN session.env
       /\ None \notin DOMAIN session.env
       /\ Reserved \cap (DOMAIN session.env) \subseteq DOMAIN SessionEnvOf(world.doc, Client, started.segments)
  /\ handler.at \in {"first", "second"} =>
       /\ \A i \in DOMAIN handler.cur : handler.cur[i] \in MemoryRange
       /\ handler.b \in DOMAIN batched(handler.cur)
       /\ Len(Batch) \in 1 .. MaxRanges
  /\ handler.at = "found" => \A i \in DOMAIN handler.ranges : handler.ranges[i] \in MemoryRange
  /\ memory \in [Units -> {"0", "1"}]
  /\ started.count \in 0 .. MaxStarts

\* A handler sees each variable of its session but the three that are the
\* provider's own, also after a device has returned one of these (_public_env,
\* _merge_continuation_values): the two dictionaries never drift apart.
PublicIsVisible == session # None => session.public_env = PublicEnv(session.env)

\* At the start of a session the request goes before the client's section, that
\* before [env], and [default] counts only for who has no section (load_daemon_config,
\* _route_for, _session_env).  Names of sections are compared in lower case, and the
\* first segment is the command, whatever it looks like.
SetBy(key, text, table) == key \in DOMAIN table /\ table[key] = text
MySections == {i \in Clients(world.doc) : Lower[world.doc[i].name] = Client}
Requested(key) ==
  {i \in DOMAIN started.segments : i > 1 /\ started.segments[i].key = key}
StartPrecedence ==
  handler.at = "preflight" =>
    /\ \A i \in DOMAIN started.segments :
         i > 1 /\ started.segments[i].key # None => started.segments[i].key \in DOMAIN session.env
    /\ \A key \in DOMAIN session.env :
         LET text == session.env[key]
         IN  IF Requested(key) # {}
             THEN \E i \in Requested(key) : /\ started.segments[i].text = text
                                            /\ \A j \in Requested(key) : j <= i
             ELSE \/ \E i \in MySections : SetBy(key, text, world.doc[i].table)
                  \/ MySections = {} /\ SetBy(key, text, Table(world.doc, "default"))
                  \/ /\ \E i \in DOMAIN world.doc : world.doc[i].name = "env"
                                                    /\ SetBy(key, text, world.doc[i].table)
                     /\ \A i \in MySections : key \notin DOMAIN RouteFor(world.doc, Client).env

\* What any handler goes on with, in every round up to its last: an answer that is
\* accepted changes the variables that were asked for, to what the device has now, or
\* to nothing, and no others, so that no step of a handler reads what an earlier round
\* has left behind (_append_return_keys, _merge_continuation_values).  A handler may
\* ask for token or recv too: these are never set, and with the device's token in the
\* place of the session's the answer is refused.  With a slash in one of the variables
\* it does not hold: what follows the slash may set others.
Asked(s) == ToSet(s.asked)
NoSlash(s) == \A k \in Asked(s) : Len(Expand(vars', k)) = 1
Answered(env, s) ==
  Updated(env, [k \in Asked(s) \ Reserved |-> Head(Expand(vars', k)).text])
Accepted(s) == Values(ContinuePath(vars', Token, s.asked))["token"] = Token
AnswersMerge ==
  [][session # None /\ started' = started /\ Accepted(session) /\ NoSlash(session) =>
       /\ session' # None => session'.env = Answered(session.env, session)
       /\ handler'.at = "done" => handler'.env = PublicEnv(Answered(session.env, session))]_activeVars

\* Ranges of the same size, by a power of two larger than the smallest, at multiples
\* of that, as the commands have them: 16 MB are 8192 times 2 kB.
Powers == {1, 2, 4, 8, 16, 32, 64, 128, 256, 512, 1024, 2048, 4096, 8192}
Even(ranges) ==
  \A i \in DOMAIN ranges : /\ ranges[i].size = ranges[1].size
                           /\ \E p \in Powers : ranges[i].size = MinChunk * p
                           /\ ranges[i].addr % MinChunk = 0

\* find_active finds every unit that always changes, whatever sizes the ranges have
\* and however many scripts it takes: no batch is forgotten, and no checksum of an
\* earlier script, batch or session is taken for one of this.  With ranges of the same
\* size it finds nothing else, no stretch of min_chunk that is still.  The comment in
\* find_active says that it relies on this; with others it may return a range whole,
\* or raise.
FindsActive ==
  handler.at = "found" =>
    /\ \A i \in DOMAIN world.ranges : \A u \in Within(world.ranges[i]) :
         world.memory[u] = "always" =>
           \E j \in DOMAIN handler.ranges : u \in Within(handler.ranges[j])
    /\ Even(world.ranges) =>
         \A j \in DOMAIN handler.ranges : \A n \in 0 .. (handler.ranges[j].size \div MinChunk) - 1 :
           \E u \in Within([addr |-> handler.ranges[j].addr + n * MinChunk, size |-> MinChunk]) :
             world.memory[u] # "still"

\* The command crc32 shows the checksums of the memory in order, on a device of
\* either endianness, though the probe for it and the checksums use the same keys.
CrcShown ==
  handler.at = "shown" =>
    /\ Len(handler.crcs) = Len(world.ranges)
    /\ \A i \in DOMAIN handler.crcs : handler.crcs[i] = Word(memory, world.ranges[i])

\* With ranges of the same size the search comes to an end, and does not raise: each
\* pass halves the ranges.
FindEnds ==
  handler.at \in {"first", "second"} /\ Even(world.ranges)
    ~> handler.at \in {"found", "preflight"}
===============================================================================
