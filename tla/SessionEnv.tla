------------------------------- MODULE SessionEnv -------------------------------
(***************************************************************************)
(* The variables that a handler sees: what the configuration and the start  *)
(* request put into the environment of a session, and how the answers of    *)
(* the device get into it.                                                  *)
(*                                                                          *)
(* A request path is a sequence of segments, the parts between slashes: a   *)
(* key and a text, or a text alone, whose key is None.  U-Boot pastes a     *)
(* variable into the path as it is, so a variable is a sequence of          *)
(* segments too: its text up to the first slash, and what follows.          *)
(***************************************************************************)
EXTENDS Naturals, Sequences, SequencesExt, TLC

CONSTANTS
  Lower,  \* client ids and section names, in lower case
  None

\* Keys that the provider keeps to itself, and keys of the protocol.
Hidden == {"rambase", "cmdtftp", "cmdtftpput"}
Reserved == {"token", "recv"}

NoVariables == [k \in {} |-> <<>>]
Without(env, keys) == [k \in DOMAIN env \ keys |-> env[k]]

\* dict.update: values @@ env, in a form that the provers can expand.
Updated(env, values) ==
  [k \in DOMAIN env \cup DOMAIN values |-> IF k \in DOMAIN values THEN values[k] ELSE env[k]]

-------------------------------------------------------------------------------
(* protocol.py: the path behind /id=<client>.                               *)

Segment(key, text) == [key |-> key, text |-> text]

\* The variables that segments set: the last segment with a key counts.
Values(segments) ==
  [k \in {segments[i].key : i \in DOMAIN segments} \ {None} |->
     segments[CHOOSE i \in DOMAIN segments :
                segments[i].key = k
                /\ \A j \in DOMAIN segments : j > i => segments[j].key # k].text]

IsContinuation(segments) == "token" \in DOMAIN Values(segments)

\* ${key} in U-Boot: nothing, when it is not set.
Expand(vars, key) == IF key \in DOMAIN vars THEN vars[key] ELSE <<Segment(None, <<>>)>>

\* _append_return_keys, as the device sends it.
Returned(vars, key) ==
  <<Segment(key, Head(Expand(vars, key)).text)>> \o Tail(Expand(vars, key))
ContinuePath(vars, token, keys) ==
  <<Segment("token", token)>> \o FlattenSeq([i \in DOMAIN keys |-> Returned(vars, keys[i])])

-------------------------------------------------------------------------------
(* config.py: a document is a sequence of sections, each a name and a table. *)

Table(doc, name) ==
  LET at == {i \in DOMAIN doc : doc[i].name = name}
  IN  IF at = {} THEN NoVariables ELSE doc[CHOOSE i \in at : TRUE].table

Clients(doc) == {i \in DOMAIN doc : doc[i].name \notin {"server", "env", "default"}}

ConfigLoads(doc) ==
  /\ Hidden \subseteq DOMAIN Table(doc, "env")
  /\ \A i \in Clients(doc) : "entry_func" \in DOMAIN doc[i].table

Route(table) ==
  [entry_func |-> IF "entry_func" \in DOMAIN table THEN table["entry_func"] ELSE <<"default">>,
   env |-> Without(table, {"entry_func"})]

\* MUTANT: section names keep their case.
RouteForCased(doc, client) ==
  LET named == {i \in Clients(doc) : doc[i].name = Lower[client]}
  IN  Route(IF named = {} THEN Table(doc, "default")
            ELSE doc[CHOOSE i \in named : \A j \in named : j <= i].table)

\* The section of a client, the last one in any case, else [default].
RouteFor(doc, client) ==
  LET named == {i \in Clients(doc) : Lower[doc[i].name] = Lower[client]}
  IN  Route(IF named = {} THEN Table(doc, "default")
            ELSE doc[CHOOSE i \in named : \A j \in named : j <= i].table)

-------------------------------------------------------------------------------
(* scripted.py: the environment of a session.                               *)

Command(segments) == IF segments = <<>> THEN Segment(None, <<>>) ELSE segments[1]

SessionEnvOf(doc, client, segments) ==
  Updated(Updated(Table(doc, "env"), RouteFor(doc, client).env),
          IF segments = <<>> THEN NoVariables ELSE Values(Tail(segments)))

PublicEnv(env) == Without(env, Hidden)

\* MUTANT: what is returned is public, whatever its name.
MergeAllPublic(session, values) ==
  [session EXCEPT !.env = Updated(@, Without(values, Reserved)),
                  !.public_env = Updated(@, Without(values, Reserved))]

\* MUTANT: a variable that is known already is kept.
MergeKept(session, values) ==
  [session EXCEPT !.env = Updated(Without(values, Reserved), @),
                  !.public_env = Updated(Without(values, Reserved \cup Hidden), @)]

\* _merge_continuation_values
Merge(session, values) ==
  [session EXCEPT !.env = Updated(@, Without(values, Reserved)),
                  !.public_env = Updated(@, Without(values, Reserved \cup Hidden))]
===============================================================================
