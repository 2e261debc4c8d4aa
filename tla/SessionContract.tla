---------------------------- MODULE SessionContract ----------------------------
(***************************************************************************)
(* What the scripted provider promises of a continuation token, without     *)
(* handlers, uploads or downloads: a token is given to one client, answers  *)
(* one continuation of that client with a script, and is spent for good.    *)
(***************************************************************************)
EXTENDS Naturals

CONSTANTS Clients, Tokens, NoToken, None

VARIABLES
  current,  \* the token that continues a client's session, or NoToken
  spent,    \* the tokens that no longer continue anything
  reply     \* the last answer: a script or not, to whom, for which token

vars == <<current, spent, reply>>

Init ==
  /\ current = [c \in Clients |-> NoToken]
  /\ spent = {}
  /\ reply = [scripted |-> FALSE, to |-> None, asked |-> NoToken]

Unused(t) == t \notin spent /\ \A c \in Clients : current[c] # t

\* The client's token, if it has one, is spent.
Spend(c) == spent' = spent \cup ({current[c]} \ {NoToken})

Tell(scripted, c, t) == reply' = [scripted |-> scripted, to |-> c, asked |-> t]

\* A session begins, in place of the client's earlier one.
Begin(c) ==
  /\ \E t \in Tokens : Unused(t) /\ current' = [current EXCEPT ![c] = t]
  /\ Spend(c)
  /\ Tell(TRUE, c, NoToken)

\* A script answers the current token, which a new one replaces.
Continue(c) ==
  /\ current[c] # NoToken
  /\ \E t \in Tokens : Unused(t) /\ current' = [current EXCEPT ![c] = t]
  /\ Spend(c)
  /\ Tell(TRUE, c, current[c])

\* The session ends, with a last answer for the current token.
End(c) ==
  /\ current[c] # NoToken
  /\ current' = [current EXCEPT ![c] = NoToken]
  /\ Spend(c)
  /\ Tell(FALSE, c, current[c])

\* Any request may be refused; it then changes nothing.
Refuse(c, t) == Tell(FALSE, c, t) /\ UNCHANGED <<current, spent>>

\* All sessions are lost at once.
Crash ==
  /\ current' = [c \in Clients |-> NoToken]
  /\ spent' = spent \cup ({current[c] : c \in Clients} \ {NoToken})
  /\ reply' = [scripted |-> FALSE, to |-> None, asked |-> NoToken]

Next ==
  \/ \E c \in Clients : Begin(c) \/ Continue(c) \/ End(c)
  \/ \E c \in Clients, t \in Tokens \cup {NoToken} : Refuse(c, t)
  \/ Crash

Spec == Init /\ [][Next]_vars
===============================================================================
