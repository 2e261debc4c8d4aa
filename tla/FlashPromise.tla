------------------------------ MODULE FlashPromise ------------------------------
(***************************************************************************)
(* What an installation promises of the flash: a block of the original      *)
(* contents is given up only when the server keeps a copy of it, and the    *)
(* server never loses such a copy.                                          *)
(***************************************************************************)
CONSTANT Blocks

VARIABLES
  held,   \* the blocks of the flash that are still original
  saved   \* the blocks of which the server keeps the original

vars == <<held, saved>>

Init == held = Blocks /\ saved = {}

\* A backup copies what the flash holds.
Save(S) ==
  /\ S \subseteq held
  /\ saved' = saved \cup S
  /\ UNCHANGED held

\* A block is erased.
GiveUp(b) ==
  /\ b \in saved
  /\ held' = held \ {b}
  /\ UNCHANGED saved

Next == (\E S \in SUBSET Blocks : Save(S)) \/ (\E b \in Blocks : GiveUp(b))

Spec == Init /\ [][Next]_vars
===============================================================================
