----------------------------- MODULE MCInstallFlow -----------------------------
(* Installations for TLC: a block is 4 MB, so the supported sizes are 2 and 4.*)
EXTENDS InstallFlow

Doublings == {1, 2, 4, 8}

Req(cmd, fw, named, cap, mac, static) ==
  [cmd |-> cmd, fw |-> fw, named |-> named, cap |-> cap, mac |-> mac, static |-> static]

\* Installations that can be accepted, of either size and with either end ...
GoodInstalls == {Req("install", "lite", TRUE, 2, "placeholder", FALSE),
                 Req("install", "ultimate", TRUE, 8, "own", FALSE)}

\* ... and requests that end early: too small, not named, no ethaddr, unknown or
\* ill-suited firmware, other commands.
EveryRequest ==
  GoodInstalls
    \cup {Req("install", "lite", TRUE, 1, "own", TRUE),
          Req("install", "lite", FALSE, 8, "own", TRUE),
          Req("install", "other", TRUE, 8, "own", TRUE),
          Req("install", "ultimate", TRUE, 2, "own", TRUE),
          Req("install", "ultimate", TRUE, 8, "none", TRUE)}
    \cup {Req(cmd, "lite", TRUE, cap, "own", TRUE) : cmd \in {"backup", "probe"}, cap \in {0, 8}}
    \cup {Req(cmd, "lite", TRUE, 8, "own", TRUE) : cmd \in {"boot", "other"}}

\* Everything may go wrong, but a read of the flash.
MostFaults == {"probe", "upload", "download", "truncate", "fetch", "flash", "power"}

===============================================================================
