-------------------------- MODULE MCScriptedSessions --------------------------
(* A small server for TLC: two devices, two transfer contexts, one shared    *)
(* download, two upload contents.                                             *)
EXTENDS ScriptedSessions, TLC

CONSTANTS p1, p2, b1, b2

UploadContexts == {p1, p2}
UploadBodies == {b1, b2}

\* Contexts and contents are interchangeable.
Symmetry == Permutations(UploadContexts) \cup Permutations(UploadBodies)
===============================================================================
