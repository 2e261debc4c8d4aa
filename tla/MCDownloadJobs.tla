---------------------------- MODULE MCDownloadJobs ----------------------------
(* Downloads for TLC: two keys that share a destination, one handler.        *)
EXTENDS DownloadJobs

CONSTANTS k1, k2, u1, u2, f, h

OneJob == {[key |-> k1, url |-> u1, dest |-> f]}

\* Two keys that share a destination, and one of them asked for with another URL.
SharedJobs == OneJob \cup {[key |-> k2, url |-> u2, dest |-> f], [key |-> k1, url |-> u2, dest |-> f]}

===============================================================================
