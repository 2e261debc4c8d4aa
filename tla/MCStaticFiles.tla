----------------------------- MODULE MCStaticFiles -----------------------------
(* A static file for TLC.                                                    *)
EXTENDS StaticFiles, TLC

CONSTANTS w1, w2

TwoUploads == {w1, w2}
UploadSymmetry == Permutations(TwoUploads)
===============================================================================
