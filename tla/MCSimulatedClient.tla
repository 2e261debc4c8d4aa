--------------------------- MODULE MCSimulatedClient ---------------------------
(* The simulated client for TLC.                                              *)
EXTENDS SimulatedClient

CONSTANTS cam1, p1, b1
===============================================================================
