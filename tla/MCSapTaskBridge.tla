--------------------------- MODULE MCSapTaskBridge ---------------------------
(* A small instance of SapTaskBridge for TLC.                               *)
EXTENDS SapTaskBridge, TLC

CONSTANTS e1, e2, e3, res1, res2

BridgeSymmetry == Permutations(Executors) \cup Permutations(Results)
=============================================================================
