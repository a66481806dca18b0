--------------------------- MODULE MCAgentDirLock ---------------------------
(* A small instance of AgentDirLock for TLC.                                *)
EXTENDS AgentDirLock

CONSTANTS p1, p2, p3

=============================================================================
