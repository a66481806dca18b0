---------------------------- MODULE MCRunService ----------------------------
(* One run, two calls of cancelRun and one of interruptRun.                 *)
EXTENDS RunService, TLC

CONSTANTS c1, c2, i1

MCCancelCalls == {c1, c2}
MCInterruptCalls == {i1}
MCCalls == MCCancelCalls \cup MCInterruptCalls

=============================================================================
