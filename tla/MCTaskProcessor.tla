--------------------------- MODULE MCTaskProcessor ---------------------------
(* A small instance of TaskProcessor for TLC.                               *)
EXTENDS TaskProcessor, TLC

CONSTANTS r1, r2, r3, c1, c2, d1, d2

RunsSymmetry ==
    Permutations(Runs) \cup Permutations(Changesets) \cup Permutations(Deliveries)

=============================================================================
