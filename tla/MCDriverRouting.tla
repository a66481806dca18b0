--------------------------- MODULE MCDriverRouting --------------------------
(* A small instance of DriverRouting for TLC.                               *)
EXTENDS DriverRouting

CONSTANTS p1, p2, base, other
=============================================================================
