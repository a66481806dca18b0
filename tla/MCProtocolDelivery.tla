------------------------- MODULE MCProtocolDelivery -------------------------
(* A small instance of ProtocolDelivery for TLC.                            *)
EXTENDS ProtocolDelivery, TLC

CONSTANTS ask, reply1, w1, w2, o1

MCCauseOf == [r \in Receipts |-> ask]
MCOwnerOf == [w \in Workers |-> o1]

WorkerSymmetry == Permutations(Workers)
=============================================================================
