------------------------- MODULE MCContextDelivery -------------------------
(* A small instance of ContextDelivery for TLC.                             *)
EXTENDS ContextDelivery

CONSTANTS w1, w2, d1, id

(* Two processes that were configured with one worker_id.                   *)
OneId == [w \in Workers |-> id]

TwoExperiences == [d \in Deliveries |-> 2]

=============================================================================
