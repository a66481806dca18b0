--------------------------- MODULE ExperienceIntake ---------------------------
(***************************************************************************)
(* What the memory promises of a context that it was given (stated in        *)
(* src/memory/runtime/context-delivery-processor.ts and                      *)
(* src/memory/services/memory-cycle.ts): its input is kept until each of its *)
(* experiences is stored, each is stored once, and the delivery is processed *)
(* only then, and for good.  No worker, claim, lease or retry is seen here.  *)
(***************************************************************************)
CONSTANTS
    Deliveries,
    Contents   \* the experiences that there are to store of each delivery

VARIABLES
    phase,   \* where each delivery is
    stored,  \* the experiences that the memory has, of each delivery
    kept     \* the deliveries whose input is still there

vars == <<phase, stored, kept>>

Init ==
    /\ phase = [d \in Deliveries |-> "absent"]
    /\ stored = [d \in Deliveries |-> {}]
    /\ kept = Deliveries

Moves(d, from, to) ==
    /\ phase[d] = from
    /\ phase' = [phase EXCEPT ![d] = to]
    /\ UNCHANGED <<stored, kept>>

Submit(d) == Moves(d, "absent", "open")

GiveUp(d) == Moves(d, "open", "dead_letter")

(* By hand.                                                                 *)
Reopen(d) == Moves(d, "dead_letter", "open")

Process(d) == d \notin kept /\ Moves(d, "open", "processed")

Store(d, i) ==
    /\ phase[d] # "absent"
    /\ i \notin stored[d]
    /\ stored' = [stored EXCEPT ![d] = @ \cup {i}]
    /\ UNCHANGED <<phase, kept>>

Discard(d) ==
    /\ phase[d] # "absent"
    /\ d \in kept
    /\ stored[d] = Contents[d]
    /\ kept' = kept \ {d}
    /\ UNCHANGED <<phase, stored>>

Next ==
    \E d \in Deliveries :
        \/ Submit(d) \/ GiveUp(d) \/ Reopen(d) \/ Process(d) \/ Discard(d)
        \/ \E i \in Contents[d] : Store(d, i)

Spec == Init /\ [][Next]_vars

=============================================================================
