--------------------------- MODULE ExchangeAnswer ---------------------------
(***************************************************************************)
(* What a bridge over the protocol store promises to the System about one    *)
(* exchange: a request is asked once, has at most one answer, never gets     *)
(* one after it was cancelled, and every receipt that came too late is kept  *)
(* on record without changing that.                                          *)
(***************************************************************************)
CONSTANTS
    Results,  \* receipts an Agent may send back
    None      \* no answer

VARIABLES
    asked,
    cancelled,
    answer,    \* the receipt the System acts on
    recorded   \* the receipts on the System's side, late ones included

vars == <<asked, cancelled, answer, recorded>>

Init ==
    /\ asked = FALSE
    /\ cancelled = FALSE
    /\ answer = None
    /\ recorded = {}

Ask ==
    /\ ~ asked
    /\ asked' = TRUE
    /\ UNCHANGED <<cancelled, answer, recorded>>

Answer(r) ==
    /\ asked
    /\ ~ cancelled
    /\ answer = None
    /\ r \notin recorded
    /\ answer' = r
    /\ recorded' = recorded \cup {r}
    /\ UNCHANGED <<asked, cancelled>>

RecordLate(r) ==
    /\ asked
    /\ r \notin recorded
    /\ recorded' = recorded \cup {r}
    /\ UNCHANGED <<asked, cancelled, answer>>

CallOff ==
    /\ asked
    /\ ~ cancelled
    /\ cancelled' = TRUE
    /\ UNCHANGED <<asked, answer, recorded>>

Next == Ask \/ CallOff \/ \E r \in Results : Answer(r) \/ RecordLate(r)

Spec == Init /\ [][Next]_vars

=============================================================================
