----------------------------- MODULE RunRegistry -----------------------------
(***************************************************************************)
(* What the registry of live runs (src/app/run-registry.ts) does to the       *)
(* record of one run.  No method awaits anything, so each is a function from  *)
(* a record to the next one, and a caller that calls several of them before   *)
(* its next await composes them.  An event is its number, its type and who    *)
(* made it, which stands for its event_id.  Left out: fragments of a driver's *)
(* output, which are not kept as events; the revision, current and the        *)
(* snapshots of a record; the listeners.                                      *)
(***************************************************************************)
EXTENDS Naturals, Sequences

CONSTANTS
    Calls, \* the calls of cancelRun and interruptRun
    Loop,  \* what is not done by a call: the execution of the run
    None   \* no reservation, no reason of an abort, no event

ASSUME MakersAreDistinct == Loop \notin Calls /\ None \notin Calls \cup {Loop}

ASSUME NoneIsNoReason == None \notin {"cancelled", "interrupted"}

(* The ways a run ends, each with its event run.<end>.                      *)
Ends == {"completed", "failed", "cancelled", "interrupted"}

Statuses == {"running"} \cup Ends

(* All other events of a run are alike.                                     *)
Types == {"progress"} \cup Ends

(* Why the controller was aborted, or None: the first reason stays.         *)
Reasons == {"cancelled", "interrupted", None}

Event(n, type, maker) == [n |-> n, type |-> type, maker |-> maker]

Events == [n : Nat \ {0}, type : Types, maker : Calls \cup {Loop}]

Records ==
    [status : Statuses, events : Seq(Events), sequence : Nat,
     reservation : Calls \cup {Loop, None}, signal : Reasons]

(* create                                                                   *)
NewRecord ==
    [status |-> "running", events |-> <<>>, sequence |-> 0,
     reservation |-> None, signal |-> None]

HasType(record, type) ==
    \E i \in DOMAIN record.events : record.events[i].type = type

AppendEventByLength(record, type, maker) ==
    [record EXCEPT !.sequence = @ + 1,
                   !.events = Append(@, Event(Len(@) + 1, type, maker))]

AppendEvent(record, type, maker) ==
    [record EXCEPT !.sequence = @ + 1,
                   !.events = Append(@, Event(record.sequence + 1, type, maker))]

AppendEventOnce(record, type) ==
    IF HasType(record, type) THEN record ELSE AppendEvent(record, type, Loop)

(* mirrorTaskAuthorityEvent: the store's event, unless it is there already. *)
Mirror(record, type, maker) ==
    IF \E i \in DOMAIN record.events :
           record.events[i].type = type /\ record.events[i].maker = maker
    THEN record
    ELSE AppendEvent(record, type, maker)

Abort(record, reason) ==
    IF record.signal = None THEN [record EXCEPT !.signal = reason] ELSE record

(* requestAbort                                                             *)
RequestAbort(record) ==
    IF record.status = "running" THEN Abort(record, "interrupted") ELSE record

CanStage(record) == record.status = "running" /\ record.reservation = None

(* The event that stageTerminal builds: it has its number from now on.      *)
StagedEvent(record, type, maker) == Event(record.sequence + 1, type, maker)

StageTerminalQuietly(record, type, maker) ==
    [record EXCEPT !.sequence = @ + 1, !.reservation = maker]

StageTerminal(record, type, maker) ==
    [IF type = "cancelled" THEN Abort(record, "cancelled") ELSE record
        EXCEPT !.sequence = @ + 1, !.reservation = maker]

CommitTerminal(record, event) ==
    IF record.reservation = event.maker /\ record.status = "running"
    THEN [record EXCEPT !.status = event.type,
                        !.events = Append(@, event),
                        !.reservation = None]
    ELSE record

AbortTerminal(record, maker) ==
    IF record.reservation = maker THEN [record EXCEPT !.reservation = None] ELSE record

(* complete, whose run.completed is among the events by then.               *)
Complete(record) == [record EXCEPT !.status = "completed"]

(* fail: only a cancelled run stays as it is.                               *)
Fail(record) ==
    IF record.status = "cancelled"
    THEN record
    ELSE AppendEventOnce([record EXCEPT !.status = "failed"], "failed")

Cancel(record) ==
    IF CanStage(record)
    THEN CommitTerminal(StageTerminal(record, "cancelled", Loop),
                        StagedEvent(record, "cancelled", Loop))
    ELSE record

Interrupt(record) ==
    IF record.status = "running"
    THEN AppendEventOnce([record EXCEPT !.status = "interrupted"], "interrupted")
    ELSE record

=============================================================================
