---------------------------- MODULE TaskLifecycle ----------------------------
(***************************************************************************)
(* What the life of a Task promises to everyone who watches it: a phase,    *)
(* at most one live run, and a set of runs that are over for good.  A phase *)
(* changes along assertTaskStatusTransition and assertTaskRunStartTransition *)
(* (src/coordinator/task-state-machine.ts); failed and cancelled are final,  *)
(* completed is left only by a new run.  TaskProcessor implements it.       *)
(***************************************************************************)
CONSTANTS Runs

VARIABLES
    phase,   \* the status of the Task, "none" before it exists
    live,    \* the run being executed, as a set of at most one run
    over     \* the runs that ended

vars == <<phase, live, over>>

Phases == {"none", "running", "waiting_help", "blocked",
           "completed", "failed", "cancelled"}

(* A run starts when the Task is new, when a wait is answered, when a       *)
(* blocked Task is resumed and when a completed one is refined.             *)
StartablePhases == {"none", "waiting_help", "blocked", "completed"}

(* The phases a Task can enter without a new run.                           *)
NextPhases ==
    [none         |-> {},
     running      |-> {"waiting_help", "blocked", "completed", "failed",
                       "cancelled"},
     waiting_help |-> {"blocked", "failed", "cancelled"},
     blocked      |-> {"blocked", "failed", "cancelled"},
     completed    |-> {},
     failed       |-> {"failed"},
     cancelled    |-> {}]

Init ==
    /\ phase = "none"
    /\ live = {}
    /\ over = {}

Start(r) ==
    /\ phase \in StartablePhases
    /\ live = {}
    /\ r \notin over
    /\ phase' = "running"
    /\ live' = {r}
    /\ UNCHANGED over

(* The live run ends, and the Task enters the phase that goes with its end. *)
End(r) ==
    /\ live = {r}
    /\ live' = {}
    /\ over' = over \cup {r}
    /\ phase' \in NextPhases[phase]

(* The Task is given up or blocked whatever its run is doing.               *)
Suspend ==
    /\ phase' \in NextPhases[phase] \cap {"blocked", "failed"}
    /\ UNCHANGED <<live, over>>

Next == Suspend \/ \E r \in Runs : Start(r) \/ End(r)

Spec == Init /\ [][Next]_vars

-----------------------------------------------------------------------------

TypeOK ==
    /\ phase \in Phases
    /\ live \in SUBSET Runs
    /\ over \in SUBSET Runs

=============================================================================
