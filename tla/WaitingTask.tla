----------------------------- MODULE WaitingTask -----------------------------
(***************************************************************************)
(* A Task as those see it who wait for an answer on its behalf: the part of  *)
(* the aggregate of TaskProcessor (src/coordination/task-processor.ts) that  *)
(* continueMailboxWait reads and changes, and what any handler may do to it. *)
(* MailboxWait is written with these operators; TaskProcessor implements the *)
(* specification, as long as every safepoint is saved.                       *)
(***************************************************************************)
CONSTANTS
    Deliveries,  \* the requests that a Task can wait for
    None

VARIABLE task

(* ended: completed or cancelled, or there is no Task yet.                  *)
Alive == {"running", "waiting_help", "blocked"}
Statuses == Alive \cup {"failed", "ended"}
Errors == {"none", "collaboration_deadlock", "mailbox_timeout"}

(* active: a run is active.                                                 *)
(* interrupted: interrupt_state names the run of the wait.                  *)
(* resumable: the latest checkpoint belongs to an interrupted run.          *)
Tasks ==
    [status : Statuses, error : Errors, active : BOOLEAN, interrupted : BOOLEAN,
     resumable : BOOLEAN, waitOn : Deliveries \cup {None}]

NoTask ==
    [status |-> "ended", error |-> "none", active |-> FALSE, interrupted |-> FALSE,
     resumable |-> FALSE, waitOn |-> None]

-----------------------------------------------------------------------------
(* What the handlers do.                                                    *)

(* beginRun, with the delivery that its cursor waits for.                   *)
Begun(t, d) ==
    [t EXCEPT !.status = "running", !.error = "none", !.active = TRUE,
              !.interrupted = FALSE, !.waitOn = d]

(* advanceStage, to the wait for d or, without one, to another stage.       *)
Advanced(t, d) == [t EXCEPT !.resumable = FALSE, !.waitOn = d]

(* recordRunEvent, of an event that moves the cursor.                       *)
Forgotten(t) == [t EXCEPT !.waitOn = None]

WaitCompleted(t) ==
    [t EXCEPT !.status = "waiting_help", !.active = FALSE, !.interrupted = TRUE]

(* blockMailboxDeadlock, of a Task in any status: one that is over, or that *)
(* is blocked this way already, stays as it is.                             *)
Deadlocked(t) ==
    IF \/ t.status \notin Alive
       \/ t.status = "blocked" /\ t.error = "collaboration_deadlock"
    THEN t
    ELSE [t EXCEPT !.status = "blocked", !.error = "collaboration_deadlock",
                   !.interrupted = FALSE]

(* expireMailboxWait: the run is not touched.  A Task that failed otherwise *)
(* is said to have failed by the deadline.                                  *)
Expired(t) ==
    IF t.status = "ended"
    THEN t
    ELSE [t EXCEPT !.status = "failed", !.error = "mailbox_timeout",
                   !.interrupted = FALSE, !.waitOn = None]

(* commitInterruptedRun                                                     *)
Interrupted(t) ==
    [t EXCEPT !.status = "blocked", !.active = FALSE, !.interrupted = TRUE,
              !.resumable = TRUE]

(* finishRun, failStage and the commit of the last stage                    *)
Finished(t, status) ==
    [t EXCEPT !.status = status, !.error = "none", !.active = FALSE, !.waitOn = None]

(* listMailboxWaitContexts finds the wait.                                  *)
HasContext(t) ==
    t.waitOn # None /\ (t.interrupted \/ t.active) /\ t.status \in Alive

CanContinueAnyWait(t, d) == ~ t.active /\ t.status \in {"waiting_help", "blocked"}

(* beginRun accepts a continuation of the wait for d.                       *)
CanContinue(t, d) ==
    ~ t.active /\ t.status \in {"waiting_help", "blocked"} /\ t.waitOn = d

-----------------------------------------------------------------------------
(* What happens to a Task.                                                  *)

(* A new Task, or a completed one that is refined.                          *)
Begin ==
    /\ task.status = "ended" /\ ~ task.active
    /\ task' = Begun(task, None)

Continue ==
    \E d \in Deliveries : CanContinue(task, d) /\ task' = Begun(task, None)

(* From the checkpoint, whose input may be the wait, or from the beginning. *)
Resume ==
    /\ task.status = "blocked" /\ ~ task.active /\ task.resumable
    /\ \E d \in {task.waitOn, None} : task' = Begun(task, d)

Advance ==
    /\ task.active /\ task.status = "running" /\ task.waitOn = None
    /\ \E d \in Deliveries \cup {None} : task' = Advanced(task, d)

Forget == task.active /\ task' = Forgotten(task)

CompleteForWait ==
    /\ task.active /\ task.status = "running" /\ task.waitOn # None
    /\ task' = WaitCompleted(task)

Block == task' = Deadlocked(task)

Expire == task' = Expired(task)

(* A Task that has failed with its run active can only fail again.          *)
CanBeInterrupted(t) == t.active /\ t.status \in {"running", "blocked"}

Interrupt == CanBeInterrupted(task) /\ task' = Interrupted(task)

Outcomes(t) == IF t.status = "failed" THEN {"failed"} ELSE {"failed", "ended"}

Finish ==
    task.active /\ \E status \in Outcomes(task) : task' = Finished(task, status)

TaskInit == task = NoTask

TaskNext ==
    \/ Begin \/ Continue \/ Resume
    \/ Advance \/ Forget \/ CompleteForWait
    \/ Block \/ Expire
    \/ Interrupt \/ Finish

TaskSpec == TaskInit /\ [][TaskNext]_task

=============================================================================
