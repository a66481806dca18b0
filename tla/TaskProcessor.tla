---------------------------- MODULE TaskProcessor ----------------------------
(***************************************************************************)
(* The persisted aggregate of one Task and the handlers of TaskProcessor    *)
(* (src/coordination/task-processor.ts) that change it.                     *)
(*                                                                          *)
(* Every handler is synchronous: it reads the aggregate, checks it, and     *)
(* commits task, run, runtime state, checkpoint and events in one revision- *)
(* checked SQLite transaction, so one handler call is one step here.  No    *)
(* caller is assumed to be well behaved: any handler may be called at any   *)
(* time, and only the guards of the handlers protect the aggregate.  Calls  *)
(* that throw change nothing and are not steps.                             *)
(*                                                                          *)
(* Left out: revisions and the event log, artifact lists, sessions, the run *)
(* mode, and the SAP and AAP frames that ride in the same transaction.      *)
(***************************************************************************)
EXTENDS Naturals, FiniteSets

CONSTANTS
    Runs,           \* run ids; a run id is used once
    Agents,         \* role ids that can own the Task
    Changesets,     \* (changeset_ref, sha256) pairs that name a real file
    Deliveries,     \* Mailbox delivery ids
    Invocations,    \* stage invocation ids
    None,           \* "no value"
    ZeroHash        \* the changeset identity synthesizeCursorInput invents:
                    \* some artifact with the hash '0' * 64

ASSUME NoneIsNoValue ==
    None \notin Runs \cup Agents \cup Changesets \cup Deliveries \cup {ZeroHash}

ASSUME ZeroHashIsNoChangeset == ZeroHash \notin Changesets

VARIABLES
    status,          \* task.status; "none" before the Task exists
    errorCode,       \* task.error.code
    finalOutput,     \* task.final_output: the delivered changeset
    owner,           \* task.owner_agent_id
    runs,            \* the Task's runs
    currentRun,      \* runtime_state.current_run_id
    cursor,          \* runtime_state.resume_cursor
    cursorInput,     \* runtime_state.cursor_input
    activeStage,     \* diagnostics.active_stage
    councilOverride, \* diagnostics.council_override
    interruptState,  \* runtime_state.interrupt_state
    checkpoint,      \* the latest full checkpoint
    gated,           \* history: the changeset the last gate judged, None once
                     \* a later stage produced another one
    councilDone,     \* history: the current run has completed its council
    unguarded        \* history: a safepoint was lost, or the legacy
                     \* coordinator completed a run

taskVars == <<status, errorCode, finalOutput, owner>>
runtimeVars == <<currentRun, cursor, cursorInput, activeStage,
                 councilOverride, interruptState>>
historyVars == <<gated, councilDone, unguarded>>
vars == <<status, errorCode, finalOutput, owner, runs, currentRun, cursor,
          cursorInput, activeStage, councilOverride, interruptState,
          checkpoint, gated, councilDone, unguarded>>

-----------------------------------------------------------------------------

TaskStatuses == {"running", "waiting_help", "blocked",
                 "completed", "failed", "cancelled"}

RunStatuses == {"running", "completed", "failed", "cancelled", "interrupted"}

Cursors == {"select_agent", "execute_agent", "council", "gate",
            "deliver", "mailbox_wait", "done"}

(* The rows of ALLOWED_TRANSITIONS for the statuses TaskProcessor writes.   *)
AllowedTransitions ==
    [none         |-> {"running"},
     running      |-> {"waiting_help", "blocked", "completed", "failed",
                       "cancelled"},
     waiting_help |-> {"running", "blocked", "failed", "cancelled"},
     blocked      |-> {"running", "failed", "cancelled"},
     completed    |-> {},
     failed       |-> {},
     cancelled    |-> {}]

MayTransitionAlways(from, to) == TRUE

MayTransition(from, to) == from = to \/ to \in AllowedTransitions[from]

CursorTransitions ==
    [select_agent  |-> {"execute_agent"},
     execute_agent |-> {"council", "gate", "mailbox_wait"},
     council       |-> {"gate"},
     gate          |-> {"deliver"},
     deliver       |-> {"done"},
     mailbox_wait  |-> {},
     done          |-> {}]

(* A TaskCursorInput, reduced to what binds it: the winner Agent, the       *)
(* changeset, or the delivery a wait is for.                                *)
Input(c, ref) == [cursor |-> c, ref |-> ref]

CursorInputs ==
    [cursor : {"select_agent", "council", "done"}, ref : {None}]
        \cup [cursor : {"execute_agent"}, ref : Agents]
        \cup [cursor : {"gate", "deliver"}, ref : Changesets \cup {ZeroHash}]
        \cup [cursor : {"mailbox_wait"}, ref : Deliveries]

NoInput == Input("none", None)

NoRun == [status |-> "none", parent |-> None]
RunRecords == [status : RunStatuses, parent : Runs \cup {None}] \cup {NoRun}

NoStage == [cursor |-> "none", invocation |-> None]
Stages == [cursor : Cursors, invocation : Invocations]

Interrupt(type, r) == [type |-> type, run |-> r]
NoInterrupt == Interrupt("none", None)
InterruptStates ==
    [type : {"mailbox_wait", "user_interrupted", "process_interrupted"},
     run : Runs]
        \cup [type : {"collaboration_deadlock", "mailbox_timeout"},
              run : {None}]
        \cup {NoInterrupt}

Checkpoint(r, c, input) == [run |-> r, cursor |-> c, input |-> input]
NoCheckpoint == Checkpoint(None, "none", NoInput)
Checkpoints ==
    [run : Runs, cursor : Cursors, input : CursorInputs \cup {NoInput}]
        \cup {NoCheckpoint}

-----------------------------------------------------------------------------

IsActiveRun(r) == runs[r].status = "running"

ActiveRunIgnored == TRUE

(* beginRun refuses a Task that has an active run, whichever it is.         *)
NoActiveRun == \A r \in Runs : ~ IsActiveRun(r)

ActiveRunOwnership(r) ==
    /\ IsActiveRun(r)
    /\ status = "running"
    /\ currentRun = r

ActiveStageTarget(r, c) ==
    /\ ActiveRunOwnership(r)
    /\ cursor = c
    /\ cursorInput.cursor = c

EndRunForgotten(r, s) == runs' = runs

EndRunAsCancelled(r, s) ==
    runs' = [runs EXCEPT ![r].status =
                 IF s = "interrupted" THEN "cancelled" ELSE s]

EndRun(r, s) == runs' = [runs EXCEPT ![r].status = s]

(* synthesizeCursorInput: what an input is rebuilt from when the persisted  *)
(* one does not match the cursor.  Whether an Agent id or an artifact is    *)
(* found in the log is left open.                                           *)
SynthesizedInputs(c) ==
    CASE c = "execute_agent" ->
             IF owner # None THEN {Input(c, owner)}
             ELSE {Input(c, a) : a \in Agents} \cup {NoInput}
      [] c \in {"gate", "deliver"} -> {Input(c, ZeroHash), NoInput}
      [] c = "mailbox_wait" -> {NoInput}
      [] OTHER -> {Input(c, None)}

(* buildSafepointCheckpoint keeps the persisted input when it is the        *)
(* cursor's own and synthesizes one otherwise.                              *)
SafepointInputs ==
    IF cursorInput.cursor = cursor THEN {cursorInput}
    ELSE SynthesizedInputs(cursor)

(* resolveResumeCursorInput: the checkpoint's input, else the runtime's,    *)
(* else a synthesized one; an empty set is a refused resume.                *)
ResumeInputs ==
    IF checkpoint.input.cursor = checkpoint.cursor THEN {checkpoint.input}
    ELSE IF cursorInput.cursor = checkpoint.cursor THEN {cursorInput}
    ELSE SynthesizedInputs(checkpoint.cursor) \ {NoInput}

-----------------------------------------------------------------------------

Init ==
    /\ status = "none"
    /\ errorCode = "none"
    /\ finalOutput = None
    /\ owner = None
    /\ runs = [r \in Runs |-> NoRun]
    /\ currentRun = None
    /\ cursor = "done"
    /\ cursorInput = NoInput
    /\ activeStage = NoStage
    /\ councilOverride = FALSE
    /\ interruptState = NoInterrupt
    /\ checkpoint = NoCheckpoint
    /\ gated = None
    /\ councilDone = FALSE
    /\ unguarded = FALSE

(* The part of beginRun every intent shares.  The runtime state is written  *)
(* whole, so whatever it held before is gone.                               *)
BeginRun(r, parent, input) ==
    /\ NoActiveRun
    /\ runs[r] = NoRun
    /\ runs' = [runs EXCEPT ![r] = [status |-> "running", parent |-> parent]]
    /\ status' = "running"
    /\ errorCode' = "none"
    /\ finalOutput' = None
    /\ currentRun' = r
    /\ cursor' = input.cursor
    /\ cursorInput' = input
    /\ activeStage' = NoStage
    /\ councilOverride' = FALSE
    /\ interruptState' = NoInterrupt
    /\ councilDone' = FALSE
    /\ UNCHANGED <<owner, checkpoint, gated, unguarded>>

BeginCreate(r) ==
    /\ status = "none"
    /\ BeginRun(r, None, Input("select_agent", None))

BeginCouncilRefinement(r) ==
    /\ status = "completed"
    /\ BeginRun(r, None, Input("select_agent", None))

(* The reply to the waiting delivery d is in the Mailbox store.             *)
BeginMailboxContinuation(r, source, d) ==
    /\ status \in {"waiting_help", "blocked"}
    /\ cursorInput = Input("mailbox_wait", d)
    /\ owner # None
    /\ runs[source].status \in {"completed", "interrupted"}
    /\ BeginRun(r, source, Input("execute_agent", owner))

BeginCheckpointResume(r, strategy) ==
    /\ status = "blocked"
    /\ checkpoint # NoCheckpoint
    /\ runs[checkpoint.run].status = "interrupted"
    /\ \E input \in IF strategy = "from_checkpoint" THEN ResumeInputs
                    ELSE {Input("select_agent", None)} :
           BeginRun(r, checkpoint.run, input)

-----------------------------------------------------------------------------

StartStage(r, c, i) ==
    /\ ActiveStageTarget(r, c)
    /\ activeStage = NoStage
    /\ activeStage' = [cursor |-> c, invocation |-> i]
    /\ UNCHANGED <<taskVars, runs, currentRun, cursor, cursorInput,
                   councilOverride, interruptState, checkpoint, historyVars>>

ResolveStageNextInputAlways(c, next, overrideInput) == {next}

ResolveStageNextInputWithRef(c, next, overrideInput) ==
    IF councilOverride /\ c = "execute_agent" /\ next.cursor = "gate"
    THEN {Input("council", next.ref)}
    ELSE {next}

(* A Council override turns execute_agent -> gate into a Council stage; a   *)
(* caller that brings no Council input for it is refused.                   *)
ResolveStageNextInput(c, next, overrideInput) ==
    IF councilOverride /\ c = "execute_agent" /\ next.cursor = "gate"
    THEN IF overrideInput THEN {Input("council", None)} ELSE {}
    ELSE {next}

ChangesetIdentityOfOutput(next, output) ==
    cursorInput.cursor = "deliver" /\ next.cursor = "done"
        => output = cursorInput.ref

(* The gate hands over the changeset it judged, and what is delivered is    *)
(* the changeset that was handed over.                                      *)
ChangesetIdentity(next, output) ==
    /\ cursorInput.cursor = "gate" /\ next.cursor = "deliver"
           => next.ref = cursorInput.ref
    /\ cursorInput.cursor = "deliver" /\ next.cursor = "done"
           => output = cursorInput.ref

(* The stage commit, followed in the same call by a second commit that      *)
(* saves a safepoint; a failure of the second one is swallowed.  An Agent   *)
(* that waits on the Mailbox must be known: createAapMailboxDispatch throws *)
(* otherwise.                                                               *)
AdvanceStage(r, c, i, next, overrideInput, output, agent, saved) ==
    /\ ActiveStageTarget(r, c)
    /\ activeStage = [cursor |-> c, invocation |-> i]
    /\ \E input \in ResolveStageNextInput(c, next, overrideInput) :
        /\ input.cursor \in CursorTransitions[c]
        /\ ChangesetIdentity(input, output)
        /\ owner' = IF agent # None THEN agent
                    ELSE IF input.cursor = "execute_agent" THEN input.ref
                    ELSE owner
        /\ input.cursor = "mailbox_wait" => owner' # None
        /\ cursor' = input.cursor
        /\ cursorInput' = input
        /\ IF input.cursor = "done"
           THEN /\ status' = "completed"
                /\ finalOutput' = output
                /\ EndRun(r, "completed")
                /\ currentRun' = None
                /\ UNCHANGED checkpoint
           ELSE /\ checkpoint' = IF saved
                                 THEN Checkpoint(r, input.cursor, input)
                                 ELSE checkpoint
                /\ UNCHANGED <<status, finalOutput, runs, currentRun>>
        /\ gated' = IF c = "gate" THEN cursorInput.ref
                    ELSE IF c \in {"execute_agent", "council"} THEN None
                    ELSE gated
        /\ councilDone' = (councilDone \/ c = "council")
        /\ unguarded' = (unguarded \/ ~ saved)
    /\ activeStage' = NoStage
    /\ UNCHANGED <<errorCode, councilOverride, interruptState>>

FailStage(r, c, i, agent) ==
    /\ ActiveStageTarget(r, c)
    /\ activeStage = [cursor |-> c, invocation |-> i]
    /\ MayTransition(status, "failed")
    /\ status' = "failed"
    /\ errorCode' = "stage_failed"
    /\ owner' = IF agent # None THEN agent ELSE owner
    /\ EndRun(r, "failed")
    /\ currentRun' = None
    /\ cursor' = "done"
    /\ cursorInput' = Input("done", None)
    /\ activeStage' = NoStage
    /\ UNCHANGED <<finalOutput, councilOverride, interruptState, checkpoint,
                   historyVars>>

SetCouncilOverride(r) ==
    /\ ActiveRunOwnership(r)
    /\ cursor \in {"select_agent", "execute_agent"}
    /\ councilOverride' = TRUE
    /\ UNCHANGED <<taskVars, runs, currentRun, cursor, cursorInput,
                   activeStage, interruptState, checkpoint, historyVars>>

ProjectsAnyMove(next) == next # cursor

(* A cursor that moves is projected unless a stage invocation is active.    *)
ProjectsCursor(next) == next # cursor /\ activeStage = NoStage

(* recordRunEvent appends an event of an active run.  cursorAfterEvent maps *)
(* it to a cursor; projecting it drops the cursor input.                    *)
RecordRunEvent(r, next, winner) ==
    /\ IsActiveRun(r)
    /\ owner' = winner
    /\ IF ProjectsCursor(next)
       THEN cursor' = next /\ cursorInput' = NoInput
       ELSE UNCHANGED <<cursor, cursorInput>>
    /\ UNCHANGED <<status, errorCode, finalOutput, runs, currentRun,
                   activeStage, councilOverride, interruptState, checkpoint,
                   historyVars>>

-----------------------------------------------------------------------------

CompleteRunForMailboxWait(r) ==
    /\ ActiveRunOwnership(r)
    /\ cursorInput.cursor = "mailbox_wait"
    /\ MayTransition(status, "waiting_help")
    /\ status' = "waiting_help"
    /\ EndRun(r, "completed")
    /\ currentRun' = None
    /\ interruptState' = Interrupt("mailbox_wait", r)
    /\ UNCHANGED <<errorCode, finalOutput, owner, cursor, cursorInput,
                   activeStage, councilOverride, checkpoint, historyVars>>

(* Neither the run nor current_run_id is touched.                           *)
BlockMailboxDeadlock ==
    /\ status # "none"
    /\ ~ (status = "blocked" /\ errorCode = "collaboration_deadlock")
    /\ MayTransition(status, "blocked")
    /\ status' = "blocked"
    /\ errorCode' = "collaboration_deadlock"
    /\ interruptState' = Interrupt("collaboration_deadlock", None)
    /\ UNCHANGED <<finalOutput, owner, runs, currentRun, cursor, cursorInput,
                   activeStage, councilOverride, checkpoint, historyVars>>

(* current_run_id is dropped; the run and active_stage are not touched.     *)
ExpireMailboxWait ==
    /\ status # "none"
    /\ ~ (status = "failed" /\ errorCode = "mailbox_timeout")
    /\ MayTransition(status, "failed")
    /\ status' = "failed"
    /\ errorCode' = "mailbox_timeout"
    /\ currentRun' = None
    /\ cursor' = "done"
    /\ cursorInput' = Input("done", None)
    /\ interruptState' = Interrupt("mailbox_timeout", None)
    /\ UNCHANGED <<finalOutput, owner, runs, activeStage, councilOverride,
                   checkpoint, historyVars>>

(* commitInterruptedRun: the run, the Task and a full checkpoint of the     *)
(* cursor are committed together.                                           *)
CommitInterruptedRun(r, type) ==
    /\ IsActiveRun(r)
    /\ MayTransition(status, "blocked")
    /\ status' = "blocked"
    /\ EndRun(r, "interrupted")
    /\ currentRun' = None
    /\ interruptState' = Interrupt(type, r)
    /\ \E input \in SafepointInputs :
        /\ checkpoint' = Checkpoint(r, cursor, input)
        /\ cursorInput' = IF input = NoInput THEN cursorInput ELSE input
    /\ UNCHANGED <<errorCode, finalOutput, owner, cursor, activeStage,
                   councilOverride, historyVars>>

InterruptRun(r) == CommitInterruptedRun(r, "user_interrupted")

(* Startup after the process died with the run active.                      *)
RecoverInterruptedTask(r) == CommitInterruptedRun(r, "process_interrupted")

(* The execution loop ends a run as failed or cancelled, the legacy         *)
(* coordinator as completed too.                                            *)
FinishStatuses == {"completed", "failed", "cancelled"}

FinishRun(r, s, output) ==
    /\ IsActiveRun(r)
    /\ MayTransition(status, s)
    /\ status' = s
    /\ errorCode' = IF s = "failed" THEN "run_failed" ELSE "none"
    /\ finalOutput' = IF s = "completed" THEN output ELSE None
    /\ EndRun(r, s)
    /\ currentRun' = None
    /\ cursor' = "done"
    /\ cursorInput' = Input("done", None)
    /\ activeStage' = NoStage
    /\ unguarded' = (unguarded \/ s = "completed")
    /\ UNCHANGED <<owner, councilOverride, interruptState, checkpoint, gated,
                   councilDone>>

-----------------------------------------------------------------------------

(* What a stage can bring: an input for the next stage.                     *)
StageInputs ==
    CursorInputs \ [cursor : {"gate"}, ref : {ZeroHash}]

BeginRunNext(r) ==
    \/ BeginCreate(r)
    \/ BeginCouncilRefinement(r)
    \/ \E source \in Runs, d \in Deliveries :
           BeginMailboxContinuation(r, source, d)
    \/ \E strategy \in {"from_checkpoint", "restart_from_beginning"} :
           BeginCheckpointResume(r, strategy)

AdvanceStageNext(r) ==
    \E c \in Cursors, i \in Invocations, next \in StageInputs,
       output \in Changesets, agent \in Agents \cup {None},
       overrideInput \in BOOLEAN, saved \in BOOLEAN :
        AdvanceStage(r, c, i, next, overrideInput, output, agent, saved)

StageNext(r) ==
    \/ \E c \in Cursors \ {"mailbox_wait", "done"}, i \in Invocations :
           \/ StartStage(r, c, i)
           \/ \E agent \in Agents \cup {None} : FailStage(r, c, i, agent)
    \/ AdvanceStageNext(r)
    \/ SetCouncilOverride(r)
    \/ \E next \in {"execute_agent", "council", "gate", "deliver", cursor},
          winner \in Agents \cup {owner} :
           RecordRunEvent(r, next, winner)

EndRunNext(r) ==
    \/ CompleteRunForMailboxWait(r)
    \/ InterruptRun(r)
    \/ RecoverInterruptedTask(r)
    \/ \E s \in FinishStatuses, output \in Changesets \cup {None} :
           FinishRun(r, s, output)

Next ==
    \/ \E r \in Runs : BeginRunNext(r) \/ StageNext(r) \/ EndRunNext(r)
    \/ BlockMailboxDeadlock
    \/ ExpireMailboxWait

Spec == Init /\ [][Next]_vars

-----------------------------------------------------------------------------

WaitRunIsCurrent == currentRun

(* listMailboxWaitContexts: what a reply, or a restart, needs in order to   *)
(* continue a wait.                                                         *)
WaitRun == IF interruptState.run # None THEN interruptState.run ELSE currentRun

HasWaitContext ==
    /\ cursorInput.cursor = "mailbox_wait"
    /\ WaitRun # None
    /\ owner # None
    /\ status \in {"running", "waiting_help", "blocked"}

(* What assertBeginRunIntent asks of a checkpoint resume.                   *)
CanResumeFromCheckpoint ==
    /\ status = "blocked"
    /\ checkpoint # NoCheckpoint
    /\ runs[checkpoint.run].status = "interrupted"

-----------------------------------------------------------------------------
(***************************************************************************)
(* Properties                                                               *)
(***************************************************************************)

TypeOK ==
    /\ status \in TaskStatuses \cup {"none"}
    /\ errorCode \in {"none", "stage_failed", "run_failed",
                      "collaboration_deadlock", "mailbox_timeout"}
    /\ finalOutput \in Changesets \cup {None}
    /\ owner \in Agents \cup {None}
    /\ runs \in [Runs -> RunRecords]
    /\ currentRun \in Runs \cup {None}
    /\ cursor \in Cursors
    /\ cursorInput \in CursorInputs \cup {NoInput}
    /\ activeStage \in Stages \cup {NoStage}
    /\ councilOverride \in BOOLEAN
    /\ interruptState \in InterruptStates
    /\ checkpoint \in Checkpoints
    /\ gated \in Changesets \cup {ZeroHash, None}
    /\ councilDone \in BOOLEAN
    /\ unguarded \in BOOLEAN

(* Two runs of a Task are never active together, whatever order beginRun,   *)
(* the waits, interruptions and restarts come in.                           *)
OneActiveRun ==
    \A r, s \in Runs : IsActiveRun(r) /\ IsActiveRun(s) => r = s

(* An active run is the Task's current run while the Task is running or     *)
(* blocked, and a current run is active; only the expiry of a wait can      *)
(* leave an active run behind, and then the Task has failed.  A run no      *)
(* handler can find again would keep beginRun refusing for ever.            *)
ActiveRunIsTracked ==
    /\ currentRun # None => IsActiveRun(currentRun)
    /\ \A r \in Runs : IsActiveRun(r) =>
          \/ currentRun = r /\ status \in {"running", "blocked"}
          \/ currentRun = None /\ status = "failed"

(* A Task that a user or a crash interrupted keeps a checkpoint of exactly  *)
(* the stage that was cut off: commitInterruptedRun, beginRun's resume      *)
(* guard and every later call on a blocked Task agree on it.                *)
InterruptedTaskIsResumable ==
    interruptState.type \in {"user_interrupted", "process_interrupted"} =>
        /\ CanResumeFromCheckpoint
        /\ checkpoint.run = interruptState.run
        /\ checkpoint.cursor = cursor
        /\ checkpoint.input \in {cursorInput, NoInput}

(* What a Task delivers is the changeset its last gate passed, and no stage *)
(* changed it since: through crashes, resumes from a checkpoint, event      *)
(* projections and synthesized inputs.  It takes safepoints that are saved: *)
(* when those of a whole run are swallowed, a resume goes back to the       *)
(* checkpoint of an earlier run.  finishRun(completed) is the legacy        *)
(* coordinator's and gates on its own.                                      *)
OnlyGatedChangesetDelivered ==
    ~ unguarded =>
        /\ finalOutput # None => finalOutput = gated
        /\ cursorInput.cursor = "deliver" /\ cursorInput.ref # ZeroHash
               => cursorInput.ref = gated

(* A run with a persisted Council override reaches no gate and delivers     *)
(* nothing before its Council stage is complete.                            *)
CouncilOverrideHonoured ==
    status = "running" /\ councilOverride
        /\ cursorInput.cursor \in {"gate", "deliver"} => councilDone

(* While a stage invocation is active nothing moves the cursor away from    *)
(* it, so the invocation can still commit: late events are recorded without *)
(* being projected.  Only the expiry of a wait gives the stage up.          *)
ActiveStageOnCursor ==
    activeStage # NoStage /\ errorCode # "mailbox_timeout" =>
        cursor = activeStage.cursor /\ cursorInput.cursor = cursor

(* A Task in waiting_help can be continued: its cursor input, its source    *)
(* run and the waiting Agent are all there for listMailboxWaitContexts.     *)
WaitingTaskHasContext ==
    status = "waiting_help" =>
        /\ HasWaitContext
        /\ runs[WaitRun].status = "completed"

(* The inductive invariant behind these properties: what they lean on from  *)
(* one call to the next.                                                    *)
InputMatchesCursor == cursorInput.cursor \in {cursor, "none"}

InterruptedHasNoActiveRun ==
    interruptState.type \in {"user_interrupted", "process_interrupted"} =>
        \A r \in Runs : ~ IsActiveRun(r)

WaitKnowsOwner ==
    "mailbox_wait" \in {cursorInput.cursor, checkpoint.input.cursor} =>
        owner # None

TimeoutMeansFailed == errorCode = "mailbox_timeout" => status = "failed"

OutputMeansCompleted == finalOutput # None => status = "completed"

CheckpointGated ==
    (/\ ~ unguarded
     /\ checkpoint.input.cursor = "deliver"
     /\ checkpoint.input.ref # ZeroHash) => checkpoint.input.ref = gated

(* Everything above together.                                               *)
InductiveInvariant ==
    /\ TypeOK
    /\ OneActiveRun
    /\ ActiveRunIsTracked
    /\ InputMatchesCursor
    /\ InterruptedTaskIsResumable
    /\ InterruptedHasNoActiveRun
    /\ WaitKnowsOwner
    /\ WaitingTaskHasContext
    /\ TimeoutMeansFailed
    /\ ActiveStageOnCursor
    /\ CouncilOverrideHonoured
    /\ OutputMeansCompleted
    /\ CheckpointGated
    /\ OnlyGatedChangesetDelivered

(* TaskProcessor implements the life of a Task.                             *)
Lifecycle ==
    INSTANCE TaskLifecycle WITH
        phase <- status,
        live  <- {r \in Runs : IsActiveRun(r)},
        over  <- {r \in Runs : runs[r] # NoRun /\ ~ IsActiveRun(r)}

(* Every handler call is a step of the life of the Task: ended runs stay    *)
(* ended, failed and cancelled Tasks stay so, and a Task is started again   *)
(* only from a wait, a block or its completion.                             *)
ImplementsLifecycle == Lifecycle!Spec

(* What MailboxWait knows of the Task.                                      *)
Waiting ==
    [status      |-> IF status \in {"none", "completed", "cancelled"} THEN "ended"
                     ELSE status,
     error       |-> IF errorCode \in {"collaboration_deadlock", "mailbox_timeout"}
                     THEN errorCode ELSE "none",
     active      |-> \E r \in Runs : IsActiveRun(r),
     interrupted |-> interruptState.run # None,
     resumable   |-> /\ checkpoint # NoCheckpoint
                     /\ runs[checkpoint.run].status = "interrupted",
     waitOn      |-> IF cursorInput.cursor = "mailbox_wait" THEN cursorInput.ref
                     ELSE None]

Wait == INSTANCE WaitingTask WITH task <- Waiting

(* What the steps of that view lean on: a running Task has a run and no     *)
(* error, and a checkpoint that can be resumed at a wait is of the wait the *)
(* cursor is at.                                                            *)
RunningIsActive == status = "running" => Waiting.active /\ errorCode = "none"

ResumesTheWait ==
    (/\ ~ unguarded
     /\ Waiting.resumable
     /\ checkpoint.input.cursor = "mailbox_wait"
     /\ \/ cursorInput.cursor = "mailbox_wait"
        \/ ~ Waiting.active /\ status \in {"waiting_help", "blocked"})
        => cursorInput = checkpoint.input

WaitInvariant == RunningIsActive /\ ResumesTheWait

(* Whatever the callers do, a handler does to a wait what MailboxWait takes *)
(* it to do: a wait is entered and left by the commits of a run only, a     *)
(* resume goes back to it or to the beginning, and what a block, an expiry  *)
(* or an interruption leaves of it is the same in both.  A lost safepoint   *)
(* is the exception: a resume may then go back to an older wait.            *)
KeepsWait ==
    /\ Wait!TaskInit
    /\ [][unguarded' \/ Wait!TaskNext \/ UNCHANGED Waiting]_vars

-----------------------------------------------------------------------------
(* Statements of the code's comments that its behaviour does not bear out.  *)

(* task-processor.ts, blockMailboxDeadlock: cursor and delivery refs stay   *)
(* so that an operator can provision the Session and resume.  The wait's    *)
(* run is dropped from interrupt_state, so there is no context to continue, *)
(* and the latest checkpoint belongs to a completed run.                    *)
DeadlockedWaitIsResumable ==
    (/\ status = "blocked"
     /\ errorCode = "collaboration_deadlock"
     /\ cursor = "mailbox_wait"
     /\ ~ \E r \in Runs : IsActiveRun(r))
        => HasWaitContext \/ CanResumeFromCheckpoint

=============================================================================
