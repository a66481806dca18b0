----------------------------- MODULE RunService -----------------------------
(***************************************************************************)
(* How one run of a Task is executed and ended by the backend service        *)
(* (src/app/newide-backend-service.ts): the execution loop of the run        *)
(* (src/coordination/task-execution-loop.ts) and any number of calls of      *)
(* cancelRun and interruptRun, over the registry of live runs and the store  *)
(* of the TaskProcessor.  The service has one thread: what is done between   *)
(* two awaits is one step, and everything else may happen at an await.       *)
(* Writing the output of a run to files may fail; commits of the store are   *)
(* atomic.  Left out: the Task around the run (TaskProcessor), what follows  *)
(* a wait for the mailbox, runs of the legacy coordinator.                   *)
(***************************************************************************)
EXTENDS RunRegistry

CONSTANTS
    CancelCalls,    \* the calls of cancelRun
    InterruptCalls, \* the calls of interruptRun, one of them perhaps the shutdown
    MaxSequence     \* bound of the numbers at which progress is still made

ASSUME CallsAreOfAKind ==
    Calls = CancelCalls \cup InterruptCalls /\ CancelCalls \cap InterruptCalls = {}

ASSUME MaxSequenceIsNat == MaxSequence \in Nat

VARIABLES
    registry,    \* the registry's record of the run
    run,         \* status of the run in the store
    waits,       \* the resume cursor in the store is mailbox_wait
    end,         \* the event that ended the run in the store: type and maker
    loop,        \* where the execution of the run is
    outcome,     \* the Task status that the loop returned, by the run's status
    call,        \* where each call is, or what it answered
    staged,      \* the terminal event that each call has staged
    outputFailed \* the output of the run could not be written once

store == <<run, waits, end>>
vars == <<registry, store, loop, outcome, call, staged, outputFailed>>

LoopSteps ==
    {"starting", "stages", "working", "failing", "returned", "finalizing", "caught",
     "ending", "over"}

Answers == {"cancelled", "interrupted", "refused"}

CallSteps == {"idle", "persisting", "waiting", "answering"} \cup Answers

NoEnd == [type |-> None, maker |-> None]

(* startTaskLoopRun, with the run begun in the store and its request being  *)
(* saved.                                                                   *)
Init ==
    /\ registry = NewRecord
    /\ run = "running" /\ waits = FALSE /\ end = NoEnd
    /\ loop = "starting"
    /\ outcome = "running"
    /\ call = [c \in Calls |-> "idle"]
    /\ staged = [c \in Calls |-> None]
    /\ outputFailed = FALSE

-----------------------------------------------------------------------------
(* The store.                                                               *)

AcceptsAlways(status) == status \in Ends

(* finishRun does not throw ...                                             *)
Accepts(status) == run \in {"running", status}

EndInStore(status, maker) ==
    run' = status /\ end' = [type |-> status, maker |-> maker]

(* ... and writes, unless the run has ended that way already.               *)
FinishRun(status, maker) ==
    IF run = "running"
    THEN EndInStore(status, maker) /\ waits' = FALSE
    ELSE UNCHANGED store

(* interruptRun of the TaskProcessor, which keeps the resume cursor.        *)
InterruptInStore ==
    IF run = "running"
    THEN EndInStore("interrupted", Loop) /\ UNCHANGED waits
    ELSE UNCHANGED store

-----------------------------------------------------------------------------
(* startTaskLoopRun and executeTaskAuthorityRun                             *)

Goto(step) == loop' = step

OtherVars == <<call, staged>>

StartRun ==
    /\ loop = "starting"
    /\ Goto("stages")
    /\ UNCHANGED <<registry, store, outcome, OtherVars, outputFailed>>

(* The request could not be saved.                                          *)
StartFails ==
    /\ loop = "starting"
    /\ Goto("over")
    /\ FinishRun("failed", Loop)
    /\ registry' = Fail(IF Accepts("failed")
                        THEN Mirror(registry, end'.type, end'.maker)
                        ELSE registry)
    /\ UNCHANGED <<outcome, OtherVars, outputFailed>>

(* runStages, between two stages.                                           *)
ThrowIfAborted ==
    /\ loop = "stages"
    /\ registry.signal # None
    /\ Goto("caught")
    /\ UNCHANGED <<registry, store, outcome, OtherVars, outputFailed>>

ReturnAtCursor ==
    /\ loop = "stages"
    /\ registry.signal = None
    /\ \/ run # "running"
       \/ waits
    /\ Goto("returned")
    /\ outcome' = run
    /\ UNCHANGED <<registry, store, OtherVars, outputFailed>>

StartStage ==
    /\ loop = "stages"
    /\ registry.signal = None
    /\ run = "running" /\ ~ waits
    /\ Goto("working")
    /\ registry' = AppendEvent(registry, "progress", Loop)
    /\ UNCHANGED <<store, outcome, OtherVars, outputFailed>>

(* on_driver_event, whatever has become of the run.                         *)
DriverEvent ==
    /\ loop = "working"
    /\ registry.sequence < MaxSequence
    /\ registry' = AppendEvent(registry, "progress", Loop)
    /\ UNCHANGED <<store, loop, outcome, OtherVars, outputFailed>>

(* executeStage: a stage is done and committed, and there are more ...      *)
AdvanceStage ==
    /\ loop = "working" /\ run = "running"
    /\ registry.sequence < MaxSequence
    /\ waits' \in BOOLEAN
    /\ Goto("stages")
    /\ registry' = AppendEvent(registry, "progress", Loop)
    /\ UNCHANGED <<run, end, outcome, OtherVars, outputFailed>>

(* ... or it was deliver.                                                   *)
Deliver ==
    /\ loop = "working" /\ run = "running"
    /\ EndInStore("completed", Loop)
    /\ registry' = AppendEvent(AppendEvent(registry, "progress", Loop), "completed", Loop)
    /\ Goto("returned") /\ outcome' = "completed"
    /\ UNCHANGED <<waits, OtherVars, outputFailed>>

(* A gate denies, or the evidence of a failure is written: failStage.       *)
FailStage ==
    /\ loop \in {"working", "failing"} /\ run = "running"
    /\ FinishRun("failed", Loop)
    /\ registry' = AppendEvent(AppendEvent(registry, "progress", Loop), "failed", Loop)
    /\ Goto("returned") /\ outcome' = "failed"
    /\ UNCHANGED <<OtherVars, outputFailed>>

FailStageRefused ==
    /\ loop = "failing" /\ run # "running"
    /\ Goto("caught")
    /\ UNCHANGED <<registry, store, outcome, OtherVars, outputFailed>>

(* The store refuses the commit of a stage or of its failure: the catch     *)
(* clause of executeStage passes this error on, also when the run is        *)
(* aborted.                                                                 *)
StageCommitFails ==
    /\ loop \in {"working", "failing"} /\ run = "running"
    /\ Goto("caught")
    /\ UNCHANGED <<registry, store, outcome, OtherVars, outputFailed>>

(* The stage throws, or what checks its end before the commit: the catch    *)
(* clause of executeStage.                                                  *)
StageThrows ==
    /\ loop = "working"
    /\ CASE registry.signal = "interrupted" ->
                InterruptInStore /\ Goto("returned") /\ outcome' = run'
         [] registry.signal = "cancelled" /\ Accepts("cancelled") ->
                FinishRun("cancelled", Loop) /\ Goto("returned") /\ outcome' = "cancelled"
         [] registry.signal = "cancelled" /\ ~ Accepts("cancelled") ->
                Goto("caught") /\ UNCHANGED <<store, outcome>>
         [] registry.signal = None ->
                Goto("failing") /\ UNCHANGED <<store, outcome>>
    /\ UNCHANGED <<registry, OtherVars, outputFailed>>

-----------------------------------------------------------------------------
(* runAuthorityLoop                                                         *)

(* The cursor is read again and not what the loop returned: a wait.         *)
CompleteForWait ==
    /\ loop = "returned" /\ waits
    /\ EndInStore("completed", Loop)
    /\ registry' = Complete(AppendEvent(AppendEvent(registry, "completed", Loop),
                                        "progress", Loop))
    /\ Goto("finalizing")
    /\ UNCHANGED <<waits, outcome, OtherVars, outputFailed>>

SettleByRegistry ==
    /\ loop = "returned" /\ ~ waits
    /\ registry' = CASE outcome = "completed"   -> Complete(registry)
                     [] outcome = "interrupted" ->
                            Interrupt(Mirror(registry, end.type, end.maker))
                     [] outcome = "cancelled"   -> Cancel(registry)
                     [] OTHER                   -> Fail(registry)
    /\ Goto("finalizing")
    /\ UNCHANGED <<store, outcome, OtherVars, outputFailed>>

Finalize ==
    /\ loop = "finalizing"
    /\ Goto("over")
    /\ UNCHANGED <<registry, store, outcome, OtherVars, outputFailed>>

FinalizeFails ==
    /\ loop = "finalizing"
    /\ Goto("caught")
    /\ outputFailed' = TRUE
    /\ UNCHANGED <<registry, store, outcome, OtherVars>>

EndWithoutStore ==
    /\ loop = "caught"
    /\ UNCHANGED store
    /\ registry' = CASE registry.signal = "interrupted" -> Interrupt(registry)
                     [] registry.signal = "cancelled"   -> Cancel(registry)
                     [] registry.signal = None          -> Fail(registry)
    /\ Goto("ending")
    /\ UNCHANGED <<outcome, OtherVars, outputFailed>>

(* The catch clause: end the run in the store if nobody has, mirror its     *)
(* events, and end it in the registry.                                      *)
EndWhatIsLeft ==
    /\ loop = "caught"
    /\ CASE registry.signal = "interrupted" -> InterruptInStore
         [] registry.signal = "cancelled"   -> FinishRun("cancelled", Loop)
         [] registry.signal = None          -> FinishRun("failed", Loop)
    /\ LET mirrored == Mirror(registry, end'.type, end'.maker)
       IN  registry' = CASE registry.signal = "interrupted" -> Interrupt(mirrored)
                         [] registry.signal = "cancelled"   -> Cancel(mirrored)
                         [] registry.signal = None          -> Fail(mirrored)
    /\ Goto("ending")
    /\ UNCHANGED <<outcome, OtherVars, outputFailed>>

(* The output after an error: a failure to write it is ignored.             *)
FinalizeEnd ==
    /\ loop = "ending"
    /\ Goto("over")
    /\ UNCHANGED <<registry, store, outcome, OtherVars, outputFailed>>

-----------------------------------------------------------------------------
(* cancelRun, interruptRun and persistTerminal                              *)

CallGoto(c, step) == call' = [call EXCEPT ![c] = step]

LoopVars == <<loop, outcome>>

(* The promise of terminalRuns, which is there while the loop runs.         *)
AwaitLoop(c) ==
    CallGoto(c, IF loop \in {"starting", "over"} THEN "answering" ELSE "waiting")

CancelRun(c) ==
    /\ call[c] = "idle"
    /\ IF CanStage(registry)
       THEN /\ registry' = StageTerminal(registry, "cancelled", c)
            /\ staged' = [staged EXCEPT ![c] = StagedEvent(registry, "cancelled", c)]
            /\ CallGoto(c, "persisting")
       ELSE AwaitLoop(c) /\ UNCHANGED <<registry, staged>>
    /\ UNCHANGED <<store, LoopVars, outputFailed>>

InterruptRun(c) ==
    /\ call[c] = "idle"
    /\ registry' = RequestAbort(registry)
    /\ AwaitLoop(c)
    /\ UNCHANGED <<store, LoopVars, staged, outputFailed>>

(* The events are flushed and the output is written.                        *)
PersistTerminal(c) ==
    /\ call[c] = "persisting"
    /\ Accepts("cancelled")
    /\ FinishRun("cancelled", c)
    /\ registry' = CommitTerminal(registry, staged[c])
    /\ CallGoto(c, "answering")
    /\ UNCHANGED <<LoopVars, staged, outputFailed>>

(* The output fails or the store refuses: the run is failed instead, if it  *)
(* is still there to be.                                                    *)
PersistFails(c) ==
    /\ call[c] = "persisting"
    /\ outputFailed' \in {outputFailed \/ Accepts("cancelled"), TRUE}
    /\ LET released == AbortTerminal(registry, c)
           failure  == StageTerminal(released, "failed", c)
       IN  CASE ~ CanStage(released) ->
                    /\ registry' = released
                    /\ CallGoto(c, "answering")
                    /\ UNCHANGED store
             [] CanStage(released) /\ Accepts("failed") ->
                    /\ FinishRun("failed", c)
                    /\ registry' = CommitTerminal(failure, StagedEvent(released, "failed", c))
                    /\ CallGoto(c, "answering")
             [] CanStage(released) /\ ~ Accepts("failed") ->
                    /\ registry' = failure
                    /\ CallGoto(c, "refused")
                    /\ UNCHANGED store
    /\ UNCHANGED <<LoopVars, staged>>

(* What the snapshot says after the wait.                                   *)
Answer(c) ==
    /\ \/ call[c] = "answering"
       \/ call[c] = "waiting" /\ loop = "over"
    /\ LET wanted == IF c \in CancelCalls THEN "cancelled" ELSE "interrupted"
       IN  CallGoto(c, IF registry.status = wanted THEN wanted ELSE "refused")
    /\ UNCHANGED <<registry, store, LoopVars, staged, outputFailed>>

-----------------------------------------------------------------------------

StageEnds ==
    AdvanceStage \/ Deliver \/ FailStage \/ StageThrows \/ StageCommitFails

(* What the code of the loop does by itself.                                *)
LoopGoesOn ==
    \/ StartRun \/ StartFails \/ ThrowIfAborted \/ ReturnAtCursor \/ StartStage
    \/ loop = "failing" /\ (FailStage \/ FailStageRefused \/ StageCommitFails)
    \/ CompleteForWait \/ SettleByRegistry \/ Finalize \/ FinalizeFails
    \/ EndWhatIsLeft \/ FinalizeEnd

LoopStep == LoopGoesOn \/ DriverEvent \/ StageEnds

CallGoesOn(c) == PersistTerminal(c) \/ PersistFails(c) \/ Answer(c)

CallStep(c) ==
    \/ c \in CancelCalls /\ CancelRun(c)
    \/ c \in InterruptCalls /\ InterruptRun(c)
    \/ CallGoesOn(c)

Next == LoopStep \/ \E c \in Calls : CallStep(c)

(* Awaits of files come back, and a stage that is told to stop does: its    *)
(* executor has the signal.  A stage that nobody aborts may take for ever.  *)
Fairness ==
    /\ WF_vars(LoopGoesOn)
    /\ WF_vars(registry.signal # None /\ StageEnds)
    /\ \A c \in Calls : WF_vars(CallGoesOn(c))

Spec == Init /\ [][Next]_vars /\ Fairness

-----------------------------------------------------------------------------
(***************************************************************************)
(* Properties                                                               *)
(***************************************************************************)

Over == loop = "over" /\ \A c \in Calls : call[c] # "persisting"

(* The type invariant, with what the counter of numbers is for              *)
(* (run-registry.ts:481-485): no two events have the same number, although  *)
(* a staged one is not among the events yet.                                *)
TypeOK ==
    /\ registry \in Records
    /\ \A i, j \in DOMAIN registry.events :
           registry.events[i].n = registry.events[j].n => i = j
    /\ run \in Statuses
    /\ waits \in BOOLEAN
    /\ end \in [type : Ends, maker : Calls \cup {Loop}] \cup {NoEnd}
    /\ loop \in LoopSteps
    /\ outcome \in Statuses
    /\ call \in [Calls -> CallSteps]
    /\ staged \in [Calls -> Events \cup {None}]
    /\ outputFailed \in BOOLEAN

(* newide-backend-service.ts:2100-2137: a call that was answered cancelled  *)
(* or interrupted was told the truth, in the registry and in the store, and *)
(* nothing that is still under way changes it again.                        *)
AnswersAreTrue ==
    \A c \in Calls :
        call[c] \in {"cancelled", "interrupted"} =>
            registry.status = call[c] /\ run = call[c]

(* newide-backend-service.ts:1331-1461, 2420-2461: however the loop and the *)
(* calls raced, in the end the registry says of the run what the store      *)
(* says, and announced it, unless the output could not be written.          *)
EndsAgree ==
    Over /\ ~ outputFailed =>
        /\ run # "running"
        /\ registry.status = run
        /\ HasType(registry, run)

(* Every call of cancelRun or interruptRun is answered.                     *)
CallsReturn ==
    \A c \in Calls : call[c] # "idle" ~> call[c] \in Answers

(* The test "rejects cancellation when its terminal output cannot be        *)
(* persisted" (test/app/newide-backend-service.test.ts:282-307): a run      *)
(* whose cancellation is rejected has ended all the same, as failed.        *)
EndedRunIsNotLive == Over => registry.status # "running"

-----------------------------------------------------------------------------
(***************************************************************************)
(* The inductive invariant                                                  *)
(***************************************************************************)

Early == {"starting", "stages", "working", "failing"}
Settled == {"finalizing", "ending", "over"}

(* Every number that was given out is at most sequence, and on one event.   *)
Numbered(record) ==
    /\ record \in Records
    /\ \A i \in DOMAIN record.events : record.events[i].n <= record.sequence
    /\ \A i, j \in DOMAIN record.events :
           record.events[i].n = record.events[j].n => i = j

(* A number that is given out, to an event that is not there yet.           *)
Free(record, n) ==
    /\ n \in 1..record.sequence
    /\ \A i \in DOMAIN record.events : record.events[i].n # n

CallHasReservation ==
    \A c \in Calls :
        call[c] = "persisting" =>
            /\ registry.reservation = c
            /\ registry.signal # None
            /\ staged[c] \in Events
            /\ staged[c].type = "cancelled" /\ staged[c].maker = c
            /\ Free(registry, staged[c].n)

(* The registry never runs ahead of the store ...                           *)
RegistryFollows ==
    /\ registry.status = "cancelled" => run = "cancelled"
    /\ registry.status = "interrupted" => run = "interrupted"
    /\ registry.status \in {"completed", "interrupted"} =>
           \/ loop \in Settled
           \/ loop = "caught" /\ outputFailed

(* ... and where it is behind, somebody is about to bring it up.            *)
StoreFirst ==
    registry.status = "running" /\ run # "running" =>
        /\ \/ loop = "returned" /\ outcome = run
           \/ run = "cancelled" /\ registry.reservation # None /\ loop \in Settled \cup {"caught"}
        /\ run = "cancelled" => registry.signal = "cancelled"

LoopKnows ==
    /\ run # "running" => end # NoEnd
    /\ run = "interrupted" => registry.signal = "interrupted"
    /\ loop \in Early => run \notin {"completed", "interrupted"}
    /\ loop \in Settled => run # "running"
    /\ loop \in Early \ {"stages"} => ~ waits
    /\ loop \in {"stages", "returned"} /\ waits => run = "running"
    /\ loop = "returned" =>
           /\ outcome \in {run, "running"}
           /\ waits \/ run # "running"
           /\ outcome = "completed" => HasType(registry, "completed")

(* Without a failure of the output the two agree, and a reservation is      *)
(* released by the call that has it.                                        *)
AgreeSoFar ==
    ~ outputFailed =>
        /\ registry.status # "running" =>
               registry.status = run /\ HasType(registry, run)
        /\ registry.status = "running" /\ registry.reservation # None =>
               \/ \E c \in Calls : call[c] = "persisting"
               \/ run \in {"completed", "interrupted"}

RunInvariant ==
    /\ TypeOK
    /\ Numbered(registry)
    /\ CallHasReservation
    /\ RegistryFollows
    /\ StoreFirst
    /\ LoopKnows
    /\ AgreeSoFar
    /\ AnswersAreTrue

=============================================================================
