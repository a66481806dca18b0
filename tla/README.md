# A TLA+ verification project for the newide backend

The repository is the backend of an IDE that runs coding agents: a Task is
worked on in stages by Agents, which talk to the System and to each other over
a durable message store, under a configuration that several backend processes
share. The modules here model the parts of it on which everything else leans:

| part of the code (under `src/src/`) | modules |
| --- | --- |
| Task aggregate: `coordination/task-processor.ts` | `TaskProcessor`, `TaskLifecycle`, `WaitingTask`, `TaskProcessorProofs` |
| protocol outbox and inbox: `persistence/sqlite-protocol-delivery.ts` | `DeliveryRows`, `ProtocolDelivery`, `DeliveryRowsLemmas`, `ProtocolDeliveryProofs` |
| System to Agent exchange: `coordination/sap-task-bridge.ts` | `SapTaskBridge` (over `DeliveryRows`), `ExchangeAnswer`, `SapTaskBridgeProofs` |
| a Task that waits for another Agent: `continueMailboxWait` of `app/newide-backend-service.ts`, `coordination/aap-mailbox-bridge.ts`, `mailbox/` | `MailboxWait` (over `DeliveryRows` and `WaitingTask`), `ExchangeAnswer`, `MailboxWaitProofs` |
| one run, its cancellation and its events: `app/newide-backend-service.ts`, `app/run-registry.ts`, `coordination/task-execution-loop.ts` | `RunRegistry`, `RunService`, `RunServiceProofs` |
| context deliveries of the memory: `memory/runtime/`, `memory/services/` | `DeliveryLifecycle`, `ContextDelivery`, `ExperienceIntake`, `ContextDeliveryProofs` |
| lock of `.agent`: `driver/agent-dir-lock.ts` | `AgentDirLock`, `DriverRoutingProofs` |
| routing file: `driver/driver-routing-service.ts` | `DriverRouting` (over `AgentDirLock`), `DriverRoutingProofs` |

`MC<Module>` instantiates a module for TLC, with one `.cfg` per run.
`PROJECT.json` maps every definition to the lines it models and lists runs,
hazards, findings and theorems.

    tlc -config MCTaskProcessor.cfg MCTaskProcessor
    tlapm TaskProcessorProofs.tla

Contents: [inventory](#inventory), [models](#the-models),
[runs](#runs-and-bounds), [fairness](#fairness), [proofs](#proofs),
[findings](#findings), [what is not modelled](#what-is-not-modelled),
[plan](#plan).

## Inventory

What each part keeps, what it does, whom it meets, what is hard about it, and
what makes it correct. The `components` of `PROJECT.json` list every directory
of the source, the `hazards` every hard spot with its line.

**Task aggregate and TaskProcessor.** State: a Task, its runs, its runtime state
(current run, resume cursor, cursor input, diagnostics, interrupt state), the
latest checkpoint. Operations: begin a run (create, refine, continue a wait,
resume from a checkpoint), start, advance and fail a stage, record events and a
Council override, end a run (wait, interrupt, crash recovery, finish), block or
expire a wait. Called by the execution loop, the run registry, the mailbox, the
recovery at start and the legacy coordinator. Hard: these callers do not know of
each other and a process may die between any two calls. Correct when at most one
run is active and it can be found again, an interrupted Task resumes at the stage
that was cut off, a waiting one has what its continuation needs, and only a
changeset that passed its gate is delivered.

**Protocol delivery store.** State: outbox and inbox rows with revision, lease and
due time. Operations: enqueue, activate, claim, renew, mark sent, retry, fail;
receive, claim, renew, complete; archive. Called by the SAP and AAP bridges, the
ADP endpoint and the mailbox, which also run some of its operations inside their
own transactions. Hard: leases that run out under a working owner, owners with
one name, frames that are lost, doubled or late. Correct when one claim of a row
is believed at a time, work is committed once, and nothing settled is reopened.

**SapTaskBridge.** State: the rows of an `agent.execute` command, its cancel and
its results. Operations: command, beginExecute, createResult, recordResult, late
result, cancel. Used by the stage executors and TaskProcessor. Hard: several
executors of one command, a result against a cancel, a lease and a deadline.
Correct when the System acts on at most one answer, in time and not cancelled.

**AapMailboxBridge and Mailbox.** State: Mailbox requests, their deliveries
(pending, injected, acknowledged, failed), their replies and deadlines, and the
inbox row of each ask. Operations: ask, claim the ask, provision the recipient and
inject the request into its turn, reply (in the turn or by RPC), acknowledge,
accept the reply, expire. `continueMailboxWait` of the backend service strings
them together and is called by the end of a run, by a reply, and at start. Hard:
several of these calls at once, each of which reads the wait, awaits a turn and
then writes; the deadline against a reply that is saved but not accepted; a
restart between two commits. Correct when a wait is continued at most once and on
an answer in time, no Task fails by a deadline that was met, and a saved reply
does not leave the Task waiting.

**Lock of the `.agent` directory.** State: a directory and `owner.json`.
Operations: acquire (with takeover of stale locks), release. Used by routing and
driver discovery of every backend process. Hard: no call of the file system does
two of its steps at once, and owners die. Correct when it excludes, ends and
leaves nothing behind.

**Driver routing.** State: the routing file, the in-memory configuration, the
configuration each run started with. Operations: update, reset, start a run.
Hard: several processes, a write whose reload fails. Correct when nobody
overwrites what they have not seen, and a failed change is taken back.

**Execution loop, run registry, backend service.** The loop calls TaskProcessor
stage by stage. The registry holds the live runs with their events, an abort
signal, and a reservation for the one event that ends a run. The service answers
`cancelRun` and `interruptRun`, and ends runs: it stages the terminal event in the
registry, awaits the writing of the run's output, then commits to the store and to
the registry. Hard: everything else may happen during these awaits, a stage that
ends, a second cancellation, an interruption, and the writing may fail. Correct
when registry and store agree in the end, when the callers were told the truth, and
when every call is answered.

**ADP endpoint.** Invocations of external drivers over the delivery store. Hard:
a retry after an unknown result. Correct when no invocation is repeated whose
effect may have happened.

**Memory.** Context buffers and the deliveries that say a buffer has to be turned
into experiences. A worker claims a due delivery under a lease with a fresh token,
keeps the lease alive with a heartbeat, extracts the experiences, stores them,
archives the buffer, and acknowledges. Failed attempts are retried with a growing
delay, then end as dead letters, which can be put back by hand. Hard: a worker that
overruns its lease while it awaits; a renewal whose answer is lost; a crash between
store, archive and acknowledgement. Correct when no input is thrown away before it
is stored, nothing is stored twice, a living claim is ended by its holder alone, and
every delivery is settled.

**Gate scheduler.** A priority queue under a concurrency limit. Hard: the drain.
Correct when a waiting request starts once a slot is free.

**The rest** (council, market, telemetry, command line, RPC, core types,
projections, writers) keeps no state that decides anything here, or is input and
output.

## The models

An action stands for a whole handler, with every write it makes. A call that
throws or returns early without a write leaves the state alone and is no step. A
few modules define, just before an operator, a slip of it that a programmer could
make (`LeaseFreeAlways`, `MayTransitionAlways`, `OwnerIsForeign`, ...). No
specification uses them: `PROJECT.json` pairs each with the property that
notices it, which shows that the property says something about the code.

### TaskProcessor

Every handler of the class is synchronous and commits task, run, runtime state,
checkpoint and events in one SQLite transaction that checks a revision, so **one
call is one step**. The specification lets **any handler be called at any
time**, so that it covers every caller, every interleaving of callers and a crash
between any two calls; only the guards of the code restrict it.

| variable | code |
| --- | --- |
| `status`, `errorCode`, `finalOutput`, `owner` | the Task record |
| `runs` | run records: status and parent |
| `currentRun`, `cursor`, `cursorInput`, `interruptState` | the runtime state |
| `activeStage`, `councilOverride` | its diagnostics |
| `checkpoint` | the latest full checkpoint |
| `gated`, `councilDone`, `unguarded` | history, read by properties only |

| actions | code |
| --- | --- |
| `BeginCreate`, `BeginCouncilRefinement`, `BeginMailboxContinuation`, `BeginCheckpointResume` | `beginRun` by intent |
| `StartStage`, `AdvanceStage`, `FailStage` | `startStage`, `advanceStage`, `failStage` |
| `SetCouncilOverride`, `RecordRunEvent` | `setCouncilOverride`, `recordRunEvent` with its projection of the cursor |
| `CompleteRunForMailboxWait`, `BlockMailboxDeadlock`, `ExpireMailboxWait` | the handlers of a wait |
| `InterruptRun`, `RecoverInterruptedTask` | `commitInterruptedRun` |
| `FinishRun` | `finishRun` |

`AdvanceStage` contains the choice of the next input, the identity of the
changeset and the safepoint, which is a **second commit whose failure the
code swallows**: whether it succeeds is a choice of the step, and `unguarded`
remembers that one was lost or that the legacy coordinator completed a run by
itself, which it does without a gate. A changeset is its
identity (reference and hash); `ZeroHash` is the one that the code makes up when
it synthesizes an input without knowing the real one.

`TaskLifecycle` is the abstract specification: a Task has a phase, live runs and
runs that are over. The refinement mapping is `phase <- status`, `live <-` the
active runs, `over <-` the runs that were begun and are no longer active.

`WaitingTask` is the aggregate as those see it who wait for an answer on its
behalf: one record with the Task's status and error, whether a run is active,
whether the wait's run is known and the checkpoint can be resumed, and the delivery
that is waited for. Its operators say what each handler does to that record, and
`TaskSpec` which handler may be called when. `MailboxWait` is written with these
operators. `TaskProcessor` implements `TaskSpec` under the mapping `Waiting`: no
handler does anything to a Task that `WaitingTask` does not know of. The exception is
a lost safepoint (`unguarded`): then the checkpoint is that of an earlier stage, and a resume may go
back to an older wait and continue it again. `KeepsWait` is that refinement with the
exception, as a property of the run.

### DeliveryRows and ProtocolDelivery

`DeliveryRows` has no variables: it says what each SQL statement does to one row,
and when it applies. `ProtocolDelivery` is the store under its contract:
**one action is one transaction**; workers claim rows, work outside the
transaction and come back with the revision they remember (`token`). A worker
may forget its token (a crash) or come back after its lease. A frame whose row
was ever enqueued may be received any number of times at any later time, or
never. `ReceiveInbox` of a receipt also settles the command it answers, as
`receiveInbox` does. `ArchiveSettled` may happen at any time and removes settled
rows; a frame that comes again afterwards is admitted as a new one, which is what
the code does. `completed`, `recompleted` and `archived` are history, and the
properties about one row that must be remembered are asked until something is
archived.

### SapTaskBridge and ExchangeAnswer

One `agent.execute` exchange, over the same row operations. Each public method
runs **several store operations in one transaction and is one action**;
`admission[e]` is what `beginExecute` returned to executor `e`, `frame[e]` the
result it created. All executors share one owner name, as in the code. The
classification of a result (accepted, duplicate, late) and its commit are modelled
as the two separate decisions that they are. `CanAcceptResult` is all that the commit
needs: the lease and the revision, compared with `created_at`, and a result id that is
still free.

The model shows that a late result can cost an early one. All executors of a command
name their result `sap_result_<exchange_id of the command>`
(`task-execution-loop.ts:637`, `synthesis-agent-provider.ts:786`). When one of them
creates its result after the deadline and has it recorded as late, before the last
executor has come in with one created in time, the rows of the late one bear the id:
`enqueueOutbox` throws for the other (`sqlite-protocol-delivery.ts:112-131`), the
transaction rolls back, and the command stays unanswered though the result is still
classified as accepted. `ResultInLeaseIsKept` excepts this case by name and no other.

`ExchangeAnswer` is the abstract specification of a bridge: asked once, at most
one answer, none after a cancel, late receipts only on record. The mapping is
`asked <-` the command's outbox row exists, `cancelled <-` the cancel's row
exists, `answer <-` the reply in the Agent's inbox row, `recorded <-` the results
completed in the System's inbox.

### MailboxWait

`continueMailboxWait` is one long asynchronous function on a single thread, so **a
step is what it does between two awaits**. Where it makes several commits without
an await, each is a step as well (`replying`, `starting`, `expiring`), because the
process may end between them; these interleave with `Restart` and the clock only
(`ThreadIsFree`). Several calls are under way at once, for whatever the Task waits
for when they look. What they and the runs do to the Task are operators of
`WaitingTask`.

| variable | code |
| --- | --- |
| `phase` | recovery at start, serving, closing |
| `task` | the record of `WaitingTask`: status and error, and what runtime state and latest checkpoint say of a wait |
| `box`, `answers`, `deadline` | Mailbox deliveries and replies, `deadline_at` |
| `inbox`, `late` | the inbox row of each ask (`DeliveryRows`), the replies recorded as late |
| `call` | where each call is, with the revision it claimed and the reply it has |
| `now`, `interrupts` | clock and bound of interruptions |
| `continued`, `unheard` | history, read by properties only |

| actions | code |
| --- | --- |
| `Ask`, `EndInWait`, `AdvanceRun`, `ForgetWait`, `EndRun`, `InterruptRun`, `ResumeRun`, `RefineTask` | what the runs do to the Task around a wait |
| `Flushed`, `FlushFails` | the flush of the events before the call |
| `NoContext`, `CannotComplete`, `FindOverdue`, `BeginAsk` | `continueMailboxWait` up to the recipient's turn |
| `ProvisionFails`, `Provisioned`, `ReplyInTurn`, `EndTurn`, `AbortTurn` | `MailboxDeliveryWorker`, with the timer of the deadline |
| `AcceptReply`, `StartRun`, `ExpireWait` | `acceptReply`, `startRun`, `expireMailboxWait` |
| `ReplyByRpc`, `ReplyAgain`, `Acknowledge` | `mailbox.reply`, `mailbox.ack` |
| `Close`, `Restart`, `RecoverWait`, `Serve` | the life of the process, `recoverMailboxWaits` |

The mapping to `ExchangeAnswer`: `asked <-` the request was sent, `answer <-` the
reply in the ask's inbox row, `recorded <-` that and the late ones; an ask is never
cancelled.

What the model shows of the code beyond its properties, and what they therefore do
not claim:

- A call judges a reply by the clock at which it accepts it, not by the one at which
  the Mailbox saved it. A reply that was saved in time can be late.
- A second call, of a repeated reply or of the loop, that comes when the Task has
  been continued finds no wait and blocks the running Task. One that is still at work
  then blocks the Task if it waits again, or expires that next wait.
- While the process lives nobody watches the deadline of an ask whose turn ended
  without a reply; the next call or the next start does.
- While the process closes, a reply is accepted and its continuation refused: the
  Task is blocked.
- A crash between `markFailed` and `expireMailboxWait` leaves a failed delivery; the
  next start blocks the Task and does not expire it.
- If the events of the run that ended in the wait cannot be flushed, nobody
  continues it until the next start (`unheard`).
- A deadline that fails a Task leaves the run alone. When the process ends with that
  run still active, `recoverInterruptedTasks` throws at the next start
  (`task-processor.ts:1274-1279`, called outside any `try` at
  `backend-rpc-stdio.ts:600`) and the process does not start; in the model `Serve` has
  no step there.
- A second reply to one request counts as late (`aap-mailbox-bridge.ts:300-302`) even
  when the Task already runs on the first, and a call that brings it expires the
  Task. `TimeoutIsDue` excepts this case by name.
- A late reply is recorded once. A call that brings it again creates another frame with
  the same id, `receiveInbox` throws (`sqlite-protocol-delivery.ts:154-158`), and the
  Task is blocked, not expired. It takes three restarts to get there with one request,
  more than the run allows; the proofs cover it.

### RunRegistry and RunService

`RunRegistry` has no variables: it says what each method of the registry does to
the record of one run. `RunService` is the run under the execution loop and any number
of calls of `cancelRun` and `interruptRun`. A step is again what happens between
two awaits; continuations that the runtime schedules one microtask apart may be
further apart here, which adds behaviours and hides none. `loop` is the place of the
execution, `call` that of each call, `run`, `waits` and `end` are the store,
`staged` is the event a call has reserved while it awaits the output. A driver goes on
reporting progress after the run has ended (`DriverEvent`), as the code lets it.

| actions | code |
| --- | --- |
| `StartRun` ... `CompleteForWait` | `TaskExecutionLoop.run` with the stage calls it makes; `StageThrows` is the catch clause of `executeStage`, `StageCommitFails` the error of a commit, which that clause passes on |
| `SettleByRegistry`, `Finalize`, `FinalizeFails`, `EndWithoutStore`, `EndWhatIsLeft`, `FinalizeEnd` | what the service does when the loop has returned or thrown |
| `CancelRun`, `InterruptRun`, `AwaitLoop` | the calls up to their await |
| `PersistTerminal`, `PersistFails`, `Answer` | `persistTerminal` after its await, with its second attempt as a failure, and the answer |

Seen in this model and claimed by no property: `registry.fail` overwrites a
`completed` record, and a client that reconnects with the number of the last event it
saw misses a terminal event whose number was reserved earlier and which was added
later (`run-registry.ts:308, 353, 432-433`).

### DeliveryLifecycle and ContextDelivery

`DeliveryLifecycle` has no variables: it is `delivery-lifecycle.ts`, what each
transition does to one record. In `ContextDelivery` workers of several processes
share records, experiences and buffers. A record is read, decided on and written
under its own file lock, which the model takes as exclusive, so **one
read-decide-write is a step**; every other await ends a step. The lock file itself is
left out: `isLockStale` takes one that another process has just created and not yet
written for stale, as it does one older than its time to live
(`file-memory-delivery.ts:674-716`), and two processes may then change one record. What
is checked and proved here holds as far as that lock excludes. A renewal of the
heartbeat is two steps, `BeginRenewal` with the clock it has read and `FinishRenewal` when it reaches the record. Leases and retry delays are
timers that count down (`Aged`), so the clock itself needs no bound. Worker ids may be
equal, as a configuration may make them; tokens are fresh. `Crash`, `RenewalFails`
and a refused lock share the bound `MaxFaults`. `Restore` gives a listed expired claim
back judged by the record as it is by then, not as it was listed.

`ExperienceIntake` is what all these workers promise together to whoever submits a
context, with no worker, claim or lease in sight: a delivery is open, dead or
processed, each of its experiences is stored once, its input is discarded when all of
them are stored, and it is processed after that and for good. The mapping is
`phase <- status` with pending and processing as one, `stored <-` the experiences of
which there is exactly one copy, `kept <- pending`.

### AgentDirLock and DriverRouting

What happens between two file system calls is invisible to other processes, so
**each call is one step**: `Mkdir`, `WriteOwner` (with flag `wx`, into whatever
directory is at the path by then), `Stat`, `ReadOwner`, `Rename`, `Wait`,
`Release` (the read of the owner) and `Remove`. A process may die between any
two (`MaxCrashes`). `Aging` lets any lock look too old at any look, which covers a
slow owner and a slow clock alike.

`DriverRouting` EXTENDS the lock with what `updateRouting` and `resetRouting` do
under it: load and compare the revision, read the old file, write or remove,
reload, restore on failure. Each access to the file is a step, so the other
processes interleave with it, and a process may die between write and restore.

## Runs and bounds

Deadlock is not checked in any run, since all these systems may stop: a Task is
over, a worker has nothing to do, the clock has reached its bound, every caller
has come to its end.

| run | distinct states | instance | shows |
| --- | --- | --- | --- |
| `task_processor` | 89,113 | 3 runs, 2 changesets, 2 deliveries, 1 agent, 1 invocation | the safety of the aggregate for any caller, and the refinements of `TaskLifecycle` and `WaitingTask` |
| `deadlocked_wait_resume` | violated | 2 runs | finding 1 |
| `protocol_delivery` | 420,096 | a command and its receipt, 2 workers with one owner name, lease 1, time to 2, revisions to 4, archiving | exclusive claims, work committed once, nothing reopened |
| `sap_task_bridge` | 133,537 | 3 executors, 2 results, lease 1, deadline 4, time to 5 | one answer, none after a cancel, work done within a lease is kept unless a late result took its id; refinement of `ExchangeAnswer` |
| `sap_lease_over` | violated | 1 executor | finding 2 |
| `mailbox_wait` | 961,617 | 2 requests, 2 calls at a time, 2 replies, lease 1, deadlines 1 or 2, time to 3, 1 restart or interruption | a wait is continued once, expired only when due, not left behind; refinement of `ExchangeAnswer` |
| `run_service` | 61,137 | 2 calls of `cancelRun`, 1 of `interruptRun`, progress up to number 5 | answers are true, registry and store agree, every call is answered |
| `run_left_running` | violated | the same, progress up to number 3 | finding 4 |
| `context_delivery` | 255,432 | 2 workers with one worker id, 1 delivery of 2 experiences, 2 attempts, lease 1, 1 fault, 1 reset | input kept, nothing twice, living claims safe, every delivery settles; refinement of `ExperienceIntake` |
| `agent_dir_lock` | 320,647 | 3 callers, 1 crash, aging | every acquire ends, nothing is left behind |
| `stolen_lock` | violated | 3 callers, 1 crash, no aging | finding 3 |
| `driver_routing` | 492,639 | 2 callers, 2 documents, 1 crash, no aging | exclusion, no lost update, restore, every update ends |

Why these bounds are enough to be interesting:

- *Runs of a Task.* A run id is used once. Two are needed for a wait and its
  continuation; the third lets a crash and a resume follow. Two changesets tell the
  gated one from a later one, two deliveries the wait that is continued from another.
  More agents or invocations only rename.
- *Rows.* One command and its receipt show every relation between two rows the
  store knows. A revision of 4 is enough to claim, lose, claim again and settle a
  row; a lease of one tick runs out and the row is claimed again before the clock
  stops at 2. `MaxRevision` and `MaxTime` are guards in the actions.
- *SAP.* Three executors are a second re-admission; two results are a duplicate
  and a rival; with a lease of 1, a deadline of 4 and time to 5 the lease ends
  long before the deadline, and results arrive on both sides of it.
- *Waits.* Two requests let a stale call meet the next wait. Two replies are the
  answer and a late or a second one. With leases of 1 and deadlines of 1 or 2, an
  ask can be claimed again before its deadline and a lease can be cut short by it. One
  restart puts the end of the process between any two commits.
- *Run.* Two cancellations race each other for the reservation while the
  interruption and the loop race both. `MaxSequence` bounds progress only; 5 leaves
  room for progress before and after everything else.
- *Memory.* With a lease of 1 every await may overrun it. Two attempts are a retry and
  the last one; two experiences leave a buffer half stored. One fault is a crash or
  a lost answer at any place, one reset reopens a dead letter that may be half stored.
- *Lock.* A thief, a victim and a dead process need three callers. With aging
  every lock may be stolen, so exclusion is not asked there, only progress and
  tidiness. `driver_routing` asks for exclusion with two callers and a death:
  there a lock is taken over by the only survivor. With two survivors finding
  3 applies, and both `MutualExclusion` and `NoLostUpdate` are lost.

Symmetry is used over interchangeable runs, changesets, workers, executors and
results, and in no run with a liveness property.

## Fairness

`TaskProcessor`, `ProtocolDelivery` and `SapTaskBridge` state safety only: the code
promises no call of a handler, so none is assumed. Liveness is asked where the
code schedules itself:

- `LockFairness`: weak fairness of the calls of `acquire` and of `TimeOut`, for
  each caller. The code between two calls is straight, a wait is a `setTimeout`,
  and the clock passes the deadline. A dead caller has no step that fairness
  could ask for. There is no fairness of `Acquire`, `Crash` or the release: in
  `agent_dir_lock` an owner may keep the lock for ever, and `AcquireEnds` holds
  because of the time out.
- `MailboxWait`: weak fairness of a call that is in the middle of its commits, of a
  call that goes on from an await while the thread is free, and of the recovery at
  start. An await of a turn ends, because a timer aborts it at the deadline. Nobody has
  to reply, to send a request, to restart or to let the clock go on.
- `RunService`: weak fairness of the loop and of each call that has begun. A stage has
  to end only once the abort signal is set, which the drivers listen to; without a
  signal it may work for ever. Nobody has to cancel.
- `ContextDelivery`: weak fairness of the clock, of the timer that starts runs, of each
  worker in a run and of a renewal that is on its way. Faults and resets are
  bounded and never owed.
- `RoutingFairness` adds the steps under the lock and `Remove`, which are
  synchronous code with `finally`.

Steps that nobody has to take (a refusal, a failed write) are choices *within*
`Operation`, so that fairness never excludes a failure.

## Proofs

About 7,700 obligations, for every value of the constants that meets the named
assumptions of the modules.

**TaskProcessorProofs.** `InductiveInvariant` is preserved by every action, one
step per action and one lemma per kind of it. The checked properties alone are not
inductive: `OneActiveRun` needs `ActiveRunIsTracked`, because the guard of
`beginRun` and the handlers that end a run look at different fields;
`WaitingTaskHasContext` needs `WaitKnowsOwner`, which speaks of the checkpoint as
well, since a resume brings back its input; `OnlyGatedChangesetDelivered` needs
`CheckpointGated` for the same reason; `InterruptedTaskIsResumable` needs
`InterruptedHasNoActiveRun`, or a stage could still move the cursor. From it follow
the eight invariants that the run checks and, step by step under the mapping,
`Implements`. `GatedDelivery` speaks of histories that are not `unguarded`, because
the property does. For the second refinement `WaitInvariantHolds` adds what
`WaitingTask` takes for granted of a Task: a running one has its run active and no
error, and a checkpoint that can be resumed at a wait is of the wait the cursor is at.
The last of these is lost with a safepoint, so `WaitIsKept` (the property) excepts
`unguarded` steps, and `ImplementsWaitingTask` says that a history without them is one
of `TaskSpec`. Assumptions: `NoneIsNoValue`, `ZeroHashIsNoChangeset`.

**DeliveryRowsLemmas, ProtocolDeliveryProofs.** The lemmas say what each row
operation keeps: types, a revision that never falls, one that rises with each
claim. `StoreInvariant` adds to the properties that a frame comes only from an
enqueued row (`FramesAreIssued`), an absent row starts anew (`AbsentRowsAreNew`) and,
until something is archived, that no token is ahead of its row (`TokensAreBehind`),
no two workers have the same token (`TokensAreDistinct`) and a completed row stays
(`CompletedRowsStay`). Exclusion follows from revisions alone: a claim raises the
revision above every token given out, so owner names need not differ.
`ReceiptsSettle` and `SettledRowsStay` hold with archiving too. Assumptions:
`ExchangesAreDistinct`, `ReceiptsHaveCauses`, `LeaseIsPositive`, `BoundsAreNumbers`.

**SapTaskBridgeProofs.** `BridgeInvariant`: types, the shape of the command's rows
(`CommandRows`), every admission is a claim that the row still remembers or has
passed (`AdmissionsAreClaims`), every frame belongs to an admission
(`FramesAreAdmitted`), leases do not overlap (`ExecutorsTakeTurns`), the answer is
delivered. `WorkInLeaseIsKept` is the good side of finding 2: as long as the command is
neither answered nor cancelled, a result that the last executor to be admitted created
within its lease, and before the deadline, can be committed at any later time. It says
so of the whole guard of the transaction (`CanAcceptResult`) and names the one
exception, `OvertakenByLateResult`. It rests on two more invariants: the lease on the
row is the one of the last admission (`LeaseIsAdmitted`), and as long as the command is
open all that bears the id of a result was created after the deadline (`LateOnRecord`).
`Implements` maps every method to a step of `ExchangeAnswer` or a stutter.
Assumptions: `DistinctExchanges`, `DurationsArePositive`.

**MailboxWaitProofs.** `WaitInvariant` says what a call still knows after an await
(`CallKnowsRequest`), that an answer committed under a lease is in time because no
lease outlives the deadline (`AnsweredInTime`), that a call on its way to expire a
wait has reason to (`ExpiringIsOverdue`), that a continued wait is not the Task's
wait any more (`ContinuedIsOver`), which stops the second continuation, and that one
call at most is between two commits (`OneThread`), without which the reason to expire
could vanish. The steps are of three kinds: those that touch neither mailbox nor
exchange, those that move a delivery or save a reply, and those of the exchange; each
kind has its lemmas. Theorems: the wait is continued once, no timeout is undue, and
each ask implements `ExchangeAnswer`. Assumptions: `NoneIsNoNumber`,
`DurationsArePositive`, `BoundsAreCounted`.

**RunServiceProofs.** For any set of calls. `RunInvariant` says who may be ahead of
whom: the registry never of the store (`RegistryFollows`), and where it is behind
somebody is about to bring it up (`StoreFirst`); what the place of the loop implies
about the store (`LoopKnows`); that a call in its await holds the reservation and a
number on no event (`CallHasReservation`, `Numbered`); and that the two agree so far
unless an output failed (`AgreeSoFar`). `OnlyLostOutputKeepsRunLive` follows: finding 4
needs an output that could not be written, and happens in no other way.
Assumptions: `MakersAreDistinct`, `NoneIsNoReason`, `CallsAreOfAKind`, `MaxSequenceIsNat`.

**ContextDeliveryProofs.** For any number of workers, owners and deliveries and any
size of them. A claim's token is fresh, so no two workers have the same one
(`TokensAreDistinct`); a heartbeat belongs to a job (`BeatHasJob`); what a worker has
passed in its list is stored (`SavedSoFar`); a worker that acknowledges has archived
(`ArchivedBeforeAck`); and no delivery is worked on that nobody submitted
(`WorkIsSubmitted`). `LiveClaimsAreSafe` follows step by step. So does
`ImplementsExperienceIntake`: each step moves one delivery from phase to phase
(`StepsMoveOnePhase`), or stores one experience that was missing, or discards one
input of which everything is stored, or is not seen.
Assumptions: `AttemptsArePositive`, `DelaysAreTimes`, `LeaseIsTime`, `IdsAreOwners`,
`SizesAreCounted`, `NoneIsNoDelivery`, `NoneIsNoLease`, `BoundsAreCounted`.

**DriverRoutingProofs.** For any number of callers and documents. `LockTypes`,
`RoutingTypes` and `LockIsTidy` (nothing is left behind if nobody died) hold without
a condition. `LockExcludes`, `SavedIsOnDisk` and `UpdatesAreNotLost` hold with any
deaths and any aging, as long as each takeover moves away the directory of a dead
maker (`RobsTheDead`). `LockInvariant` says for this that the directory at the path
belongs to whoever is between its mkdir and its removal (`DirIsItsMakers`);
`RoutingInvariant` that a caller without the lock has not begun (`Starting`) and that
what was compared is still on the disk (`ComparedIsCurrent`). Finding 3 is that three
callers can break the condition. The other theorems say when it is met, if no living
owner is taken for dead (`Aging = FALSE`): `PromiseExcludes`, when what is renamed is
what was looked at, which is all that the comment on the algorithm claims;
`PairKeepsPromise` and `PairUpdatesSafely`, for two callers and any deaths, which
settles the exclusion and the updates of `driver_routing`; `NobodyIsRobbed`, for any
number of callers of whom none dies. Other assumptions: `NoneIsNoCaller`,
`CrashesAreCounted`, `AgingIsChoice`, `BaseIsDocument`.

**Only model-checked.** `AcquireEnds`, `UpdateEnds`, `SavedReplyWakesTask`,
`CallsReturn` and `EveryDeliverySettles`, since liveness under fairness is out of the
prover's reach; and the violations. **Only proved**, for want of anything a small
instance would add: the types of the delivery store, of the SAP bridge, of the waits,
of the context deliveries, of the lock and of the routing file, and that leases of
executors do not overlap.

## Findings

Each is a trace of a `violation` run; `PROJECT.json` quotes the lines.

1. *A deadlocked wait cannot be resumed* (`deadlocked_wait_resume`). The comment on
   `blockMailboxDeadlock` promises that an operator can resume. After
   `completeRunForMailboxWait` the block replaces `interrupt_state` and with it the
   source run, and the checkpoint belongs to a completed run: no call starts the
   Task again.
2. *A result after the lease is lost* (`sap_lease_over`). A result is accepted until
   the deadline (24 hours), and committed only within the lease (30 minutes), which
   is never renewed. The commit throws although there is no other executor. A
   result that the last executor created within its lease is lost in one way only, by a
   late one under the same id (`WorkInLeaseIsKept`).
3. *A new lock is taken for the stale one* (`stolen_lock`). Between the look and the
   rename, another process may have taken over and made the lock again; the rename
   moves that one away, and two processes hold the lock. Nothing else lets two in
   (`PromiseExcludes`), and it takes three processes (`PairKeepsPromise`).
4. *An ended run stays live* (`run_left_running`). When the output of a cancellation
   cannot be written, `persistTerminal` reserves a failure instead; if the loop has
   cancelled the run in the store meanwhile, the store refuses the failure, nobody
   releases the reservation, and the registry says running for ever. A test expects
   such a run to have ended. Without a lost output none is left
   (`OnlyLostOutputKeepsRunLive`).

Some observations have no run of their own; those about waits are listed with
`MailboxWait`, those about events with `RunService`. `commitInterruptedRun` keeps
`active_stage` (`task-processor.ts:1687-1779`), which the snapshot projector takes for a
stage in progress (`task-run-snapshot-projector.ts:65-66`). A frame that comes again after
`archiveSettled` removed its completed row is admitted and done again; no production
code calls `archiveSettled` yet.

## What is not modelled

- In `TaskProcessor`: the SAP and AAP frames that ride in a commit
  (`recordCouncilSapDispatch`, `recordCouncilSapResult`), `deleteTask`,
  `saveShutdownSafepoints` (which no code calls), the audit note of
  `recordWorkspaceRestore`, artifact lists, sessions, the event log and the
  listings. The revision check of the store is what makes a
  handler one step, and is not modelled itself.
- In `ProtocolDelivery`: the journal of calls, attempt numbers, contents of frames.
- In `MailboxWait`: the stages of a run (they are in `TaskProcessor`), Sessions and
  their provisioning (a choice), the outbox rows of an ask and of its reply, which the
  bridge writes in the same transaction as the inbox row, messages that are no
  requests, and a second Task.
- In `RunService`: what a Task is besides its run, what follows a wait, runs of the
  legacy coordinator, subscriptions and the trimming of old events.
- In `ContextDelivery`: the order in which due records are tried, the contents of
  experiences, an extraction that finds another number of them when it is tried again,
  their merging in the repository, the record of a maintenance run, and the making and
  the takeover of a record's lock file, which is taken as exclusive.
- In `AgentDirLock`: errors of mkdir and of the removals, and the partial removal of
  a directory. In `DriverRouting`: the configuration in memory, run snapshots and
  the validation of a request, which is one refusal.
- Not modelled at all: the parts marked so in `PROJECT.json`. Stage executors,
  Council, market, gates' runners and memory extraction return data that the
  aggregate has as a choice; ledgers and telemetry are only written; `rpc`,
  `protocol`, `core` and `cli` keep no state that decides anything.

## Plan

Done: the modules above, in the order TaskProcessor, delivery store, SAP bridge,
lock and routing, memory deliveries, run service, mailbox wait, each with its proofs.
Next, by weight:

1. `TaskExchange`, composing TaskProcessor's stages with the SAP and AAP frames in
   one commit: `recordCouncilSap*`, the wait committed without its ask, the active
   stage without its outbox id.
2. `MailboxWait` over `RunService`'s registry: `startRun` and the shutdown with the
   live runs they look at, and the recovery at start of several Tasks.
3. The ADP endpoint over `DeliveryRows`: invocations across restarts, with an unknown
   result, and its renewal of leases.
4. `GateScheduler`, whose liveness is about its drain, and the record of a maintenance
   run around `ContextDelivery`.
5. Proofs: the composition of 1 keeps Task and frames together; `RunService` implements
   a run that ends once and is heard of once.
