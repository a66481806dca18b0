----------------------------- MODULE MailboxWait -----------------------------
(***************************************************************************)
(* A Task that waits for an answer from another Agent: continueMailboxWait   *)
(* of src/app/newide-backend-service.ts over the Mailbox, the ask exchange   *)
(* of AapMailboxBridge (src/coordination/aap-mailbox-bridge.ts), the         *)
(* recipient's turn (src/mailbox/mailbox-delivery-worker.ts) and the Task's   *)
(* record.  continueMailboxWait is called when a run has ended in a wait,    *)
(* when a reply comes by RPC and when the process has started again, by      *)
(* several callers at once and for whatever the Task waits for by then.      *)
(*                                                                          *)
(* The steps of a call are what it does between two awaits, divided where a  *)
(* crash between two commits can be told from one after both.  Left out: the *)
(* stages of a run (TaskProcessor), sessions, the outbox rows of the ask and *)
(* of its reply, which the bridge writes along with the inbox row.           *)
(***************************************************************************)
EXTENDS DeliveryRows, Integers

CONSTANTS
    MaxRequests,    \* bound of the requests of the Task's owner
    MaxCalls,       \* bound of the calls of continueMailboxWait under way
    LeaseDuration,  \* lease_duration_ms
    AnswerTime,     \* the longest deadline_seconds of a request
    MaxTime,        \* bound of the clock
    MaxReplies,     \* bound of the Mailbox replies
    MaxInterrupts   \* bound of the interruptions, by a restart or the user

(* All are numbered, and the lowest free number is taken.                   *)
Deliveries == 1 .. MaxRequests
Calls == 1 .. MaxCalls
Replies == 1 .. MaxReplies

ASSUME NoneIsNoNumber == None \notin Nat

ASSUME DurationsArePositive ==
    LeaseDuration \in Nat \ {0} /\ AnswerTime \in Nat \ {0}

ASSUME BoundsAreCounted ==
    MaxRequests \in Nat /\ MaxCalls \in Nat
        /\ MaxTime \in Nat /\ MaxReplies \in Nat /\ MaxInterrupts \in Nat

VARIABLES
    phase,     \* of the process
    task,      \* the Task, with what its runtime state says of a wait
    box,       \* the status of each delivery
    answers,   \* the delivery that each Mailbox reply answers, once it is saved
    deadline,  \* deadline_at of each
    inbox,     \* the recipient's inbox row of the ask of each
    late,      \* the replies on record as late, each with its delivery
    call,      \* where each call is
    now,
    interrupts, \* the interruptions so far
    continued, \* history: how many runs continued the wait for each
    unheard    \* history: a run that ended in a wait could not write its output

mailbox == <<box, answers, deadline>>
exchange == <<inbox, late>>
clock == <<now, interrupts>>
vars == <<phase, task, mailbox, exchange, call, clock, continued, unheard>>

Phases == {"starting", "recovering", "serving", "closing"}

INSTANCE WaitingTask

BoxStatuses == {"none", "pending", "injected", "acknowledged", "failed"}

Open == {"pending", "injected"}

Steps == {"idle", "flushing", "called", "provisioning", "turn", "replying",
          "starting", "expiring"}

(* A call knows its delivery, the revision of the inbox row it has seen, and *)
(* the reply of its turn, and then the one it goes on with.                 *)
Idle == [step |-> "idle", on |-> None, rev |-> 0, reply |-> 0]

Owner == "aap-agent"

Init ==
    /\ phase = "serving"
    /\ task = Begun(NoTask, None)
    /\ box = [d \in Deliveries |-> "none"]
    /\ answers = [r \in Replies |-> None]
    /\ deadline = [d \in Deliveries |-> 0]
    /\ inbox = [d \in Deliveries |-> NoInboxRow]
    /\ late = {}
    /\ call = [c \in Calls |-> Idle]
    /\ now = 1 /\ interrupts = 0
    /\ continued = [d \in Deliveries |-> 0]
    /\ unheard = FALSE

-----------------------------------------------------------------------------

IsNextCall(c) ==
    call[c].step = "idle" /\ \A e \in 1 .. c - 1 : call[e].step # "idle"

Goto(c, step) == call' = [call EXCEPT ![c].step = step]

Return(c) == call' = [call EXCEPT ![c] = Idle]

(* The catch clause: a Task that still waits is blocked.                    *)
FailWith(c, t) ==
    /\ task' = IF t.status \in {"waiting_help", "blocked"} THEN Deadlocked(t) ELSE t
    /\ Return(c)

Fail(c) == FailWith(c, task)

On(c) == call[c].on

HistoryVars == <<continued, unheard>>

Replied(d) == \E r \in Replies : answers[r] = d

(* findReplyDelivery                                                        *)
FirstReply(d) ==
    CHOOSE r \in Replies : answers[r] = d /\ \A q \in 1 .. r - 1 : answers[q] # d

IsNextReply(r) == answers[r] = None /\ \A q \in 1 .. r - 1 : answers[q] # None

(* minTimestamp(now + lease, deadline)                                      *)
LeaseUntil(d) ==
    IF now + LeaseDuration <= deadline[d] THEN now + LeaseDuration ELSE deadline[d]

-----------------------------------------------------------------------------
(* The run: what its stages do to the Task.                                 *)

(* The owner's Agent sends a request, and its stage commits the wait.       *)
Ask(d) ==
    /\ phase # "starting"
    /\ task.active /\ task.status = "running" /\ task.waitOn = None
    /\ box[d] = "none" /\ \A e \in 1 .. d - 1 : box[e] # "none"
    /\ box' = [box EXCEPT ![d] = "pending"]
    /\ \E time \in 1 .. AnswerTime :
           deadline' = [deadline EXCEPT ![d] = now + time]
    /\ task' = Advanced(task, d)
    /\ UNCHANGED <<phase, answers, exchange, call, clock, HistoryVars>>

(* The loop has returned at a wait: the run is completed, and its events    *)
(* are flushed before continueMailboxWait is called.                        *)
EndInWait(c) ==
    /\ phase # "starting"
    /\ IsNextCall(c)
    /\ task.active /\ task.status = "running" /\ task.waitOn # None
    /\ task' = WaitCompleted(task)
    /\ Goto(c, "flushing")
    /\ UNCHANGED <<phase, mailbox, exchange, clock, HistoryVars>>

Flushed(c) ==
    /\ call[c].step = "flushing"
    /\ Goto(c, "called")
    /\ UNCHANGED <<phase, task, mailbox, exchange, clock, HistoryVars>>

(* The output cannot be written: nobody continues.                          *)
FlushFails(c) ==
    /\ call[c].step = "flushing"
    /\ Return(c)
    /\ unheard' = TRUE
    /\ UNCHANGED <<phase, task, mailbox, exchange, clock, continued>>

(* A stage is committed that asks nobody.                                   *)
AdvanceRun ==
    /\ phase # "starting"
    /\ task.active /\ task.status = "running" /\ task.waitOn = None
    /\ task' = Advanced(task, None)
    /\ UNCHANGED <<phase, mailbox, exchange, call, clock, HistoryVars>>

(* A late event of the run moves the cursor away from the wait.             *)
ForgetWait ==
    /\ phase # "starting"
    /\ task.active /\ task.waitOn # None
    /\ task' = Forgotten(task)
    /\ UNCHANGED <<phase, mailbox, exchange, call, clock, HistoryVars>>

(* The last stage, a failure, a cancel, even at the cursor of a wait, or a  *)
(* stage that finds its Task blocked or failed.                             *)
EndRun ==
    /\ phase # "starting"
    /\ task.active
    /\ \E status \in Outcomes(task) : task' = Finished(task, status)
    /\ UNCHANGED <<phase, mailbox, exchange, call, clock, HistoryVars>>

(* interruptRun, by the user or the shutdown, even at the cursor of a wait. *)
InterruptRun ==
    /\ phase # "starting"
    /\ interrupts < MaxInterrupts
    /\ interrupts' = interrupts + 1
    /\ CanBeInterrupted(task)
    /\ task' = Interrupted(task)
    /\ UNCHANGED <<phase, mailbox, exchange, call, now, HistoryVars>>

(* From the checkpoint, whose input may be the wait, or from the beginning. *)
ResumeRun ==
    /\ phase = "serving"
    /\ task.status = "blocked" /\ ~ task.active /\ task.resumable
    /\ \E d \in {task.waitOn, None} : task' = Begun(task, d)
    /\ UNCHANGED <<phase, mailbox, exchange, call, clock, HistoryVars>>

(* The completed Task is refined.                                           *)
RefineTask ==
    /\ phase = "serving"
    /\ Begin
    /\ UNCHANGED <<phase, mailbox, exchange, call, clock, HistoryVars>>

-----------------------------------------------------------------------------
(* continueMailboxWait                                                      *)

NoContext(c) ==
    /\ call[c].step = "called"
    /\ ~ HasContext(task)
    /\ task' = Deadlocked(task)
    /\ Return(c)
    /\ UNCHANGED <<phase, mailbox, exchange, clock, HistoryVars>>

(* The run of the wait is the current one of a Task that is not running.    *)
CannotComplete(c) ==
    /\ call[c].step = "called"
    /\ HasContext(task)
    /\ task.active /\ task.status # "running"
    /\ Fail(c)
    /\ UNCHANGED <<phase, mailbox, exchange, clock, HistoryVars>>

(* The wait of this call: a run that is still the current one is completed. *)
Waits(c) ==
    /\ call[c].step = "called"
    /\ HasContext(task)
    /\ task.active => task.status = "running"

Waiting == IF task.active THEN WaitCompleted(task) ELSE task

(* No reply at the deadline: markFailed, which throws when the delivery has *)
(* been acknowledged, comes before expireMailboxWait.                       *)
FindOverdue(c) ==
    /\ Waits(c)
    /\ LET d == task.waitOn
       IN  /\ ~ Replied(d) /\ deadline[d] <= now
           /\ IF box[d] \in Open
              THEN /\ box' = [box EXCEPT ![d] = "failed"]
                   /\ task' = Waiting
                   /\ call' = [call EXCEPT ![c] = [Idle EXCEPT !.step = "expiring",
                                                               !.on = d]]
              ELSE /\ FailWith(c, Waiting)
                   /\ UNCHANGED box
    /\ UNCHANGED <<phase, answers, deadline, exchange, clock, HistoryVars>>

Admits(c, d, row, granted) ==
    /\ inbox' = [inbox EXCEPT ![d] = row]
    /\ call' = [call EXCEPT ![c] =
           IF Replied(d)
           THEN [step |-> "replying", on |-> d, rev |-> row.revision,
                 reply |-> FirstReply(d)]
           ELSE IF granted
           THEN [step |-> "provisioning", on |-> d, rev |-> row.revision, reply |-> 0]
           ELSE Idle]

(* beginAsk: the exchange is leased to the recipient, unless it is answered *)
(* or an earlier lease still runs; a lease that would end at once throws.   *)
BeginAsk(c) ==
    /\ Waits(c)
    /\ LET d   == task.waitOn
           row == inbox[d]
           claim == ClaimedInbox(IF row.status = "absent" THEN ReceivedInbox(d) ELSE row,
                                 Owner, LeaseUntil(d))
       IN  /\ Replied(d) \/ deadline[d] > now
           /\ CASE row.status = "complete" ->
                       task' = Waiting /\ Admits(c, d, row, FALSE)
                [] row.status # "complete" /\ LeaseUntil(d) <= now ->
                       FailWith(c, Waiting) /\ UNCHANGED inbox
                [] row.status # "complete" /\ LeaseUntil(d) > now ->
                       /\ task' = Waiting
                       /\ IF row.status = "absent" \/ CanClaimInbox(row, now)
                          THEN Admits(c, d, claim, TRUE)
                          ELSE Admits(c, d, row, FALSE)
    /\ UNCHANGED <<phase, mailbox, late, clock, HistoryVars>>

ProvisionFails(c) ==
    /\ call[c].step = "provisioning"
    /\ task' = Deadlocked(task)
    /\ Return(c)
    /\ UNCHANGED <<phase, mailbox, exchange, clock, HistoryVars>>

LookForReplyNever(c) == Return(c)

(* The first reply, if there is one by now.                                 *)
LookForReply(c) ==
    IF Replied(On(c))
    THEN call' = [call EXCEPT ![c].step = "replying", ![c].reply = FirstReply(On(c))]
    ELSE Return(c)

(* The worker has nothing to do for a delivery that is settled.             *)
Provisioned(c) ==
    /\ call[c].step = "provisioning"
    /\ IF box[On(c)] \in Open THEN Goto(c, "turn") ELSE LookForReply(c)
    /\ UNCHANGED <<phase, task, mailbox, exchange, clock, HistoryVars>>

(* saveMailboxReply, of a delivery that may have a reply already.           *)
SaveReply(d, r) ==
    /\ IsNextReply(r)
    /\ answers' = [answers EXCEPT ![r] = d]
    /\ box' = [box EXCEPT ![d] = "acknowledged"]

(* The recipient calls mailbox_send: markInjected, and then as above.  The  *)
(* outcome of the turn is the first of its own replies.                     *)
ReplyInTurn(c) ==
    /\ call[c].step = "turn" /\ call[c].reply = 0
    /\ box[On(c)] # "failed"
    /\ \E r \in Replies :
           SaveReply(On(c), r) /\ call' = [call EXCEPT ![c].reply = r]
    /\ UNCHANGED <<phase, task, deadline, exchange, clock, HistoryVars>>

(* The turn is completed with a reply of its own, or without one, or it is  *)
(* not, and the delivery stays pending.                                     *)
EndTurn(c) ==
    /\ call[c].step = "turn"
    /\ now <= deadline[On(c)]
    /\ box' \in {box, [box EXCEPT ![On(c)] = IF @ = "pending" THEN "injected" ELSE @]}
    /\ \/ call[c].reply # 0 /\ Goto(c, "replying")
       \/ LookForReply(c)
    /\ UNCHANGED <<phase, task, answers, deadline, exchange, clock, HistoryVars>>

(* The timer has fired before the turn came back.                           *)
AbortTurn(c) ==
    /\ call[c].step = "turn"
    /\ deadline[On(c)] <= now
    /\ IF box[On(c)] \in Open
       THEN /\ box' = [box EXCEPT ![On(c)] = "failed"]
            /\ Goto(c, "expiring")
            /\ UNCHANGED task
       ELSE Fail(c) /\ UNCHANGED box
    /\ UNCHANGED <<phase, answers, deadline, exchange, clock, HistoryVars>>

Accept(c) ==
    inbox' = [inbox EXCEPT ![On(c)] = CompletedInbox(@, call[c].reply, now)]

IsOnRecord(c) == <<On(c), call[c].reply>> \in late

RecordLate(c) == late' = late \cup {<<On(c), call[c].reply>>}

Holds(c) == HoldsInbox(inbox[On(c)], Owner, call[c].rev, now)

ClassifyDeadlineFirst(c) ==
    IF now > deadline[On(c)] THEN "late"
    ELSE IF inbox[On(c)].status # "complete" THEN "accepted"
    ELSE IF inbox[On(c)].reply = call[c].reply THEN "duplicate" ELSE "late"

ClassifyByLease(c) ==
    IF inbox[On(c)].status = "complete" /\ inbox[On(c)].reply = call[c].reply
    THEN "duplicate"
    ELSE IF Holds(c) THEN "accepted" ELSE "late"

(* classifyReply, with the clock of this moment and not of the Mailbox reply.*)
Classify(c) ==
    IF inbox[On(c)].status = "complete"
    THEN IF inbox[On(c)].reply = call[c].reply THEN "duplicate" ELSE "late"
    ELSE IF now > deadline[On(c)] THEN "late" ELSE "accepted"

(* createReply and acceptReply: a reply is accepted under the lease only,   *)
(* completeInbox throws otherwise.  The frame is created anew by each call: *)
(* receiveInbox throws when the reply is on record with an earlier frame.   *)
AcceptReply(c) ==
    /\ call[c].step = "replying"
    /\ CASE Classify(c) = "duplicate" ->
                Goto(c, "starting") /\ UNCHANGED <<task, exchange>>
         [] Classify(c) = "late" /\ IsOnRecord(c) ->
                Fail(c) /\ UNCHANGED exchange
         [] Classify(c) = "late" /\ ~ IsOnRecord(c) ->
                RecordLate(c) /\ Goto(c, "expiring") /\ UNCHANGED <<task, inbox>>
         [] Classify(c) = "accepted" /\ Holds(c) ->
                Accept(c) /\ Goto(c, "starting") /\ UNCHANGED <<task, late>>
         [] Classify(c) = "accepted" /\ ~ Holds(c) ->
                Fail(c) /\ UNCHANGED exchange
    /\ UNCHANGED <<phase, mailbox, clock, HistoryVars>>

(* startRun with the intent mailbox_continuation.                           *)
StartRun(c) ==
    /\ call[c].step = "starting"
    /\ IF CanContinue(task, On(c)) /\ phase # "closing"
       THEN /\ task' = Begun(task, None)
            /\ continued' = [continued EXCEPT ![On(c)] = @ + 1]
            /\ Return(c)
       ELSE Fail(c) /\ UNCHANGED continued
    /\ UNCHANGED <<phase, mailbox, exchange, clock, unheard>>

ExpireWait(c) ==
    /\ call[c].step = "expiring"
    /\ task' = Expired(task)
    /\ Return(c)
    /\ UNCHANGED <<phase, mailbox, exchange, clock, HistoryVars>>

-----------------------------------------------------------------------------
(* RPC                                                                      *)

Served == phase \in {"serving", "closing"}

(* mailbox.reply, for any delivery that has been injected.                  *)
ReplyByRpc(c, d) ==
    /\ Served
    /\ IsNextCall(c)
    /\ box[d] \in {"injected", "acknowledged"}
    /\ \E r \in Replies : SaveReply(d, r)
    /\ Goto(c, "called")
    /\ UNCHANGED <<phase, task, deadline, exchange, clock, HistoryVars>>

(* The same request again.                                                  *)
ReplyAgain(c, d) ==
    /\ Served
    /\ IsNextCall(c)
    /\ Replied(d)
    /\ Goto(c, "called")
    /\ UNCHANGED <<phase, task, mailbox, exchange, clock, HistoryVars>>

(* mailbox.ack                                                              *)
Acknowledge(d) ==
    /\ Served
    /\ box[d] = "injected"
    /\ box' = [box EXCEPT ![d] = "acknowledged"]
    /\ UNCHANGED <<phase, task, answers, deadline, exchange, call, clock, HistoryVars>>

-----------------------------------------------------------------------------
(* The process.                                                             *)

Close ==
    /\ phase = "serving"
    /\ phase' = "closing"
    /\ UNCHANGED <<task, mailbox, exchange, call, clock, HistoryVars>>

(* The process ends and is started again: an active run is interrupted.     *)
Restart ==
    /\ interrupts < MaxInterrupts
    /\ interrupts' = interrupts + 1
    /\ phase' = "starting"
    /\ call' = [c \in Calls |-> Idle]
    /\ task' = IF CanBeInterrupted(task) THEN Interrupted(task) ELSE task
    /\ UNCHANGED <<mailbox, exchange, now, HistoryVars>>

(* recoverMailboxWaits, which is over before requests are served.           *)
RecoverWait(c) ==
    /\ phase = "starting"
    /\ HasContext(task) /\ IsNextCall(c)
    /\ phase' = "recovering"
    /\ Goto(c, "called")
    /\ UNCHANGED <<task, mailbox, exchange, clock, HistoryVars>>

(* An active run that cannot be interrupted, since its Task has failed,      *)
(* keeps the process from starting.                                         *)
Serve ==
    /\ \/ phase = "starting" /\ ~ HasContext(task) /\ ~ task.active
       \/ phase = "recovering" /\ \A c \in Calls : call[c].step = "idle"
    /\ phase' = "serving"
    /\ UNCHANGED <<task, mailbox, exchange, call, clock, HistoryVars>>

Tick ==
    /\ now < MaxTime
    /\ now' = now + 1
    /\ UNCHANGED <<phase, task, mailbox, exchange, call, interrupts, HistoryVars>>

-----------------------------------------------------------------------------

(* The process has one thread: a call in the middle of its commits is not   *)
(* interleaved with anything, only cut short by the end of the process.     *)
InCommits(c) == call[c].step \in {"replying", "starting", "expiring"}

GoesOnCommitting(c) == AcceptReply(c) \/ StartRun(c) \/ ExpireWait(c)

GoesOnFromAwait(c) ==
    \/ Flushed(c) \/ FlushFails(c)
    \/ NoContext(c) \/ CannotComplete(c) \/ FindOverdue(c) \/ BeginAsk(c)
    \/ ProvisionFails(c) \/ Provisioned(c)
    \/ EndTurn(c) \/ AbortTurn(c)

(* What happens when the thread is free.                                    *)
Event ==
    \/ \E d \in Deliveries : Ask(d) \/ Acknowledge(d)
    \/ AdvanceRun \/ ForgetWait \/ EndRun \/ InterruptRun
    \/ ResumeRun \/ RefineTask
    \/ \E c \in Calls :
           \/ EndInWait(c) \/ GoesOnFromAwait(c) \/ ReplyInTurn(c) \/ RecoverWait(c)
           \/ \E d \in Deliveries : ReplyByRpc(c, d) \/ ReplyAgain(c, d)
    \/ Close \/ Serve

ThreadIsFree == \A c \in Calls : ~ InCommits(c)

Next ==
    \/ \E c \in Calls : GoesOnCommitting(c)
    \/ ThreadIsFree /\ Event
    \/ Restart \/ Tick

(* A call goes on by itself; a turn ends at the latest with its deadline.   *)
Fairness ==
    /\ \A c \in Calls :
           /\ WF_vars(GoesOnCommitting(c))
           /\ WF_vars(ThreadIsFree /\ GoesOnFromAwait(c))
    /\ WF_vars(\E c \in Calls : RecoverWait(c))

Spec == Init /\ [][Next]_vars /\ Fairness

-----------------------------------------------------------------------------
(***************************************************************************)
(* Properties                                                               *)
(***************************************************************************)

Rows == InboxRows({Owner}, Deliveries, Replies)

(* The type invariant; the deadline of a request and the shape of its ask's *)
(* row are what leases and answers are measured with.                       *)
TypeOK ==
    /\ phase \in Phases
    /\ task \in Tasks
    /\ box \in [Deliveries -> BoxStatuses]
    /\ answers \in [Replies -> Deliveries \cup {None}]
    /\ deadline \in [Deliveries -> Nat]
    /\ inbox \in [Deliveries -> Rows]
    /\ late \subseteq Deliveries \X Replies
    /\ call \in [Calls -> [step : Steps, on : Deliveries \cup {None},
                        rev : Nat, reply : Replies \cup {0}]]
    /\ now \in Nat \ {0}
    /\ interrupts \in Nat
    /\ continued \in [Deliveries -> Nat]
    /\ unheard \in BOOLEAN

(* newide-backend-service.ts:1600-1635, task-processor.ts:2032-2066: the     *)
(* wait for an answer is continued by one run, however many callers tried,  *)
(* and only after the answer was committed to the exchange before the       *)
(* deadline.                                                                *)
ContinuedOnce ==
    \A d \in Deliveries :
        /\ continued[d] <= 1
        /\ continued[d] = 1 =>
               /\ inbox[d].reply \in Replies /\ answers[inbox[d].reply] = d
               /\ inbox[d].settledAt < deadline[d]

(* A deadline has passed unanswered, or there is a second reply.            *)
Overdue(d) ==
    \/ /\ box[d] # "none" /\ deadline[d] <= now
       /\ inbox[d].status # "complete" /\ continued[d] = 0
    \/ \E q, r \in Replies : q # r /\ answers[q] = d /\ answers[r] = d

(* task-processor.ts:1034-1038: a Task fails by a deadline only after one   *)
(* of its requests has passed it with no answer committed to the exchange   *)
(* and no run continued on one: an answer in time is not taken for late by  *)
(* a call that began earlier, or over a restart.  A second reply to one     *)
(* request is the exception: a call that has it takes it for a late one.    *)
TimeoutIsDue ==
    [][task'.error = "mailbox_timeout" /\ task.error # "mailbox_timeout" =>
           \E d \in Deliveries : Overdue(d)]_vars

Exchange(d) ==
    INSTANCE ExchangeAnswer
        WITH Results <- Replies,
             asked <- box[d] # "none",
             cancelled <- FALSE,
             answer <- inbox[d].reply,
             recorded <- {r \in Replies : inbox[d].reply = r \/ <<d, r>> \in late}

(* aap-mailbox-bridge.ts:54-60: each question is an exchange that gets one  *)
(* answer at most, as SAP's exchanges do; a reply that is on record as late *)
(* never becomes the answer, nor is it recorded twice.                      *)
ImplementsExchanges ==
    /\ \A d \in Deliveries : Exchange(d)!Init
    /\ [][\A d \in Deliveries :
              Exchange(d)!Next \/ UNCHANGED Exchange(d)!vars]_vars

(* newide-backend-service.ts:580-583: a saved reply is the signal that      *)
(* wakes the waiting Task, over a restart too, unless the run of the wait   *)
(* could not write its output.                                              *)
SavedReplyWakesTask ==
    task.status = "waiting_help" /\ Replied(task.waitOn)
        ~> task.status # "waiting_help" \/ unheard

-----------------------------------------------------------------------------
(* The inductive invariant of ContinuedOnce and TimeoutIsDue.               *)

(* Nothing refers to a request that has not been sent.                      *)
UnaskedIsUntouched ==
    \A d \in Deliveries :
        box[d] = "none" =>
            /\ inbox[d].status = "absent" /\ task.waitOn # d
            /\ \A r \in Replies : answers[r] # d /\ <<d, r>> \notin late

RepliedIsAcknowledged ==
    \A r \in Replies : answers[r] # None => box[answers[r]] = "acknowledged"

(* A lease ends with the deadline, so what is committed under it is in time.*)
AnsweredInTime ==
    \A d \in Deliveries :
        /\ inbox[d].status # "complete" => inbox[d].reply = None
        /\ inbox[d].status = "processing" => inbox[d].lease.until <= deadline[d]
        /\ inbox[d].status = "complete" =>
               /\ inbox[d].reply \in Replies /\ answers[inbox[d].reply] = d
               /\ inbox[d].settledAt < deadline[d]

(* What a call knows between two awaits.                                    *)
CallKnowsRequest ==
    \A c \in Calls :
        /\ call[c].step \notin {"idle", "flushing", "called"} =>
               On(c) \in Deliveries /\ box[On(c)] # "none"
        /\ call[c].step \in {"provisioning", "turn"} /\ call[c].reply # 0 =>
               answers[call[c].reply] = On(c)
        /\ call[c].step = "replying" =>
               call[c].reply \in Replies /\ answers[call[c].reply] = On(c)
        /\ call[c].step = "starting" => inbox[On(c)].status = "complete"

OneThread ==
    \A c, e \in Calls : InCommits(c) /\ InCommits(e) => c = e

ExpiringIsOverdue ==
    \A c \in Calls : call[c].step = "expiring" => Overdue(On(c))

LateIsOver ==
    \A d \in Deliveries, r \in Replies :
        <<d, r>> \in late => deadline[d] < now \/ inbox[d].status = "complete"

ContinuedIsOver ==
    \A d \in Deliveries :
        /\ continued[d] \in {0, 1}
        /\ continued[d] = 1 => inbox[d].status = "complete" /\ task.waitOn # d

WaitInvariant ==
    /\ TypeOK
    /\ UnaskedIsUntouched
    /\ RepliedIsAcknowledged
    /\ AnsweredInTime
    /\ CallKnowsRequest
    /\ OneThread
    /\ ExpiringIsOverdue
    /\ LateIsOver
    /\ ContinuedIsOver

=============================================================================
