-------------------------- MODULE MailboxWaitProofs --------------------------
(***************************************************************************)
(* Proofs about MailboxWait: for any number of requests, calls and replies,  *)
(* with any leases and deadlines, a wait is continued once and on an answer  *)
(* in time, a Task expires only on a request that is overdue, and each ask   *)
(* is an exchange with one answer.                                          *)
(***************************************************************************)
EXTENDS MailboxWait, DeliveryRowsLemmas, TLAPS, WellFoundedInduction

CallRecords ==
    [step : Steps, on : Deliveries \cup {None}, rev : Nat, reply : Replies \cup {0}]

LEMMA Numbers ==
    /\ None \notin Deliveries /\ None \notin Replies
    /\ 0 \notin Deliveries /\ 0 \notin Replies
    /\ Deliveries \subseteq Nat /\ Replies \subseteq Nat /\ Calls \subseteq Nat
  BY NoneIsNoNumber, BoundsAreCounted DEF Deliveries, Replies, Calls

(* The first of the replies to a request that has one.                      *)
LEMMA FirstReplyAnswers ==
    ASSUME NEW d, Replied(d)
    PROVE  FirstReply(d) \in Replies /\ answers[FirstReply(d)] = d
  <1> DEFINE T == {r \in Replies : answers[r] = d}
  <1>1. T \subseteq Nat /\ T # {}
    BY Numbers DEF Replied
  <1>2. PICK m \in T : \A q \in T : ~ (<<q, m>> \in OpToRel(<, Nat))
    BY <1>1, NatLessThanWellFounded, WFMin
  <1>3. \A q \in 1 .. m - 1 : answers[q] # d
    <2> SUFFICES ASSUME NEW q \in 1 .. m - 1, answers[q] = d
                 PROVE  FALSE
      OBVIOUS
    <2>1. m \in 1 .. MaxReplies /\ MaxReplies \in Nat
      BY <1>2, BoundsAreCounted DEF Replies
    <2>2. q \in T /\ q < m /\ q \in Nat /\ m \in Nat
      BY <2>1 DEF Replies
    <2>3. <<q, m>> \in OpToRel(<, Nat)
      BY <2>2 DEF OpToRel
    <2> QED
      BY <1>2, <2>2, <2>3
  <1> QED
    BY <1>2, <1>3 DEF FirstReply

-----------------------------------------------------------------------------
(* Rows of the inbox.                                                       *)

LEMMA RowFields ==
    ASSUME NEW row \in Rows
    PROVE  /\ row.status \in InboxStatuses
           /\ row.lease.until \in Nat /\ row.reply \in Replies \cup {None}
           /\ row.settledAt \in Nat /\ row.revision \in Nat
  BY InboxColumns DEF Rows, Leases, NoLease

LEMMA RowTypes ==
    ASSUME NEW d \in Deliveries, NEW row \in Rows, NEW t \in Nat, NEW r \in Replies
    PROVE  /\ NoInboxRow \in Rows /\ ReceivedInbox(d) \in Rows
           /\ ClaimedInbox(row, Owner, t) \in Rows
           /\ CompletedInbox(row, r, t) \in Rows
  BY EmptyRowShape, InboxRowShape DEF Rows

(* What a claim and a completion make of a row.                             *)
LEMMA RowSteps ==
    ASSUME NEW row \in Rows, NEW t \in Nat, NEW r \in Replies
    PROVE  /\ ClaimedInbox(row, Owner, t).status = "processing"
           /\ ClaimedInbox(row, Owner, t).lease.until = t
           /\ ClaimedInbox(row, Owner, t).reply = row.reply
           /\ CompletedInbox(row, r, t).status = "complete"
           /\ CompletedInbox(row, r, t).settledAt = t
           /\ CompletedInbox(row, r, t).reply = r
  <1>1. row = [status |-> row.status, frame |-> row.frame, lease |-> row.lease,
               reply |-> row.reply, settledAt |-> row.settledAt,
               revision |-> row.revision]
    BY InboxColumns DEF Rows
  <1> QED
    BY <1>1 DEF ClaimedInbox, CompletedInbox, Lease

-----------------------------------------------------------------------------
(* What the handlers make of the Task: a record again, which waits for      *)
(* nothing else than before.                                                *)

HandlerKeeps(t, u) == u \in Tasks /\ u.waitOn \in {t.waitOn, None}

LEMMA TaskHandlers ==
    ASSUME NEW t \in Tasks
    PROVE  /\ HandlerKeeps(t, t)
           /\ HandlerKeeps(t, WaitCompleted(t)) /\ HandlerKeeps(t, Deadlocked(t))
           /\ HandlerKeeps(t, Expired(t)) /\ HandlerKeeps(t, Interrupted(t))
           /\ HandlerKeeps(t, Finished(t, "failed"))
           /\ HandlerKeeps(t, Finished(t, "ended"))
           /\ HandlerKeeps(t, Advanced(t, None)) /\ HandlerKeeps(t, Forgotten(t))
           /\ HandlerKeeps(t, Begun(t, None))
           /\ HandlerKeeps(t, Begun(t, t.waitOn))
           /\ Begun(t, None).waitOn = None
           /\ WaitCompleted(t).waitOn = t.waitOn
  <1> USE DEF HandlerKeeps, Tasks, Statuses, Alive, Errors
  <1>1. /\ HandlerKeeps(t, t) /\ HandlerKeeps(t, WaitCompleted(t))
        /\ WaitCompleted(t).waitOn = t.waitOn
    BY DEF WaitCompleted
  <1>2. HandlerKeeps(t, Deadlocked(t))
    BY DEF Deadlocked
  <1>3. HandlerKeeps(t, Expired(t))
    BY DEF Expired
  <1>4. HandlerKeeps(t, Interrupted(t))
    BY DEF Interrupted
  <1>6. HandlerKeeps(t, Finished(t, "failed")) /\ HandlerKeeps(t, Finished(t, "ended"))
    BY DEF Finished
  <1>7. HandlerKeeps(t, Advanced(t, None)) /\ HandlerKeeps(t, Forgotten(t))
    BY DEF Advanced, Forgotten
  <1>5. /\ HandlerKeeps(t, Begun(t, None)) /\ HandlerKeeps(t, Begun(t, t.waitOn))
        /\ Begun(t, None).waitOn = None
    BY DEF Begun
  <1> QED
    BY <1>1, <1>2, <1>3, <1>4, <1>5, <1>6, <1>7

(* No handler but expireMailboxWait fails a Task by the deadline.           *)
TimesOut(t, u) == u.error = "mailbox_timeout" /\ t.error # "mailbox_timeout"

LEMMA OnlyExpiryTimesOut ==
    ASSUME NEW t \in Tasks
    PROVE  /\ ~ TimesOut(t, WaitCompleted(t)) /\ ~ TimesOut(t, Deadlocked(t))
           /\ ~ TimesOut(t, Interrupted(t)) /\ ~ TimesOut(t, Forgotten(t))
           /\ \A status : ~ TimesOut(t, Finished(t, status))
           /\ \A d : ~ TimesOut(t, Begun(t, d)) /\ ~ TimesOut(t, Advanced(t, d))
  BY DEF TimesOut, Tasks, WaitCompleted, Deadlocked, Interrupted, Finished, Begun,
         Advanced, Forgotten

LEMMA TaskAfterFailure ==
    ASSUME NEW t \in Tasks, NEW u \in {t, WaitCompleted(t)}
    PROVE  /\ HandlerKeeps(t, IF u.status \in {"waiting_help", "blocked"}
                              THEN Deadlocked(u) ELSE u)
           /\ ~ TimesOut(t, IF u.status \in {"waiting_help", "blocked"}
                            THEN Deadlocked(u) ELSE u)
  <1>1. u \in Tasks /\ u.waitOn = t.waitOn /\ ~ TimesOut(t, u)
    <2>1. CASE u = t
      BY <2>1 DEF TimesOut
    <2>2. CASE u = WaitCompleted(t)
      BY <2>2, TaskHandlers, OnlyExpiryTimesOut DEF HandlerKeeps
    <2> QED
      BY <2>1, <2>2
  <1>2. HandlerKeeps(u, Deadlocked(u)) /\ ~ TimesOut(u, Deadlocked(u))
    BY <1>1, TaskHandlers, OnlyExpiryTimesOut
  <1> QED
    BY <1>1, <1>2 DEF HandlerKeeps, TimesOut

-----------------------------------------------------------------------------
(* Steps that commit nothing of the exchange or the Mailbox.                *)

(* A call stays where it is, ends, or is at its beginning.                  *)
CallKept(e) ==
    \/ call'[e] = call[e]
    \/ call'[e].step \in {"idle", "flushing", "called"}
    \/ /\ call[e].step = "provisioning"
       /\ call'[e] = [call[e] EXCEPT !.step = "turn"]

LEMMA QuietStep ==
    ASSUME WaitInvariant, TypeOK',
           UNCHANGED <<box, answers, deadline, inbox, late, continued>>,
           now' >= now, task'.waitOn \in {task.waitOn, None},
           \A e \in Calls : CallKept(e)
    PROVE  WaitInvariant'
  <1> USE DEF WaitInvariant
  <1>0. /\ now \in Nat /\ now' \in Nat
        /\ \A d \in Deliveries : deadline[d] \in Nat
        /\ call \in [Calls -> CallRecords] /\ call' \in [Calls -> CallRecords]
    BY DEF TypeOK, CallRecords
  <1>1. UnaskedIsUntouched'
    BY Numbers DEF UnaskedIsUntouched
  <1>2. RepliedIsAcknowledged' /\ AnsweredInTime'
    BY DEF RepliedIsAcknowledged, AnsweredInTime
  <1>3. \A e \in Calls :
            \/ call'[e] = call[e]
            \/ call'[e].step \in {"idle", "flushing", "called"}
            \/ /\ call[e].step = "provisioning" /\ call'[e].step = "turn"
               /\ call'[e].on = call[e].on /\ call'[e].reply = call[e].reply
    BY <1>0 DEF CallKept, CallRecords
  <1>4. CallKnowsRequest'
    BY <1>3 DEF CallKnowsRequest, On
  <1>5. OneThread'
    BY <1>3 DEF OneThread, InCommits
  <1>6. \A d \in Deliveries : Overdue(d) => Overdue(d)'
    BY <1>0 DEF Overdue
  <1>7. ExpiringIsOverdue'
    BY <1>3, <1>6 DEF ExpiringIsOverdue, CallKnowsRequest, On
  <1>8. LateIsOver'
    BY <1>0 DEF LateIsOver
  <1>9. ContinuedIsOver'
    BY Numbers DEF ContinuedIsOver
  <1> QED
    BY <1>1, <1>2, <1>4, <1>5, <1>7, <1>8, <1>9

(* What a call's move makes of the calls.                                   *)
LEMMA CallMoves ==
    ASSUME call \in [Calls -> CallRecords], NEW c \in Calls
    PROVE  /\ \A s \in Steps :
                  Goto(c, s) =>
                      /\ call' \in [Calls -> CallRecords]
                      /\ call'[c] = [call[c] EXCEPT !.step = s]
                      /\ call'[c].step = s /\ call'[c].on = call[c].on
                      /\ call'[c].reply = call[c].reply
                      /\ \A e \in Calls \ {c} : call'[e] = call[e]
           /\ Return(c) =>
                  /\ call' \in [Calls -> CallRecords] /\ call'[c].step = "idle"
                  /\ \A e \in Calls \ {c} : call'[e] = call[e]
  <1>1. ASSUME NEW s \in Steps, Goto(c, s)
        PROVE  /\ call' \in [Calls -> CallRecords]
               /\ call'[c] = [call[c] EXCEPT !.step = s]
               /\ call'[c].step = s /\ call'[c].on = call[c].on
               /\ call'[c].reply = call[c].reply
               /\ \A e \in Calls \ {c} : call'[e] = call[e]
    BY <1>1 DEF Goto, CallRecords
  <1>2. ASSUME Return(c)
        PROVE  /\ call' \in [Calls -> CallRecords] /\ call'[c].step = "idle"
               /\ \A e \in Calls \ {c} : call'[e] = call[e]
    <2>1. Idle \in CallRecords /\ Idle.step = "idle"
      BY DEF Idle, CallRecords, Steps
    <2> QED
      BY <1>2, <2>1 DEF Return
  <1> QED
    BY <1>1, <1>2

QuietTask == task' \in Tasks /\ task'.waitOn \in {task.waitOn, None}

(* A call that fails returns, and no Task fails by the deadline.            *)
LEMMA FailedCall ==
    ASSUME TypeOK, NEW c \in Calls, NEW t \in {task, WaitCompleted(task)},
           FailWith(c, t)
    PROVE  /\ QuietTask /\ ~ TimesOut(task, task')
           /\ call' \in [Calls -> CallRecords] /\ \A e \in Calls : CallKept(e)
  <1>1. task \in Tasks /\ call \in [Calls -> CallRecords]
    BY DEF TypeOK, CallRecords
  <1>2. QuietTask /\ ~ TimesOut(task, task')
    BY <1>1, TaskAfterFailure DEF FailWith, QuietTask, HandlerKeeps
  <1>3. call' \in [Calls -> CallRecords] /\ \A e \in Calls : CallKept(e)
    BY <1>1, CallMoves DEF FailWith, CallKept
  <1> QED
    BY <1>2, <1>3

(* Steps with no more effect than on the Task, the calls and the process.   *)
Quiet ==
    /\ UNCHANGED <<mailbox, exchange, continued>>
    /\ QuietTask
    /\ phase' \in Phases
    /\ now' \in Nat \ {0} /\ now' >= now
    /\ interrupts' \in Nat /\ unheard' \in BOOLEAN
    /\ call' \in [Calls -> CallRecords] /\ \A e \in Calls : CallKept(e)

LEMMA QuietKeepsInvariant ==
    ASSUME WaitInvariant, Quiet
    PROVE  WaitInvariant'
  <1>1. TypeOK'
    BY DEF WaitInvariant, TypeOK, Quiet, QuietTask, CallRecords, mailbox, exchange
  <1> QED
    BY <1>1, QuietStep DEF Quiet, QuietTask, mailbox, exchange

(* The run, the process and the clock.                                      *)
RunEvent ==
    AdvanceRun \/ ForgetWait \/ EndRun \/ InterruptRun \/ ResumeRun \/ RefineTask

QuietEvent ==
    \/ RunEvent \/ Close \/ Serve \/ Restart \/ Tick
    \/ \E c \in Calls :
           \/ EndInWait(c) \/ Flushed(c) \/ FlushFails(c)
           \/ NoContext(c) \/ CannotComplete(c) \/ ProvisionFails(c)
           \/ RecoverWait(c) \/ \E d \in Deliveries : ReplyAgain(c, d)

LEMMA QuietEvents ==
    ASSUME TypeOK, QuietEvent
    PROVE  Quiet /\ ~ TimesOut(task, task')
  <1>1. /\ task \in Tasks /\ call \in [Calls -> CallRecords] /\ phase \in Phases
        /\ now \in Nat \ {0} /\ interrupts \in Nat /\ unheard \in BOOLEAN
        /\ now >= now /\ interrupts + 1 \in Nat /\ ~ TimesOut(task, task)
    BY DEF TypeOK, CallRecords, TimesOut
  <1>2. CASE RunEvent
    <2> USE DEF RunEvent, AdvanceRun, ForgetWait, EndRun, InterruptRun, ResumeRun,
                RefineTask
    <2>0. task' \in {Finished(task, "failed"), Finished(task, "ended"),
                     Interrupted(task), Begun(task, task.waitOn), Begun(task, None),
                     Advanced(task, None), Forgotten(task)}
      BY <1>2 DEF Begin, Outcomes
    <2>a. /\ ~ TimesOut(task, Begun(task, task.waitOn)) /\ ~ TimesOut(task, Begun(task, None))
          /\ ~ TimesOut(task, Finished(task, "failed"))
          /\ ~ TimesOut(task, Finished(task, "ended")) /\ ~ TimesOut(task, Advanced(task, None))
      BY <1>1, OnlyExpiryTimesOut
    <2>b. HandlerKeeps(task, task') /\ ~ TimesOut(task, task')
      BY <1>1, <2>0, <2>a, TaskHandlers, OnlyExpiryTimesOut
    <2>1. QuietTask /\ ~ TimesOut(task, task')
      BY <2>b DEF QuietTask, HandlerKeeps
    <2>2. UNCHANGED <<phase, mailbox, exchange, call, now, continued, unheard>>
      BY <1>2 DEF clock, HistoryVars
    <2>3. interrupts' \in Nat
      BY <1>1, <1>2 DEF clock
    <2> QED
      BY <1>1, <2>1, <2>2, <2>3 DEF Quiet, CallKept
  <1>3. CASE Close \/ Serve
    BY <1>1, <1>3, TaskHandlers
       DEF Close, Serve, Quiet, QuietTask, HandlerKeeps, CallKept, Phases, clock, HistoryVars
  <1>4. CASE Restart
    <2>1. call' = [c \in Calls |-> Idle] /\ Idle \in CallRecords /\ Idle.step = "idle"
      BY <1>4 DEF Restart, Idle, CallRecords, Steps
    <2>2. QuietTask /\ ~ TimesOut(task, task')
      BY <1>1, <1>4, TaskHandlers, OnlyExpiryTimesOut DEF Restart, QuietTask, HandlerKeeps
    <2> QED
      BY <1>1, <1>4, <2>1, <2>2 DEF Restart, Quiet, CallKept, Phases, HistoryVars
  <1>5. CASE Tick
    BY <1>1, <1>5, TaskHandlers DEF Tick, Quiet, QuietTask, HandlerKeeps, CallKept, HistoryVars
  <1>6. ASSUME NEW c \in Calls, \/ EndInWait(c) \/ Flushed(c) \/ FlushFails(c)
                                \/ NoContext(c) \/ ProvisionFails(c)
                                \/ RecoverWait(c) \/ \E d \in Deliveries : ReplyAgain(c, d)
        PROVE  Quiet /\ ~ TimesOut(task, task')
    <2>1. \/ Goto(c, "flushing") \/ Goto(c, "called") \/ Return(c)
      BY <1>6 DEF EndInWait, Flushed, FlushFails, NoContext, ProvisionFails,
                  RecoverWait, ReplyAgain
    <2>2. call' \in [Calls -> CallRecords] /\ \A e \in Calls : CallKept(e)
      BY <1>1, <2>1, CallMoves DEF CallKept, Steps
    <2>3. task' \in {task, WaitCompleted(task), Deadlocked(task)}
      BY <1>6 DEF EndInWait, Flushed, FlushFails, NoContext, ProvisionFails,
                  RecoverWait, ReplyAgain
    <2>4. QuietTask /\ ~ TimesOut(task, task')
      BY <1>1, <2>3, TaskHandlers, OnlyExpiryTimesOut DEF QuietTask, HandlerKeeps
    <2>5. /\ UNCHANGED <<mailbox, exchange, now, interrupts, continued>>
          /\ phase' \in Phases /\ unheard' \in BOOLEAN
      BY <1>1, <1>6 DEF EndInWait, Flushed, FlushFails, NoContext, ProvisionFails,
                  RecoverWait, ReplyAgain, clock, HistoryVars, Phases
    <2> QED
      BY <1>1, <2>2, <2>4, <2>5 DEF Quiet
  <1>7. ASSUME NEW c \in Calls, CannotComplete(c)
        PROVE  Quiet /\ ~ TimesOut(task, task')
    <2>1. FailWith(c, task)
      BY <1>7 DEF CannotComplete, Fail
    <2> QED
      BY <1>1, <1>7, <2>1, FailedCall DEF CannotComplete, Quiet, clock, HistoryVars
  <1> QED
    BY <1>2, <1>3, <1>4, <1>5, <1>6, <1>7 DEF QuietEvent

-----------------------------------------------------------------------------
(* Steps of the Mailbox, while the thread is free.                          *)

BoxKept ==
    \A d \in Deliveries :
        /\ box'[d] = "none" <=> box[d] = "none"
        /\ box[d] = "acknowledged" => box'[d] = "acknowledged"

AnswersKept ==
    \A r \in Replies :
        \/ answers'[r] = answers[r]
        \/ /\ answers[r] = None /\ answers'[r] \in Deliveries
           /\ box[answers'[r]] # "none" /\ box'[answers'[r]] = "acknowledged"

(* Where a call may go from an await.                                       *)
CallGoesOn(c) ==
    \/ call'[c].step \in {"idle", "flushing", "called"}
    \/ /\ call'[c].on \in Deliveries /\ box[call'[c].on] # "none"
       /\ \/ /\ call'[c].step \in {"provisioning", "turn"}
             /\ call'[c].reply # 0 => answers'[call'[c].reply] = call'[c].on
          \/ /\ call'[c].step = "replying" /\ call'[c].reply \in Replies
             /\ answers'[call'[c].reply] = call'[c].on
          \/ call'[c].step = "expiring" /\ Overdue(call'[c].on)

LEMMA MailboxStep ==
    ASSUME WaitInvariant, TypeOK', ThreadIsFree,
           UNCHANGED <<deadline, inbox, late, continued, now>>,
           task'.waitOn \in {task.waitOn, None},
           BoxKept, AnswersKept,
           NEW c, \A e \in Calls \ {c} : call'[e] = call[e],
           c \in Calls => CallGoesOn(c)
    PROVE  WaitInvariant'
  <1> USE DEF WaitInvariant
  <1>0. /\ now \in Nat /\ \A d \in Deliveries : deadline[d] \in Nat
        /\ \A r \in Replies : answers[r] \in Deliveries \cup {None}
        /\ \A e \in Calls : call'[e].step \in Steps /\ call[e].reply \in Replies \cup {0}
        /\ \A d \in Deliveries : inbox[d] \in Rows
    BY DEF TypeOK
  <1>1. UnaskedIsUntouched'
    <2> SUFFICES ASSUME NEW d \in Deliveries, box'[d] = "none"
                 PROVE  /\ inbox[d].status = "absent" /\ task'.waitOn # d
                        /\ \A r \in Replies : answers'[r] # d /\ <<d, r>> \notin late
      BY DEF UnaskedIsUntouched
    <2>1. box[d] = "none"
      BY DEF BoxKept
    <2>2. /\ inbox[d].status = "absent" /\ task'.waitOn # d
          /\ \A r \in Replies : answers[r] # d /\ <<d, r>> \notin late
      BY <2>1, Numbers DEF UnaskedIsUntouched
    <2>3. \A r \in Replies : answers'[r] # d
      BY <2>1, <2>2 DEF AnswersKept
    <2> QED
      BY <2>2, <2>3
  <1>2. RepliedIsAcknowledged'
    <2> SUFFICES ASSUME NEW r \in Replies, answers'[r] # None
                 PROVE  box'[answers'[r]] = "acknowledged"
      BY DEF RepliedIsAcknowledged
    <2>1. CASE answers'[r] = answers[r]
      <3>1. answers[r] \in Deliveries /\ box[answers[r]] = "acknowledged"
        BY <1>0, <2>1 DEF RepliedIsAcknowledged
      <3> QED
        BY <2>1, <3>1 DEF BoxKept
    <2>2. CASE answers'[r] # answers[r]
      BY <2>2 DEF AnswersKept
    <2> QED
      BY <2>1, <2>2
  <1>3. \A r \in Replies : answers[r] # None => answers'[r] = answers[r]
    BY DEF AnswersKept
  <1>4. AnsweredInTime'
    <2>1. ASSUME NEW d \in Deliveries, inbox[d].status = "complete"
          PROVE  /\ inbox[d].reply \in Replies /\ answers'[inbox[d].reply] = d
                 /\ inbox[d].settledAt < deadline[d]
      <3>1. /\ inbox[d].reply \in Replies /\ answers[inbox[d].reply] = d
            /\ inbox[d].settledAt < deadline[d]
        BY <2>1 DEF AnsweredInTime
      <3>2. answers'[inbox[d].reply] = answers[inbox[d].reply]
        BY <1>3, <3>1, Numbers
      <3> QED
        BY <3>1, <3>2
    <2>2. \A d \in Deliveries :
              /\ inbox[d].status # "complete" => inbox[d].reply = None
              /\ inbox[d].status = "processing" => inbox[d].lease.until <= deadline[d]
      BY DEF AnsweredInTime
    <2> QED
      BY <2>1, <2>2 DEF AnsweredInTime
  <1>5. CallKnowsRequest'
    <2> SUFFICES ASSUME NEW e \in Calls
                 PROVE  (/\ call[e].step \notin {"idle", "flushing", "called"} =>
                                On(e) \in Deliveries /\ box[On(e)] # "none"
                         /\ call[e].step \in {"provisioning", "turn"} /\ call[e].reply # 0 =>
                                answers[call[e].reply] = On(e)
                         /\ call[e].step = "replying" =>
                                call[e].reply \in Replies /\ answers[call[e].reply] = On(e)
                         /\ call[e].step = "starting" =>
                                inbox[On(e)].status = "complete")'
      BY DEF CallKnowsRequest
    <2>1. CASE e = c
      BY <2>1 DEF CallGoesOn, On, BoxKept
    <2>2. CASE e # c
      BY <2>2, <1>0, <1>3, Numbers DEF CallKnowsRequest, On, BoxKept
    <2> QED
      BY <2>1, <2>2
  <1>6. OneThread'
    BY DEF ThreadIsFree, OneThread, InCommits
  <1>7. \A d \in Deliveries : Overdue(d) => Overdue(d)'
    BY <1>3, Numbers DEF Overdue, BoxKept
  <1>8. ExpiringIsOverdue'
    BY <1>7 DEF CallGoesOn, ExpiringIsOverdue, ThreadIsFree, InCommits, On
  <1>9. LateIsOver' /\ ContinuedIsOver'
    BY Numbers DEF LateIsOver, ContinuedIsOver
  <1> QED
    BY <1>1, <1>2, <1>4, <1>5, <1>6, <1>8, <1>9

(* A delivery that is settled, or goes on.                                  *)
LEMMA BoxChanges ==
    ASSUME TypeOK, NEW d \in Deliveries, box[d] # "none",
           NEW s \in BoxStatuses \ {"none"},
           box[d] = "acknowledged" => s = "acknowledged",
           box' = [box EXCEPT ![d] = s]
    PROVE  BoxKept /\ box' \in [Deliveries -> BoxStatuses] /\ box'[d] = s
  <1>1. box \in [Deliveries -> BoxStatuses]
    BY DEF TypeOK
  <1> QED
    BY <1>1 DEF BoxKept

LEMMA RepliesAreSaved ==
    ASSUME WaitInvariant, NEW d \in Deliveries, box[d] # "none",
           NEW r \in Replies, SaveReply(d, r)
    PROVE  /\ BoxKept /\ box' \in [Deliveries -> BoxStatuses]
           /\ AnswersKept /\ answers' \in [Replies -> Deliveries \cup {None}]
           /\ answers'[r] = d
  <1>1. TypeOK /\ box' = [box EXCEPT ![d] = "acknowledged"]
    BY DEF WaitInvariant, SaveReply
  <1>2. BoxKept /\ box' \in [Deliveries -> BoxStatuses] /\ box'[d] = "acknowledged"
    <2>1. "acknowledged" \in BoxStatuses \ {"none"}
      BY DEF BoxStatuses
    <2> QED
      BY <1>1, <2>1, BoxChanges
  <1>3. /\ answers \in [Replies -> Deliveries \cup {None}]
        /\ answers[r] = None /\ answers' = [answers EXCEPT ![r] = d]
    BY <1>1 DEF TypeOK, SaveReply, IsNextReply
  <1>4. AnswersKept
    BY <1>2, <1>3 DEF AnswersKept
  <1> QED
    BY <1>2, <1>3, <1>4

(* No answer is on record for a request without a reply.                    *)
LEMMA UnansweredIsOverdue ==
    ASSUME WaitInvariant, NEW d \in Deliveries, box[d] # "none",
           ~ Replied(d), deadline[d] <= now
    PROVE  Overdue(d)
  <1>1. inbox[d].status # "complete"
    BY DEF WaitInvariant, AnsweredInTime, Replied
  <1>2. continued[d] = 0
    BY <1>1 DEF WaitInvariant, ContinuedIsOver
  <1> QED
    BY <1>1, <1>2 DEF Overdue

LEMMA OpenIsUnanswered ==
    ASSUME WaitInvariant, NEW d \in Deliveries, box[d] \in Open
    PROVE  ~ Replied(d) /\ box[d] # "none"
  <1>1. ASSUME NEW r \in Replies, answers[r] = d
        PROVE  box[d] = "acknowledged"
    BY <1>1, Numbers DEF WaitInvariant, RepliedIsAcknowledged
  <1> QED
    BY <1>1 DEF Replied, Open

(* Where a call goes that looks for a reply.                                *)
LEMMA LookedForReply ==
    ASSUME WaitInvariant, NEW c \in Calls, On(c) \in Deliveries,
           box[On(c)] # "none", LookForReply(c), AnswersKept
    PROVE  /\ call' \in [Calls -> CallRecords] /\ CallGoesOn(c)
           /\ \A e \in Calls \ {c} : call'[e] = call[e]
  <1>1. call \in [Calls -> CallRecords]
    BY DEF WaitInvariant, TypeOK, CallRecords
  <1>2. CASE Replied(On(c))
    <2>1. FirstReply(On(c)) \in Replies /\ answers[FirstReply(On(c))] = On(c)
      BY <1>2, FirstReplyAnswers
    <2>2. call' = [call EXCEPT ![c].step = "replying", ![c].reply = FirstReply(On(c))]
      BY <1>2 DEF LookForReply
    <2>3. /\ call' \in [Calls -> CallRecords]
          /\ call'[c].step = "replying" /\ call'[c].on = On(c)
          /\ call'[c].reply = FirstReply(On(c))
          /\ \A e \in Calls \ {c} : call'[e] = call[e]
      BY <1>1, <2>1, <2>2 DEF CallRecords, On, Steps
    <2>4. answers'[FirstReply(On(c))] = On(c)
      BY <2>1, Numbers DEF AnswersKept
    <2> QED
      BY <2>1, <2>3, <2>4 DEF CallGoesOn
  <1>3. CASE ~ Replied(On(c))
    BY <1>1, <1>3, CallMoves DEF LookForReply, CallGoesOn
  <1> QED
    BY <1>2, <1>3

(* A step of the Mailbox with what it keeps.                                *)
MailboxMoves(c) ==
    /\ ThreadIsFree
    /\ UNCHANGED <<phase, deadline, inbox, late, now, interrupts, continued, unheard>>
    /\ QuietTask /\ ~ TimesOut(task, task')
    /\ BoxKept /\ box' \in [Deliveries -> BoxStatuses]
    /\ AnswersKept /\ answers' \in [Replies -> Deliveries \cup {None}]
    /\ call' \in [Calls -> CallRecords]
    /\ \A e \in Calls \ {c} : call'[e] = call[e]
    /\ c \in Calls => CallGoesOn(c)

LEMMA MailboxMovesKeepInvariant ==
    ASSUME WaitInvariant, NEW c, MailboxMoves(c)
    PROVE  WaitInvariant' /\ ~ TimesOut(task, task')
  <1>1. TypeOK'
    BY DEF WaitInvariant, TypeOK, MailboxMoves, QuietTask, CallRecords
  <1> QED
    BY <1>1, MailboxStep DEF MailboxMoves, QuietTask

LEMMA NothingSaved ==
    ASSUME TypeOK
    PROVE  /\ UNCHANGED task => QuietTask /\ ~ TimesOut(task, task')
           /\ UNCHANGED box => BoxKept /\ box' \in [Deliveries -> BoxStatuses]
           /\ UNCHANGED answers =>
                  AnswersKept /\ answers' \in [Replies -> Deliveries \cup {None}]
  <1>1. UNCHANGED task => QuietTask /\ ~ TimesOut(task, task')
    BY DEF TypeOK, QuietTask, TimesOut
  <1>2. UNCHANGED box => BoxKept /\ box' \in [Deliveries -> BoxStatuses]
    BY DEF TypeOK, BoxKept
  <1>3. UNCHANGED answers =>
            AnswersKept /\ answers' \in [Replies -> Deliveries \cup {None}]
    BY DEF TypeOK, AnswersKept
  <1> QED
    BY <1>1, <1>2, <1>3

LEMMA AcknowledgeMoves ==
    ASSUME WaitInvariant, ThreadIsFree, NEW d \in Deliveries, Acknowledge(d)
    PROVE  MailboxMoves(0)
  <1>1. TypeOK /\ box[d] = "injected" /\ box' = [box EXCEPT ![d] = "acknowledged"]
    BY DEF WaitInvariant, Acknowledge
  <1>2. BoxKept /\ box' \in [Deliveries -> BoxStatuses]
    <2>1. "acknowledged" \in BoxStatuses \ {"none"}
      BY DEF BoxStatuses
    <2> QED
      BY <1>1, <2>1, BoxChanges
  <1>3. call \in [Calls -> CallRecords] /\ 0 \notin Calls
    BY <1>1, BoundsAreCounted DEF TypeOK, CallRecords, Calls
  <1> QED
    BY <1>1, <1>2, <1>3, NothingSaved
       DEF Acknowledge, MailboxMoves, exchange, clock, HistoryVars

LEMMA ReplyByRpcMoves ==
    ASSUME WaitInvariant, ThreadIsFree, NEW c \in Calls, NEW d \in Deliveries,
           ReplyByRpc(c, d)
    PROVE  MailboxMoves(c)
  <1>1. TypeOK /\ call \in [Calls -> CallRecords]
    BY DEF WaitInvariant, TypeOK, CallRecords
  <1>2. PICK r \in Replies : SaveReply(d, r)
    BY DEF ReplyByRpc
  <1>3. box[d] # "none" /\ Goto(c, "called")
    BY DEF ReplyByRpc
  <1>4. /\ BoxKept /\ box' \in [Deliveries -> BoxStatuses]
        /\ AnswersKept /\ answers' \in [Replies -> Deliveries \cup {None}]
    BY <1>2, <1>3, RepliesAreSaved
  <1>5. /\ call' \in [Calls -> CallRecords] /\ CallGoesOn(c)
        /\ \A e \in Calls \ {c} : call'[e] = call[e]
    BY <1>1, <1>3, CallMoves DEF CallGoesOn, Steps
  <1> QED
    BY <1>1, <1>4, <1>5, NothingSaved
       DEF ReplyByRpc, MailboxMoves, exchange, clock, HistoryVars

LEMMA TurnKnowsRequest ==
    ASSUME WaitInvariant, NEW c \in Calls,
           call[c].step \notin {"idle", "flushing", "called"}
    PROVE  /\ On(c) \in Deliveries /\ box[On(c)] # "none" /\ call[c].on = On(c)
           /\ call[c].reply \in Replies \cup {0}
  BY DEF WaitInvariant, TypeOK, CallKnowsRequest, On

LEMMA ProvisionedMoves ==
    ASSUME WaitInvariant, ThreadIsFree, NEW c \in Calls, Provisioned(c)
    PROVE  MailboxMoves(c)
  <1>1. TypeOK /\ call \in [Calls -> CallRecords] /\ call[c].step = "provisioning"
    BY DEF WaitInvariant, TypeOK, CallRecords, Provisioned
  <1>2. /\ On(c) \in Deliveries /\ box[On(c)] # "none"
    BY <1>1, TurnKnowsRequest
  <1>3. UNCHANGED <<task, box, answers>>
    BY DEF Provisioned, mailbox
  <1>4. /\ call' \in [Calls -> CallRecords] /\ CallGoesOn(c)
        /\ \A e \in Calls \ {c} : call'[e] = call[e]
    <2>1. CASE Goto(c, "turn")
      <3>1. /\ call' \in [Calls -> CallRecords] /\ call'[c].step = "turn"
            /\ call'[c].on = call[c].on /\ call'[c].reply = call[c].reply
            /\ \A e \in Calls \ {c} : call'[e] = call[e]
        BY <1>1, <2>1, CallMoves DEF Steps
      <3>2. call[c].reply # 0 => answers'[call[c].reply] = call[c].on
        BY <1>1, <1>3 DEF WaitInvariant, CallKnowsRequest, On
      <3> QED
        BY <1>2, <3>1, <3>2 DEF CallGoesOn, On
    <2>2. CASE LookForReply(c)
      BY <1>1, <1>2, <1>3, <2>2, LookedForReply, NothingSaved
    <2> QED
      BY <2>1, <2>2 DEF Provisioned
  <1> QED
    BY <1>1, <1>3, <1>4, NothingSaved
       DEF Provisioned, MailboxMoves, mailbox, exchange, clock, HistoryVars

LEMMA ReplyInTurnMoves ==
    ASSUME WaitInvariant, ThreadIsFree, NEW c \in Calls, ReplyInTurn(c)
    PROVE  MailboxMoves(c)
  <1>1. TypeOK /\ call \in [Calls -> CallRecords] /\ call[c].step = "turn"
    BY DEF WaitInvariant, TypeOK, CallRecords, ReplyInTurn
  <1>2. /\ On(c) \in Deliveries /\ box[On(c)] # "none" /\ call[c].on = On(c)
    BY <1>1, TurnKnowsRequest
  <1>3. PICK r \in Replies :
            SaveReply(On(c), r) /\ call' = [call EXCEPT ![c].reply = r]
    BY DEF ReplyInTurn
  <1>4. /\ BoxKept /\ box' \in [Deliveries -> BoxStatuses]
        /\ AnswersKept /\ answers' \in [Replies -> Deliveries \cup {None}]
        /\ answers'[r] = On(c)
    BY <1>2, <1>3, RepliesAreSaved
  <1>5. /\ call' \in [Calls -> CallRecords]
        /\ call'[c].step = "turn" /\ call'[c].on = On(c) /\ call'[c].reply = r
        /\ \A e \in Calls \ {c} : call'[e] = call[e]
    BY <1>1, <1>2, <1>3 DEF CallRecords
  <1>6. CallGoesOn(c)
    BY <1>2, <1>4, <1>5 DEF CallGoesOn
  <1> QED
    BY <1>1, <1>4, <1>5, <1>6, NothingSaved
       DEF ReplyInTurn, MailboxMoves, exchange, clock, HistoryVars

LEMMA EndTurnMoves ==
    ASSUME WaitInvariant, ThreadIsFree, NEW c \in Calls, EndTurn(c)
    PROVE  MailboxMoves(c)
  <1>1. TypeOK /\ call \in [Calls -> CallRecords] /\ call[c].step = "turn"
    BY DEF WaitInvariant, TypeOK, CallRecords, EndTurn
  <1>2. /\ On(c) \in Deliveries /\ box[On(c)] # "none" /\ call[c].on = On(c)
        /\ call[c].reply \in Replies \cup {0}
    BY <1>1, TurnKnowsRequest
  <1>3. UNCHANGED <<task, answers>>
    BY DEF EndTurn
  <1>4. BoxKept /\ box' \in [Deliveries -> BoxStatuses]
    <2>1. CASE box' = box
      BY <1>1, <2>1, NothingSaved
    <2>2. CASE box' = [box EXCEPT ![On(c)] = IF @ = "pending" THEN "injected" ELSE @]
      <3> DEFINE s == IF box[On(c)] = "pending" THEN "injected" ELSE box[On(c)]
      <3>1. s \in BoxStatuses \ {"none"}
        BY <1>1, <1>2 DEF TypeOK, BoxStatuses
      <3>2. box' = [box EXCEPT ![On(c)] = s]
        BY <2>2
      <3>3. box[On(c)] = "acknowledged" => s = "acknowledged"
        OBVIOUS
      <3> HIDE DEF s
      <3> QED
        BY <1>1, <1>2, <3>1, <3>2, <3>3, BoxChanges
    <2> QED
      BY <2>1, <2>2 DEF EndTurn
  <1>5. AnswersKept
    BY <1>1, <1>3, NothingSaved
  <1>6. /\ call' \in [Calls -> CallRecords] /\ CallGoesOn(c)
        /\ \A e \in Calls \ {c} : call'[e] = call[e]
    <2>1. CASE call[c].reply # 0 /\ Goto(c, "replying")
      <3>1. /\ call' \in [Calls -> CallRecords] /\ call'[c].step = "replying"
            /\ call'[c].on = call[c].on /\ call'[c].reply = call[c].reply
            /\ \A e \in Calls \ {c} : call'[e] = call[e]
        BY <1>1, <2>1, CallMoves DEF Steps
      <3>2. call[c].reply \in Replies /\ answers'[call[c].reply] = On(c)
        BY <1>1, <1>2, <1>3, <2>1 DEF WaitInvariant, CallKnowsRequest
      <3> QED
        BY <1>2, <3>1, <3>2 DEF CallGoesOn
    <2>2. CASE LookForReply(c)
      BY <1>2, <1>5, <2>2, LookedForReply
    <2> QED
      BY <2>1, <2>2 DEF EndTurn
  <1> QED
    BY <1>1, <1>3, <1>4, <1>6, NothingSaved
       DEF EndTurn, MailboxMoves, exchange, clock, HistoryVars

(* The Task that a call waits for, its run completed if need be.            *)
LEMMA WaitingIsQuiet ==
    ASSUME WaitInvariant, NEW c, Waits(c)
    PROVE  /\ Waiting \in {task, WaitCompleted(task)}
           /\ task' = Waiting => QuietTask /\ ~ TimesOut(task, task')
           /\ task.waitOn \in Deliveries /\ box[task.waitOn] # "none"
  <1>1. task \in Tasks
    BY DEF WaitInvariant, TypeOK
  <1>2. Waiting \in {task, WaitCompleted(task)}
    BY DEF Waiting
  <1>3. task' = Waiting => QuietTask /\ ~ TimesOut(task, task')
    <2>1. task' = task => QuietTask /\ ~ TimesOut(task, task')
      BY <1>1 DEF QuietTask, TimesOut
    <2>2. task' = WaitCompleted(task) => QuietTask /\ ~ TimesOut(task, task')
      BY <1>1, TaskHandlers, OnlyExpiryTimesOut DEF QuietTask, HandlerKeeps
    <2> QED
      BY <1>2, <2>1, <2>2
  <1>4. task.waitOn \in Deliveries
    BY <1>1 DEF Waits, HasContext, Tasks
  <1>5. box[task.waitOn] # "none"
    BY <1>4 DEF WaitInvariant, UnaskedIsUntouched
  <1> QED
    BY <1>2, <1>3, <1>4, <1>5

LEMMA FailureIsQuiet ==
    ASSUME WaitInvariant, NEW c \in Calls, NEW t \in {task, WaitCompleted(task)},
           FailWith(c, t), UNCHANGED <<phase, mailbox, exchange, clock, HistoryVars>>
    PROVE  Quiet /\ ~ TimesOut(task, task')
  <1>1. TypeOK /\ UNCHANGED <<phase, now, interrupts, continued, unheard>>
    BY DEF WaitInvariant, clock, HistoryVars
  <1>2. /\ QuietTask /\ ~ TimesOut(task, task')
        /\ call' \in [Calls -> CallRecords] /\ \A e \in Calls : CallKept(e)
    BY <1>1, FailedCall
  <1> QED
    BY <1>1, <1>2 DEF Quiet, TypeOK

LEMMA FindOverdueMoves ==
    ASSUME WaitInvariant, ThreadIsFree, NEW c \in Calls, FindOverdue(c)
    PROVE  WaitInvariant' /\ ~ TimesOut(task, task')
  <1> DEFINE d == task.waitOn
  <1>1. /\ TypeOK /\ call \in [Calls -> CallRecords] /\ Waits(c)
        /\ ~ Replied(d) /\ deadline[d] <= now
    BY DEF WaitInvariant, TypeOK, CallRecords, FindOverdue
  <1>2. /\ d \in Deliveries /\ box[d] # "none"
        /\ Waiting \in {task, WaitCompleted(task)}
    BY <1>1, WaitingIsQuiet
  <1>3. CASE box[d] \in Open
    <2>1. /\ box' = [box EXCEPT ![d] = "failed"] /\ task' = Waiting
          /\ call' = [call EXCEPT ![c] = [Idle EXCEPT !.step = "expiring", !.on = d]]
      BY <1>3 DEF FindOverdue
    <2>2. BoxKept /\ box' \in [Deliveries -> BoxStatuses]
      <3>1. "failed" \in BoxStatuses \ {"none"} /\ box[d] # "acknowledged"
        BY <1>3 DEF BoxStatuses, Open
      <3> QED
        BY <1>1, <1>2, <2>1, <3>1, BoxChanges
    <2>3. QuietTask /\ ~ TimesOut(task, task')
      BY <1>1, <2>1, WaitingIsQuiet
    <2>4. /\ call' \in [Calls -> CallRecords]
          /\ call'[c].step = "expiring" /\ call'[c].on = d
          /\ \A e \in Calls \ {c} : call'[e] = call[e]
      BY <1>1, <1>2, <2>1 DEF CallRecords, Idle, Steps
    <2>5. Overdue(d)
      BY <1>1, <1>2, UnansweredIsOverdue
    <2>6. CallGoesOn(c)
      BY <1>2, <2>4, <2>5 DEF CallGoesOn
    <2>7. MailboxMoves(c)
      BY <1>1, <2>2, <2>3, <2>4, <2>6, NothingSaved
         DEF FindOverdue, MailboxMoves, exchange, clock, HistoryVars
    <2> QED
      BY <2>7, MailboxMovesKeepInvariant
  <1>4. CASE box[d] \notin Open
    <2>1. FailWith(c, Waiting) /\ UNCHANGED <<phase, mailbox, exchange, clock, HistoryVars>>
      BY <1>4 DEF FindOverdue, mailbox
    <2> QED
      BY <1>2, <2>1, FailureIsQuiet, QuietKeepsInvariant
  <1> QED
    BY <1>3, <1>4

LEMMA AbortTurnMoves ==
    ASSUME WaitInvariant, ThreadIsFree, NEW c \in Calls, AbortTurn(c)
    PROVE  WaitInvariant' /\ ~ TimesOut(task, task')
  <1>1. /\ TypeOK /\ call \in [Calls -> CallRecords] /\ call[c].step = "turn"
        /\ deadline[On(c)] <= now
    BY DEF WaitInvariant, TypeOK, CallRecords, AbortTurn
  <1>2. On(c) \in Deliveries /\ box[On(c)] # "none" /\ call[c].on = On(c)
    BY <1>1, TurnKnowsRequest
  <1>3. CASE box[On(c)] \in Open
    <2>1. /\ box' = [box EXCEPT ![On(c)] = "failed"] /\ UNCHANGED task
          /\ Goto(c, "expiring")
      BY <1>3 DEF AbortTurn
    <2>2. BoxKept /\ box' \in [Deliveries -> BoxStatuses]
      <3>1. "failed" \in BoxStatuses \ {"none"} /\ box[On(c)] # "acknowledged"
        BY <1>3 DEF BoxStatuses, Open
      <3> QED
        BY <1>1, <1>2, <2>1, <3>1, BoxChanges
    <2>3. /\ call' \in [Calls -> CallRecords]
          /\ call'[c].step = "expiring" /\ call'[c].on = call[c].on
          /\ \A e \in Calls \ {c} : call'[e] = call[e]
      BY <1>1, <2>1, CallMoves DEF Steps
    <2>4. Overdue(On(c))
      BY <1>1, <1>2, <1>3, OpenIsUnanswered, UnansweredIsOverdue
    <2>5. CallGoesOn(c)
      BY <1>2, <2>3, <2>4 DEF CallGoesOn
    <2>6. MailboxMoves(c)
      BY <1>1, <2>1, <2>2, <2>3, <2>5, NothingSaved
         DEF AbortTurn, MailboxMoves, exchange, clock, HistoryVars
    <2> QED
      BY <2>6, MailboxMovesKeepInvariant
  <1>4. CASE box[On(c)] \notin Open
    <2>1. FailWith(c, task) /\ UNCHANGED <<phase, mailbox, exchange, clock, HistoryVars>>
      BY <1>4 DEF AbortTurn, Fail, mailbox
    <2> QED
      BY <2>1, FailureIsQuiet, QuietKeepsInvariant
  <1> QED
    BY <1>3, <1>4

-----------------------------------------------------------------------------
(* Steps of the exchange.                                                   *)

LEMMA AskKeeps ==
    ASSUME WaitInvariant, ThreadIsFree, NEW d \in Deliveries, Ask(d)
    PROVE  WaitInvariant' /\ ~ TimesOut(task, task')
  <1> USE DEF WaitInvariant
  <1>1. /\ task.waitOn = None /\ box[d] = "none"
        /\ box' = [box EXCEPT ![d] = "pending"]
        /\ task' = Advanced(task, d)
        /\ UNCHANGED <<phase, answers, inbox, late, call, now, interrupts, continued,
                       unheard>>
    BY DEF Ask, exchange, clock, HistoryVars
  <1>2. PICK time \in 1 .. AnswerTime : deadline' = [deadline EXCEPT ![d] = now + time]
    BY DEF Ask
  <1>3. /\ task \in Tasks /\ box \in [Deliveries -> BoxStatuses]
        /\ deadline \in [Deliveries -> Nat] /\ now \in Nat
    BY DEF TypeOK
  <1>4. task' \in Tasks /\ task'.waitOn = d /\ ~ TimesOut(task, task')
    BY <1>1, <1>3, OnlyExpiryTimesOut DEF Tasks, Advanced
  <1>5. box' \in [Deliveries -> BoxStatuses] /\ deadline' \in [Deliveries -> Nat]
    BY <1>1, <1>2, <1>3, DurationsArePositive DEF BoxStatuses
  <1>6. TypeOK'
    BY <1>1, <1>4, <1>5 DEF TypeOK
  <1>7. /\ inbox[d].status = "absent"
        /\ \A r \in Replies : answers[r] # d /\ <<d, r>> \notin late
    BY <1>1 DEF UnaskedIsUntouched
  <1>8. \A e \in Deliveries : box[e] # "none" => e # d
    BY <1>1
  <1>9. /\ box'[d] = "pending"
        /\ \A e \in Deliveries \ {d} : box'[e] = box[e] /\ deadline'[e] = deadline[e]
    BY <1>1, <1>2, <1>3
  <1>10. UnaskedIsUntouched'
    BY <1>1, <1>4, <1>9 DEF UnaskedIsUntouched
  <1>11. RepliedIsAcknowledged'
    <2> SUFFICES ASSUME NEW r \in Replies, answers[r] # None
                 PROVE  box'[answers[r]] = "acknowledged"
      BY <1>1 DEF RepliedIsAcknowledged
    <2>1. answers[r] \in Deliveries /\ answers[r] # d
      BY <1>7 DEF TypeOK
    <2> QED
      BY <1>9, <2>1 DEF RepliedIsAcknowledged
  <1>12. AnsweredInTime'
    <2> SUFFICES ASSUME NEW e \in Deliveries
                 PROVE  /\ inbox[e].status # "complete" => inbox[e].reply = None
                        /\ inbox[e].status = "processing" =>
                               inbox[e].lease.until <= deadline'[e]
                        /\ inbox[e].status = "complete" =>
                               /\ inbox[e].reply \in Replies
                               /\ answers[inbox[e].reply] = e
                               /\ inbox[e].settledAt < deadline'[e]
      BY <1>1 DEF AnsweredInTime
    <2>1. CASE e = d
      BY <1>7, <2>1 DEF AnsweredInTime
    <2>2. CASE e # d
      BY <1>9, <2>2 DEF AnsweredInTime
    <2> QED
      BY <2>1, <2>2
  <1>13. CallKnowsRequest'
    BY <1>1, <1>9 DEF CallKnowsRequest, On
  <1>14. OneThread' /\ ExpiringIsOverdue'
    BY <1>1 DEF OneThread, ExpiringIsOverdue, ThreadIsFree, InCommits
  <1>15. LateIsOver'
    BY <1>1, <1>7, <1>9 DEF LateIsOver
  <1>16. ContinuedIsOver'
    BY <1>1, <1>4, <1>7 DEF ContinuedIsOver
  <1> QED
    BY <1>4, <1>6, <1>10, <1>11, <1>12, <1>13, <1>14, <1>15, <1>16

LEMMA LeaseUntilDeadline ==
    ASSUME TypeOK, NEW d \in Deliveries
    PROVE  LeaseUntil(d) \in Nat /\ LeaseUntil(d) <= deadline[d]
  BY DurationsArePositive DEF TypeOK, LeaseUntil

(* beginAsk takes the lease of an ask that is not answered.                 *)
LEMMA BeginAskKeeps ==
    ASSUME WaitInvariant, ThreadIsFree, NEW c \in Calls, BeginAsk(c)
    PROVE  WaitInvariant' /\ ~ TimesOut(task, task')
  <1> DEFINE d == task.waitOn
             row == inbox[d]
             claim == ClaimedInbox(IF row.status = "absent" THEN ReceivedInbox(d) ELSE row,
                                   Owner, LeaseUntil(d))
  <1>1. TypeOK /\ call \in [Calls -> CallRecords] /\ Waits(c)
    BY DEF WaitInvariant, TypeOK, CallRecords, BeginAsk
  <1>2. /\ d \in Deliveries /\ box[d] # "none"
        /\ Waiting \in {task, WaitCompleted(task)}
        /\ task' = Waiting => QuietTask /\ ~ TimesOut(task, task')
    BY <1>1, WaitingIsQuiet
  <1>3. UNCHANGED <<phase, box, answers, deadline, late, now, interrupts, continued,
                    unheard>>
    BY DEF BeginAsk, mailbox, clock, HistoryVars
  <1>4. row \in Rows /\ inbox \in [Deliveries -> Rows]
    BY <1>1, <1>2 DEF TypeOK
  <1>5. ASSUME NEW new \in Rows, NEW granted \in BOOLEAN, Admits(c, d, new, granted),
               task' = Waiting,
               \/ new = row
               \/ /\ row.status # "complete" /\ new.status = "processing"
                  /\ new.reply = None /\ new.lease.until <= deadline[d]
        PROVE  WaitInvariant' /\ ~ TimesOut(task, task')
    <2>1. /\ inbox' = [inbox EXCEPT ![d] = new]
          /\ inbox'[d] = new /\ \A e \in Deliveries \ {d} : inbox'[e] = inbox[e]
          /\ inbox' \in [Deliveries -> Rows]
      BY <1>2, <1>4, <1>5 DEF Admits
    <2>2. /\ call' \in [Calls -> CallRecords]
          /\ \A e \in Calls \ {c} : call'[e] = call[e]
          /\ \/ /\ call'[c].step = "replying" /\ call'[c].on = d
                /\ call'[c].reply \in Replies /\ answers[call'[c].reply] = d
             \/ call'[c].step = "provisioning" /\ call'[c].on = d /\ call'[c].reply = 0
             \/ call'[c].step = "idle"
      <3>1. new.revision \in Nat
        BY RowFields
      <3>2. CASE Replied(d)
        <4>1. FirstReply(d) \in Replies /\ answers[FirstReply(d)] = d
          BY <3>2, FirstReplyAnswers
        <4>2. call' = [call EXCEPT ![c] = [step |-> "replying", on |-> d,
                           rev |-> new.revision, reply |-> FirstReply(d)]]
          BY <1>5, <3>2 DEF Admits
        <4> QED
          BY <1>1, <1>2, <3>1, <4>1, <4>2 DEF CallRecords, Steps
      <3>3. CASE ~ Replied(d) /\ granted
        <4>1. call' = [call EXCEPT ![c] = [step |-> "provisioning", on |-> d,
                           rev |-> new.revision, reply |-> 0]]
          BY <1>5, <3>3 DEF Admits
        <4> QED
          BY <1>1, <1>2, <3>1, <4>1 DEF CallRecords, Steps
      <3>4. CASE ~ Replied(d) /\ ~ granted
        <4>1. call' = [call EXCEPT ![c] = Idle]
          BY <1>5, <3>4 DEF Admits
        <4> QED
          BY <1>1, <4>1 DEF CallRecords, Steps, Idle
      <3> QED
        BY <3>2, <3>3, <3>4
    <2>3. QuietTask /\ ~ TimesOut(task, task')
      BY <1>2, <1>5
    <2>4. TypeOK'
      BY <1>1, <1>3, <2>1, <2>2, <2>3 DEF TypeOK, QuietTask, CallRecords
    <2>5. UnaskedIsUntouched'
      BY <1>2, <1>3, <2>1, <2>3, Numbers DEF WaitInvariant, UnaskedIsUntouched, QuietTask
    <2>6. RepliedIsAcknowledged'
      BY <1>3 DEF WaitInvariant, RepliedIsAcknowledged
    <2>7. AnsweredInTime'
      <3> SUFFICES ASSUME NEW e \in Deliveries
                   PROVE  (/\ inbox[e].status # "complete" => inbox[e].reply = None
                           /\ inbox[e].status = "processing" =>
                                  inbox[e].lease.until <= deadline[e]
                           /\ inbox[e].status = "complete" =>
                                  /\ inbox[e].reply \in Replies
                                  /\ answers[inbox[e].reply] = e
                                  /\ inbox[e].settledAt < deadline[e])'
        BY DEF AnsweredInTime
      <3>1. CASE inbox'[e] = inbox[e]
        BY <1>3, <3>1 DEF WaitInvariant, AnsweredInTime
      <3>2. CASE inbox'[e] # inbox[e]
        BY <1>3, <1>5, <2>1, <3>2
      <3> QED
        BY <3>1, <3>2
    <2>8. CallKnowsRequest'
      <3> SUFFICES ASSUME NEW e \in Calls
                   PROVE  (/\ call[e].step \notin {"idle", "flushing", "called"} =>
                                  On(e) \in Deliveries /\ box[On(e)] # "none"
                           /\ call[e].step \in {"provisioning", "turn"}
                                  /\ call[e].reply # 0 => answers[call[e].reply] = On(e)
                           /\ call[e].step = "replying" =>
                                  call[e].reply \in Replies
                                      /\ answers[call[e].reply] = On(e)
                           /\ call[e].step = "starting" =>
                                  inbox[On(e)].status = "complete")'
        BY DEF CallKnowsRequest
      <3>1. CASE e = c
        BY <1>2, <1>3, <2>2, <3>1 DEF On
      <3>2. CASE e # c
        <4>1. call'[e] = call[e] /\ call[e].step # "starting"
          BY <2>2, <3>2 DEF ThreadIsFree, InCommits
        <4> QED
          BY <1>3, <4>1 DEF WaitInvariant, CallKnowsRequest, On
      <3> QED
        BY <3>1, <3>2
    <2>9. OneThread' /\ ExpiringIsOverdue'
      BY <2>2 DEF ThreadIsFree, OneThread, ExpiringIsOverdue, InCommits
    <2>10. \A e \in Deliveries :
               inbox[e].status = "complete" => inbox'[e].status = "complete"
      BY <1>5, <2>1
    <2>11. LateIsOver'
      BY <1>3, <2>10 DEF WaitInvariant, LateIsOver
    <2>12. ContinuedIsOver'
      BY <1>3, <2>3, <2>10, Numbers DEF WaitInvariant, ContinuedIsOver, QuietTask
    <2> QED
      BY <2>3, <2>4, <2>5, <2>6, <2>7, <2>8, <2>9, <2>11, <2>12 DEF WaitInvariant
  <1>6. CASE row.status = "complete"
    <2>1. task' = Waiting /\ Admits(c, d, row, FALSE)
      BY <1>6 DEF BeginAsk
    <2> QED
      BY <1>4, <1>5, <2>1
  <1>7. CASE row.status # "complete" /\ LeaseUntil(d) <= now
    <2>0. LeaseUntil(d) \in Nat /\ now \in Nat
      BY <1>1, <1>2, LeaseUntilDeadline DEF TypeOK
    <2>1. FailWith(c, Waiting) /\ UNCHANGED inbox
      <3>1. ~ (LeaseUntil(d) > now)
        BY <1>7, <2>0
      <3> HIDE DEF claim
      <3> QED
        BY <1>7, <3>1 DEF BeginAsk, claim
    <2>2. UNCHANGED <<phase, mailbox, exchange, clock, HistoryVars>>
      BY <1>3, <2>1 DEF mailbox, exchange, clock, HistoryVars
    <2> QED
      BY <1>2, <2>1, <2>2, FailureIsQuiet, QuietKeepsInvariant
  <1>8. CASE row.status # "complete" /\ ~ (LeaseUntil(d) <= now)
    <2>0. LeaseUntil(d) \in Nat /\ LeaseUntil(d) <= deadline[d] /\ now \in Nat
      BY <1>1, <1>2, LeaseUntilDeadline DEF TypeOK
    <2>1. /\ task' = Waiting
          /\ \/ Admits(c, d, claim, TRUE)
             \/ Admits(c, d, row, FALSE)
      <3>1. LeaseUntil(d) > now
        BY <1>8, <2>0
      <3> HIDE DEF claim
      <3> QED
        BY <1>8, <3>1 DEF BeginAsk, claim
    <2>2. claim \in Rows /\ claim.status = "processing" /\ claim.reply = None
          /\ claim.lease.until = LeaseUntil(d)
      <3> DEFINE old == IF row.status = "absent" THEN ReceivedInbox(d) ELSE row
      <3>1. old \in Rows /\ old.reply = None
        <4>1. ReceivedInbox(d) \in Rows
          BY <1>2, EmptyRowShape DEF Rows
        <4>2. ReceivedInbox(d).reply = None
          BY DEF ReceivedInbox, NoInboxRow
        <4>3. row.reply = None
          BY <1>2, <1>8 DEF WaitInvariant, AnsweredInTime
        <4> QED
          BY <1>4, <4>1, <4>2, <4>3
      <3> HIDE DEF old
      <3>2. /\ ClaimedInbox(old, Owner, LeaseUntil(d)) \in Rows
        BY <2>0, <3>1, InboxRowShape DEF Rows
      <3>3. /\ ClaimedInbox(old, Owner, LeaseUntil(d)).status = "processing"
            /\ ClaimedInbox(old, Owner, LeaseUntil(d)).reply = None
            /\ ClaimedInbox(old, Owner, LeaseUntil(d)).lease.until = LeaseUntil(d)
        <4>1. old = [status |-> old.status, frame |-> old.frame, lease |-> old.lease,
                     reply |-> old.reply, settledAt |-> old.settledAt,
                     revision |-> old.revision]
          BY <3>1, InboxColumns DEF Rows
        <4> QED
          BY <3>1, <4>1 DEF ClaimedInbox, Lease
      <3> QED
        BY <3>2, <3>3 DEF old
    <2> HIDE DEF claim
    <2> QED
      BY <1>4, <1>5, <1>8, <2>0, <2>1, <2>2
  <1> QED
    BY <1>6, <1>7, <1>8

(* acceptReply: the answer is committed under a lease that runs, or it is   *)
(* late, or it was committed before.                                        *)
LEMMA AcceptReplyKeeps ==
    ASSUME WaitInvariant, NEW c \in Calls, AcceptReply(c)
    PROVE  WaitInvariant' /\ ~ TimesOut(task, task')
  <1> DEFINE d == On(c)
             r == call[c].reply
  <1>1. TypeOK /\ call \in [Calls -> CallRecords] /\ call[c].step = "replying"
    BY DEF WaitInvariant, TypeOK, CallRecords, AcceptReply
  <1>2. /\ d \in Deliveries /\ box[d] # "none" /\ call[c].on = d
        /\ r \in Replies /\ answers[r] = d
    BY <1>1, TurnKnowsRequest DEF WaitInvariant, CallKnowsRequest
  <1>3. UNCHANGED <<phase, box, answers, deadline, now, interrupts, continued, unheard>>
    BY DEF AcceptReply, mailbox, clock, HistoryVars
  <1>4. /\ inbox \in [Deliveries -> Rows] /\ inbox[d] \in Rows
        /\ now \in Nat \ {0} /\ deadline[d] \in Nat
        /\ late \subseteq Deliveries \X Replies
    BY <1>1, <1>2 DEF TypeOK
  <1>5. \A e \in Calls \ {c} : ~ InCommits(e)
    BY <1>1 DEF WaitInvariant, OneThread, InCommits
  <1>6. ASSUME UNCHANGED task, NEW s \in Steps, Goto(c, s),
               \/ /\ s = "starting" /\ UNCHANGED late /\ inbox'[d].status = "complete"
                  /\ (UNCHANGED inbox) \/ (Accept(c) /\ Holds(c))
               \/ /\ s = "expiring" /\ RecordLate(c) /\ UNCHANGED inbox /\ Overdue(d)
                  /\ deadline[d] < now \/ inbox[d].status = "complete"
        PROVE  WaitInvariant' /\ ~ TimesOut(task, task')
    <2>1. /\ call' \in [Calls -> CallRecords] /\ call'[c].step = s /\ call'[c].on = d
          /\ call'[c].reply = r
          /\ \A e \in Calls \ {c} : call'[e] = call[e]
      BY <1>1, <1>2, <1>6, CallMoves DEF Steps
    <2>2. /\ inbox' \in [Deliveries -> Rows]
          /\ \A e \in Deliveries : e # d => inbox'[e] = inbox[e]
          /\ \/ inbox'[d] = inbox[d]
             \/ /\ inbox'[d].status = "complete" /\ inbox'[d].reply = r
                /\ inbox'[d].settledAt < deadline[d]
                /\ inbox[d].status # "complete"
      <3>1. CASE UNCHANGED inbox
        BY <1>4, <3>1
      <3>2. CASE Accept(c) /\ Holds(c)
        <4>1. inbox' = [inbox EXCEPT ![d] = CompletedInbox(inbox[d], r, now)]
          BY <3>2 DEF Accept
        <4>2. CompletedInbox(inbox[d], r, now) \in Rows
          BY <1>2, <1>4, InboxRowShape DEF Rows
        <4>3. /\ CompletedInbox(inbox[d], r, now).status = "complete"
              /\ CompletedInbox(inbox[d], r, now).settledAt = now
              /\ CompletedInbox(inbox[d], r, now).reply = r
          BY <1>2, <1>4, RowSteps
        <4>4. inbox[d].status = "processing" /\ inbox[d].lease.until > now
          BY <3>2 DEF Holds, HoldsInbox
        <4>5. inbox[d].lease.until \in Nat /\ inbox[d].lease.until <= deadline[d]
          BY <1>2, <1>4, <4>4, RowFields DEF WaitInvariant, AnsweredInTime
        <4>6. now < deadline[d]
          BY <1>4, <4>4, <4>5
        <4> QED
          BY <1>2, <1>4, <4>1, <4>2, <4>3, <4>4, <4>6
      <3> QED
        BY <1>6, <3>1, <3>2
    <2>3. late' \in SUBSET (Deliveries \X Replies)
      BY <1>2, <1>4, <1>6 DEF RecordLate
    <2>4. TypeOK'
      BY <1>1, <1>3, <1>6, <2>1, <2>2, <2>3 DEF TypeOK, CallRecords
    <2>5. UnaskedIsUntouched'
      <3> SUFFICES ASSUME NEW e \in Deliveries, box[e] = "none"
                   PROVE  /\ inbox'[e].status = "absent" /\ task.waitOn # e
                          /\ \A q \in Replies : answers[q] # e /\ <<e, q>> \notin late'
        BY <1>3, <1>6 DEF UnaskedIsUntouched
      <3>1. e # d
        BY <1>2
      <3>2. /\ inbox[e].status = "absent" /\ task.waitOn # e
            /\ \A q \in Replies : answers[q] # e /\ <<e, q>> \notin late
        BY DEF WaitInvariant, UnaskedIsUntouched
      <3>3. \A q \in Replies : <<e, q>> \notin late'
        BY <1>6, <3>1, <3>2 DEF RecordLate
      <3> QED
        BY <2>2, <3>1, <3>2, <3>3
    <2>6. RepliedIsAcknowledged'
      BY <1>3 DEF WaitInvariant, RepliedIsAcknowledged
    <2>7. AnsweredInTime'
      <3> SUFFICES ASSUME NEW e \in Deliveries
                   PROVE  (/\ inbox[e].status # "complete" => inbox[e].reply = None
                           /\ inbox[e].status = "processing" =>
                                  inbox[e].lease.until <= deadline[e]
                           /\ inbox[e].status = "complete" =>
                                  /\ inbox[e].reply \in Replies
                                  /\ answers[inbox[e].reply] = e
                                  /\ inbox[e].settledAt < deadline[e])'
        BY DEF AnsweredInTime
      <3>1. CASE inbox'[e] = inbox[e]
        BY <1>3, <3>1 DEF WaitInvariant, AnsweredInTime
      <3>2. CASE inbox'[e] # inbox[e]
        BY <1>2, <1>3, <2>2, <3>2
      <3> QED
        BY <3>1, <3>2
    <2>8. \A e \in Deliveries :
              inbox[e].status = "complete" => inbox'[e].status = "complete"
      BY <2>2
    <2>9. CallKnowsRequest'
      <3> SUFFICES ASSUME NEW e \in Calls
                   PROVE  (/\ call[e].step \notin {"idle", "flushing", "called"} =>
                                  On(e) \in Deliveries /\ box[On(e)] # "none"
                           /\ call[e].step \in {"provisioning", "turn"}
                                  /\ call[e].reply # 0 => answers[call[e].reply] = On(e)
                           /\ call[e].step = "replying" =>
                                  call[e].reply \in Replies
                                      /\ answers[call[e].reply] = On(e)
                           /\ call[e].step = "starting" =>
                                  inbox[On(e)].status = "complete")'
        BY DEF CallKnowsRequest
      <3>1. CASE e = c
        BY <1>2, <1>3, <1>6, <2>1, <3>1 DEF On
      <3>2. CASE e # c
        <4>1. call'[e] = call[e] /\ call[e].step # "starting"
          BY <1>5, <2>1, <3>2 DEF InCommits
        <4> QED
          BY <1>3, <4>1 DEF WaitInvariant, CallKnowsRequest, On
      <3> QED
        BY <3>1, <3>2
    <2>10. OneThread'
      BY <1>5, <2>1 DEF OneThread, InCommits
    <2>11. ExpiringIsOverdue'
      <3> SUFFICES ASSUME NEW e \in Calls, call'[e].step = "expiring"
                   PROVE  Overdue(On(e))'
        BY DEF ExpiringIsOverdue
      <3>1. e = c
        BY <1>5, <2>1 DEF InCommits
      <3>2. Overdue(d) /\ UNCHANGED inbox /\ call'[e].on = d
        BY <1>6, <2>1, <3>1
      <3> QED
        BY <1>3, <3>2 DEF Overdue, On
    <2>12. LateIsOver'
      <3> SUFFICES ASSUME NEW e \in Deliveries, NEW q \in Replies, <<e, q>> \in late'
                   PROVE  deadline[e] < now \/ inbox'[e].status = "complete"
        BY <1>3 DEF LateIsOver
      <3>1. CASE <<e, q>> \in late
        BY <2>8, <3>1 DEF WaitInvariant, LateIsOver
      <3>2. CASE <<e, q>> \notin late
        <4>1. RecordLate(c) /\ UNCHANGED inbox
              /\ (deadline[d] < now \/ inbox[d].status = "complete")
          BY <1>6, <3>2
        <4>2. e = d
          BY <3>2, <4>1 DEF RecordLate
        <4> QED
          BY <4>1, <4>2
      <3> QED
        BY <3>1, <3>2
    <2>13. ContinuedIsOver'
      BY <1>3, <1>6, <2>8 DEF WaitInvariant, ContinuedIsOver
    <2>14. ~ TimesOut(task, task')
      BY <1>6 DEF TimesOut
    <2> QED
      BY <2>4, <2>5, <2>6, <2>7, <2>9, <2>10, <2>11, <2>12, <2>13, <2>14
         DEF WaitInvariant
  <1>7. CASE Classify(c) = "duplicate"
    <2>1. Goto(c, "starting") /\ UNCHANGED <<task, inbox, late>>
      BY <1>7 DEF AcceptReply, exchange
    <2>2. inbox[d].status = "complete"
      BY <1>7 DEF Classify
    <2>3. "starting" \in Steps
      BY DEF Steps
    <2>4. inbox' = inbox /\ inbox'[d].status = "complete" /\ late' = late /\ task' = task
      BY <2>1, <2>2
    <2>5. Goto(c, "starting")
      BY <2>1
    <2> QED
      BY <1>6, <2>3, <2>4, <2>5
  <1>8. CASE Classify(c) = "late" /\ ~ IsOnRecord(c)
    <2>1. Goto(c, "expiring") /\ RecordLate(c) /\ UNCHANGED <<task, inbox>>
      BY <1>8 DEF AcceptReply
    <2>2. deadline[d] < now \/ inbox[d].status = "complete"
      BY <1>4, <1>8 DEF Classify
    <2>3. Overdue(d)
      <3>1. CASE inbox[d].status = "complete"
        <4>1. inbox[d].reply # r
          BY <1>8, <3>1 DEF Classify
        <4>2. inbox[d].reply \in Replies /\ answers[inbox[d].reply] = d
          BY <1>2, <3>1 DEF WaitInvariant, AnsweredInTime
        <4> QED
          BY <1>2, <4>1, <4>2 DEF Overdue
      <3>2. CASE inbox[d].status # "complete"
        <4>1. continued[d] = 0
          BY <1>2, <3>2 DEF WaitInvariant, ContinuedIsOver
        <4> QED
          BY <1>2, <1>4, <2>2, <3>2, <4>1 DEF Overdue
      <3> QED
        BY <3>1, <3>2
    <2>4. "expiring" \in Steps
      BY DEF Steps
    <2> QED
      BY <1>6, <2>1, <2>2, <2>3, <2>4
  <1>9. CASE Classify(c) = "accepted" /\ Holds(c)
    <2>1. Goto(c, "starting") /\ Accept(c) /\ UNCHANGED <<task, late>>
      BY <1>9 DEF AcceptReply
    <2>2. inbox'[d].status = "complete"
      <3>1. inbox' = [inbox EXCEPT ![d] = CompletedInbox(inbox[d], r, now)]
        BY <2>1 DEF Accept
      <3>2. CompletedInbox(inbox[d], r, now).status = "complete"
        BY <1>2, <1>4, RowSteps
      <3> QED
        BY <1>2, <1>4, <3>1, <3>2
    <2>3. "starting" \in Steps
      BY DEF Steps
    <2> QED
      BY <1>6, <1>9, <2>1, <2>2, <2>3
  <1>10. CASE \/ Classify(c) = "accepted" /\ ~ Holds(c)
              \/ Classify(c) = "late" /\ IsOnRecord(c)
    <2>1. FailWith(c, task) /\ UNCHANGED <<phase, mailbox, exchange, clock, HistoryVars>>
      BY <1>10 DEF AcceptReply, Fail
    <2> QED
      BY <2>1, FailureIsQuiet, QuietKeepsInvariant
  <1> QED
    BY <1>7, <1>8, <1>9, <1>10 DEF Classify

LEMMA StartRunKeeps ==
    ASSUME WaitInvariant, NEW c \in Calls, StartRun(c)
    PROVE  WaitInvariant' /\ ~ TimesOut(task, task')
  <1> DEFINE d == On(c)
  <1>1. TypeOK /\ call \in [Calls -> CallRecords] /\ call[c].step = "starting"
    BY DEF WaitInvariant, TypeOK, CallRecords, StartRun
  <1>2. d \in Deliveries /\ inbox[d].status = "complete"
    BY <1>1, TurnKnowsRequest DEF WaitInvariant, CallKnowsRequest
  <1>3. UNCHANGED <<phase, box, answers, deadline, inbox, late, now, interrupts, unheard>>
    BY DEF StartRun, mailbox, exchange, clock
  <1>4. CASE CanContinue(task, d) /\ phase # "closing"
    <2>1. /\ task' = Begun(task, None) /\ Return(c)
          /\ continued' = [continued EXCEPT ![d] = continued[d] + 1]
      BY <1>4 DEF StartRun
    <2>2. task' \in Tasks /\ task'.waitOn = None /\ ~ TimesOut(task, task')
      <3>1. task \in Tasks
        BY <1>1 DEF TypeOK
      <3> QED
        BY <2>1, <3>1, TaskHandlers, OnlyExpiryTimesOut DEF HandlerKeeps
    <2>3. /\ call' \in [Calls -> CallRecords] /\ call'[c].step = "idle"
          /\ \A e \in Calls \ {c} : call'[e] = call[e] /\ ~ InCommits(e)
      BY <1>1, <2>1, CallMoves DEF WaitInvariant, OneThread, InCommits
    <2>4. continued \in [Deliveries -> Nat] /\ continued[d] = 0
      BY <1>1, <1>2, <1>4 DEF TypeOK, WaitInvariant, ContinuedIsOver, CanContinue
    <2>5. /\ continued' \in [Deliveries -> Nat] /\ continued'[d] = 1
          /\ \A e \in Deliveries \ {d} : continued'[e] = continued[e]
      BY <1>2, <2>1, <2>4
    <2>6. TypeOK'
      BY <1>1, <1>3, <2>2, <2>3, <2>5 DEF TypeOK, CallRecords
    <2>7. UnaskedIsUntouched'
      BY <1>3, <2>2, Numbers DEF WaitInvariant, UnaskedIsUntouched
    <2>8. RepliedIsAcknowledged' /\ AnsweredInTime' /\ LateIsOver'
      BY <1>3 DEF WaitInvariant, RepliedIsAcknowledged, AnsweredInTime, LateIsOver
    <2>9. CallKnowsRequest'
      <3>1. \A e \in Calls : call'[e] = call[e] \/ call'[e].step = "idle"
        BY <2>3
      <3> QED
        BY <1>3, <3>1 DEF WaitInvariant, CallKnowsRequest, On
    <2>10. OneThread' /\ ExpiringIsOverdue'
      BY <2>3 DEF OneThread, ExpiringIsOverdue, InCommits
    <2>11. ContinuedIsOver'
      BY <1>2, <1>3, <2>2, <2>5, Numbers DEF WaitInvariant, ContinuedIsOver
    <2> QED
      BY <2>2, <2>6, <2>7, <2>8, <2>9, <2>10, <2>11 DEF WaitInvariant
  <1>5. CASE ~ (CanContinue(task, d) /\ phase # "closing")
    <2>1. FailWith(c, task) /\ UNCHANGED <<phase, mailbox, exchange, clock, HistoryVars>>
      BY <1>5 DEF StartRun, Fail, HistoryVars
    <2> QED
      BY <2>1, FailureIsQuiet, QuietKeepsInvariant
  <1> QED
    BY <1>4, <1>5

LEMMA ExpireWaitKeeps ==
    ASSUME WaitInvariant, NEW c \in Calls, ExpireWait(c)
    PROVE  WaitInvariant' /\ \E d \in Deliveries : Overdue(d)
  <1>1. /\ TypeOK /\ call \in [Calls -> CallRecords] /\ call[c].step = "expiring"
        /\ task' = Expired(task) /\ Return(c)
        /\ UNCHANGED <<phase, mailbox, exchange, now, interrupts, continued, unheard>>
    BY DEF WaitInvariant, TypeOK, CallRecords, ExpireWait, clock, HistoryVars
  <1>2. Quiet
    <2>1. QuietTask
      BY <1>1, TaskHandlers DEF TypeOK, QuietTask, HandlerKeeps
    <2>2. call' \in [Calls -> CallRecords] /\ \A e \in Calls : CallKept(e)
      BY <1>1, CallMoves DEF CallKept
    <2> QED
      BY <1>1, <2>1, <2>2 DEF Quiet, TypeOK
  <1>3. On(c) \in Deliveries /\ Overdue(On(c))
    BY <1>1, TurnKnowsRequest DEF WaitInvariant, ExpiringIsOverdue
  <1> QED
    BY <1>2, <1>3, QuietKeepsInvariant

-----------------------------------------------------------------------------

LEMMA InitKeeps == Init => WaitInvariant
  <1> SUFFICES ASSUME Init
               PROVE  WaitInvariant
    OBVIOUS
  <1> USE DEF Init
  <1>1. TypeOK
    <2>1. /\ task \in Tasks /\ phase \in Phases
      BY DEF Tasks, Statuses, Alive, Errors, Phases, Begun, NoTask
    <2>2. inbox \in [Deliveries -> Rows]
      <3>1. NoInboxRow \in Rows
        BY EmptyRowShape DEF Rows
      <3> QED
        BY <3>1
    <2>3. call \in [Calls -> CallRecords]
      <3>1. Idle \in CallRecords
        BY DEF CallRecords, Idle, Steps
      <3> QED
        BY <3>1
    <2>4. /\ box \in [Deliveries -> BoxStatuses] /\ deadline \in [Deliveries -> Nat]
          /\ answers \in [Replies -> Deliveries \cup {None}]
          /\ continued \in [Deliveries -> Nat] /\ unheard \in BOOLEAN
          /\ now \in Nat \ {0} /\ interrupts \in Nat /\ late \subseteq Deliveries \X Replies
      <3>1. /\ box \in [Deliveries -> BoxStatuses] /\ deadline \in [Deliveries -> Nat]
            /\ continued \in [Deliveries -> Nat]
        BY DEF BoxStatuses
      <3>2. answers \in [Replies -> Deliveries \cup {None}]
        OBVIOUS
      <3>3. now \in Nat \ {0} /\ interrupts \in Nat
        BY SMT
      <3>4. unheard \in BOOLEAN /\ late \subseteq Deliveries \X Replies
        BY Zenon
      <3> QED
        BY <3>1, <3>2, <3>3, <3>4
    <2> HIDE DEF Init
    <2> QED
      BY <2>1, <2>2, <2>3, <2>4 DEF TypeOK, CallRecords
  <1>2. UnaskedIsUntouched /\ RepliedIsAcknowledged
    BY Numbers DEF UnaskedIsUntouched, RepliedIsAcknowledged, NoInboxRow, Begun, NoTask
  <1>3. AnsweredInTime
    BY DEF AnsweredInTime, NoInboxRow
  <1>4. CallKnowsRequest /\ OneThread /\ ExpiringIsOverdue
    BY DEF CallKnowsRequest, OneThread, ExpiringIsOverdue, InCommits, Idle, On
  <1>5. LateIsOver /\ ContinuedIsOver
    BY DEF LateIsOver, ContinuedIsOver
  <1> QED
    BY <1>1, <1>2, <1>3, <1>4, <1>5 DEF WaitInvariant

(* Every step keeps the invariant, and no step but a justified one fails    *)
(* the Task by a deadline.                                                  *)
LEMMA NextKeeps ==
    ASSUME WaitInvariant, [Next]_vars
    PROVE  /\ WaitInvariant'
           /\ TimesOut(task, task') => \E d \in Deliveries : Overdue(d)
  <1>0. TypeOK
    BY DEF WaitInvariant
  <1>1. CASE QuietEvent
    BY <1>0, <1>1, QuietEvents, QuietKeepsInvariant
  <1>2. ASSUME NEW c \in Calls, GoesOnCommitting(c)
        PROVE  /\ WaitInvariant'
               /\ TimesOut(task, task') => \E d \in Deliveries : Overdue(d)
    <2>1. CASE AcceptReply(c)
      BY <2>1, AcceptReplyKeeps
    <2>2. CASE StartRun(c)
      BY <2>2, StartRunKeeps
    <2>3. CASE ExpireWait(c)
      BY <2>3, ExpireWaitKeeps
    <2> QED
      BY <1>2, <2>1, <2>2, <2>3 DEF GoesOnCommitting
  <1>3. ASSUME ThreadIsFree, NEW d \in Deliveries, Ask(d) \/ Acknowledge(d)
        PROVE  WaitInvariant' /\ ~ TimesOut(task, task')
    <2>1. CASE Ask(d)
      BY <1>3, <2>1, AskKeeps
    <2>2. CASE Acknowledge(d)
      BY <1>3, <2>2, AcknowledgeMoves, MailboxMovesKeepInvariant
    <2> QED
      BY <1>3, <2>1, <2>2
  <1>4. ASSUME ThreadIsFree, NEW c \in Calls,
               \/ FindOverdue(c) \/ BeginAsk(c) \/ Provisioned(c)
               \/ EndTurn(c) \/ AbortTurn(c) \/ ReplyInTurn(c)
               \/ \E d \in Deliveries : ReplyByRpc(c, d)
        PROVE  WaitInvariant' /\ ~ TimesOut(task, task')
    <2>1. CASE FindOverdue(c)
      BY <1>4, <2>1, FindOverdueMoves
    <2>2. CASE BeginAsk(c)
      BY <1>4, <2>2, BeginAskKeeps
    <2>3. CASE Provisioned(c)
      BY <1>4, <2>3, ProvisionedMoves, MailboxMovesKeepInvariant
    <2>4. CASE EndTurn(c)
      BY <1>4, <2>4, EndTurnMoves, MailboxMovesKeepInvariant
    <2>5. CASE AbortTurn(c)
      BY <1>4, <2>5, AbortTurnMoves
    <2>6. CASE ReplyInTurn(c)
      BY <1>4, <2>6, ReplyInTurnMoves, MailboxMovesKeepInvariant
    <2>7. ASSUME NEW d \in Deliveries, ReplyByRpc(c, d)
          PROVE  WaitInvariant' /\ ~ TimesOut(task, task')
      BY <1>4, <2>7, ReplyByRpcMoves, MailboxMovesKeepInvariant
    <2> QED
      BY <1>4, <2>1, <2>2, <2>3, <2>4, <2>5, <2>6, <2>7
  <1>5. CASE UNCHANGED vars
    <2>1. /\ UNCHANGED <<phase, task, mailbox, exchange, call, now, interrupts,
                         continued, unheard>>
      BY <1>5 DEF vars, clock
    <2>2. Quiet /\ ~ TimesOut(task, task')
      BY <1>0, <2>1, NothingSaved DEF TypeOK, Quiet, CallKept, CallRecords
    <2> QED
      BY <2>2, QuietKeepsInvariant
  <1>6. CASE ThreadIsFree /\ Event
    BY <1>1, <1>3, <1>4, <1>6 DEF Event, GoesOnFromAwait, QuietEvent, RunEvent
  <1> QED
    BY <1>1, <1>2, <1>5, <1>6 DEF Next, QuietEvent

-----------------------------------------------------------------------------
(* The invariant that the other theorems rest on: a call of                 *)
(* continueMailboxWait (newide-backend-service.ts:1463-1643) goes on with    *)
(* what it has read, and what that promises still holds when it commits.    *)
THEOREM InvariantHolds == Spec => []WaitInvariant
  <1>1. Init => WaitInvariant
    BY InitKeeps
  <1>2. WaitInvariant /\ [Next]_vars => WaitInvariant'
    BY NextKeeps
  <1> QED
    BY <1>1, <1>2, PTL DEF Spec

(* Every variable keeps its type, whatever a call finds when it goes on.    *)
THEOREM TypesHold == Spec => []TypeOK
  <1>1. WaitInvariant => TypeOK
    BY DEF WaitInvariant
  <1> QED
    BY <1>1, InvariantHolds, PTL

(* A wait is continued by one run at the most, on an answer that was         *)
(* committed before the deadline, for any number of overlapping calls.      *)
THEOREM WaitIsContinuedOnce == Spec => []ContinuedOnce
  <1>1. WaitInvariant => ContinuedOnce
    BY DEF WaitInvariant, ContinuedOnce, ContinuedIsOver, AnsweredInTime
  <1> QED
    BY <1>1, InvariantHolds, PTL

(* No Task fails by a deadline while each of its requests was answered, or   *)
(* is still in time, except over a second reply.                            *)
THEOREM NoUndueTimeout == Spec => TimeoutIsDue
  <1>1. WaitInvariant /\ [Next]_vars =>
            [task'.error = "mailbox_timeout" /\ task.error # "mailbox_timeout" =>
                 \E d \in Deliveries : Overdue(d)]_vars
    BY NextKeeps DEF TimesOut
  <1> QED
    BY <1>1, InvariantHolds, PTL DEF Spec, TimeoutIsDue

-----------------------------------------------------------------------------
(* Each ask as an exchange.                                                 *)

ExchangesStay == \A d \in Deliveries : UNCHANGED Exchange(d)!vars

LEMMA UnchangedExchanges ==
    ASSUME TypeOK, UNCHANGED late,
           \A d \in Deliveries : box'[d] = "none" <=> box[d] = "none",
           \A d \in Deliveries : inbox'[d].reply = inbox[d].reply
    PROVE  ExchangesStay
  BY DEF ExchangesStay, Exchange!vars

(* Between the ask and the answer nothing happens to an exchange.           *)
LEMMA OtherStepsStay ==
    ASSUME WaitInvariant, [Next]_vars,
           ~ \E c \in Calls : AcceptReply(c), ~ \E d \in Deliveries : Ask(d)
    PROVE  ExchangesStay
  <1>1. TypeOK /\ box \in [Deliveries -> BoxStatuses] /\ inbox \in [Deliveries -> Rows]
    BY DEF WaitInvariant, TypeOK
  <1>2. ASSUME UNCHANGED <<box, inbox, late>>
        PROVE  ExchangesStay
    BY <1>1, <1>2, UnchangedExchanges
  <1>3. ASSUME NEW c, MailboxMoves(c)
        PROVE  ExchangesStay
    <2>1. /\ UNCHANGED <<inbox, late>>
          /\ \A d \in Deliveries : box'[d] = "none" <=> box[d] = "none"
      BY <1>3 DEF MailboxMoves, BoxKept
    <2> QED
      BY <1>1, <2>1, UnchangedExchanges
  <1>4. ASSUME NEW c \in Calls, FindOverdue(c) \/ AbortTurn(c)
        PROVE  ExchangesStay
    <2>1. /\ UNCHANGED <<inbox, late>>
          /\ \/ UNCHANGED box
             \/ \E d : box[d] \in Open /\ box' = [box EXCEPT ![d] = "failed"]
      BY <1>4 DEF FindOverdue, AbortTurn, exchange
    <2>2. \A d \in Deliveries : box'[d] = "none" <=> box[d] = "none"
      BY <1>1, <2>1 DEF Open
    <2> QED
      BY <1>1, <2>1, <2>2, UnchangedExchanges
  <1>5. ASSUME NEW c \in Calls, BeginAsk(c)
        PROVE  ExchangesStay
    <2> DEFINE d == task.waitOn
               row == inbox[d]
               old == IF row.status = "absent" THEN ReceivedInbox(d) ELSE row
               claim == ClaimedInbox(old, Owner, LeaseUntil(d))
    <2>1. Waits(c) /\ UNCHANGED <<box, late>>
      BY <1>5 DEF BeginAsk, mailbox
    <2>2. d \in Deliveries
      BY <2>1, WaitingIsQuiet
    <2>3. LeaseUntil(d) \in Nat /\ now \in Nat
      BY <1>1, <2>2, LeaseUntilDeadline DEF TypeOK
    <2>4. \/ UNCHANGED inbox
          \/ inbox' = [inbox EXCEPT ![d] = row]
          \/ row.status # "complete" /\ inbox' = [inbox EXCEPT ![d] = claim]
      <3>1. LeaseUntil(d) > now \/ LeaseUntil(d) <= now
        BY <2>3
      <3>2. CASE row.status = "complete"
        <4>1. Admits(c, d, row, FALSE)
          BY <1>5, <3>2 DEF BeginAsk
        <4> QED
          BY <4>1 DEF Admits
      <3>3. CASE row.status # "complete" /\ LeaseUntil(d) <= now
        <4>1. ~ (LeaseUntil(d) > now)
          BY <2>3, <3>3
        <4> QED
          BY <1>5, <3>3, <4>1 DEF BeginAsk
      <3>4. CASE row.status # "complete" /\ LeaseUntil(d) > now
        <4>1. ~ (LeaseUntil(d) <= now)
          BY <2>3, <3>4
        <4> HIDE DEF claim
        <4>2. Admits(c, d, claim, TRUE) \/ Admits(c, d, row, FALSE)
          BY <1>5, <3>4, <4>1 DEF BeginAsk, claim
        <4> QED
          BY <3>4, <4>2 DEF Admits
      <3> QED
        BY <3>1, <3>2, <3>3, <3>4
    <2>5. row.status # "complete" => claim.reply = row.reply
      <3>1. row \in Rows
        BY <1>1, <2>2
      <3>2. row.status # "complete" => row.reply = None
        BY <2>2 DEF WaitInvariant, AnsweredInTime
      <3>3. ReceivedInbox(d) \in Rows /\ ReceivedInbox(d).reply = None
        BY <2>2, EmptyRowShape DEF Rows, ReceivedInbox, NoInboxRow
      <3>4. old \in Rows /\ (row.status # "complete" => old.reply = row.reply)
        BY <3>1, <3>2, <3>3
      <3> HIDE DEF old
      <3>5. old = [status |-> old.status, frame |-> old.frame, lease |-> old.lease,
                   reply |-> old.reply, settledAt |-> old.settledAt,
                   revision |-> old.revision]
        BY <3>4, InboxColumns DEF Rows
      <3>6. claim.reply = old.reply
        BY <3>5 DEF ClaimedInbox
      <3> QED
        BY <3>4, <3>6
    <2> HIDE DEF claim, old
    <2>6. \A e \in Deliveries : inbox'[e].reply = inbox[e].reply
      BY <1>1, <2>2, <2>4, <2>5
    <2> QED
      BY <1>1, <2>1, <2>6, UnchangedExchanges
  <1>6. CASE QuietEvent
    <2>1. Quiet
      BY <1>1, <1>6, QuietEvents
    <2> QED
      BY <1>2, <2>1 DEF Quiet, mailbox, exchange
  <1>7. ASSUME NEW c \in Calls, StartRun(c) \/ ExpireWait(c)
        PROVE  ExchangesStay
    BY <1>2, <1>7 DEF StartRun, ExpireWait, mailbox, exchange
  <1>8. ASSUME ThreadIsFree, NEW d \in Deliveries, Acknowledge(d)
        PROVE  ExchangesStay
    BY <1>3, <1>8, AcknowledgeMoves
  <1>9. ASSUME ThreadIsFree, NEW c \in Calls,
               \/ Provisioned(c) \/ EndTurn(c) \/ ReplyInTurn(c)
               \/ \E d \in Deliveries : ReplyByRpc(c, d)
        PROVE  ExchangesStay
    <2>1. MailboxMoves(c)
      BY <1>9, ProvisionedMoves, EndTurnMoves, ReplyInTurnMoves, ReplyByRpcMoves
    <2> QED
      BY <1>3, <2>1
  <1>10. CASE UNCHANGED vars
    BY <1>2, <1>10 DEF vars, mailbox, exchange
  <1>11. CASE ThreadIsFree /\ Event
    BY <1>4, <1>5, <1>6, <1>8, <1>9, <1>11 DEF Event, GoesOnFromAwait, QuietEvent, RunEvent
  <1> QED
    BY <1>6, <1>7, <1>10, <1>11 DEF Next, QuietEvent, GoesOnCommitting

ExchangeSteps == \A d \in Deliveries : Exchange(d)!Next \/ UNCHANGED Exchange(d)!vars

LEMMA AskIsExchanged ==
    ASSUME WaitInvariant, NEW d \in Deliveries, Ask(d)
    PROVE  ExchangeSteps
  <1>1. /\ box \in [Deliveries -> BoxStatuses] /\ box[d] = "none"
        /\ box' = [box EXCEPT ![d] = "pending"] /\ UNCHANGED <<inbox, late>>
    BY DEF WaitInvariant, TypeOK, Ask, exchange
  <1>2. box'[d] = "pending" /\ \A e \in Deliveries \ {d} : box'[e] = box[e]
    BY <1>1
  <1>3. Exchange(d)!Ask
    BY <1>1, <1>2 DEF Exchange!Ask
  <1>4. \A e \in Deliveries \ {d} : UNCHANGED Exchange(e)!vars
    BY <1>1, <1>2 DEF Exchange!vars
  <1> QED
    BY <1>3, <1>4 DEF ExchangeSteps, Exchange!Next

LEMMA ReplyIsExchanged ==
    ASSUME WaitInvariant, NEW c \in Calls, AcceptReply(c),
           NEW d, d = On(c), NEW r, r = call[c].reply
    PROVE  ExchangeSteps
  <1> DEFINE recorded == {q \in Replies : inbox[d].reply = q \/ <<d, q>> \in late}
  <1>1. /\ inbox \in [Deliveries -> Rows] /\ now \in Nat
        /\ call[c].step = "replying" /\ UNCHANGED box
    BY DEF WaitInvariant, TypeOK, AcceptReply, mailbox
  <1>2. /\ d \in Deliveries /\ box[d] # "none" /\ r \in Replies /\ deadline[d] \in Nat
    BY <1>1, TurnKnowsRequest DEF WaitInvariant, TypeOK, CallKnowsRequest
  <1>3. ASSUME UNCHANGED <<inbox, late>>
        PROVE  ExchangeSteps
    BY <1>1, <1>3 DEF ExchangeSteps, Exchange!vars
  <1>4. CASE \/ Classify(c) = "duplicate"
             \/ Classify(c) = "accepted" /\ ~ Holds(c)
             \/ Classify(c) = "late" /\ IsOnRecord(c)
    BY <1>3, <1>4 DEF AcceptReply, exchange
  <1>5. CASE Classify(c) = "late" /\ ~ IsOnRecord(c)
    <2>1. late' = late \cup {<<d, r>>} /\ UNCHANGED inbox
      BY <1>5 DEF AcceptReply, RecordLate
    <2>2. \A e \in Deliveries \ {d} : UNCHANGED Exchange(e)!vars
      BY <1>1, <2>1 DEF Exchange!vars
    <2>3. inbox[d].reply # r
      BY <1>2, <1>5, Numbers DEF Classify, WaitInvariant, AnsweredInTime
    <2>4. r \notin recorded
      BY <1>5, <2>3 DEF IsOnRecord
    <2>5. {q \in Replies : inbox'[d].reply = q \/ <<d, q>> \in late'} = recorded \cup {r}
      BY <1>2, <2>1
    <2>6. Exchange(d)!RecordLate(r)
      BY <1>1, <1>2, <2>1, <2>4, <2>5 DEF Exchange!RecordLate
    <2> QED
      BY <1>2, <2>2, <2>6 DEF ExchangeSteps, Exchange!Next
  <1>6. CASE Classify(c) = "accepted" /\ Holds(c)
    <2>1. inbox' = [inbox EXCEPT ![d] = CompletedInbox(inbox[d], r, now)] /\ UNCHANGED late
      BY <1>6 DEF AcceptReply, Accept
    <2>2. /\ inbox'[d].reply = r
          /\ \A e \in Deliveries \ {d} : inbox'[e] = inbox[e]
      <3>1. CompletedInbox(inbox[d], r, now).reply = r
        BY <1>1, <1>2, RowSteps
      <3> QED
        BY <1>1, <1>2, <2>1, <3>1
    <2>3. \A e \in Deliveries \ {d} : UNCHANGED Exchange(e)!vars
      BY <1>1, <2>1, <2>2 DEF Exchange!vars
    <2>4. /\ inbox[d].status # "complete" /\ inbox[d].reply = None
          /\ ~ (now > deadline[d])
      BY <1>2, <1>6 DEF Classify, WaitInvariant, AnsweredInTime
    <2>5. <<d, r>> \notin late
      BY <1>1, <1>2, <2>4 DEF WaitInvariant, LateIsOver
    <2>6. r \notin recorded
      BY <1>2, <2>4, <2>5, Numbers
    <2>7. {q \in Replies : inbox'[d].reply = q \/ <<d, q>> \in late'} = recorded \cup {r}
      BY <1>2, <2>1, <2>2, <2>4, Numbers
    <2>8. Exchange(d)!Answer(r)
      BY <1>1, <1>2, <2>2, <2>4, <2>6, <2>7 DEF Exchange!Answer
    <2> QED
      BY <1>2, <2>3, <2>8 DEF ExchangeSteps, Exchange!Next
  <1> QED
    BY <1>4, <1>5, <1>6 DEF Classify

(* Every ask is an exchange with one answer, for any number of calls and     *)
(* replies: only the ask itself and acceptReply make a step of it.          *)
THEOREM EachAskIsAnExchange == Spec => ImplementsExchanges
  <1>1. Init => \A d \in Deliveries : Exchange(d)!Init
    <2> SUFFICES ASSUME Init, NEW d \in Deliveries
                 PROVE  Exchange(d)!Init
      OBVIOUS
    <2>1. box[d] = "none" /\ inbox[d].reply = None /\ late = {}
      BY DEF Init, NoInboxRow
    <2> QED
      BY <2>1, Numbers DEF Exchange!Init
  <1>2. WaitInvariant /\ [Next]_vars => ExchangeSteps
    <2> SUFFICES ASSUME WaitInvariant, [Next]_vars
                 PROVE  ExchangeSteps
      OBVIOUS
    <2>1. CASE \E c \in Calls : AcceptReply(c)
      BY <2>1, ReplyIsExchanged
    <2>2. CASE \E d \in Deliveries : Ask(d)
      BY <2>2, AskIsExchanged
    <2>3. CASE ~ (\E c \in Calls : AcceptReply(c)) /\ ~ (\E d \in Deliveries : Ask(d))
      BY <2>3, OtherStepsStay DEF ExchangesStay, ExchangeSteps
    <2> QED
      BY <2>1, <2>2, <2>3
  <1>3. WaitInvariant /\ [Next]_vars =>
            [\A d \in Deliveries :
                 Exchange(d)!Next \/ UNCHANGED Exchange(d)!vars]_vars
    BY <1>2 DEF ExchangeSteps
  <1> QED
    BY <1>1, <1>3, InvariantHolds, PTL DEF Spec, ImplementsExchanges

=============================================================================
