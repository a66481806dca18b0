---------------------------- MODULE SapTaskBridge ----------------------------
(***************************************************************************)
(* One agent.execute exchange between the System and an Agent, as            *)
(* SapTaskBridge (src/coordination/sap-task-bridge.ts) keeps it in the        *)
(* protocol store: dispatch, admission under a lease, result, cancel, late   *)
(* result.  Each public method is one transaction of several store           *)
(* operations and here one action.  A transaction that throws rolls back and *)
(* is not a step.  Left out: the Task state committed along with a dispatch, *)
(* a result or a cancel, which TaskProcessor models.                         *)
(***************************************************************************)
EXTENDS DeliveryRows

CONSTANTS
    Execute,        \* the exchange id of the command
    Cancel,         \* the exchange id of its cancel
    Results,        \* exchange ids of results
    Executors,      \* calls of beginExecute, over restarts and re-deliveries
    LeaseDuration,  \* lease_duration_ms
    Deadline,       \* deadline_at of the command, inherited by its results
    MaxTime         \* bound on the clock

ASSUME DistinctExchanges ==
    /\ Execute # Cancel
    /\ Results \cap {Execute, Cancel} = {}
    /\ None \notin Results \cup {Execute, Cancel}

ASSUME DurationsArePositive ==
    LeaseDuration \in Nat \ {0} /\ Deadline \in Nat \ {0, 1}

VARIABLES
    outbox,     \* the command, its cancel and the results
    inbox,      \* the Agent's row of the command, the System's of results
    admission,  \* what beginExecute returned to each executor
    frame,      \* the result frame each executor last created
    now

vars == <<outbox, inbox, admission, frame, now>>

(* Every executor of an exchange names the same lease owner.                *)
AgentOwner == "sap-agent"
SystemOwner == "sap-system"
BridgeOwners == {AgentOwner, SystemOwner}

Frame(r, t) == [id |-> r, at |-> t]
ResultFrames == [id : Results, at : Nat]

NotAsked == [granted |-> FALSE, rev |-> 0, until |-> 0]
Refused(rev) == [granted |-> FALSE, rev |-> rev, until |-> 0]
Granted(row) == [granted |-> TRUE, rev |-> row.revision,
                 until |-> row.lease.until]
Admissions == [granted : BOOLEAN, rev : Nat, until : Nat]

Exists(row) == row.status # "absent"

Cancelled == Exists(outbox[Cancel])

LeaseUntilUnbounded(t) == t + LeaseDuration

(* minTimestamp(now + lease, deadline): a lease ends before the deadline.   *)
LeaseUntil(t) ==
    IF t + LeaseDuration <= Deadline THEN t + LeaseDuration ELSE Deadline

Init ==
    /\ outbox = [x \in {Execute, Cancel} \cup Results |-> NoOutboxRow]
    /\ inbox = [x \in {Execute} \cup Results |-> NoInboxRow]
    /\ admission = [e \in Executors |-> NotAsked]
    /\ frame = [e \in Executors |-> None]
    /\ now = 1

-----------------------------------------------------------------------------

(* persistExecute, commitDispatch.  A row that exists is returned as it is. *)
PersistExecute ==
    /\ ~ Exists(outbox[Execute])
    /\ outbox' = [outbox EXCEPT ![Execute] = EnqueuedOutbox("pending", now)]
    /\ UNCHANGED <<inbox, admission, frame, now>>

SettledWhenComplete == inbox[Execute].status = "complete"

(* Rows beginExecute never claims again.                                    *)
SettledForExecutors ==
    \/ inbox[Execute].status = "complete"
    \/ Exists(inbox[Execute]) /\ Cancelled

(* The row is complete or cancelled: nothing is written.                    *)
BeginSettled(e) ==
    /\ SettledForExecutors
    /\ admission' = [admission EXCEPT ![e] = Refused(inbox[Execute].revision)]
    /\ UNCHANGED <<outbox, inbox>>

(* Another executor was admitted before: its lease may be over.             *)
BeginReclaim(e) ==
    /\ Exists(inbox[Execute])
    /\ ~ SettledForExecutors
    /\ LeaseUntil(now) > now
    /\ UNCHANGED outbox
    /\ IF CanClaimInbox(inbox[Execute], now)
       THEN /\ inbox' = [inbox EXCEPT ![Execute] =
                             ClaimedInbox(@, AgentOwner, LeaseUntil(now))]
            /\ admission' = [admission EXCEPT ![e] = Granted(inbox'[Execute])]
       ELSE /\ admission' = [admission EXCEPT ![e] =
                                 Refused(inbox[Execute].revision)]
            /\ UNCHANGED inbox

(* The first executor: the command is claimed, received, claimed by the     *)
(* Agent and marked sent.  Nobody else claims the command of a bridge, so   *)
(* the branch for a claim that fails here is never taken.                   *)
BeginFirst(e) ==
    /\ ~ Exists(inbox[Execute])
    /\ LeaseUntil(now) > now
    /\ CanClaimOutbox(outbox[Execute], now)
    /\ outbox' = [outbox EXCEPT ![Execute] =
                      ReleasedOutbox(
                          ClaimedOutbox(@, AgentOwner, LeaseUntil(now)),
                          "sent", @.due, 0)]
    /\ inbox' = [inbox EXCEPT ![Execute] =
                     ClaimedInbox(ReceivedInbox(Execute), AgentOwner,
                                  LeaseUntil(now))]
    /\ admission' = [admission EXCEPT ![e] = Granted(inbox'[Execute])]

BeginExecute(e) ==
    /\ admission[e] = NotAsked
    /\ Exists(outbox[Execute])
    /\ BeginSettled(e) \/ BeginReclaim(e) \/ BeginFirst(e)
    /\ UNCHANGED <<frame, now>>

(* An admitted executor finishes some time later.  A caller may choose the  *)
(* same result id as another one, and may create more than one result.      *)
CreateResult(e, r) ==
    /\ admission[e].granted
    /\ frame' = [frame EXCEPT ![e] = Frame(r, now)]
    /\ UNCHANGED <<outbox, inbox, admission, now>>

ClassifyIgnoringCancel(e) ==
    IF inbox[Execute].status = "complete"
    THEN IF inbox[Execute].reply = frame[e].id THEN "duplicate" ELSE "late"
    ELSE IF frame[e].at > Deadline THEN "late" ELSE "accepted"

Classify(e) ==
    IF inbox[Execute].status = "complete"
    THEN IF inbox[Execute].reply = frame[e].id THEN "duplicate" ELSE "late"
    ELSE IF Cancelled \/ frame[e].at > Deadline THEN "late" ELSE "accepted"

(* A result row that went through enqueueOutbox, claimOutbox and            *)
(* markOutboxSent in one transaction, and its row in the System's inbox     *)
(* after receiveInbox, claimInbox and completeInbox.                        *)
SentResult(f, until) ==
    ReleasedOutbox(ClaimedOutbox(EnqueuedOutbox("pending", f.at), SystemOwner,
                                 until), "sent", f.at, 0)

ProcessedResult(f, until) ==
    CompletedInbox(ClaimedInbox(ReceivedInbox(f), SystemOwner, until),
                   None, f.at)

CanCompleteExecuteNow(e) ==
    HoldsInbox(inbox[Execute], AgentOwner, admission[e].rev, now)

CanCompleteExecute(e) ==
    HoldsInbox(inbox[Execute], AgentOwner, admission[e].rev, frame[e].at)

(* deliverResultToSystem: the System's row is new, so the receipt also      *)
(* completes the command's outbox row.                                      *)
DeliverResult(f, until) ==
    /\ ~ Exists(inbox[f.id])
    /\ outbox' = [outbox EXCEPT
                      ![f.id] = IF Exists(@) THEN @ ELSE SentResult(f, until),
                      ![Execute] = SettledByReceipt(@, f.at)]

(* What the transaction of an accepted result needs to commit: the lease    *)
(* and its revision, compared with created_at and not with the time of the  *)
(* call, and a result id that no row bears yet.                             *)
CanAcceptResult(e) ==
    /\ frame[e] # None
    /\ Classify(e) = "accepted"
    /\ CanCompleteExecute(e)
    /\ ~ Exists(outbox[frame[e].id])
    /\ ~ Exists(inbox[frame[e].id])

(* commitResult, and acceptResult of an accepted result.                    *)
AcceptResult(e) ==
    /\ CanAcceptResult(e)
    /\ DeliverResult(frame[e], LeaseUntil(frame[e].at))
    /\ inbox' = [inbox EXCEPT
                     ![Execute] = CompletedInbox(@, frame[e].id, frame[e].at),
                     ![frame[e].id] = ProcessedResult(frame[e],
                                          LeaseUntil(frame[e].at))]
    /\ UNCHANGED <<admission, frame, now>>

(* acceptResult and recordLateResult of a late one.  A late frame that is   *)
(* on record already changes nothing.                                       *)
RecordLateResult(e) ==
    /\ frame[e] # None
    /\ Classify(e) = "late"
    /\ DeliverResult(frame[e], frame[e].at + LeaseDuration)
    /\ inbox' = [inbox EXCEPT
                     ![frame[e].id] = ProcessedResult(frame[e],
                                          frame[e].at + LeaseDuration)]
    /\ UNCHANGED <<admission, frame, now>>

(* enqueueCancel, commitCancel.  Nobody consumes the cancel.                *)
EnqueueCancel ==
    /\ Exists(outbox[Execute])
    /\ ~ Cancelled
    /\ outbox' = [outbox EXCEPT ![Cancel] = EnqueuedOutbox("pending", now)]
    /\ UNCHANGED <<inbox, admission, frame, now>>

Tick ==
    /\ now < MaxTime
    /\ now' = now + 1
    /\ UNCHANGED <<outbox, inbox, admission, frame>>

Next ==
    \/ PersistExecute
    \/ EnqueueCancel
    \/ \E e \in Executors :
        \/ BeginExecute(e)
        \/ \E r \in Results : CreateResult(e, r)
        \/ AcceptResult(e)
        \/ RecordLateResult(e)
    \/ Tick

Spec == Init /\ [][Next]_vars

-----------------------------------------------------------------------------
(***************************************************************************)
(* Properties                                                               *)
(***************************************************************************)

TypeOK ==
    /\ outbox \in [{Execute, Cancel} \cup Results -> OutboxRows(BridgeOwners)]
    /\ inbox \in [{Execute} \cup Results ->
                      InboxRows(BridgeOwners, {Execute} \cup ResultFrames,
                                Results)]
    /\ admission \in [Executors -> Admissions]
    /\ frame \in [Executors -> ResultFrames \cup {None}]
    /\ now \in Nat

(* All executors share one lease owner; still the store would take a result *)
(* from at most one of them, whenever it was created.                       *)
OneLiveAdmission ==
    \A e, f \in Executors :
        /\ e # f
        /\ admission[e].granted /\ admission[e].rev = inbox[Execute].revision
        => ~ (/\ admission[f].granted
              /\ admission[f].rev = inbox[Execute].revision)

(* Two executors never work on one command at once while both believe in    *)
(* their lease: a second one is admitted only after the first lease ended.  *)
LeasesDoNotOverlap ==
    \A e, f \in Executors :
        /\ e # f
        /\ admission[e].granted
        /\ admission[f].granted
        => admission[e].until <= now \/ admission[f].until <= now

(* The answer the Task acts on was created before the deadline and is on    *)
(* record on the System's side with the very frame, also when another       *)
(* executor used the same result id; the command is then settled, and no    *)
(* longer open for delivery.                                                *)
AnswerIsDelivered ==
    inbox[Execute].status = "complete" =>
        LET answer == inbox[Execute].reply
        IN  /\ inbox[Execute].settledAt < Deadline
            /\ answer \in Results
            /\ inbox[answer].frame = Frame(answer, inbox[Execute].settledAt)
            /\ outbox[answer].status = "sent"
            /\ outbox[Execute].status = "complete"

(* A cancelled command that was admitted is never claimed, never completed: *)
(* its inbox row is kept as it was for the audit.                           *)
CancelIsTerminal ==
    [][Cancelled /\ Exists(inbox[Execute])
           => inbox'[Execute] = inbox[Execute]]_vars

(* A result of another executor, created after the deadline under the same  *)
(* id, is on record.                                                        *)
OvertakenByLateResult(e) ==
    /\ Exists(inbox[frame[e].id])
    /\ inbox[frame[e].id].frame.at > Deadline

(* Work done in time by the last executor to be admitted can be committed,  *)
(* however late its result comes in, until the command is answered or       *)
(* cancelled: the transaction of acceptResult succeeds.  Nothing but a      *)
(* result of another executor that was created after the deadline under the *)
(* same id, and recorded as late before, takes its id for good.             *)
ResultInLeaseIsKept ==
    \A e \in Executors :
        /\ frame[e] # None
        /\ Classify(e) = "accepted"
        /\ frame[e].at < admission[e].until
        /\ \A f \in Executors \ {e} :
               admission[f].granted => admission[f].rev < admission[e].rev
        => CanAcceptResult(e) \/ OvertakenByLateResult(e)

(* The exchange as the System sees it.                                      *)
Exchange ==
    INSTANCE ExchangeAnswer WITH
        asked     <- Exists(outbox[Execute]),
        cancelled <- Cancelled,
        answer    <- inbox[Execute].reply,
        recorded  <- {r \in Results : inbox[r].status = "complete"}

(* At most one answer, none after a cancel, late results only on record.    *)
ImplementsExchangeAnswer == Exchange!Spec

-----------------------------------------------------------------------------
(* A statement of the code that its behaviour does not bear out: an         *)
(* accepted receipt is persisted.  The lease of a result created after it   *)
(* ended, though long before the deadline, is nobody else's and still lost. *)
AcceptedResultIsPersisted ==
    \A e \in Executors :
        (/\ frame[e] # None
         /\ Classify(e) = "accepted"
         /\ \A f \in Executors \ {e} : ~ admission[f].granted)
        => CanAcceptResult(e)

=============================================================================
