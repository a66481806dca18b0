------------------------- MODULE SapTaskBridgeProofs -------------------------
(***************************************************************************)
(* Proofs about SapTaskBridge, for every number of executors and results,   *)
(* every lease and every deadline.                                          *)
(***************************************************************************)
EXTENDS SapTaskBridge, DeliveryRowsLemmas

BridgeInboxRows ==
    InboxRows(BridgeOwners, {Execute} \cup ResultFrames, Results)

LEMMA BridgeTypes ==
    ASSUME TypeOK
    PROVE  /\ outbox \in [{Execute, Cancel} \cup Results ->
                              OutboxRows(BridgeOwners)]
           /\ inbox \in [{Execute} \cup Results -> BridgeInboxRows]
           /\ admission \in [Executors -> Admissions]
           /\ frame \in [Executors -> ResultFrames \cup {None}]
           /\ now \in Nat
           /\ outbox[Execute] \in OutboxRows(BridgeOwners)
           /\ inbox[Execute] \in BridgeInboxRows
           /\ Execute # Cancel /\ Execute \notin Results /\ Cancel \notin Results
           /\ None \notin Results
BY DistinctExchanges DEF TypeOK, BridgeInboxRows

(* A lease granted now ends by the deadline.                                *)
LEMMA LeaseEnds ==
    ASSUME NEW t \in Nat
    PROVE  /\ LeaseUntil(t) \in Nat
           /\ LeaseUntil(t) <= Deadline
           /\ t + LeaseDuration \in Nat
           /\ Deadline \in Nat
BY DurationsArePositive DEF LeaseUntil

-----------------------------------------------------------------------------
(* Type correctness.                                                        *)

(* The rows a result leaves on both sides are well formed.                  *)
LEMMA ResultRows ==
    ASSUME NEW f \in ResultFrames, NEW until \in Nat
    PROVE  /\ SentResult(f, until) \in OutboxRows(BridgeOwners)
           /\ ProcessedResult(f, until) \in BridgeInboxRows
<1>1. f.at \in Nat /\ SystemOwner \in BridgeOwners
  BY DEF ResultFrames, BridgeOwners
<1>2. SentResult(f, until) \in OutboxRows(BridgeOwners)
  <2>1. EnqueuedOutbox("pending", f.at) \in OutboxRows(BridgeOwners)
    BY <1>1, EmptyRowShape DEF OutboxStatuses
  <2>2. ClaimedOutbox(EnqueuedOutbox("pending", f.at), SystemOwner, until)
            \in OutboxRows(BridgeOwners)
    BY <1>1, <2>1, OutboxRowShape DEF OutboxStatuses
  <2>3. QED
    BY <1>1, <2>2, OutboxRowShape DEF SentResult, OutboxStatuses
<1>3. ProcessedResult(f, until) \in BridgeInboxRows
  <2>1. ReceivedInbox(f) \in BridgeInboxRows
    BY EmptyRowShape DEF BridgeInboxRows
  <2>2. ClaimedInbox(ReceivedInbox(f), SystemOwner, until) \in BridgeInboxRows
    BY <1>1, <2>1, InboxRowShape DEF BridgeInboxRows
  <2>3. QED
    BY <1>1, <2>2, InboxRowShape DEF BridgeInboxRows, ProcessedResult
<1>4. QED BY <1>2, <1>3

LEMMA DeliverResultTypes ==
    ASSUME TypeOK, NEW f \in ResultFrames, NEW until \in Nat,
           DeliverResult(f, until)
    PROVE  outbox' \in [{Execute, Cancel} \cup Results ->
                            OutboxRows(BridgeOwners)]
<1>1. /\ f.at \in Nat /\ f.id \in Results
  BY DEF ResultFrames
<1>2. SentResult(f, until) \in OutboxRows(BridgeOwners)
  BY ResultRows
<1>3. SettledByReceipt(outbox[Execute], f.at) \in OutboxRows(BridgeOwners)
  BY <1>1, BridgeTypes, StoreRowShape
<1>4. QED BY <1>1, <1>2, <1>3, BridgeTypes DEF DeliverResult

LEMMA DeliverResultLeaves ==
    ASSUME TypeOK, NEW f, NEW until, DeliverResult(f, until)
    PROVE  \A x \in {Cancel} \cup Results :
               x # f.id => outbox'[x] = outbox[x]
BY BridgeTypes DEF DeliverResult

LEMMA BeginTypes ==
    ASSUME TypeOK, NEW e \in Executors, BeginExecute(e)
    PROVE  TypeOK'
<1>1. /\ now \in Nat /\ LeaseUntil(now) \in Nat
      /\ AgentOwner \in BridgeOwners
      /\ inbox[Execute].revision \in Nat
  BY BridgeTypes, LeaseEnds, InboxColumns DEF BridgeOwners, BridgeInboxRows
<1>2. \A row \in BridgeInboxRows : Granted(row) \in Admissions
                                       \/ row.lease.until \notin Nat
  BY InboxColumns DEF Granted, Admissions, BridgeInboxRows
<1>3. Refused(inbox[Execute].revision) \in Admissions
  BY <1>1 DEF Refused, Admissions
<1>4. CASE BeginSettled(e)
  BY <1>3, <1>4 DEF BeginSettled, BeginExecute, TypeOK
<1>5. CASE BeginReclaim(e)
  <2>1. CASE CanClaimInbox(inbox[Execute], now)
    <3>1. ClaimedInbox(inbox[Execute], AgentOwner, LeaseUntil(now))
              \in BridgeInboxRows
      BY <1>1, BridgeTypes, InboxRowShape DEF BridgeInboxRows
    <3>2. inbox' = [inbox EXCEPT ![Execute] =
                        ClaimedInbox(inbox[Execute], AgentOwner,
                                     LeaseUntil(now))]
      BY <1>5, <2>1 DEF BeginReclaim
    <3>3. /\ inbox' \in [{Execute} \cup Results -> BridgeInboxRows]
          /\ inbox'[Execute].lease.until = LeaseUntil(now)
      BY <3>1, <3>2, BridgeTypes
         DEF ClaimedInbox, Lease, BridgeInboxRows, InboxRows
    <3>4. Granted(inbox'[Execute]) \in Admissions
      BY <1>1, <1>2, <3>3
    <3>5. QED
      BY <1>5, <2>1, <3>3, <3>4
         DEF BeginReclaim, BeginExecute, TypeOK, BridgeInboxRows
  <2>2. CASE ~ CanClaimInbox(inbox[Execute], now)
    BY <1>3, <1>5, <2>2 DEF BeginReclaim, BeginExecute, TypeOK
  <2>3. QED BY <2>1, <2>2
<1>6. CASE BeginFirst(e)
  <2>1. /\ ReceivedInbox(Execute) \in BridgeInboxRows
        /\ ClaimedInbox(ReceivedInbox(Execute), AgentOwner, LeaseUntil(now))
               \in BridgeInboxRows
    BY <1>1, EmptyRowShape, InboxRowShape DEF BridgeInboxRows
  <2>2. inbox' = [inbox EXCEPT ![Execute] =
                      ClaimedInbox(ReceivedInbox(Execute), AgentOwner,
                                   LeaseUntil(now))]
    BY <1>6 DEF BeginFirst
  <2>3. /\ inbox' \in [{Execute} \cup Results -> BridgeInboxRows]
        /\ inbox'[Execute].lease.until = LeaseUntil(now)
    BY <2>1, <2>2, BridgeTypes
       DEF ClaimedInbox, Lease, BridgeInboxRows, InboxRows
  <2>4. Granted(inbox'[Execute]) \in Admissions
    BY <1>1, <1>2, <2>3
  <2>5. outbox' \in [{Execute, Cancel} \cup Results ->
                         OutboxRows(BridgeOwners)]
    <3>1. ClaimedOutbox(outbox[Execute], AgentOwner, LeaseUntil(now))
              \in OutboxRows(BridgeOwners)
      BY <1>1, BridgeTypes, OutboxRowShape DEF OutboxStatuses
    <3>2. outbox[Execute].due \in Nat
      BY BridgeTypes, OutboxColumns
    <3>3. ReleasedOutbox(ClaimedOutbox(outbox[Execute], AgentOwner,
                                       LeaseUntil(now)),
                         "sent", outbox[Execute].due, 0)
              \in OutboxRows(BridgeOwners)
      BY <1>1, <3>1, <3>2, OutboxRowShape DEF OutboxStatuses
    <3>4. QED BY <1>6, <3>3, BridgeTypes DEF BeginFirst
  <2>6. QED
    BY <1>6, <2>3, <2>4, <2>5
       DEF BeginFirst, BeginExecute, TypeOK, BridgeInboxRows
<1>7. QED BY <1>4, <1>5, <1>6 DEF BeginExecute

LEMMA ResultTypes ==
    ASSUME TypeOK, NEW e \in Executors, AcceptResult(e) \/ RecordLateResult(e)
    PROVE  TypeOK'
<1>1. /\ frame[e] \in ResultFrames
      /\ frame[e].at \in Nat /\ frame[e].id \in Results
      /\ LeaseUntil(frame[e].at) \in Nat
      /\ frame[e].at + LeaseDuration \in Nat
  BY BridgeTypes, LeaseEnds
     DEF AcceptResult, CanAcceptResult, RecordLateResult, ResultFrames
<1>2. CASE AcceptResult(e)
  <2>1. CompletedInbox(inbox[Execute], frame[e].id, frame[e].at)
            \in BridgeInboxRows
    BY <1>1, BridgeTypes, InboxRowShape DEF BridgeInboxRows, BridgeOwners
  <2>2. ProcessedResult(frame[e], LeaseUntil(frame[e].at)) \in BridgeInboxRows
    BY <1>1, ResultRows
  <2>3. inbox' \in [{Execute} \cup Results -> BridgeInboxRows]
    BY <1>2, <2>1, <2>2, BridgeTypes DEF AcceptResult
  <2>4. QED
    BY <1>1, <1>2, <2>3, DeliverResultTypes
       DEF AcceptResult, TypeOK, BridgeInboxRows
<1>3. CASE RecordLateResult(e)
  <2>1. ProcessedResult(frame[e], frame[e].at + LeaseDuration)
            \in BridgeInboxRows
    BY <1>1, ResultRows
  <2>2. inbox' \in [{Execute} \cup Results -> BridgeInboxRows]
    BY <1>3, <2>1, BridgeTypes DEF RecordLateResult
  <2>3. QED
    BY <1>1, <1>3, <2>2, DeliverResultTypes
       DEF RecordLateResult, TypeOK, BridgeInboxRows
<1>4. QED BY <1>2, <1>3

LEMMA TypeStep ==
    ASSUME TypeOK, [Next]_vars
    PROVE  TypeOK'
<1>1. CASE UNCHANGED vars
  BY <1>1 DEF vars, TypeOK
<1>2. CASE PersistExecute \/ EnqueueCancel
  <2>1. EnqueuedOutbox("pending", now) \in OutboxRows(BridgeOwners)
    BY BridgeTypes, EmptyRowShape DEF OutboxStatuses
  <2>2. QED BY <1>2, <2>1 DEF PersistExecute, EnqueueCancel, TypeOK
<1>3. ASSUME NEW e \in Executors, NEW r \in Results, CreateResult(e, r)
      PROVE  TypeOK'
  <2>1. Frame(r, now) \in ResultFrames
    BY BridgeTypes DEF Frame, ResultFrames
  <2>2. QED BY <1>3, <2>1 DEF CreateResult, TypeOK
<1>4. CASE Tick
  <2>1. now' \in Nat
    BY <1>4, BridgeTypes DEF Tick
  <2>2. QED BY <1>4, <2>1 DEF Tick, TypeOK
<1>5. QED
  BY <1>1, <1>2, <1>3, <1>4, BeginTypes, ResultTypes DEF Next

LEMMA TypeInit == Init => TypeOK
<1>1. /\ NoOutboxRow \in OutboxRows(BridgeOwners)
      /\ NoInboxRow \in InboxRows(BridgeOwners, {Execute} \cup ResultFrames,
                                  Results)
  BY EmptyRowShape
<1>2. QED BY <1>1 DEF Init, TypeOK, NotAsked, Admissions

(* Rows, admissions and frames keep their types through every call.         *)
THEOREM TypeCorrect == Spec => []TypeOK
  BY TypeInit, TypeStep, PTL DEF Spec

-----------------------------------------------------------------------------
(* The inductive invariant.                                                 *)

(* The Agent's row and the command's row move together: a command is sent   *)
(* when it is admitted, and has a reply, which is on record, only when it   *)
(* is complete.                                                             *)
CommandRows ==
    /\ inbox[Execute].status # "received"
    /\ inbox[Execute].status # "complete" => inbox[Execute].reply = None
    /\ Exists(inbox[Execute]) => outbox[Execute].status \in {"sent", "complete"}
    /\ inbox[Execute].status = "processing"
           => inbox[Execute].lease.until <= Deadline
    /\ inbox[Execute].status = "complete"
           => Exists(inbox[inbox[Execute].reply])

(* An admission is a claim of the Agent's row, no two of the same revision, *)
(* none that outlasts the current lease.                                    *)
AdmissionsAreClaims ==
    /\ \A e \in Executors :
           admission[e].granted =>
               /\ Exists(inbox[Execute])
               /\ admission[e].rev <= inbox[Execute].revision
               /\ inbox[Execute].status = "processing"
                      => admission[e].until <= inbox[Execute].lease.until
    /\ \A e, f \in Executors :
           /\ e # f
           /\ admission[e].granted
           /\ admission[f].granted
           => admission[e].rev # admission[f].rev

FramesAreAdmitted ==
    \A e \in Executors : frame[e] # None => admission[e].granted

BridgeInvariant ==
    /\ TypeOK
    /\ CommandRows
    /\ AdmissionsAreClaims
    /\ FramesAreAdmitted
    /\ LeasesDoNotOverlap
    /\ AnswerIsDelivered

(* An admission: the Agent's row gets a lease that starts where every other *)
(* one has ended.                                                           *)
LEMMA AdmissionStep ==
    ASSUME BridgeInvariant, NEW e \in Executors, admission[e] = NotAsked,
           UNCHANGED now,
           inbox'[Execute].status = "processing",
           inbox'[Execute].revision \in Nat,
           inbox'[Execute].lease.until = LeaseUntil(now),
           \A f \in Executors : admission[f].granted =>
               /\ admission[f].until <= now
               /\ admission[f].rev < inbox'[Execute].revision,
           LeaseUntil(now) > now,
           admission' = [admission EXCEPT ![e] = Granted(inbox'[Execute])]
    PROVE  AdmissionsAreClaims' /\ LeasesDoNotOverlap'
<1>1. /\ now \in Nat /\ LeaseUntil(now) \in Nat
      /\ admission \in [Executors -> Admissions]
  BY BridgeTypes, LeaseEnds DEF BridgeInvariant
<1>2. /\ admission'[e].rev = inbox'[Execute].revision
      /\ admission'[e].until = LeaseUntil(now)
      /\ \A f \in Executors \ {e} :
             /\ admission'[f] = admission[f]
             /\ admission[f].rev \in Nat /\ admission[f].until \in Nat
  BY <1>1 DEF Granted, Admissions
<1>3. AdmissionsAreClaims'
  <2>1. ASSUME NEW f \in Executors, admission'[f].granted
        PROVE  /\ Exists(inbox'[Execute])
               /\ admission'[f].rev <= inbox'[Execute].revision
               /\ admission'[f].until <= inbox'[Execute].lease.until
    BY <1>1, <1>2, <2>1 DEF Exists
  <2>2. ASSUME NEW f \in Executors, NEW g \in Executors, f # g,
               admission'[f].granted, admission'[g].granted
        PROVE  admission'[f].rev # admission'[g].rev
    BY <1>1, <1>2, <2>2 DEF BridgeInvariant, AdmissionsAreClaims
  <2>3. QED BY <2>1, <2>2 DEF AdmissionsAreClaims, Exists
<1>4. LeasesDoNotOverlap'
  BY <1>1, <1>2 DEF LeasesDoNotOverlap
<1>5. QED BY <1>3, <1>4

LEMMA BeginStep ==
    ASSUME BridgeInvariant, NEW e \in Executors, BeginExecute(e)
    PROVE  BridgeInvariant'
<1>1. /\ TypeOK /\ TypeOK'
      /\ inbox[Execute] \in BridgeInboxRows
      /\ outbox[Execute] \in OutboxRows(BridgeOwners)
      /\ now \in Nat
      /\ LeaseUntil(now) <= Deadline
      /\ \A f \in Executors : admission[f].rev \in Nat /\ admission[f].until \in Nat
  BY BeginTypes, BridgeTypes, LeaseEnds DEF BridgeInvariant, Admissions
<1>2. CASE UNCHANGED <<inbox, outbox>> /\ admission' =
              [admission EXCEPT ![e] = Refused(inbox[Execute].revision)]
  <2>1. \A f \in Executors :
            /\ admission'[f].granted => admission'[f] = admission[f]
            /\ admission[f].granted => f # e /\ admission'[f] = admission[f]
    BY <1>1, <1>2 DEF BeginExecute, NotAsked, Refused, TypeOK
  <2>2. AdmissionsAreClaims' /\ LeasesDoNotOverlap' /\ FramesAreAdmitted'
    BY <1>2, <2>1
       DEF BridgeInvariant, BeginExecute, AdmissionsAreClaims,
           LeasesDoNotOverlap, FramesAreAdmitted
  <2>3. CommandRows' /\ AnswerIsDelivered'
    BY <1>2
       DEF BridgeInvariant, CommandRows, AnswerIsDelivered
  <2>4. QED BY <1>1, <2>2, <2>3 DEF BridgeInvariant
<1>3. CASE BeginReclaim(e) /\ CanClaimInbox(inbox[Execute], now)
  <2>1. /\ inbox' = [inbox EXCEPT ![Execute] =
                         ClaimedInbox(inbox[Execute], AgentOwner,
                                      LeaseUntil(now))]
        /\ UNCHANGED outbox
        /\ inbox[Execute].status = "processing"
        /\ LeaseFree(inbox[Execute], now)
        /\ LeaseUntil(now) > now
        /\ admission' = [admission EXCEPT ![e] = Granted(inbox'[Execute])]
    BY <1>3 DEF BeginReclaim, CanClaimInbox, BridgeInvariant, CommandRows
  <2>2. /\ inbox'[Execute].status = "processing"
        /\ inbox'[Execute].reply = inbox[Execute].reply
        /\ inbox'[Execute].revision = inbox[Execute].revision + 1
        /\ inbox'[Execute].lease.until = LeaseUntil(now)
    BY <1>1, <2>1, BridgeTypes
       DEF ClaimedInbox, Lease, BridgeInboxRows, InboxRows
  <2>3. inbox[Execute].revision \in Nat /\ inbox[Execute].lease.until \in Nat
    BY <1>1 DEF BridgeInboxRows, InboxRows, Leases, NoLease
  <2>4. AdmissionsAreClaims' /\ LeasesDoNotOverlap'
    <3>1. \A f \in Executors : admission[f].granted =>
              /\ admission[f].until <= now
              /\ admission[f].rev < inbox'[Execute].revision
      BY <1>1, <2>1, <2>2, <2>3
         DEF BridgeInvariant, AdmissionsAreClaims, LeaseFree
    <3>2. inbox'[Execute].revision \in Nat
      BY <2>2, <2>3
    <3>3. admission[e] = NotAsked /\ UNCHANGED now
      BY DEF BeginExecute
    <3>4. QED BY <2>1, <2>2, <3>1, <3>2, <3>3, AdmissionStep
  <2>5. CommandRows'
    BY <1>1, <2>1, <2>2 DEF BridgeInvariant, CommandRows, Exists
  <2>6. FramesAreAdmitted' /\ AnswerIsDelivered'
    BY <1>1, <2>1, <2>2
       DEF BridgeInvariant, FramesAreAdmitted, AnswerIsDelivered, BeginExecute,
           Granted, TypeOK
  <2>7. QED BY <1>1, <2>4, <2>5, <2>6 DEF BridgeInvariant
<1>4. CASE BeginFirst(e)
  <2>1. /\ inbox' = [inbox EXCEPT ![Execute] =
                         ClaimedInbox(ReceivedInbox(Execute), AgentOwner,
                                      LeaseUntil(now))]
        /\ ~ Exists(inbox[Execute])
        /\ LeaseUntil(now) > now
        /\ admission' = [admission EXCEPT ![e] = Granted(inbox'[Execute])]
        /\ outbox'[Execute].status = "sent"
    BY <1>1, <1>4, BridgeTypes
       DEF BeginFirst, ReleasedOutbox, ClaimedOutbox, OutboxRows
  <2>2. /\ inbox'[Execute].status = "processing"
        /\ inbox'[Execute].reply = None
        /\ inbox'[Execute].revision \in Nat
        /\ inbox'[Execute].lease.until = LeaseUntil(now)
    BY <1>1, <2>1, BridgeTypes
       DEF ClaimedInbox, ReceivedInbox, NoInboxRow, Lease
  <2>3. AdmissionsAreClaims' /\ LeasesDoNotOverlap'
    <3>1. \A f \in Executors : ~ admission[f].granted
      BY <2>1 DEF BridgeInvariant, AdmissionsAreClaims
    <3>2. QED BY <2>1, <2>2, <3>1, AdmissionStep DEF BeginExecute
  <2>4. CommandRows'
    BY <1>1, <2>1, <2>2 DEF CommandRows, BeginExecute
  <2>5. FramesAreAdmitted' /\ AnswerIsDelivered'
    BY <1>1, <2>1, <2>2
       DEF BridgeInvariant, FramesAreAdmitted, AnswerIsDelivered, BeginExecute,
           Granted, TypeOK
  <2>6. QED BY <1>1, <2>3, <2>4, <2>5 DEF BridgeInvariant
<1>5. QED
  BY <1>2, <1>3, <1>4 DEF BeginExecute, BeginSettled, BeginReclaim

(* An accepted answer completes the command on both sides at once.          *)
LEMMA AcceptStep ==
    ASSUME BridgeInvariant, NEW e \in Executors, AcceptResult(e)
    PROVE  BridgeInvariant'
<1> DEFINE f == frame[e]
           r == frame[e].id
<1>1. /\ TypeOK /\ TypeOK'
      /\ f \in ResultFrames /\ r \in Results /\ f.at \in Nat
      /\ r # Execute /\ r # Cancel
      /\ inbox[Execute] \in BridgeInboxRows
      /\ outbox[Execute] \in OutboxRows(BridgeOwners)
  BY ResultTypes, BridgeTypes
     DEF BridgeInvariant, AcceptResult, CanAcceptResult, ResultFrames
<1>2. /\ inbox[Execute].status = "processing"
      /\ inbox[Execute].lease.until > f.at
      /\ inbox[Execute].lease.until <= Deadline
      /\ inbox[Execute].lease.until \in Nat
      /\ inbox[Execute].revision \in Nat
  <2>1. inbox[Execute].lease.until \in Nat /\ inbox[Execute].revision \in Nat
    BY <1>1 DEF BridgeInboxRows, InboxRows, Leases, NoLease
  <2>2. QED
    BY <2>1
       DEF AcceptResult, CanAcceptResult, CanCompleteExecute, HoldsInbox,
           BridgeInvariant, CommandRows
<1>3. inbox' = [inbox EXCEPT
                    ![Execute] = CompletedInbox(inbox[Execute], r, f.at),
                    ![r] = ProcessedResult(f, LeaseUntil(f.at))]
  BY <1>1, BridgeTypes DEF AcceptResult
<1>4. inbox'[Execute] = CompletedInbox(inbox[Execute], r, f.at)
  BY <1>1, <1>3, BridgeTypes
<1>5. /\ inbox'[Execute].status = "complete"
      /\ inbox'[Execute].reply = r
      /\ inbox'[Execute].settledAt = f.at
      /\ inbox'[Execute].revision = inbox[Execute].revision + 1
  BY <1>1, <1>4 DEF CompletedInbox, BridgeInboxRows, InboxRows
<1>6. inbox'[r].frame = f /\ Exists(inbox'[r])
  <2>1. inbox'[r] = ProcessedResult(f, LeaseUntil(f.at))
    BY <1>1, <1>3, BridgeTypes
  <2>2. QED
    BY <2>1
       DEF ProcessedResult, CompletedInbox, ClaimedInbox, ReceivedInbox,
           NoInboxRow, Exists
<1>7. /\ outbox'[r] = SentResult(f, LeaseUntil(f.at))
      /\ outbox'[Execute] = SettledByReceipt(outbox[Execute], f.at)
  BY <1>1, BridgeTypes DEF AcceptResult, CanAcceptResult, DeliverResult
<1>8. outbox'[r].status = "sent"
  BY <1>7
     DEF SentResult, ReleasedOutbox, ClaimedOutbox, EnqueuedOutbox, NoOutboxRow
<1>9. outbox'[Execute].status = "complete"
  <2>1. outbox[Execute].status \in {"sent", "complete"}
    BY <1>2 DEF BridgeInvariant, CommandRows, Exists
  <2>2. QED BY <1>1, <1>7, <2>1 DEF SettledByReceipt, OutboxRows
<1>10. CommandRows'
  BY <1>5, <1>6, <1>9 DEF CommandRows
<1>11. AdmissionsAreClaims' /\ LeasesDoNotOverlap' /\ FramesAreAdmitted'
  <2>1. UNCHANGED <<admission, frame, now>>
    BY DEF AcceptResult
  <2>2. \A g \in Executors : admission[g].rev \in Nat
    BY <1>1, BridgeTypes DEF Admissions
  <2>3. QED
    BY <1>2, <1>5, <2>1, <2>2
       DEF BridgeInvariant, AdmissionsAreClaims, LeasesDoNotOverlap,
           FramesAreAdmitted, Exists
<1>12. AnswerIsDelivered'
  <2>1. f = Frame(r, f.at)
    BY <1>1 DEF ResultFrames, Frame
  <2>2. f.at < Deadline
    BY <1>1, <1>2, LeaseEnds
  <2>3. QED
    BY <1>1, <1>5, <1>6, <1>8, <1>9, <2>1, <2>2 DEF AnswerIsDelivered
<1>13. QED BY <1>1, <1>10, <1>11, <1>12 DEF BridgeInvariant

(* A late result leaves the Agent's row and the recorded answer alone.      *)
LEMMA LateStep ==
    ASSUME BridgeInvariant, NEW e \in Executors, RecordLateResult(e)
    PROVE  BridgeInvariant'
<1> DEFINE f == frame[e]
           r == frame[e].id
<1>1. /\ TypeOK /\ TypeOK'
      /\ f \in ResultFrames /\ r \in Results /\ f.at \in Nat
      /\ r # Execute /\ r # Cancel
      /\ outbox[Execute] \in OutboxRows(BridgeOwners)
  BY ResultTypes, BridgeTypes
     DEF BridgeInvariant, RecordLateResult, ResultFrames
<1>2. /\ inbox'[Execute] = inbox[Execute]
      /\ \A q \in Results : Exists(inbox[q]) => inbox'[q] = inbox[q]
  BY <1>1, BridgeTypes DEF RecordLateResult, DeliverResult
<1>3. \A q \in Results : Exists(inbox[q]) => outbox'[q] = outbox[q]
  BY <1>1, BridgeTypes DEF RecordLateResult, DeliverResult
<1>4. \/ outbox'[Execute].status = outbox[Execute].status
      \/ outbox'[Execute].status = "complete"
  <2>1. outbox'[Execute] = SettledByReceipt(outbox[Execute], f.at)
    BY <1>1, BridgeTypes DEF RecordLateResult, DeliverResult
  <2>2. QED BY <1>1, <2>1 DEF SettledByReceipt, OutboxRows
<1>5. CommandRows'
  <2>1. inbox[Execute].status = "complete" =>
            /\ inbox[Execute].reply \in Results
            /\ Exists(inbox'[inbox[Execute].reply])
    BY <1>2 DEF BridgeInvariant, CommandRows, AnswerIsDelivered
  <2>2. QED BY <1>2, <1>4, <2>1 DEF BridgeInvariant, CommandRows, Exists
<1>6. AdmissionsAreClaims' /\ LeasesDoNotOverlap' /\ FramesAreAdmitted'
  BY <1>2
     DEF RecordLateResult, BridgeInvariant, AdmissionsAreClaims,
         LeasesDoNotOverlap, FramesAreAdmitted
<1>7. AnswerIsDelivered'
  <2>1. SUFFICES ASSUME inbox[Execute].status = "complete"
                 PROVE  AnswerIsDelivered'
    BY <1>2 DEF AnswerIsDelivered
  <2>2. /\ inbox[Execute].reply \in Results
        /\ Exists(inbox[inbox[Execute].reply])
    BY <2>1 DEF BridgeInvariant, AnswerIsDelivered, CommandRows
  <2>3. QED
    BY <1>2, <1>3, <1>4, <2>1, <2>2 DEF BridgeInvariant, AnswerIsDelivered
<1>8. QED BY <1>1, <1>5, <1>6, <1>7 DEF BridgeInvariant

LEMMA BridgeInvariantStep == BridgeInvariant /\ [Next]_vars => BridgeInvariant'
<1> SUFFICES ASSUME BridgeInvariant, [Next]_vars PROVE BridgeInvariant'
  OBVIOUS
<1>1. TypeOK /\ TypeOK'
  BY TypeStep DEF BridgeInvariant
<1>2. CASE UNCHANGED vars
  BY <1>2
     DEF vars, BridgeInvariant, TypeOK, CommandRows, AdmissionsAreClaims,
         FramesAreAdmitted, LeasesDoNotOverlap, AnswerIsDelivered
<1>3. CASE PersistExecute
  <2>1. /\ ~ Exists(inbox[Execute])
        /\ UNCHANGED <<inbox, admission, frame, now>>
    BY <1>3 DEF PersistExecute, Exists, BridgeInvariant, CommandRows
  <2>2. QED
    BY <1>1, <2>1
       DEF BridgeInvariant, CommandRows, AdmissionsAreClaims,
           FramesAreAdmitted, LeasesDoNotOverlap, AnswerIsDelivered, Exists
<1>4. CASE EnqueueCancel
  <2>1. /\ \A x \in {Execute} \cup Results : outbox'[x] = outbox[x]
        /\ UNCHANGED <<inbox, admission, frame, now>>
    BY <1>1, <1>4, BridgeTypes DEF EnqueueCancel
  <2>2. CommandRows' /\ AnswerIsDelivered'
    BY <2>1 DEF BridgeInvariant, CommandRows, AnswerIsDelivered
  <2>3. QED
    BY <1>1, <2>1, <2>2
       DEF BridgeInvariant, AdmissionsAreClaims, FramesAreAdmitted,
           LeasesDoNotOverlap
<1>5. ASSUME NEW e \in Executors, NEW r \in Results, CreateResult(e, r)
      PROVE  BridgeInvariant'
  <2>1. FramesAreAdmitted'
    BY <1>1, <1>5, BridgeTypes
       DEF CreateResult, BridgeInvariant, FramesAreAdmitted
  <2>2. QED
    BY <1>1, <1>5, <2>1
       DEF CreateResult, BridgeInvariant, CommandRows, AdmissionsAreClaims,
           LeasesDoNotOverlap, AnswerIsDelivered
<1>6. CASE Tick
  <2>1. LeasesDoNotOverlap'
    <3>1. /\ now \in Nat /\ now' = now + 1 /\ UNCHANGED admission
          /\ \A e \in Executors : admission[e].until \in Nat
      BY <1>1, <1>6, BridgeTypes DEF Tick, Admissions
    <3>2. QED BY <3>1 DEF BridgeInvariant, LeasesDoNotOverlap
  <2>2. QED
    BY <1>1, <1>6, <2>1
       DEF Tick, BridgeInvariant, CommandRows, AdmissionsAreClaims,
           FramesAreAdmitted, AnswerIsDelivered
<1>7. QED
  BY <1>2, <1>3, <1>4, <1>5, <1>6, BeginStep, AcceptStep, LateStep DEF Next

LEMMA BridgeInvariantInit == Init => BridgeInvariant
  BY TypeInit
     DEF Init, BridgeInvariant, CommandRows, AdmissionsAreClaims,
         FramesAreAdmitted, LeasesDoNotOverlap, AnswerIsDelivered, NoInboxRow,
         NotAsked, Exists

LEMMA BridgeInvariantHolds == Spec => []BridgeInvariant
  BY BridgeInvariantInit, BridgeInvariantStep, PTL DEF Spec

-----------------------------------------------------------------------------
(* What follows for the executors and for the System.                       *)

(* The store takes a result from at most one executor of a command.         *)
THEOREM OneExecutorIsHeard == Spec => []OneLiveAdmission
<1>1. BridgeInvariant => OneLiveAdmission
  BY DEF BridgeInvariant, AdmissionsAreClaims, OneLiveAdmission
<1>2. QED BY <1>1, BridgeInvariantHolds, PTL

(* Two executors are never at work under leases that both still run.        *)
THEOREM ExecutorsTakeTurns == Spec => []LeasesDoNotOverlap
<1>1. BridgeInvariant => LeasesDoNotOverlap
  BY DEF BridgeInvariant
<1>2. QED BY <1>1, BridgeInvariantHolds, PTL

(* The answer a Task acts on is in time and on record.                      *)
THEOREM AnswersAreDelivered == Spec => []AnswerIsDelivered
<1>1. BridgeInvariant => AnswerIsDelivered
  BY DEF BridgeInvariant
<1>2. QED BY <1>1, BridgeInvariantHolds, PTL

(* A command that is being worked on is leased to the last executor that    *)
(* was admitted.                                                            *)
LeaseIsAdmitted ==
    inbox[Execute].status = "processing" =>
        \E e \in Executors :
            /\ admission[e].granted
            /\ admission[e].rev = inbox[Execute].revision
            /\ admission[e].until = inbox[Execute].lease.until
            /\ inbox[Execute].lease.owner = AgentOwner

LEMMA LeaseIsAdmittedBegin ==
    ASSUME BridgeInvariant, LeaseIsAdmitted, NEW e \in Executors, BeginExecute(e)
    PROVE  LeaseIsAdmitted'
<1>1. /\ inbox \in [{Execute} \cup Results -> BridgeInboxRows]
      /\ admission \in [Executors -> Admissions]
  BY BridgeTypes DEF BridgeInvariant
<1>2. CASE UNCHANGED inbox /\ admission' =
              [admission EXCEPT ![e] = Refused(inbox[Execute].revision)]
  <2>1. \A f \in Executors : admission[f].granted => admission'[f] = admission[f]
    BY <1>1, <1>2 DEF BeginExecute, NotAsked
  <2>2. QED BY <1>2, <2>1 DEF LeaseIsAdmitted
<1>3. ASSUME NEW row, inbox' = [inbox EXCEPT ![Execute] =
                          ClaimedInbox(row, AgentOwner, LeaseUntil(now))],
             row \in BridgeInboxRows,
             admission' = [admission EXCEPT ![e] = Granted(inbox'[Execute])]
      PROVE  LeaseIsAdmitted'
  <2>1. /\ inbox'[Execute].lease.owner = AgentOwner
        /\ admission'[e] = Granted(inbox'[Execute])
    BY <1>1, <1>3 DEF ClaimedInbox, Lease, BridgeInboxRows, InboxRows
  <2>2. QED BY <2>1 DEF LeaseIsAdmitted, Granted
<1>4. ReceivedInbox(Execute) \in BridgeInboxRows
  BY EmptyRowShape DEF BridgeInboxRows
<1>5. QED
  BY <1>1, <1>2, <1>3, <1>4
     DEF BeginExecute, BeginSettled, BeginReclaim, BeginFirst

LEMMA LeaseIsAdmittedStep ==
    ASSUME BridgeInvariant, LeaseIsAdmitted, [Next]_vars
    PROVE  LeaseIsAdmitted'
<1>1. /\ inbox \in [{Execute} \cup Results -> BridgeInboxRows]
      /\ frame \in [Executors -> ResultFrames \cup {None}]
      /\ Execute \notin Results
  BY BridgeTypes DEF BridgeInvariant
<1>2. ASSUME NEW e \in Executors, AcceptResult(e)
      PROVE  LeaseIsAdmitted'
  <2>1. frame[e].id \in Results
    BY <1>1, <1>2 DEF AcceptResult, CanAcceptResult, ResultFrames
  <2>2. inbox'[Execute].status = "complete"
    BY <1>1, <1>2, <2>1
       DEF AcceptResult, CompletedInbox, BridgeInboxRows, InboxRows
  <2>3. QED BY <2>2 DEF LeaseIsAdmitted
<1>3. ASSUME NEW e \in Executors, RecordLateResult(e)
      PROVE  LeaseIsAdmitted'
  <2>1. frame[e].id \in Results
    BY <1>1, <1>3 DEF RecordLateResult, ResultFrames
  <2>2. inbox'[Execute] = inbox[Execute] /\ UNCHANGED admission
    BY <1>1, <1>3, <2>1 DEF RecordLateResult
  <2>3. QED BY <2>2 DEF LeaseIsAdmitted
<1>4. CASE \/ PersistExecute \/ EnqueueCancel \/ Tick \/ UNCHANGED vars
           \/ \E e \in Executors, r \in Results : CreateResult(e, r)
  BY <1>4
     DEF PersistExecute, EnqueueCancel, Tick, CreateResult, vars, LeaseIsAdmitted
<1>5. QED BY <1>2, <1>3, <1>4, LeaseIsAdmittedBegin DEF Next

(* As long as a command can still be answered, all that bears the id of one *)
(* of its results is a late result that was created after the deadline.     *)
LateOnRecord ==
    inbox[Execute].status # "complete" /\ ~ Cancelled =>
        \A r \in Results :
            Exists(inbox[r]) \/ Exists(outbox[r]) =>
                Exists(inbox[r]) /\ inbox[r].frame.at > Deadline

LEMMA LateOnRecordLate ==
    ASSUME BridgeInvariant, LateOnRecord, NEW e \in Executors,
           RecordLateResult(e)
    PROVE  LateOnRecord'
<1> DEFINE r == frame[e].id
<1>1. /\ frame[e] \in ResultFrames /\ r \in Results
      /\ r # Execute /\ r # Cancel
      /\ inbox \in [{Execute} \cup Results -> BridgeInboxRows]
      /\ outbox \in [{Execute, Cancel} \cup Results -> OutboxRows(BridgeOwners)]
      /\ Cancel # Execute /\ Cancel \notin Results
  BY BridgeTypes DEF BridgeInvariant, RecordLateResult, ResultFrames
<1>2. /\ inbox'[Execute] = inbox[Execute]
      /\ outbox'[Cancel] = outbox[Cancel]
      /\ inbox'[r] = ProcessedResult(frame[e], frame[e].at + LeaseDuration)
      /\ \A q \in Results \ {r} :
             inbox'[q] = inbox[q] /\ outbox'[q] = outbox[q]
  <2>1. /\ inbox' = [inbox EXCEPT ![r] =
                         ProcessedResult(frame[e], frame[e].at + LeaseDuration)]
        /\ DeliverResult(frame[e], frame[e].at + LeaseDuration)
    BY DEF RecordLateResult
  <2>2. /\ outbox'[Cancel] = outbox[Cancel]
        /\ \A q \in Results \ {r} : outbox'[q] = outbox[q]
    BY <1>1, <2>1, DeliverResultLeaves DEF BridgeInvariant
  <2>3. QED BY <1>1, <2>1, <2>2
<1>3. inbox'[r].frame = frame[e] /\ Exists(inbox'[r])
  <2>1. \A f, until :
            /\ ProcessedResult(f, until).frame = f
            /\ ProcessedResult(f, until).status = "complete"
    BY DEF ProcessedResult, CompletedInbox, ClaimedInbox, ReceivedInbox,
           NoInboxRow
  <2>2. QED BY <1>2, <2>1 DEF Exists
<1>4. inbox[Execute].status # "complete" /\ ~ Cancelled
          => frame[e].at > Deadline
  BY DEF RecordLateResult, Classify
<1>5. QED BY <1>1, <1>2, <1>3, <1>4 DEF LateOnRecord, Cancelled

LEMMA LateOnRecordStep ==
    ASSUME BridgeInvariant, LateOnRecord, [Next]_vars
    PROVE  LateOnRecord'
<1>1. /\ inbox \in [{Execute} \cup Results -> BridgeInboxRows]
      /\ outbox \in [{Execute, Cancel} \cup Results -> OutboxRows(BridgeOwners)]
      /\ Execute # Cancel /\ Execute \notin Results /\ Cancel \notin Results
  BY BridgeTypes DEF BridgeInvariant
<1>2. ASSUME NEW e \in Executors, BeginExecute(e)
      PROVE  LateOnRecord'
  <2>1. /\ \A r \in Results : inbox'[r] = inbox[r] /\ outbox'[r] = outbox[r]
        /\ outbox'[Cancel] = outbox[Cancel]
    BY <1>1, <1>2 DEF BeginExecute, BeginSettled, BeginReclaim, BeginFirst
  <2>2. inbox[Execute].status = "complete" => UNCHANGED inbox
    BY <1>2
       DEF BeginExecute, BeginSettled, BeginReclaim, BeginFirst,
           SettledForExecutors, Exists
  <2>3. QED BY <2>1, <2>2 DEF LateOnRecord, Cancelled
<1>3. ASSUME NEW e \in Executors, AcceptResult(e)
      PROVE  LateOnRecord'
  <2>1. frame[e].id \in Results
    BY <1>1, <1>3, BridgeTypes
       DEF BridgeInvariant, AcceptResult, CanAcceptResult, ResultFrames
  <2>2. inbox'[Execute].status = "complete"
    BY <1>1, <1>3, <2>1
       DEF AcceptResult, CompletedInbox, BridgeInboxRows, InboxRows
  <2>3. QED BY <2>2 DEF LateOnRecord
<1>4. CASE PersistExecute
  <2>1. /\ \A r \in Results : outbox'[r] = outbox[r]
        /\ outbox'[Cancel] = outbox[Cancel]
        /\ UNCHANGED inbox
    BY <1>1, <1>4 DEF PersistExecute
  <2>2. QED BY <2>1 DEF LateOnRecord, Cancelled
<1>5. CASE EnqueueCancel
  <2>1. Cancelled'
    BY <1>1, <1>5
       DEF EnqueueCancel, Cancelled, Exists, EnqueuedOutbox, NoOutboxRow
  <2>2. QED BY <2>1 DEF LateOnRecord
<1>6. CASE UNCHANGED <<outbox, inbox>>
  BY <1>6 DEF LateOnRecord, Cancelled
<1>7. QED
  BY <1>2, <1>3, <1>4, <1>5, <1>6, LateOnRecordLate
     DEF Next, CreateResult, Tick, vars

(* The lease of the last executor that was admitted is the one on the row.  *)
LEMMA LeaseIsHeld ==
    ASSUME BridgeInvariant, LeaseIsAdmitted, NEW e \in Executors,
           frame[e] # None,
           Classify(e) = "accepted",
           frame[e].at < admission[e].until,
           \A f \in Executors \ {e} :
               admission[f].granted => admission[f].rev < admission[e].rev
    PROVE  CanCompleteExecute(e)
<1>1. /\ inbox[Execute] \in BridgeInboxRows
      /\ frame[e].at \in Nat
      /\ \A f \in Executors :
             admission[f].rev \in Nat /\ admission[f].until \in Nat
      /\ inbox[Execute].revision \in Nat
  BY BridgeTypes, InboxColumns
     DEF BridgeInvariant, Admissions, ResultFrames, BridgeInboxRows
<1>2. /\ admission[e].granted
      /\ admission[e].rev <= inbox[Execute].revision
      /\ inbox[Execute].status = "processing"
  BY <1>1
     DEF BridgeInvariant, FramesAreAdmitted, AdmissionsAreClaims, CommandRows,
         Classify, Exists, BridgeInboxRows, InboxRows, InboxStatuses
<1>3. PICK f \in Executors :
          /\ admission[f].granted
          /\ admission[f].rev = inbox[Execute].revision
          /\ admission[f].until = inbox[Execute].lease.until
          /\ inbox[Execute].lease.owner = AgentOwner
  BY <1>2 DEF LeaseIsAdmitted
<1>4. f = e
  BY <1>1, <1>2, <1>3
<1>5. QED BY <1>1, <1>2, <1>3, <1>4 DEF CanCompleteExecute, HoldsInbox

(* A result of the last executor admitted, created in its lease, can be     *)
(* committed until the command is answered or cancelled, unless a late      *)
(* result has taken its id.                                                 *)
THEOREM WorkInLeaseIsKept == Spec => []ResultInLeaseIsKept
<1>1. Init => LeaseIsAdmitted /\ LateOnRecord
  <2>1. Init => LeaseIsAdmitted
    BY DEF Init, LeaseIsAdmitted, NoInboxRow
  <2>2. Init => LateOnRecord
    BY DEF Init, LateOnRecord, Exists, NoInboxRow, NoOutboxRow
  <2>3. QED BY <2>1, <2>2
<1>2. ASSUME BridgeInvariant, LeaseIsAdmitted, LateOnRecord
      PROVE  ResultInLeaseIsKept
  <2>1. SUFFICES ASSUME NEW e \in Executors,
                        frame[e] # None,
                        Classify(e) = "accepted",
                        frame[e].at < admission[e].until,
                        \A f \in Executors \ {e} :
                            admission[f].granted => admission[f].rev < admission[e].rev,
                        ~ OvertakenByLateResult(e)
                 PROVE  CanAcceptResult(e)
    BY DEF ResultInLeaseIsKept
  <2>2. CanCompleteExecute(e)
    BY <1>2, <2>1, LeaseIsHeld
  <2>3. frame[e].id \in Results
    BY <1>2, <2>1, BridgeTypes DEF BridgeInvariant, ResultFrames
  <2>4. inbox[Execute].status # "complete" /\ ~ Cancelled
    BY <2>1 DEF Classify
  <2>5. ~ Exists(inbox[frame[e].id]) /\ ~ Exists(outbox[frame[e].id])
    BY <1>2, <2>1, <2>3, <2>4 DEF LateOnRecord, OvertakenByLateResult
  <2>6. QED BY <2>1, <2>2, <2>5 DEF CanAcceptResult
<1>3. QED
  BY <1>1, <1>2, LeaseIsAdmittedStep, LateOnRecordStep, BridgeInvariantHolds,
     PTL DEF Spec

(* Nothing touches the Agent's row of a cancelled command.                  *)
THEOREM CancelsAreTerminal == Spec => CancelIsTerminal
<1>1. ASSUME TypeOK, Next, Cancelled, Exists(inbox[Execute])
      PROVE  inbox'[Execute] = inbox[Execute]
  <2>1. ASSUME NEW e \in Executors, BeginExecute(e)
        PROVE  inbox'[Execute] = inbox[Execute]
    BY <1>1, <2>1
       DEF BeginExecute, BeginSettled, BeginReclaim, BeginFirst,
           SettledForExecutors
  <2>2. ASSUME NEW e \in Executors, AcceptResult(e)
        PROVE  FALSE
    BY <1>1, <2>2
       DEF AcceptResult, CanAcceptResult, Classify, CanCompleteExecute,
           HoldsInbox
  <2>3. ASSUME NEW e \in Executors, RecordLateResult(e)
        PROVE  inbox'[Execute] = inbox[Execute]
    <3>1. frame[e].id \in Results
      BY <1>1, <2>3, BridgeTypes DEF RecordLateResult, ResultFrames
    <3>2. QED BY <1>1, <2>3, <3>1, BridgeTypes DEF RecordLateResult
  <2>4. QED
    BY <1>1, <2>1, <2>2, <2>3
       DEF Next, PersistExecute, EnqueueCancel, CreateResult, Tick
<1>2. TypeOK /\ [Next]_vars =>
          [Cancelled /\ Exists(inbox[Execute])
              => inbox'[Execute] = inbox[Execute]]_vars
  BY <1>1
<1>3. QED BY <1>2, TypeCorrect, PTL DEF Spec, CancelIsTerminal

-----------------------------------------------------------------------------
(* Refinement of ExchangeAnswer.                                            *)

Recorded == {r \in Results : inbox[r].status = "complete"}

(* An accepted result is the answer, a late one is on record.               *)
LEMMA ResultRefines ==
    ASSUME BridgeInvariant, NEW e \in Executors,
           AcceptResult(e) \/ RecordLateResult(e)
    PROVE  Exchange!Next
<1> DEFINE r == frame[e].id
<1>1. /\ frame[e] \in ResultFrames /\ r \in Results
      /\ r # Execute /\ r # Cancel
  BY BridgeTypes
     DEF BridgeInvariant, AcceptResult, CanAcceptResult, RecordLateResult,
         ResultFrames
<1>2. /\ inbox[r].status = "absent"
      /\ inbox'[r].status = "complete"
      /\ \A q \in Results \ {r} : inbox'[q] = inbox[q]
  <2>1. /\ inbox[r].status = "absent"
        /\ \E until : inbox'[r] = ProcessedResult(frame[e], until)
        /\ \A q \in Results \ {r} : inbox'[q] = inbox[q]
    <3>1. CASE AcceptResult(e)
      BY <1>1, <3>1, BridgeTypes
         DEF BridgeInvariant, AcceptResult, DeliverResult, Exists
    <3>2. CASE RecordLateResult(e)
      BY <1>1, <3>2, BridgeTypes
         DEF BridgeInvariant, RecordLateResult, DeliverResult, Exists
    <3>3. QED BY <3>1, <3>2
  <2>2. \A until : ProcessedResult(frame[e], until).status = "complete"
    BY DEF ProcessedResult, CompletedInbox, ClaimedInbox, ReceivedInbox,
           NoInboxRow
  <2>3. QED BY <2>1, <2>2
<1>3. r \notin Recorded /\ Recorded' = Recorded \cup {r}
  BY <1>1, <1>2 DEF Recorded
<1>4. Exists(outbox[Execute]) /\ Exists(outbox'[Execute])
  <2>1. outbox[Execute].status \in {"sent", "complete"}
    BY DEF AcceptResult, CanAcceptResult, RecordLateResult, BridgeInvariant,
           CommandRows, FramesAreAdmitted, AdmissionsAreClaims
  <2>2. outbox'[Execute] = SettledByReceipt(outbox[Execute], frame[e].at)
    BY <1>1, BridgeTypes
       DEF BridgeInvariant, AcceptResult, RecordLateResult, DeliverResult
  <2>3. outbox[Execute] \in OutboxRows(BridgeOwners)
    BY BridgeTypes DEF BridgeInvariant
  <2>4. QED BY <2>1, <2>2, <2>3 DEF Exists, SettledByReceipt, OutboxRows
<1>5. outbox'[Cancel] = outbox[Cancel]
  BY <1>1, BridgeTypes
     DEF BridgeInvariant, AcceptResult, RecordLateResult, DeliverResult
<1>6. CASE AcceptResult(e)
  <2>1. /\ ~ Cancelled
        /\ inbox[Execute].reply = None
    BY <1>6
       DEF AcceptResult, CanAcceptResult, Classify, CanCompleteExecute, HoldsInbox,
           BridgeInvariant, CommandRows
  <2>2. inbox'[Execute].reply = r
    BY <1>1, <1>6, BridgeTypes
       DEF BridgeInvariant, AcceptResult, CompletedInbox, BridgeInboxRows,
           InboxRows
  <2>3. Exchange!Answer(r)
    BY <1>3, <1>4, <1>5, <2>1, <2>2 DEF Exchange!Answer, Recorded, Cancelled
  <2>4. QED BY <1>1, <2>3 DEF Exchange!Next, Exchange!Answer
<1>7. CASE RecordLateResult(e)
  <2>1. inbox'[Execute] = inbox[Execute]
    BY <1>1, <1>7, BridgeTypes DEF BridgeInvariant, RecordLateResult
  <2>2. Exchange!RecordLate(r)
    BY <1>3, <1>4, <1>5, <2>1 DEF Exchange!RecordLate, Recorded, Cancelled
  <2>3. QED BY <1>1, <2>2 DEF Exchange!Next, Exchange!RecordLate
<1>8. QED BY <1>6, <1>7

(* Admissions are invisible to the System.                                  *)
LEMMA BeginRefines ==
    ASSUME BridgeInvariant, NEW e \in Executors, BeginExecute(e)
    PROVE  UNCHANGED Exchange!vars
<1>1. /\ inbox[Execute] \in BridgeInboxRows
      /\ inbox \in [{Execute} \cup Results -> BridgeInboxRows]
      /\ outbox[Execute] \in OutboxRows(BridgeOwners)
      /\ outbox \in [{Execute, Cancel} \cup Results -> OutboxRows(BridgeOwners)]
      /\ Execute # Cancel /\ Execute \notin Results
  BY BridgeTypes DEF BridgeInvariant
<1>2. /\ \A r \in Results : inbox'[r] = inbox[r]
      /\ outbox'[Cancel] = outbox[Cancel]
  BY <1>1
     DEF BeginExecute, BeginSettled, BeginReclaim, BeginFirst
<1>3. CASE UNCHANGED <<outbox, inbox>>
  BY <1>3 DEF Exchange!vars, Cancelled
<1>4. CASE BeginReclaim(e)
  <2>1. inbox'[Execute].reply = inbox[Execute].reply
    <3>1. ClaimedInbox(inbox[Execute], AgentOwner, LeaseUntil(now)).reply
              = inbox[Execute].reply
      BY <1>1 DEF ClaimedInbox, BridgeInboxRows, InboxRows
    <3>2. QED BY <1>1, <1>4, <3>1 DEF BeginReclaim
  <2>2. UNCHANGED outbox
    BY <1>4 DEF BeginReclaim
  <2>3. QED BY <1>2, <2>1, <2>2 DEF Exchange!vars, Cancelled
<1>5. CASE BeginFirst(e)
  <2>1. inbox[Execute].reply = None
    BY <1>5 DEF BeginFirst, Exists, BridgeInvariant, CommandRows
  <2>2. inbox'[Execute] = ClaimedInbox(ReceivedInbox(Execute), AgentOwner,
                                       LeaseUntil(now))
    BY <1>1, <1>5 DEF BeginFirst
  <2>3. inbox'[Execute].reply = None
    BY <2>2 DEF ClaimedInbox, ReceivedInbox, NoInboxRow
  <2>4. outbox'[Execute].status = "sent"
    BY <1>1, <1>5 DEF BeginFirst, ReleasedOutbox, ClaimedOutbox, OutboxRows
  <2>5. Exists(outbox[Execute]) /\ Exists(outbox'[Execute])
    BY <2>4 DEF BeginExecute, Exists
  <2>6. QED BY <1>2, <2>1, <2>3, <2>5 DEF Exchange!vars, Cancelled
<1>6. QED BY <1>3, <1>4, <1>5 DEF BeginExecute, BeginSettled

(* The bridge implements the exchange: at most one answer, none after a     *)
(* cancel, late results only on record.                                     *)
THEOREM Implements == Spec => ImplementsExchangeAnswer
<1>1. Init => Exchange!Init
  BY BridgeTypes, TypeInit
     DEF Init, Exchange!Init, Exists, Cancelled, NoOutboxRow, NoInboxRow
<1>2. BridgeInvariant /\ [Next]_vars => [Exchange!Next]_(Exchange!vars)
  <2> SUFFICES ASSUME BridgeInvariant, [Next]_vars
               PROVE  Exchange!Next \/ UNCHANGED Exchange!vars
    OBVIOUS
  <2>1. CASE PersistExecute
    <3>1. /\ ~ Exists(outbox[Execute]) /\ Exists(outbox'[Execute])
          /\ outbox'[Cancel] = outbox[Cancel]
          /\ UNCHANGED inbox
      BY <2>1, BridgeTypes
         DEF BridgeInvariant, PersistExecute, Exists, EnqueuedOutbox, NoOutboxRow
    <3>2. QED BY <3>1 DEF Exchange!Next, Exchange!Ask, Cancelled
  <2>2. CASE EnqueueCancel
    <3>1. /\ Exists(outbox[Execute]) /\ ~ Cancelled /\ Cancelled'
          /\ outbox'[Execute] = outbox[Execute]
          /\ UNCHANGED inbox
      BY <2>2, BridgeTypes
         DEF BridgeInvariant, EnqueueCancel, Exists, EnqueuedOutbox, NoOutboxRow,
             Cancelled
    <3>2. QED BY <3>1 DEF Exchange!Next, Exchange!CallOff
  <2>3. CASE UNCHANGED <<outbox, inbox>>
    BY <2>3 DEF Exchange!vars, Cancelled
  <2>4. QED
    BY <2>1, <2>2, <2>3, ResultRefines, BeginRefines
       DEF Next, CreateResult, Tick, vars
<1>3. QED
  BY <1>1, <1>2, BridgeInvariantHolds, PTL
     DEF Spec, ImplementsExchangeAnswer, Exchange!Spec

=============================================================================
