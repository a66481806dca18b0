----------------------- MODULE ContextDeliveryProofs -----------------------
(***************************************************************************)
(* For every number of workers, deliveries, experiences, attempts, resets    *)
(* and faults: input is kept until it is stored, an acknowledged delivery is *)
(* done and stays so, an experience is stored once, a live claim is ended by *)
(* its one holder, and all this keeps the promise of ExperienceIntake.  What *)
(* carries it: no two workers have the same token, what a worker has come    *)
(* past is saved, and a worker that will acknowledge has archived.           *)
(***************************************************************************)
EXTENDS ContextDelivery, TLAPS

(* A worker has a token that was issued, and no two have the same one.      *)
TokensAreDistinct ==
    \A w \in Workers :
        /\ job[w].on # None => job[w].token <= issued[job[w].on]
        /\ \A v \in Workers : job[w].on # None /\ job[v] = job[w] => v = w

(* There is a renewal on its way only for a worker on a delivery.           *)
BeatHasJob ==
    \A w \in Workers : beat[w].lease # None => job[w].on # None

(* A worker saves from the first experience on, and what it has come past   *)
(* is saved.                                                                *)
SavedSoFar ==
    \A w \in Workers :
        /\ pc[w] \notin {"saving", "stopping", "settling"} => next[w] = 1
        /\ pc[w] = "saving" =>
               \A i \in Experiences(job[w].on) :
                   i < next[w] => copies[job[w].on][i] > 0

(* A worker about to acknowledge has archived.                              *)
ArchivedBeforeAck ==
    \A w \in Workers :
        pc[w] \in {"stopping", "settling"} /\ verdict[w] = "complete"
        => job[w].on \notin pending

(* A worker is on no delivery that nobody submitted.                        *)
WorkIsSubmitted ==
    \A w \in Workers : job[w].on # None => rec[job[w].on].status # "absent"

DeliveryInvariant ==
    /\ TypeOK /\ TokensAreDistinct /\ BeatHasJob /\ WorkIsSubmitted
    /\ SavedSoFar /\ ArchivedBeforeAck
    /\ InputKeptUntilStored /\ AckMeansDone /\ OneCopyEach

-----------------------------------------------------------------------------
(* What the transitions of a record return.                                 *)

LEMMA DelayIsBounded ==
    ASSUME NEW attempt \in Nat
    PROVE  RetryDelay(attempt) \in 0..MaxDelay
BY DelaysAreTimes DEF RetryDelay

(* The fields of a record have their types, and it is put together from     *)
(* them.                                                                    *)
LEMMA RecordFields ==
    ASSUME NEW record \in Records(Owners)
    PROVE  /\ record.status \in Statuses
           /\ record.attempts \in 0..MaxAttempts
           /\ record.attempts \in Nat
           /\ record.attempts < MaxAttempts => record.attempts + 1 \in 0..MaxAttempts
           /\ record.owner \in Owners \cup {NoOwner}
           /\ record.token \in Nat
           /\ record.lease \in 0..LeaseDuration
           /\ Later(record.lease) \in 0..LeaseDuration
           /\ record.retry \in 0..MaxDelay
           /\ Later(record.retry) \in 0..MaxDelay
           /\ record = [status |-> record.status, attempts |-> record.attempts,
                        owner |-> record.owner, token |-> record.token,
                        lease |-> record.lease, retry |-> record.retry]
BY AttemptsArePositive, DelaysAreTimes, LeaseIsTime DEF Records, Later

LEMMA ZeroIsBound ==
    /\ 0 \in 0..MaxAttempts /\ 0 \in 0..LeaseDuration /\ 0 \in 0..MaxDelay
    /\ LeaseDuration \in 0..LeaseDuration
    /\ NoToken \in Nat
BY AttemptsArePositive, DelaysAreTimes, LeaseIsTime DEF NoToken

LEMMA RecordsStayRecords ==
    ASSUME NEW record \in Records(Owners)
    PROVE  /\ Submitted \in Records(Owners)
           /\ \A owner \in Owners, token \in Nat :
                  CanClaim(record) => Claimed(record, owner, token) \in Records(Owners)
           /\ \A lease \in 0..LeaseDuration :
                  Renewed(record, lease) \in Records(Owners)
           /\ Completed(record) \in Records(Owners)
           /\ \A retryable \in BOOLEAN : Failed(record, retryable) \in Records(Owners)
           /\ Expired(record) \in Records(Owners)
           /\ Aged(record) \in Records(Owners)
<1>1. ASSUME NEW status \in Statuses
      PROVE  Released(record, status) \in Records(Owners)
  BY RecordFields, ZeroIsBound DEF Released, Records
<1>2. Submitted \in Records(Owners)
  BY ZeroIsBound DEF Submitted, NoRecord, Records, Statuses
<1>3. ASSUME NEW owner \in Owners, NEW token \in Nat, CanClaim(record)
      PROVE  Claimed(record, owner, token) \in Records(Owners)
  BY <1>3, RecordFields, ZeroIsBound DEF Claimed, CanClaim, Records, Statuses
<1>4. ASSUME NEW lease \in 0..LeaseDuration
      PROVE  Renewed(record, lease) \in Records(Owners)
  BY RecordFields DEF Renewed, Records
<1>5. Completed(record) \in Records(Owners) /\ Expired(record) \in Records(Owners)
  BY <1>1 DEF Completed, Expired, Statuses
<1>6. ASSUME NEW retryable \in BOOLEAN
      PROVE  Failed(record, retryable) \in Records(Owners)
  <2>1. /\ Released(record, "dead_letter") \in Records(Owners)
        /\ Released(record, "pending") \in Records(Owners)
    BY <1>1 DEF Statuses
  <2>2. RetryDelay(record.attempts) \in 0..MaxDelay
    BY DelayIsBounded, RecordFields
  <2>3. ASSUME NEW r \in Records(Owners)
        PROVE  [r EXCEPT !.retry = RetryDelay(record.attempts)] \in Records(Owners)
    BY <2>2, RecordFields DEF Records
  <2>. QED
    BY <2>1, <2>3 DEF Failed
<1>7. Aged(record) \in Records(Owners)
  BY RecordFields DEF Aged, Records
<1>. QED
  BY <1>2, <1>3, <1>4, <1>5, <1>6, <1>7

LEMMA AgeingKeepsClaims ==
    ASSUME NEW record \in Records(Owners)
    PROVE  Aged(record).status = record.status /\ Aged(record).token = record.token
BY DEF Aged, Records

-----------------------------------------------------------------------------
(* Types.                                                                   *)

LEMMA Starts == Init => DeliveryInvariant
<1>. SUFFICES ASSUME Init PROVE DeliveryInvariant
  OBVIOUS
<1>1. NoRecord \in Records(Owners)
  BY ZeroIsBound DEF NoRecord, Records, Statuses
<1>2. TypeOK
  <2>1. rec \in [Deliveries -> Records(Owners)]
    BY <1>1 DEF Init
  <2>2. /\ issued \in [Deliveries -> Nat]
        /\ DOMAIN copies = Deliveries
        /\ \A d \in Deliveries : copies[d] \in [Experiences(d) -> Nat]
        /\ pending \subseteq Deliveries
    BY DEF Init
  <2>3. /\ pc \in [Workers -> Steps]
        /\ todo \in [Workers -> SUBSET Deliveries]
        /\ next \in [Workers -> Nat \ {0}]
        /\ verdict \in [Workers -> Verdicts]
        /\ inTime \in [Workers -> BOOLEAN]
    BY DEF Init, Steps, Verdicts
  <2>4. /\ job \in [Workers -> [on : Deliveries \cup {None}, token : Nat]]
        /\ beat \in [Workers -> [lease : 0..LeaseDuration \cup {None}, lost : BOOLEAN]]
    BY DEF Init, NoJob, Silent, NoToken
  <2>5. resets \in 0..MaxResets /\ faults \in 0..MaxFaults
    BY BoundsAreCounted DEF Init
  <2>6. \A w \in Workers : pc[w] \in {"idle", "running"} <=> job[w].on = None
    BY DEF Init, NoJob
  <2>. QED
    BY <2>1, <2>2, <2>3, <2>4, <2>5, <2>6 DEF TypeOK
<1>3. AckMeansDone
  BY DEF Init, NoRecord, AckMeansDone
<1>4. TokensAreDistinct /\ BeatHasJob /\ WorkIsSubmitted
  BY DEF Init, NoJob, Silent, TokensAreDistinct, BeatHasJob, WorkIsSubmitted
<1>5. SavedSoFar /\ ArchivedBeforeAck /\ InputKeptUntilStored
  BY DEF Init, SavedSoFar, ArchivedBeforeAck, InputKeptUntilStored
<1>6. OneCopyEach
  BY DEF Init, OneCopyEach
<1>. QED
  BY <1>2, <1>3, <1>4, <1>5, <1>6 DEF DeliveryInvariant

(* The store, the workers' own state and the bounds, one by one.            *)
StoreTypes ==
    /\ rec \in [Deliveries -> Records(Owners)]
    /\ issued \in [Deliveries -> Nat]
    /\ DOMAIN copies = Deliveries
    /\ \A d \in Deliveries : copies[d] \in [Experiences(d) -> Nat]
    /\ pending \subseteq Deliveries

WorkerTypes ==
    /\ pc \in [Workers -> Steps]
    /\ todo \in [Workers -> SUBSET Deliveries]
    /\ job \in [Workers -> [on : Deliveries \cup {None}, token : Nat]]
    /\ beat \in [Workers -> [lease : 0..LeaseDuration \cup {None}, lost : BOOLEAN]]
    /\ next \in [Workers -> Nat \ {0}]
    /\ verdict \in [Workers -> Verdicts]
    /\ inTime \in [Workers -> BOOLEAN]
    /\ \A w \in Workers : pc[w] \in {"idle", "running"} <=> job[w].on = None

LEMMA TypeParts ==
    /\ TypeOK <=> /\ StoreTypes /\ WorkerTypes
                  /\ resets \in 0..MaxResets /\ faults \in 0..MaxFaults
    /\ TypeOK' <=> /\ StoreTypes' /\ WorkerTypes'
                   /\ resets' \in 0..MaxResets /\ faults' \in 0..MaxFaults
BY DEF TypeOK, StoreTypes, WorkerTypes

(* A worker past its claim has a delivery.                                  *)
LEMMA OnDelivery ==
    ASSUME TypeOK, NEW w \in Workers, pc[w] \notin {"idle", "running"}
    PROVE  job[w].on \in Deliveries
BY DEF TypeOK

LEMMA FaultIsCounted ==
    ASSUME TypeOK, Fault
    PROVE  faults' \in 0..MaxFaults
BY BoundsAreCounted DEF TypeOK, Fault

LEMMA ForgettingIsTyped ==
    ASSUME WorkerTypes, NEW w \in Workers, NEW step \in {"running", "idle"},
           Goto(w, step), Forget(w), todo' \in [Workers -> SUBSET Deliveries]
    PROVE  WorkerTypes'
<1>1. /\ NoJob \in [on : Deliveries \cup {None}, token : Nat]
      /\ Silent \in [lease : 0..LeaseDuration \cup {None}, lost : BOOLEAN]
      /\ NoJob.on = None
  BY DEF NoJob, Silent, NoToken
<1>2. pc' \in [Workers -> Steps]
  BY DEF Goto, WorkerTypes, Steps
<1>3. /\ job' \in [Workers -> [on : Deliveries \cup {None}, token : Nat]]
      /\ beat' \in [Workers -> [lease : 0..LeaseDuration \cup {None}, lost : BOOLEAN]]
  BY <1>1 DEF Forget, WorkerTypes
<1>4. /\ next' \in [Workers -> Nat \ {0}]
      /\ verdict' \in [Workers -> Verdicts]
      /\ inTime' \in [Workers -> BOOLEAN]
  BY DEF Forget, WorkerTypes, Verdicts
<1>5. \A v \in Workers : pc'[v] \in {"idle", "running"} <=> job'[v].on = None
  BY <1>1 DEF Goto, Forget, WorkerTypes
<1>. QED
  BY <1>2, <1>3, <1>4, <1>5 DEF WorkerTypes

LEMMA AgainIsTyped ==
    ASSUME WorkerTypes, NEW w \in Workers, Again(w)
    PROVE  WorkerTypes'
<1>1. PICK step \in {"running", "idle"} : Goto(w, step)
  BY DEF Again
<1>2. todo' \in [Workers -> SUBSET Deliveries]
  BY DEF Again, WorkerTypes
<1>. QED
  BY <1>1, <1>2, ForgettingIsTyped DEF Again

(* A transition of one record keeps the records.                            *)
LEMMA OneRecordChanges ==
    ASSUME StoreTypes, NEW d \in Deliveries, NEW record \in Records(Owners),
           rec' = [rec EXCEPT ![d] = record]
    PROVE  rec' \in [Deliveries -> Records(Owners)]
BY DEF StoreTypes

LEMMA StoreStaysTyped ==
    ASSUME StoreTypes, rec' \in [Deliveries -> Records(Owners)],
           UNCHANGED <<issued, copies, pending>>
    PROVE  StoreTypes'
BY DEF StoreTypes

(* The steps of a worker that leave the store alone or change one record.   *)
LEMMA RunTypes ==
    ASSUME TypeOK, BeatHasJob, NEW w \in Workers,
           \/ StartRun(w) \/ NoWork(w) \/ Load(w) \/ Extract(w)
           \/ \E d \in Deliveries : Restore(w, d) \/ Claim(w, d)
    PROVE  TypeOK'
<1>. USE TypeParts
<1>1. CASE StartRun(w)
  <2>1. WorkerTypes'
    BY <1>1 DEF StartRun, Goto, WorkerTypes, Steps
  <2>. QED
    BY <1>1, <2>1 DEF StartRun, store, StoreTypes
<1>2. CASE NoWork(w)
  <2>1. WorkerTypes'
    BY <1>2 DEF NoWork, Goto, WorkerTypes, Steps
  <2>. QED
    BY <1>2, <2>1 DEF NoWork, store, StoreTypes
<1>3. CASE Load(w)
  <2>1. WorkerTypes'
    <3>1. CASE Goto(w, "extracting") /\ UNCHANGED <<verdict, inTime>>
      BY <1>3, <3>1 DEF Load, Goto, WorkerTypes, Steps
    <3>2. CASE AskToSettle(w, "dead_letter")
      <4>1. (LeaseOf(w) > 0) \in BOOLEAN
        OBVIOUS
      <4>2. inTime' \in [Workers -> BOOLEAN]
        BY <4>1, <3>2 DEF AskToSettle, WorkerTypes
      <4>. QED
        BY <1>3, <3>2, <4>2 DEF Load, AskToSettle, Goto, WorkerTypes, Steps, Verdicts
    <3>. QED
      BY <1>3, <3>1, <3>2 DEF Load
  <2>. QED
    BY <1>3, <2>1 DEF Load, store, StoreTypes
<1>4. CASE Extract(w)
  <2>1. WorkerTypes'
    <3>1. CASE Goto(w, "saving") /\ UNCHANGED verdict
      BY <1>4, <3>1 DEF Extract, Goto, WorkerTypes, Steps
    <3>2. CASE \E how \in {"retry", "dead_letter"} : StopFor(w, how)
      BY <1>4, <3>2 DEF Extract, StopFor, Goto, WorkerTypes, Steps, Verdicts
    <3>. QED
      BY <1>4, <3>1, <3>2 DEF Extract
  <2>. QED
    BY <1>4, <2>1 DEF Extract, store, StoreTypes
<1>5. ASSUME NEW d \in Deliveries, Restore(w, d)
      PROVE  TypeOK'
  <2>1. WorkerTypes'
    BY <1>5 DEF Restore, WorkerTypes
  <2>2. Expired(rec[d]) \in Records(Owners)
    BY RecordsStayRecords DEF StoreTypes
  <2>3. rec' \in [Deliveries -> Records(Owners)]
    BY <1>5, <2>2 DEF Restore, StoreTypes
  <2>. QED
    BY <1>5, <2>1, <2>3, StoreStaysTyped DEF Restore
<1>6. ASSUME NEW d \in Deliveries, Claim(w, d)
      PROVE  TypeOK'
  <2>1. issued[d] + 1 \in Nat
    BY DEF StoreTypes
  <2>2. WorkerTypes'
    BY <1>6, <2>1, NoneIsNoDelivery DEF Claim, Goto, WorkerTypes, Steps
  <2>3. Claimed(rec[d], WorkerId[w], issued[d] + 1) \in Records(Owners)
    BY <1>6, <2>1, IdsAreOwners, RecordsStayRecords DEF Claim, StoreTypes
  <2>4. StoreTypes'
    BY <1>6, <2>1, <2>3 DEF Claim, StoreTypes
  <2>. QED
    BY <1>6, <2>2, <2>4 DEF Claim
<1>. QED
  BY <1>1, <1>2, <1>3, <1>4, <1>5, <1>6

(* Saving, archiving and settling.                                          *)
LEMMA WriteTypes ==
    ASSUME TypeOK, NEW w \in Workers,
           \/ SaveExperience(w) \/ Archive(w) \/ StopHeartbeat(w)
           \/ Settle(w) \/ SettleUnwritten(w)
    PROVE  TypeOK'
<1>. USE TypeParts
<1>. DEFINE d == job[w].on
<1>1. CASE SaveExperience(w)
  <2>1. /\ d \in Deliveries
        /\ next[w] \in Experiences(d)
    BY <1>1, OnDelivery DEF SaveExperience
  <2>2. StoreTypes'
    <3>1. CASE UNCHANGED copies
      BY <1>1, <3>1 DEF SaveExperience, StoreTypes
    <3>2. CASE copies' = [copies EXCEPT ![d][next[w]] = 1]
      <4>1. DOMAIN copies' = Deliveries
        BY <3>2 DEF StoreTypes
      <4>2. ASSUME NEW e \in Deliveries
            PROVE  copies'[e] \in [Experiences(e) -> Nat]
        BY <2>1, <3>2 DEF StoreTypes
      <4>. QED
        BY <1>1, <4>1, <4>2 DEF SaveExperience, StoreTypes
    <3>. QED
      BY <1>1, <3>1, <3>2 DEF SaveExperience
  <2>3. WorkerTypes'
    <3>1. CASE UNCHANGED <<pc, verdict>>
      <4>1. next' = [next EXCEPT ![w] = @ + 1] \/ UNCHANGED next
        BY <1>1 DEF SaveExperience
      <4>. QED
        BY <1>1, <3>1, <4>1 DEF SaveExperience, WorkerTypes
    <3>2. CASE UNCHANGED next /\ \E how \in {"retry", "dead_letter"} : StopFor(w, how)
      BY <1>1, <3>2 DEF SaveExperience, StopFor, Goto, WorkerTypes, Steps, Verdicts
    <3>. QED
      BY <1>1, <3>1, <3>2 DEF SaveExperience
  <2>. QED
    BY <1>1, <2>2, <2>3 DEF SaveExperience
<1>2. CASE Archive(w)
  <2>1. StoreTypes'
    BY <1>2 DEF Archive, StoreTypes
  <2>2. PICK how \in {"complete", "retry"} : StopFor(w, how)
    BY <1>2 DEF Archive
  <2>3. WorkerTypes'
    BY <1>2, <2>2 DEF Archive, StopFor, Goto, WorkerTypes, Steps, Verdicts
  <2>. QED
    BY <1>2, <2>1, <2>3 DEF Archive
<1>3. CASE StopHeartbeat(w)
  <2>1. CASE Again(w)
    BY <1>3, <2>1, AgainIsTyped DEF StopHeartbeat, store, StoreTypes
  <2>2. CASE AskToSettle(w, verdict[w]) /\ UNCHANGED <<todo, job, beat, next>>
    <3>1. (LeaseOf(w) > 0) \in BOOLEAN
      OBVIOUS
    <3>2. inTime' \in [Workers -> BOOLEAN]
      BY <3>1, <2>2 DEF AskToSettle, WorkerTypes
    <3>3. WorkerTypes'
      BY <1>3, <2>2, <3>2
         DEF StopHeartbeat, AskToSettle, Goto, WorkerTypes, Steps
    <3>. QED
      BY <1>3, <3>3 DEF StopHeartbeat, store, StoreTypes
  <2>. QED
    BY <1>3, <2>1, <2>2 DEF StopHeartbeat
<1>4. CASE Settle(w)
  <2>1. d \in Deliveries
    BY <1>4, OnDelivery DEF Settle
  <2>2. Outcome(rec[d], verdict[w]) \in Records(Owners)
    <3>1. (verdict[w] = "retry") \in BOOLEAN
      OBVIOUS
    <3>. QED
      BY <2>1, <3>1, RecordsStayRecords DEF Outcome, StoreTypes
  <2>3. rec' \in [Deliveries -> Records(Owners)]
    BY <1>4, <2>1, <2>2 DEF Settle, StoreTypes
  <2>. QED
    BY <1>4, <2>3, StoreStaysTyped, AgainIsTyped DEF Settle
<1>5. CASE SettleUnwritten(w)
  BY <1>5, AgainIsTyped, FaultIsCounted DEF SettleUnwritten, store, StoreTypes
<1>. QED
  BY <1>1, <1>2, <1>3, <1>4, <1>5

(* The heartbeat, the crash, time, the producer and the operator.           *)
LEMMA OtherTypes ==
    ASSUME TypeOK, BeatHasJob,
           \/ \E w \in Workers :
                  BeginRenewal(w) \/ FinishRenewal(w) \/ RenewalFails(w) \/ Crash(w)
           \/ Tick
           \/ \E d \in Deliveries : Submit(d) \/ RetryDeadLetter(d)
    PROVE  TypeOK'
<1>. USE TypeParts
<1>. DEFINE Beats == [lease : 0..LeaseDuration \cup {None}, lost : BOOLEAN]
<1>1. ASSUME NEW w \in Workers, BeginRenewal(w)
      PROVE  TypeOK'
  <2>1. beat' \in [Workers -> Beats]
    BY <1>1, ZeroIsBound DEF BeginRenewal, Silent, WorkerTypes
  <2>. QED
    BY <1>1, <2>1 DEF BeginRenewal, store, StoreTypes, WorkerTypes
<1>2. ASSUME NEW w \in Workers, FinishRenewal(w)
      PROVE  TypeOK'
  <2>1. job[w].on \in Deliveries
    BY <1>2 DEF FinishRenewal, BeatHasJob, WorkerTypes
  <2>2. Renewed(rec[job[w].on], beat[w].lease) \in Records(Owners)
    BY <1>2, <2>1, RecordsStayRecords DEF FinishRenewal, StoreTypes, WorkerTypes
  <2>3. rec' \in [Deliveries -> Records(Owners)]
    BY <1>2, <2>1, <2>2 DEF FinishRenewal, StoreTypes
  <2>4. beat' \in [Workers -> Beats]
    <3>1. Silent \in Beats /\ [lease |-> None, lost |-> TRUE] \in Beats
      BY DEF Silent
    <3>2. PICK b \in Beats : beat' = [beat EXCEPT ![w] = b]
      BY <1>2, <3>1 DEF FinishRenewal
    <3>. QED
      BY <3>2 DEF WorkerTypes
  <2>5. WorkerTypes'
    BY <1>2, <2>4 DEF FinishRenewal, WorkerTypes
  <2>. QED
    BY <1>2, <2>3, <2>5, StoreStaysTyped DEF FinishRenewal
<1>3. ASSUME NEW w \in Workers, RenewalFails(w)
      PROVE  TypeOK'
  <2>1. beat' \in [Workers -> Beats]
    BY <1>3 DEF RenewalFails, WorkerTypes
  <2>2. WorkerTypes' /\ StoreTypes'
    BY <1>3, <2>1 DEF RenewalFails, store, StoreTypes, WorkerTypes
  <2>. QED
    BY <1>3, <2>2, FaultIsCounted DEF RenewalFails
<1>4. ASSUME NEW w \in Workers, Crash(w)
      PROVE  TypeOK'
  <2>1. todo' \in [Workers -> SUBSET Deliveries]
    BY <1>4 DEF Crash, WorkerTypes
  <2>2. WorkerTypes'
    BY <1>4, <2>1, ForgettingIsTyped DEF Crash
  <2>3. StoreTypes'
    BY <1>4 DEF Crash, store, StoreTypes
  <2>. QED
    BY <1>4, <2>2, <2>3, FaultIsCounted DEF Crash
<1>5. CASE Tick
  <2>1. rec' \in [Deliveries -> Records(Owners)]
    BY <1>5, RecordsStayRecords DEF Tick, StoreTypes
  <2>2. \A left \in 0..LeaseDuration : Later(left) \in 0..LeaseDuration
    BY LeaseIsTime DEF Later
  <2>3. beat' \in [Workers -> Beats]
    BY <1>5, <2>2 DEF Tick, WorkerTypes
  <2>4. WorkerTypes'
    BY <1>5, <2>3 DEF Tick, WorkerTypes
  <2>. QED
    BY <1>5, <2>1, <2>4, StoreStaysTyped DEF Tick
<1>6. ASSUME NEW d \in Deliveries, Submit(d) \/ RetryDeadLetter(d)
      PROVE  TypeOK'
  <2>1. rec' = [rec EXCEPT ![d] = Submitted]
    BY <1>6 DEF Submit, RetryDeadLetter, Reset
  <2>2. rec' \in [Deliveries -> Records(Owners)]
    BY <2>1, RecordsStayRecords DEF StoreTypes
  <2>3. StoreTypes' /\ WorkerTypes'
    BY <1>6, <2>2, StoreStaysTyped
       DEF Submit, RetryDeadLetter, workers, WorkerTypes
  <2>4. resets' \in 0..MaxResets /\ faults' \in 0..MaxFaults
    BY <1>6, BoundsAreCounted DEF Submit, RetryDeadLetter
  <2>. QED
    BY <2>3, <2>4
<1>. QED
  BY <1>1, <1>2, <1>3, <1>4, <1>5, <1>6

LEMMA TypesAreKept ==
    ASSUME TypeOK, BeatHasJob, [Next]_vars
    PROVE  TypeOK'
<1>1. CASE UNCHANGED vars
  BY <1>1, TypeParts
     DEF vars, store, workers, StoreTypes, WorkerTypes
<1>2. CASE Next
  BY <1>2, RunTypes, WriteTypes, OtherTypes DEF Next, WorkerStep, RunStep
<1>. QED
  BY <1>1, <1>2

-----------------------------------------------------------------------------
(* Tokens.                                                                  *)

(* Who forgets its delivery keeps the tokens apart.                         *)
LEMMA ForgettingKeepsTokensApart ==
    ASSUME TypeOK, TokensAreDistinct, BeatHasJob, NEW w \in Workers, Forget(w),
           UNCHANGED issued
    PROVE  TokensAreDistinct' /\ BeatHasJob'
BY DEF TypeOK, TokensAreDistinct, BeatHasJob, Forget, NoJob, Silent

LEMMA TokensStayDistinct ==
    ASSUME TypeOK, TokensAreDistinct, BeatHasJob, [Next]_vars
    PROVE  TokensAreDistinct' /\ BeatHasJob'
<1>1. ASSUME NEW w \in Workers, NEW d \in Deliveries, Claim(w, d)
      PROVE  TokensAreDistinct' /\ BeatHasJob'
  <2>1. job'[w].on = d /\ job'[w].token = issued[d] + 1 /\ issued'[d] = issued[d] + 1
    BY <1>1 DEF Claim, TypeOK
  <2>2. \A v \in Workers \ {w} : job'[v] = job[v]
    BY <1>1 DEF Claim, TypeOK
  <2>3. \A e \in Deliveries : issued[e] <= issued'[e] /\ issued[e] \in Nat
    BY <1>1 DEF Claim, TypeOK
  <2>4. ASSUME NEW v \in Workers, job[v] = job'[w]
        PROVE  FALSE
    <3>1. job[v].on = d /\ job[v].token = issued[d] + 1
      BY <2>1, <2>4
    <3>2. job[v].token <= issued[d]
      BY <3>1, NoneIsNoDelivery DEF TokensAreDistinct
    <3>. QED
      BY <2>3, <3>1, <3>2
  <2>5. \A v \in Workers : job'[v].on # None => job'[v].token <= issued'[job'[v].on]
    <3>1. ASSUME NEW v \in Workers \ {w}, job[v].on # None
          PROVE  job[v].token <= issued'[job[v].on]
      <4>1. /\ job[v].on \in Deliveries /\ job[v].token \in Nat
            /\ job[v].token <= issued[job[v].on]
        BY <3>1 DEF TokensAreDistinct, TypeOK
      <4>2. issued'[job[v].on] \in Nat
        BY <1>1, <4>1 DEF Claim, TypeOK
      <4>. QED
        BY <2>3, <4>1, <4>2
    <3>2. job'[w].token <= issued'[job'[w].on]
      BY <2>1, <2>3
    <3>. QED
      BY <2>2, <3>1, <3>2
  <2>6. ASSUME NEW v \in Workers, NEW u \in Workers, job'[u].on # None,
               job'[v] = job'[u]
        PROVE  u = v
    BY <2>2, <2>4, <2>6 DEF TokensAreDistinct
  <2>7. BeatHasJob'
    BY <1>1, <2>1, <2>2, NoneIsNoDelivery DEF Claim, BeatHasJob
  <2>. QED
    BY <2>5, <2>6, <2>7 DEF TokensAreDistinct
<1>2. ASSUME NEW w \in Workers, Forget(w), UNCHANGED issued
      PROVE  TokensAreDistinct' /\ BeatHasJob'
  BY <1>2, ForgettingKeepsTokensApart
<1>3. ASSUME NEW w \in Workers, BeginRenewal(w)
      PROVE  TokensAreDistinct' /\ BeatHasJob'
  BY <1>3 DEF BeginRenewal, store, TokensAreDistinct, BeatHasJob, TypeOK
<1>4. ASSUME NEW w \in Workers, FinishRenewal(w) \/ RenewalFails(w)
      PROVE  TokensAreDistinct' /\ BeatHasJob'
  <2>1. beat'[w].lease = None /\ (\A v \in Workers \ {w} : beat'[v] = beat[v])
    BY <1>4 DEF FinishRenewal, RenewalFails, Silent, TypeOK
  <2>2. UNCHANGED <<job, issued>>
    BY <1>4 DEF FinishRenewal, RenewalFails, store
  <2>. QED
    BY <2>1, <2>2 DEF TokensAreDistinct, BeatHasJob
<1>5. CASE Tick
  <2>1. \A w \in Workers : beat'[w].lease # None => beat[w].lease # None
    BY <1>5 DEF Tick
  <2>. QED
    BY <1>5, <2>1 DEF Tick, TokensAreDistinct, BeatHasJob
<1>6. CASE UNCHANGED <<job, beat, issued>>
  BY <1>6 DEF TokensAreDistinct, BeatHasJob
<1>. QED
  BY <1>1, <1>2, <1>3, <1>4, <1>5, <1>6
     DEF Next, WorkerStep, RunStep, StartRun, NoWork, Load, Extract, Restore,
         SaveExperience, Archive, StopHeartbeat, Settle, SettleUnwritten, Again,
         Crash, Submit, RetryDeadLetter, vars, store, workers

-----------------------------------------------------------------------------
(* The work.                                                                *)

(* No step takes an experience out of the store or a buffer back into the   *)
(* pending partition, and none stores an experience that is there already.  *)
LEMMA StoreGrows ==
    ASSUME TypeOK, OneCopyEach, [Next]_vars
    PROVE  /\ \A d \in Deliveries : \A i \in Experiences(d) :
                  copies[d][i] > 0 => copies'[d][i] > 0
           /\ pending' \subseteq pending
           /\ OneCopyEach'
<1>1. ASSUME NEW w \in Workers, SaveExperience(w)
      PROVE  /\ \A d \in Deliveries : \A i \in Experiences(d) :
                    /\ copies[d][i] > 0 => copies'[d][i] > 0
                    /\ copies'[d][i] <= 1
             /\ pending' \subseteq pending
  <2>1. \A d \in Deliveries : \A i \in Experiences(d) :
            copies[d][i] \in Nat /\ copies[d][i] <= 1
    BY DEF TypeOK, OneCopyEach
  <2>2. CASE UNCHANGED copies
    BY <1>1, <2>1, <2>2 DEF SaveExperience
  <2>3. CASE copies' = [copies EXCEPT ![job[w].on][next[w]] = 1]
    BY <1>1, <2>1, <2>3 DEF SaveExperience, TypeOK
  <2>. QED
    BY <1>1, <2>2, <2>3 DEF SaveExperience
<1>2. ASSUME NEW w \in Workers, Archive(w)
      PROVE  UNCHANGED copies /\ pending' \subseteq pending
  BY <1>2 DEF Archive
<1>3. CASE UNCHANGED <<copies, pending>>
  BY <1>3 DEF OneCopyEach
<1>. QED
  BY <1>1, <1>2, <1>3
     DEF Next, WorkerStep, RunStep, StartRun, NoWork, Load, Extract, Restore,
         Claim, StopHeartbeat, Settle, SettleUnwritten, Crash, Submit,
         RetryDeadLetter, BeginRenewal, FinishRenewal, RenewalFails, Tick, vars,
         store, OneCopyEach

(* A worker that goes idle or on to the next delivery has nothing saved.    *)
LEMMA ForgettingKeepsSaved ==
    ASSUME TypeOK, SavedSoFar, OneCopyEach, [Next]_vars, NEW w \in Workers,
           NEW step \in {"running", "idle"}, Goto(w, step), Forget(w)
    PROVE  SavedSoFar'
<1>1. /\ pc'[w] \in {"running", "idle"} /\ next'[w] = 1
      /\ \A v \in Workers \ {w} :
             pc'[v] = pc[v] /\ next'[v] = next[v] /\ job'[v] = job[v]
  BY DEF Goto, Forget, TypeOK
<1>2. \A v \in Workers : pc[v] = "saving" => job[v].on \in Deliveries
  BY OnDelivery
<1>. QED
  BY <1>1, <1>2, StoreGrows DEF SavedSoFar

LEMMA SavedStaysSaved ==
    ASSUME TypeOK, SavedSoFar, OneCopyEach, [Next]_vars
    PROVE  SavedSoFar'
<1>1. ASSUME NEW w \in Workers, SaveExperience(w)
      PROVE  SavedSoFar'
  <2>1. job[w].on \in Deliveries
    BY <1>1, OnDelivery DEF SaveExperience
  <2>2. \A v \in Workers \ {w} :
            pc'[v] = pc[v] /\ next'[v] = next[v] /\ job'[v] = job[v]
    BY <1>1 DEF SaveExperience, StopFor, Goto, TypeOK
  <2>3. \A v \in Workers : pc[v] = "saving" => job[v].on \in Deliveries
    BY OnDelivery
  <2>4. ASSUME NEW v \in Workers \ {w}
        PROVE  /\ pc'[v] \notin {"saving", "stopping", "settling"} => next'[v] = 1
               /\ pc'[v] = "saving" =>
                      \A i \in Experiences(job'[v].on) :
                          i < next'[v] => copies'[job'[v].on][i] > 0
    BY <2>2, <2>3, StoreGrows DEF SavedSoFar
  <2>5. CASE UNCHANGED pc
    <3>1. /\ next'[w] = next[w] + 1 /\ job'[w] = job[w] /\ pc'[w] = "saving"
          /\ next[w] \in Nat
      <4>1. next' = [next EXCEPT ![w] = @ + 1]
        BY <1>1, <2>5 DEF SaveExperience, StopFor, Goto, TypeOK
      <4>. QED
        BY <1>1, <2>5, <4>1 DEF SaveExperience, TypeOK
    <3>2. copies'[job[w].on][next[w]] > 0
      <4>1. copies[job[w].on][next[w]] \in Nat
        BY <1>1, <2>1 DEF SaveExperience, TypeOK
      <4>2. copies' = IF copies[job[w].on][next[w]] = 0
                      THEN [copies EXCEPT ![job[w].on][next[w]] = 1]
                      ELSE copies
        BY <1>1, <2>5 DEF SaveExperience, StopFor, Goto, TypeOK
      <4>. QED
        BY <1>1, <2>1, <4>1, <4>2 DEF SaveExperience, TypeOK
    <3>3. ASSUME NEW i \in Experiences(job[w].on), i < next[w] + 1
          PROVE  copies'[job[w].on][i] > 0
      <4>1. CASE i = next[w]
        BY <3>2, <4>1
      <4>2. CASE i # next[w]
        <5>1. i < next[w]
          BY <3>1, <3>3, <4>2, SizesAreCounted, <2>1 DEF Experiences
        <5>. QED
          BY <1>1, <2>1, <5>1, StoreGrows DEF SavedSoFar, SaveExperience
      <4>. QED
        BY <4>1, <4>2
    <3>. QED
      BY <2>4, <3>1, <3>3 DEF SavedSoFar
  <2>6. CASE \E how \in {"retry", "dead_letter"} : StopFor(w, how)
    <3>1. pc'[w] = "stopping"
      BY <2>6 DEF StopFor, Goto, TypeOK
    <3>. QED
      BY <2>4, <3>1 DEF SavedSoFar
  <2>. QED
    BY <1>1, <2>5, <2>6 DEF SaveExperience
<1>2. ASSUME NEW w \in Workers,
             StartRun(w) \/ NoWork(w) \/ Load(w) \/ Extract(w) \/ Archive(w)
               \/ \E d \in Deliveries : Claim(w, d)
      PROVE  SavedSoFar'
  <2>1. /\ next' = next
        /\ \A v \in Workers \ {w} : pc'[v] = pc[v] /\ job'[v] = job[v]
    BY <1>2 DEF StartRun, NoWork, Load, Extract, Archive, Claim, StopFor,
                AskToSettle, Goto, TypeOK
  <2>2. \A v \in Workers : pc[v] = "saving" => job[v].on \in Deliveries
    BY OnDelivery
  <2>3. /\ pc'[w] \notin {"saving", "stopping", "settling"} => next[w] = 1
        /\ pc'[w] = "saving" => next[w] = 1
    BY <1>2 DEF StartRun, NoWork, Load, Extract, Archive, Claim, StopFor,
                AskToSettle, Goto, TypeOK, SavedSoFar
  <2>4. job'[w].on \in Deliveries => \A i \in Experiences(job'[w].on) : ~ (i < 1)
    BY SizesAreCounted DEF Experiences
  <2>5. pc'[w] = "saving" => job'[w].on \in Deliveries
    <3>1. pc'[w] = "saving" => job' = job /\ pc[w] \notin {"idle", "running"}
      BY <1>2 DEF StartRun, NoWork, Load, Extract, Archive, Claim, StopFor,
                  AskToSettle, Goto, TypeOK
    <3>. QED
      BY <3>1, OnDelivery
  <2>. QED
    BY <2>1, <2>2, <2>3, <2>4, <2>5, StoreGrows DEF SavedSoFar
<1>3. ASSUME NEW w \in Workers, AskToSettle(w, verdict[w]), UNCHANGED <<job, next>>
      PROVE  SavedSoFar'
  <2>1. pc'[w] = "settling" /\ \A v \in Workers \ {w} : pc'[v] = pc[v]
    BY <1>3 DEF AskToSettle, Goto, TypeOK
  <2>2. \A v \in Workers : pc[v] = "saving" => job[v].on \in Deliveries
    BY OnDelivery
  <2>. QED
    BY <1>3, <2>1, <2>2, StoreGrows DEF SavedSoFar
<1>4. ASSUME NEW w \in Workers, Again(w)
      PROVE  SavedSoFar'
  BY <1>4, ForgettingKeepsSaved DEF Again
<1>5. ASSUME NEW w \in Workers, Crash(w)
      PROVE  SavedSoFar'
  BY <1>5, ForgettingKeepsSaved DEF Crash
<1>6. CASE UNCHANGED <<pc, job, next, copies>>
  BY <1>6 DEF SavedSoFar
<1>. QED
  BY <1>1, <1>2, <1>3, <1>4, <1>5, <1>6
     DEF Next, WorkerStep, RunStep, Restore, StopHeartbeat, Settle,
         SettleUnwritten, Submit, RetryDeadLetter, BeginRenewal, FinishRenewal,
         RenewalFails, Tick, vars, store, workers

(* Who does not end with an acknowledgement in mind stays harmless.         *)
LEMMA ArchivedStaysArchived ==
    ASSUME TypeOK, ArchivedBeforeAck, OneCopyEach, [Next]_vars
    PROVE  ArchivedBeforeAck'
<1>. DEFINE Same(v) == UNCHANGED <<pc[v], verdict[v], job[v]>>
<1>1. pending' \subseteq pending
  BY StoreGrows
<1>2. ASSUME NEW w \in Workers, \A v \in Workers \ {w} : Same(v),
             \/ pc'[w] \notin {"stopping", "settling"}
             \/ verdict'[w] # "complete"
             \/ job'[w].on \notin pending'
      PROVE  ArchivedBeforeAck'
  BY <1>1, <1>2 DEF ArchivedBeforeAck
<1>3. ASSUME NEW w \in Workers, Again(w)
      PROVE  ArchivedBeforeAck'
  <2>1. PICK step \in {"running", "idle"} : Goto(w, step)
    BY <1>3 DEF Again
  <2>2. pc'[w] = step /\ \A v \in Workers \ {w} : Same(v)
    BY <1>3, <2>1 DEF Again, Goto, Forget, TypeOK
  <2>. QED
    BY <1>2, <2>2
<1>4. ASSUME NEW w \in Workers, Crash(w)
      PROVE  ArchivedBeforeAck'
  <2>1. pc'[w] = "idle" /\ \A v \in Workers \ {w} : Same(v)
    BY <1>4 DEF Crash, Goto, Forget, TypeOK
  <2>. QED
    BY <1>2, <2>1
<1>5. ASSUME NEW w \in Workers,
             StartRun(w) \/ NoWork(w) \/ Load(w) \/ Extract(w) \/ SaveExperience(w)
               \/ \E d \in Deliveries : Claim(w, d)
      PROVE  ArchivedBeforeAck'
  <2>1. \A v \in Workers \ {w} : Same(v)
    BY <1>5 DEF StartRun, NoWork, Load, Extract, SaveExperience, Claim, StopFor,
                AskToSettle, Goto, TypeOK
  <2>2. pc'[w] \in {"stopping", "settling"} => verdict'[w] # "complete"
    BY <1>5 DEF StartRun, NoWork, Load, Extract, SaveExperience, Claim, StopFor,
                AskToSettle, Goto, TypeOK
  <2>. QED
    BY <1>2, <2>1, <2>2
<1>6. ASSUME NEW w \in Workers, Archive(w)
      PROVE  ArchivedBeforeAck'
  <2>1. \A v \in Workers \ {w} : Same(v)
    BY <1>6 DEF Archive, StopFor, Goto, TypeOK
  <2>2. \/ pending' = pending \ {job[w].on} /\ job'[w] = job[w]
        \/ verdict'[w] # "complete"
    BY <1>6 DEF Archive, StopFor, TypeOK
  <2>. QED
    BY <1>2, <2>1, <2>2
<1>7. ASSUME NEW w \in Workers, pc[w] = "stopping", AskToSettle(w, verdict[w]),
             UNCHANGED job
      PROVE  ArchivedBeforeAck'
  <2>1. /\ \A v \in Workers \ {w} : Same(v)
        /\ pc[w] = "stopping" /\ verdict'[w] = verdict[w] /\ job'[w] = job[w]
    BY <1>7 DEF AskToSettle, Goto, TypeOK
  <2>. QED
    BY <1>1, <1>2, <2>1 DEF ArchivedBeforeAck
<1>8. CASE UNCHANGED <<pc, verdict, job>>
  BY <1>1, <1>8 DEF ArchivedBeforeAck
<1>. QED
  BY <1>3, <1>4, <1>5, <1>6, <1>7, <1>8
     DEF Next, WorkerStep, RunStep, Restore, StopHeartbeat, Settle,
         SettleUnwritten, Submit, RetryDeadLetter, BeginRenewal, FinishRenewal,
         RenewalFails, Tick, vars, store, workers

LEMMA InputStaysKept ==
    ASSUME TypeOK, SavedSoFar, OneCopyEach, InputKeptUntilStored, [Next]_vars
    PROVE  InputKeptUntilStored'
<1>1. ASSUME NEW w \in Workers, Archive(w)
      PROVE  InputKeptUntilStored'
  <2>1. job[w].on \in Deliveries
    BY <1>1, OnDelivery DEF Archive
  <2>2. \A i \in Experiences(job[w].on) : i < next[w]
    <3>1. Size[job[w].on] \in Nat /\ next[w] \in Nat \ {0}
      BY <2>1, SizesAreCounted DEF TypeOK
    <3>. QED
      BY <1>1, <3>1 DEF Archive, Experiences
  <2>3. \A i \in Experiences(job[w].on) : copies[job[w].on][i] > 0
    BY <1>1, <2>2 DEF Archive, SavedSoFar
  <2>4. \A d \in Deliveries \ pending' : d \notin pending \/ d = job[w].on
    BY <1>1 DEF Archive
  <2>. QED
    BY <1>1, <2>3, <2>4 DEF Archive, InputKeptUntilStored
<1>2. CASE UNCHANGED pending
  BY <1>2, StoreGrows DEF InputKeptUntilStored
<1>. QED
  BY <1>1, <1>2
     DEF Next, WorkerStep, RunStep, StartRun, NoWork, Load, Extract, Restore,
         Claim, SaveExperience, StopHeartbeat, Settle, SettleUnwritten, Crash,
         Submit, RetryDeadLetter, BeginRenewal, FinishRenewal, RenewalFails, Tick,
         vars, store

(* The one way to processed: a worker that acknowledges.                    *)
Acknowledges(w, d) ==
    pc[w] = "settling" /\ verdict[w] = "complete" /\ job[w].on = d

Moved(d, from, to) == PhaseOf(d) = from /\ PhaseOf(d)' = to

PhaseMoves(d) ==
    \/ Moved(d, "absent", "open")
    \/ Moved(d, "open", "dead_letter")
    \/ Moved(d, "dead_letter", "open")
    \/ Moved(d, "open", "processed") /\ \E w \in Workers : Acknowledges(w, d)

(* A step moves no delivery to another phase, or one and nothing else.      *)
MovesOnePhase ==
    \/ \A d \in Deliveries : PhaseOf(d)' = PhaseOf(d)
    \/ \E d \in Deliveries :
           /\ PhaseMoves(d)
           /\ \A e \in Deliveries \ {d} : PhaseOf(e)' = PhaseOf(e)
           /\ UNCHANGED <<copies, pending>>

(* The statuses that a claim ends with.                                     *)
LEMMA ClaimsEndWith ==
    ASSUME NEW record \in Records(Owners)
    PROVE  /\ \A retryable \in BOOLEAN :
                  Failed(record, retryable).status \in {"pending", "dead_letter"}
           /\ Expired(record).status \in {"pending", "dead_letter"}
           /\ Completed(record).status = "processed"
BY DEF Failed, Expired, Completed, Released, Records

(* A record that is given another status moves its delivery alone.          *)
LEMMA OneStatusChanges ==
    ASSUME TypeOK, NEW d \in Deliveries, NEW record,
           rec' = [rec EXCEPT ![d] = record]
    PROVE  /\ \A e \in Deliveries \ {d} : PhaseOf(e)' = PhaseOf(e)
           /\ PhaseOf(d)' = IF record.status \in {"pending", "processing"}
                            THEN "open" ELSE record.status
BY DEF TypeOK, PhaseOf

LEMMA StepsMoveOnePhase ==
    ASSUME TypeOK, BeatHasJob, [Next]_vars
    PROVE  MovesOnePhase
<1>0. \A d \in Deliveries : rec[d] \in Records(Owners)
  BY DEF TypeOK
<1>1. ASSUME NEW d \in Deliveries, Submit(d) \/ RetryDeadLetter(d)
      PROVE  MovesOnePhase
  <2>1. /\ rec' = [rec EXCEPT ![d] = Submitted]
        /\ rec[d].status \in {"absent", "dead_letter"}
        /\ Submitted.status = "pending"
        /\ UNCHANGED <<copies, pending>>
    BY <1>1 DEF Submit, RetryDeadLetter, Reset, CanReset, Submitted, NoRecord
  <2>2. PhaseMoves(d)
    BY <2>1, OneStatusChanges DEF PhaseMoves, Moved, PhaseOf
  <2>. QED
    BY <2>1, <2>2, OneStatusChanges DEF MovesOnePhase
<1>2. ASSUME NEW w \in Workers, NEW d \in Deliveries, Restore(w, d)
      PROVE  MovesOnePhase
  <2>1. CASE rec' = rec
    BY <2>1 DEF MovesOnePhase, PhaseOf
  <2>2. CASE rec' # rec
    <3>1. /\ rec' = [rec EXCEPT ![d] = Expired(rec[d])]
          /\ rec[d].status = "processing"
          /\ UNCHANGED <<copies, pending>>
      BY <1>2, <2>2 DEF Restore, ClaimExpired
    <3>2. \/ PhaseMoves(d)
          \/ PhaseOf(d)' = PhaseOf(d)
      BY <1>0, <3>1, ClaimsEndWith, OneStatusChanges DEF PhaseMoves, Moved, PhaseOf
    <3>. QED
      BY <3>1, <3>2, OneStatusChanges DEF MovesOnePhase
  <2>. QED
    BY <2>1, <2>2
<1>3. ASSUME NEW w \in Workers, NEW d \in Deliveries, Claim(w, d)
      PROVE  MovesOnePhase
  <2>1. /\ rec' = [rec EXCEPT ![d] = Claimed(rec[d], WorkerId[w], issued[d] + 1)]
        /\ rec[d].status = "pending"
    BY <1>3 DEF Claim, CanClaim, IsDue
  <2>2. Claimed(rec[d], WorkerId[w], issued[d] + 1).status = "processing"
    BY <1>0 DEF Claimed, Records
  <2>3. PhaseOf(d)' = PhaseOf(d)
    BY <2>1, <2>2, OneStatusChanges DEF PhaseOf
  <2>. QED
    BY <2>1, <2>3, OneStatusChanges DEF MovesOnePhase
<1>4. ASSUME NEW w \in Workers, Settle(w)
      PROVE  MovesOnePhase
  <2>1. PICK d \in Deliveries : d = job[w].on
    BY <1>4, OnDelivery DEF Settle
  <2>2. CASE rec' = rec
    BY <2>2 DEF MovesOnePhase, PhaseOf
  <2>3. CASE rec' # rec
    <3>1. /\ rec' = [rec EXCEPT ![d] = Outcome(rec[d], verdict[w])]
          /\ rec[d].status = "processing"
          /\ UNCHANGED <<copies, pending>>
      BY <1>4, <2>1, <2>3 DEF Settle, Holds, HoldsToken
    <3>2. CASE verdict[w] = "complete"
      <4>1. Outcome(rec[d], verdict[w]).status = "processed"
        BY <1>0, <3>2, ClaimsEndWith DEF Outcome
      <4>2. Moved(d, "open", "processed") /\ Acknowledges(w, d)
        BY <1>4, <2>1, <3>1, <3>2, <4>1, OneStatusChanges
           DEF Moved, PhaseOf, Acknowledges, Settle
      <4>. QED
        BY <2>1, <3>1, <4>2, OneStatusChanges DEF MovesOnePhase, PhaseMoves
    <3>3. CASE verdict[w] # "complete"
      <4>1. Outcome(rec[d], verdict[w]).status \in {"pending", "dead_letter"}
        <5>1. (verdict[w] = "retry") \in BOOLEAN
          OBVIOUS
        <5>. QED
          BY <1>0, <3>3, <5>1, ClaimsEndWith DEF Outcome
      <4>2. PhaseMoves(d) \/ PhaseOf(d)' = PhaseOf(d)
        BY <2>1, <3>1, <4>1, OneStatusChanges DEF PhaseMoves, Moved, PhaseOf
      <4>. QED
        BY <2>1, <3>1, <4>2, OneStatusChanges DEF MovesOnePhase
    <3>. QED
      BY <3>2, <3>3
  <2>. QED
    BY <2>2, <2>3
<1>5. ASSUME NEW w \in Workers, FinishRenewal(w)
      PROVE  MovesOnePhase
  <2>1. PICK d \in Deliveries : d = job[w].on
    BY <1>5 DEF FinishRenewal, BeatHasJob, TypeOK
  <2>2. Renewed(rec[d], beat[w].lease).status = rec[d].status
    BY <1>0 DEF Renewed, Records
  <2>3. CASE rec' = rec
    BY <2>3 DEF MovesOnePhase, PhaseOf
  <2>4. CASE rec' = [rec EXCEPT ![d] = Renewed(rec[d], beat[w].lease)]
    <3>1. PhaseOf(d)' = PhaseOf(d)
      BY <2>1, <2>2, <2>4, OneStatusChanges DEF PhaseOf
    <3>. QED
      BY <2>1, <2>4, <3>1, OneStatusChanges DEF MovesOnePhase
  <2>. QED
    BY <1>5, <2>1, <2>3, <2>4 DEF FinishRenewal
<1>6. CASE Tick
  <2>1. \A d \in Deliveries : rec'[d].status = rec[d].status
    BY <1>0, <1>6, AgeingKeepsClaims DEF Tick
  <2>. QED
    BY <2>1 DEF MovesOnePhase, PhaseOf
<1>7. CASE UNCHANGED rec
  BY <1>7 DEF MovesOnePhase, PhaseOf
<1>. QED
  BY <1>1, <1>2, <1>3, <1>4, <1>5, <1>6, <1>7
     DEF Next, WorkerStep, RunStep, StartRun, NoWork, Load, Extract,
         SaveExperience, Archive, StopHeartbeat, SettleUnwritten, BeginRenewal,
         RenewalFails, Crash, vars, store

(* No delivery becomes absent again, and a worker that takes one finds it   *)
(* submitted.                                                               *)
LEMMA WorkStaysSubmitted ==
    ASSUME TypeOK, BeatHasJob, WorkIsSubmitted, [Next]_vars
    PROVE  WorkIsSubmitted'
<1>1. \A d \in Deliveries : rec[d].status # "absent" => rec'[d].status # "absent"
  BY StepsMoveOnePhase DEF MovesOnePhase, PhaseMoves, Moved, PhaseOf
<1>2. ASSUME NEW w \in Workers, job'[w].on # None
      PROVE  \/ job'[w] = job[w]
             \/ \E d \in Deliveries : job'[w].on = d /\ rec[d].status # "absent"
  <2>1. ASSUME NEW v \in Workers, Forget(v)
        PROVE  job'[w] = job[w]
    BY <1>2, <2>1 DEF Forget, NoJob, TypeOK
  <2>2. ASSUME NEW v \in Workers, NEW d \in Deliveries, Claim(v, d)
        PROVE  job'[w] = job[w] \/ (job'[w].on = d /\ rec[d].status # "absent")
    BY <2>2 DEF Claim, CanClaim, IsDue, TypeOK
  <2>3. CASE UNCHANGED job
    BY <2>3
  <2>. QED
    BY <2>1, <2>2, <2>3
       DEF Next, WorkerStep, RunStep, StartRun, NoWork, Load, Extract, Restore,
           SaveExperience, Archive, StopHeartbeat, Settle, SettleUnwritten, Again,
           Crash, Submit, RetryDeadLetter, BeginRenewal, FinishRenewal,
           RenewalFails, Tick, vars, store, workers
<1>3. \A w \in Workers : job[w].on # None => job[w].on \in Deliveries
  BY DEF TypeOK
<1>. QED
  BY <1>1, <1>2, <1>3 DEF WorkIsSubmitted

LEMMA DoneStaysDone ==
    ASSUME TypeOK, BeatHasJob, ArchivedBeforeAck, OneCopyEach, AckMeansDone,
           [Next]_vars
    PROVE  AckMeansDone'
<1>1. pending' \subseteq pending
  BY StoreGrows
<1>2. ASSUME NEW d \in Deliveries, rec'[d].status = "processed"
      PROVE  d \notin pending
  <2>1. PhaseOf(d)' = "processed"
    BY <1>2 DEF PhaseOf
  <2>2. \/ PhaseOf(d) = "processed"
        \/ \E w \in Workers : Acknowledges(w, d)
    BY <2>1, StepsMoveOnePhase DEF MovesOnePhase, PhaseMoves, Moved
  <2>3. PhaseOf(d) = "processed" => rec[d].status = "processed"
    BY DEF PhaseOf
  <2>. QED
    BY <2>2, <2>3 DEF AckMeansDone, ArchivedBeforeAck, Acknowledges
<1>. QED
  BY <1>1, <1>2 DEF AckMeansDone

(* A claim whose lease runs ends by its holder's settling.                  *)
LEMMA LiveClaimEnds ==
    ASSUME TypeOK, BeatHasJob, TokensAreDistinct, [Next]_vars, NEW d \in Deliveries,
           rec[d].status = "processing", rec[d].lease > 0,
           rec'[d].token # rec[d].token
    PROVE  EndsByHolder(d)
<1>0. rec \in [Deliveries -> Records(Owners)]
  BY DEF TypeOK
<1>1. ASSUME NEW e \in Deliveries, Submit(e) \/ RetryDeadLetter(e)
      PROVE  FALSE
  <2>1. rec' = [rec EXCEPT ![e] = Submitted] /\ rec[e].status # "processing"
    BY <1>1 DEF Submit, RetryDeadLetter, Reset, CanReset
  <2>. QED
    BY <1>0, <2>1
<1>2. ASSUME NEW w \in Workers, NEW e \in Deliveries, Restore(w, e)
      PROVE  FALSE
  <2>1. rec' = rec \/ (rec' = [rec EXCEPT ![e] = Expired(rec[e])]
                         /\ rec[e].lease = 0)
    BY <1>2 DEF Restore, ClaimExpired
  <2>. QED
    BY <1>0, <2>1
<1>3. ASSUME NEW w \in Workers, NEW e \in Deliveries, Claim(w, e)
      PROVE  FALSE
  <2>1. /\ rec' = [rec EXCEPT ![e] = Claimed(rec[e], WorkerId[w], issued[e] + 1)]
        /\ rec[e].status = "pending"
    BY <1>3 DEF Claim, CanClaim, IsDue
  <2>. QED
    BY <1>0, <2>1
<1>4. ASSUME NEW w \in Workers, Settle(w)
      PROVE  EndsByHolder(d)
  <2>. DEFINE e == job[w].on
  <2>1. rec' = rec \/ (rec' = [rec EXCEPT ![e] = Outcome(rec[e], verdict[w])]
                         /\ rec[e].token = job[w].token)
    BY <1>4 DEF Settle, Holds, HoldsToken
  <2>2. e = d /\ rec[d].token = job[w].token
    BY <1>0, <2>1
  <2>3. job[w] = [on |-> d, token |-> rec[d].token]
    BY <2>2 DEF TypeOK
  <2>4. pc'[w] # "settling"
    BY <1>4 DEF Settle, Again, Goto, TypeOK
  <2>5. \A v \in Workers : job[v] = job[w] => v = w
    BY <2>2, NoneIsNoDelivery DEF TokensAreDistinct
  <2>. QED
    BY <1>4, <2>3, <2>4, <2>5 DEF Settle, EndsByHolder
<1>5. ASSUME NEW w \in Workers, FinishRenewal(w)
      PROVE  FALSE
  <2>. DEFINE e == job[w].on
  <2>1. e \in Deliveries
    BY <1>5 DEF FinishRenewal, BeatHasJob, TypeOK
  <2>2. Renewed(rec[e], beat[w].lease).token = rec[e].token
    BY <1>0, <2>1 DEF Renewed, Records
  <2>3. rec' = rec \/ rec' = [rec EXCEPT ![e] = Renewed(rec[e], beat[w].lease)]
    BY <1>5 DEF FinishRenewal
  <2>. QED
    BY <1>0, <2>1, <2>2, <2>3
<1>6. CASE Tick
  <2>1. rec'[d] = Aged(rec[d])
    BY <1>6 DEF Tick
  <2>. QED
    BY <1>0, <2>1, AgeingKeepsClaims
<1>7. CASE UNCHANGED rec
  BY <1>7
<1>. QED
  BY <1>1, <1>2, <1>3, <1>4, <1>5, <1>6, <1>7
     DEF Next, WorkerStep, RunStep, StartRun, NoWork, Load, Extract,
         SaveExperience, Archive, StopHeartbeat, SettleUnwritten, BeginRenewal,
         RenewalFails, Crash, vars, store

-----------------------------------------------------------------------------
(* The theorems.                                                            *)

LEMMA InvariantIsInductive == DeliveryInvariant /\ [Next]_vars => DeliveryInvariant'
<1>. SUFFICES ASSUME DeliveryInvariant, [Next]_vars PROVE DeliveryInvariant'
  OBVIOUS
<1>. USE DEF DeliveryInvariant
<1>1. TypeOK'
  BY TypesAreKept
<1>2. TokensAreDistinct' /\ BeatHasJob' /\ WorkIsSubmitted'
  BY TokensStayDistinct, WorkStaysSubmitted
<1>3. SavedSoFar' /\ ArchivedBeforeAck'
  BY SavedStaysSaved, ArchivedStaysArchived
<1>4. InputKeptUntilStored' /\ AckMeansDone' /\ OneCopyEach'
  BY InputStaysKept, DoneStaysDone, StoreGrows
<1>. QED
  BY <1>1, <1>2, <1>3, <1>4

LEMMA InvariantHolds == Spec => []DeliveryInvariant
BY Starts, InvariantIsInductive, PTL DEF Spec

(* The records and the workers keep their types: no record ever has more    *)
(* attempts than the policy allows.                                         *)
THEOREM DeliveryTypes == Spec => []TypeOK
<1>1. DeliveryInvariant => TypeOK
  BY DEF DeliveryInvariant
<1>. QED
  BY <1>1, InvariantHolds, PTL

(* context-delivery-processor.ts:14-17: input is archived only when all of  *)
(* it is stored.                                                            *)
THEOREM InputIsKept == Spec => []InputKeptUntilStored
<1>1. DeliveryInvariant => InputKeptUntilStored
  BY DEF DeliveryInvariant
<1>. QED
  BY <1>1, InvariantHolds, PTL

(* context-delivery-processor.ts:18-21: an acknowledged delivery has been   *)
(* archived, whichever worker did it.                                       *)
THEOREM AcknowledgedIsDone == Spec => []AckMeansDone
<1>1. DeliveryInvariant => AckMeansDone
  BY DEF DeliveryInvariant
<1>. QED
  BY <1>1, InvariantHolds, PTL

(* memory-cycle.ts:163-166: an experience is stored once, however many      *)
(* workers and attempts come to save it.                                    *)
THEOREM ExperiencesAreUnique == Spec => []OneCopyEach
<1>1. DeliveryInvariant => OneCopyEach
  BY DEF DeliveryInvariant
<1>. QED
  BY <1>1, InvariantHolds, PTL

(* delivery-lifecycle.ts:249-258: fencing.  While a lease runs, a claim     *)
(* ends by its holder alone.                                                *)
THEOREM LiveClaimsAreSafe == Spec => LiveClaimIsItsHolders
<1>1. DeliveryInvariant /\ [Next]_vars =>
        [\A d \in Deliveries :
            rec[d].status = "processing" /\ rec[d].lease > 0
              /\ rec'[d].token # rec[d].token
            => EndsByHolder(d)]_vars
  BY LiveClaimEnds DEF DeliveryInvariant
<1>. QED
  BY <1>1, InvariantHolds, PTL DEF Spec, LiveClaimIsItsHolders

-----------------------------------------------------------------------------
(* The promise of ExperienceIntake.                                         *)

LEMMA PromiseAtStart == Init => Intake!Init
<1>. SUFFICES ASSUME Init PROVE Intake!Init
  OBVIOUS
<1>1. \A d \in Deliveries : PhaseOf(d) = "absent" /\ StoredOf(d) = {}
  BY DEF Init, NoRecord, PhaseOf, StoredOf
<1>. QED
  BY <1>1 DEF Init, Intake!Init

(* What was not moved, stored or discarded stands still.                    *)
LEMMA NothingPromised ==
    ASSUME \A d \in Deliveries : PhaseOf(d)' = PhaseOf(d),
           \A d \in Deliveries : StoredOf(d)' = StoredOf(d),
           UNCHANGED pending
    PROVE  UNCHANGED Intake!vars
<1>1. [d \in Deliveries |-> PhaseOf(d)]' = [d \in Deliveries |-> PhaseOf(d)]
  OBVIOUS
<1>2. [d \in Deliveries |-> StoredOf(d)]' = [d \in Deliveries |-> StoredOf(d)]
  OBVIOUS
<1>. QED
  BY <1>1, <1>2 DEF Intake!vars

LEMMA MovesArePromised ==
    ASSUME DeliveryInvariant, NEW d \in Deliveries, PhaseMoves(d),
           \A e \in Deliveries \ {d} : PhaseOf(e)' = PhaseOf(e),
           UNCHANGED <<copies, pending>>
    PROVE  Intake!Next
<1>1. ASSUME NEW from, NEW to, Moved(d, from, to)
      PROVE  Intake!Moves(d, from, to)
  <2>1. [e \in Deliveries |-> PhaseOf(e)]'
            = [[e \in Deliveries |-> PhaseOf(e)] EXCEPT ![d] = to]
    BY <1>1 DEF Moved
  <2>2. [e \in Deliveries |-> StoredOf(e)]' = [e \in Deliveries |-> StoredOf(e)]
    BY DEF StoredOf
  <2>. QED
    BY <1>1, <2>1, <2>2 DEF Intake!Moves, Moved
<1>2. ASSUME NEW w \in Workers, Acknowledges(w, d)
      PROVE  d \notin pending
  BY <1>2 DEF Acknowledges, DeliveryInvariant, ArchivedBeforeAck
<1>. QED
  BY <1>1, <1>2
     DEF PhaseMoves, Intake!Next, Intake!Submit, Intake!GiveUp, Intake!Reopen,
         Intake!Process

(* A worker that stores something stores one experience that was missing.   *)
LEMMA SavingIsPromised ==
    ASSUME DeliveryInvariant, NEW w \in Workers, SaveExperience(w)
    PROVE  [Intake!Next]_(Intake!vars)
<1>0. PICK d \in Deliveries : d = job[w].on
  BY OnDelivery DEF SaveExperience, DeliveryInvariant
<1>. PICK i : i = next[w]
  OBVIOUS
<1>1. /\ i \in Experiences(d)
      /\ rec' = rec /\ pending' = pending
      /\ \A e \in Deliveries : PhaseOf(e)' = PhaseOf(e)
  BY <1>0 DEF SaveExperience, PhaseOf
<1>2. CASE copies' = copies
  <2>1. \A e \in Deliveries : StoredOf(e)' = StoredOf(e)
    BY <1>2 DEF StoredOf
  <2>. QED
    BY <1>1, <2>1, NothingPromised
<1>3. CASE copies' # copies
  <2>1. copies[d][i] = 0 /\ copies' = [copies EXCEPT ![d][i] = 1]
    BY <1>0, <1>3 DEF SaveExperience
  <2>2. StoredOf(d)' = StoredOf(d) \cup {i} /\ i \notin StoredOf(d)
    BY <1>1, <2>1 DEF StoredOf, DeliveryInvariant, TypeOK
  <2>3. \A e \in Deliveries \ {d} : StoredOf(e)' = StoredOf(e)
    BY <1>1, <2>1 DEF StoredOf, DeliveryInvariant, TypeOK
  <2>4. [e \in Deliveries |-> StoredOf(e)]'
            = [[e \in Deliveries |-> StoredOf(e)] EXCEPT ![d] = @ \cup {i}]
    BY <1>1, <2>2, <2>3
  <2>5. [e \in Deliveries |-> PhaseOf(e)]' = [e \in Deliveries |-> PhaseOf(e)]
    BY <1>1
  <2>6. PhaseOf(d) # "absent"
    BY <1>0, NoneIsNoDelivery DEF PhaseOf, DeliveryInvariant, WorkIsSubmitted
  <2>7. Intake!Store(d, i)
    BY <1>1, <2>2, <2>4, <2>5, <2>6 DEF Intake!Store
  <2>. QED
    BY <1>1, <2>7 DEF Intake!Next
<1>. QED
  BY <1>2, <1>3

(* A worker discards the input of a delivery of which everything is stored. *)
LEMMA ArchivingIsPromised ==
    ASSUME DeliveryInvariant, NEW w \in Workers, Archive(w),
           InputKeptUntilStored'
    PROVE  [Intake!Next]_(Intake!vars)
<1>0. PICK d \in Deliveries : d = job[w].on
  BY OnDelivery DEF Archive, DeliveryInvariant
<1>1. /\ rec' = rec /\ copies' = copies
      /\ \A e \in Deliveries : PhaseOf(e)' = PhaseOf(e)
      /\ \A e \in Deliveries : StoredOf(e)' = StoredOf(e)
  BY DEF Archive, PhaseOf, StoredOf
<1>2. CASE pending' = pending
  BY <1>1, <1>2, NothingPromised
<1>3. CASE pending' # pending
  <2>1. pending' = pending \ {d} /\ d \in pending
    BY <1>0, <1>3 DEF Archive
  <2>2. \A i \in Experiences(d) : copies[d][i] = 1
    <3>1. \A i \in Experiences(d) :
              copies[d][i] \in Nat /\ copies[d][i] > 0 /\ copies[d][i] <= 1
      BY <1>1, <2>1
         DEF DeliveryInvariant, TypeOK, OneCopyEach, InputKeptUntilStored
    <3>. QED
      BY <3>1
  <2>3. StoredOf(d) = Experiences(d)
    BY <2>2 DEF StoredOf
  <2>4. PhaseOf(d) # "absent"
    BY <1>0, NoneIsNoDelivery DEF PhaseOf, DeliveryInvariant, WorkIsSubmitted
  <2>5. /\ [e \in Deliveries |-> PhaseOf(e)]' = [e \in Deliveries |-> PhaseOf(e)]
        /\ [e \in Deliveries |-> StoredOf(e)]' = [e \in Deliveries |-> StoredOf(e)]
    BY <1>1
  <2>6. Intake!Discard(d)
    BY <1>1, <2>1, <2>3, <2>4, <2>5 DEF Intake!Discard
  <2>. QED
    BY <1>1, <2>6 DEF Intake!Next
<1>. QED
  BY <1>2, <1>3

LEMMA StepsArePromised ==
    ASSUME DeliveryInvariant, DeliveryInvariant', [Next]_vars
    PROVE  [Intake!Next]_(Intake!vars)
<1>1. ASSUME NEW w \in Workers, SaveExperience(w)
      PROVE  [Intake!Next]_(Intake!vars)
  BY <1>1, SavingIsPromised
<1>2. ASSUME NEW w \in Workers, Archive(w)
      PROVE  [Intake!Next]_(Intake!vars)
  BY <1>2, ArchivingIsPromised DEF DeliveryInvariant
<1>3. CASE UNCHANGED <<copies, pending>>
  <2>1. CASE \A d \in Deliveries : PhaseOf(d)' = PhaseOf(d)
    BY <1>3, <2>1, NothingPromised DEF StoredOf
  <2>2. CASE ~ \A d \in Deliveries : PhaseOf(d)' = PhaseOf(d)
    BY <2>2, StepsMoveOnePhase, MovesArePromised
       DEF MovesOnePhase, DeliveryInvariant
  <2>. QED
    BY <2>1, <2>2
<1>. QED
  BY <1>1, <1>2, <1>3
     DEF Next, WorkerStep, RunStep, StartRun, NoWork, Load, Extract, Restore,
         Claim, StopHeartbeat, Settle, SettleUnwritten, Crash, Submit,
         RetryDeadLetter, BeginRenewal, FinishRenewal, RenewalFails, Tick, vars,
         store

(* context-delivery-processor.ts:14-21: for the memory's producers there are *)
(* no workers.  What they do and how they fail adds up to one delivery after *)
(* the other being stored, discarded and acknowledged, each once and in this *)
(* order, or given up with its input kept as it was.                         *)
THEOREM ImplementsExperienceIntake == Spec => ImplementsIntake
<1>1. DeliveryInvariant /\ DeliveryInvariant' /\ [Next]_vars
          => [Intake!Next]_(Intake!vars)
  BY StepsArePromised
<1>. QED
  BY <1>1, PromiseAtStart, InvariantHolds, PTL
     DEF Spec, ImplementsIntake, Intake!Spec

=============================================================================
