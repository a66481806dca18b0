-------------------------- MODULE ContextDelivery --------------------------
(***************************************************************************)
(* The consumers of context deliveries: ContextDeliveryWorker.runOnce        *)
(* (src/memory/runtime/context-delivery-worker.ts) claims due records one by *)
(* one, DefaultContextDeliveryProcessor (context-delivery-processor.ts)      *)
(* turns the buffer of each into experiences, archives it and acknowledges   *)
(* the delivery, while a heartbeat (services/lease-heartbeat.ts) renews the  *)
(* lease.  Workers of several processes share the records, the experiences   *)
(* and the buffers.                                                          *)
(*                                                                          *)
(* A record changes under its own lock (services/delivery-claim.ts), so one  *)
(* read-decide-write is a step.  Everything else a worker awaits is a step   *)
(* of its own.  Left out: the order in which due records are tried, the      *)
(* experiences' contents, an extraction that finds another number of them    *)
(* when it is tried again, the record of the maintenance run, and that the   *)
(* lock of a record need not be exclusive: acquireLockFile and isLockStale   *)
(* (adapters/file-memory-delivery.ts) take one that was just created and is  *)
(* still empty, or that is older than its time to live, for stale.           *)
(***************************************************************************)
EXTENDS DeliveryLifecycle

CONSTANTS
    Workers,
    Owners,
    WorkerId,    \* the worker_id of each worker, by default its own
    Deliveries,
    Size,        \* how many experiences the extractor finds in each buffer
    MaxResets,   \* how often dead letters are put back by hand
    MaxFaults,   \* how many crashes, lost answers and refused locks there are
    None         \* no delivery, no renewal on its way

ASSUME IdsAreOwners == WorkerId \in [Workers -> Owners]

ASSUME SizesAreCounted == Size \in [Deliveries -> Nat]

ASSUME NoneIsNoDelivery == None \notin Deliveries

ASSUME NoneIsNoLease == None \notin Int

ASSUME BoundsAreCounted == MaxResets \in Nat /\ MaxFaults \in Nat

VARIABLES
    rec,      \* the delivery records
    issued,   \* how many claim tokens each record has seen
    copies,   \* how many records the store has of each experience
    pending,  \* the deliveries whose buffer is still in the pending partition
    pc,       \* where each worker is
    todo,     \* the expired claims that a run listed and has not yet looked at
    job,      \* the delivery a worker has claimed and its token
    beat,     \* its heartbeat: the lease on its way to the record, and lost
    next,     \* the next experience to save
    verdict,  \* how the worker will settle the delivery
    inTime,   \* the clock a worker read for its last write was in the lease
    resets,
    faults

store == <<rec, issued, copies, pending>>
workers == <<pc, todo, job, beat, next, verdict, inTime>>
vars == <<store, workers, resets, faults>>

Steps == {"idle", "running", "loading", "extracting", "saving", "stopping",
          "settling"}

Verdicts == {"complete", "retry", "dead_letter"}

Experiences(d) == 1..Size[d]

NoJob == [on |-> None, token |-> NoToken]

Silent == [lease |-> None, lost |-> FALSE]

Init ==
    /\ rec = [d \in Deliveries |-> NoRecord]
    /\ issued = [d \in Deliveries |-> 0]
    /\ copies = [d \in Deliveries |-> [i \in Experiences(d) |-> 0]]
    /\ pending = Deliveries
    /\ pc = [w \in Workers |-> "idle"]
    /\ todo = [w \in Workers |-> {}]
    /\ job = [w \in Workers |-> NoJob]
    /\ beat = [w \in Workers |-> Silent]
    /\ next = [w \in Workers |-> 1]
    /\ verdict = [w \in Workers |-> "retry"]
    /\ inTime = [w \in Workers |-> FALSE]
    /\ resets = 0
    /\ faults = 0

Goto(w, step) == pc' = [pc EXCEPT ![w] = step]

Fault == faults < MaxFaults /\ faults' = faults + 1

LeaseOf(w) == rec[job[w].on].lease

Holds(w) == HoldsToken(rec[job[w].on], WorkerId[w], job[w].token)

(* A worker forgets the delivery it had.                                    *)
Forget(w) ==
    /\ job' = [job EXCEPT ![w] = NoJob]
    /\ beat' = [beat EXCEPT ![w] = Silent]
    /\ next' = [next EXCEPT ![w] = 1]
    /\ verdict' = [verdict EXCEPT ![w] = "retry"]
    /\ inTime' = [inTime EXCEPT ![w] = FALSE]

(* After a delivery the loop goes on, unless batch size, duration or signal *)
(* end the run.                                                             *)
Again(w) ==
    /\ \E step \in {"running", "idle"} : Goto(w, step)
    /\ Forget(w)
    /\ UNCHANGED todo

-----------------------------------------------------------------------------
(* The producer and the operator.                                           *)

(* A record is written only where there is none.                            *)
Submit(d) ==
    /\ rec[d].status = "absent"
    /\ rec' = [rec EXCEPT ![d] = Submitted]
    /\ UNCHANGED <<issued, copies, pending, workers, resets, faults>>

RetryDeadLetter(d) ==
    /\ CanReset(rec[d])
    /\ resets < MaxResets
    /\ resets' = resets + 1
    /\ rec' = [rec EXCEPT ![d] = Reset(@)]
    /\ UNCHANGED <<issued, copies, pending, workers, faults>>

-----------------------------------------------------------------------------
(* A run.                                                                   *)

(* runOnce first lists the claims whose lease is over ...                   *)
StartRun(w) ==
    /\ pc[w] = "idle"
    /\ Goto(w, "running")
    /\ todo' = [todo EXCEPT ![w] = {d \in Deliveries : ClaimExpired(rec[d])}]
    /\ UNCHANGED <<store, job, beat, next, verdict, inTime, resets, faults>>

RestoreListed(w, d) ==
    /\ pc[w] = "running"
    /\ d \in todo[w]
    /\ todo' = [todo EXCEPT ![w] = @ \ {d}]
    /\ rec' = [rec EXCEPT ![d] = Expired(@)]
    /\ UNCHANGED <<issued, copies, pending, pc, job, beat, next, verdict,
                   inTime, resets, faults>>

(* ... and takes back each one that is still so when its turn comes, judged *)
(* by the time of the step: the code's clock is the one of the run's start, *)
(* which leaves a claim for a later run but takes none back earlier.        *)
Restore(w, d) ==
    /\ pc[w] = "running"
    /\ d \in todo[w]
    /\ todo' = [todo EXCEPT ![w] = @ \ {d}]
    /\ rec' = IF ClaimExpired(rec[d]) THEN [rec EXCEPT ![d] = Expired(@)] ELSE rec
    /\ UNCHANGED <<issued, copies, pending, pc, job, beat, next, verdict,
                   inTime, resets, faults>>

(* Any due record, under a token that no claim had before.                  *)
Claim(w, d) ==
    /\ pc[w] = "running" /\ todo[w] = {}
    /\ CanClaim(rec[d])
    /\ issued' = [issued EXCEPT ![d] = @ + 1]
    /\ rec' = [rec EXCEPT ![d] = Claimed(@, WorkerId[w], issued[d] + 1)]
    /\ job' = [job EXCEPT ![w] = [on |-> d, token |-> issued[d] + 1]]
    /\ Goto(w, "loading")
    /\ UNCHANGED <<copies, pending, todo, beat, next, verdict, inTime, resets,
                   faults>>

NoWork(w) ==
    /\ pc[w] = "running" /\ todo[w] = {}
    /\ \A d \in Deliveries : ~ CanClaim(rec[d])
    /\ Goto(w, "idle")
    /\ UNCHANGED <<store, todo, job, beat, next, verdict, inTime, resets, faults>>

-----------------------------------------------------------------------------
(* One delivery.                                                            *)

(* Read the clock and ask for the write that settles the delivery.          *)
AskToSettle(w, how) ==
    /\ Goto(w, "settling")
    /\ verdict' = [verdict EXCEPT ![w] = how]
    /\ inTime' = [inTime EXCEPT ![w] = LeaseOf(w) > 0]

(* Input that does not check or cannot be read is failed for good, before   *)
(* there is a heartbeat.                                                    *)
Load(w) ==
    /\ pc[w] = "loading"
    /\ \/ Goto(w, "extracting") /\ UNCHANGED <<verdict, inTime>>
       \/ AskToSettle(w, "dead_letter")
    /\ UNCHANGED <<store, todo, job, beat, next, resets, faults>>

(* Stop the heartbeat, then settle.                                         *)
StopFor(w, how) ==
    /\ Goto(w, "stopping")
    /\ verdict' = [verdict EXCEPT ![w] = how]

(* An extraction that throws can be retried or not.  After one that does    *)
(* not, a lost lease ends the work.                                         *)
Extract(w) ==
    /\ pc[w] = "extracting"
    /\ \/ ~ beat[w].lost /\ Goto(w, "saving") /\ UNCHANGED verdict
       \/ \E how \in {"retry", "dead_letter"} : StopFor(w, how)
    /\ UNCHANGED <<store, todo, job, beat, next, inTime, resets, faults>>

SaveAnyway(w) ==
    /\ pc[w] = "saving" /\ next[w] \in Experiences(job[w].on)
    /\ \/ /\ copies' = [copies EXCEPT ![job[w].on][next[w]] = @ + 1]
          /\ next' = [next EXCEPT ![w] = @ + 1]
          /\ UNCHANGED <<pc, verdict>>
       \/ /\ \E how \in {"retry", "dead_letter"} : StopFor(w, how)
          /\ UNCHANGED <<copies, next>>
    /\ UNCHANGED <<rec, issued, pending, todo, job, beat, inTime, resets, faults>>

(* saveExperienceIfAbsent under an id made of role, buffer and position.    *)
SaveExperience(w) ==
    /\ pc[w] = "saving" /\ next[w] \in Experiences(job[w].on)
    /\ \/ /\ copies' = IF copies[job[w].on][next[w]] = 0
                       THEN [copies EXCEPT ![job[w].on][next[w]] = 1]
                       ELSE copies
          /\ next' = [next EXCEPT ![w] = @ + 1]
          /\ UNCHANGED <<pc, verdict>>
       \/ /\ \E how \in {"retry", "dead_letter"} : StopFor(w, how)
          /\ UNCHANGED <<copies, next>>
    /\ UNCHANGED <<rec, issued, pending, todo, job, beat, inTime, resets, faults>>

ArchiveEarly(w) ==
    /\ pc[w] = "saving"
    /\ \/ pending' = pending \ {job[w].on} /\ StopFor(w, "complete")
       \/ UNCHANGED pending /\ StopFor(w, "retry")
    /\ UNCHANGED <<rec, issued, copies, todo, job, beat, next, inTime, resets,
                   faults>>

AckUnarchived(w) ==
    /\ pc[w] = "saving" /\ next[w] \notin Experiences(job[w].on)
    /\ \/ pending' = pending \ {job[w].on}
       \/ UNCHANGED pending
    /\ StopFor(w, "complete")
    /\ UNCHANGED <<rec, issued, copies, todo, job, beat, next, inTime, resets,
                   faults>>

(* Everything is saved: the buffer leaves the pending partition, or has     *)
(* left it before, or the move fails and the delivery is to be tried again. *)
Archive(w) ==
    /\ pc[w] = "saving" /\ next[w] \notin Experiences(job[w].on)
    /\ \/ pending' = pending \ {job[w].on} /\ StopFor(w, "complete")
       \/ UNCHANGED pending /\ StopFor(w, "retry")
    /\ UNCHANGED <<rec, issued, copies, todo, job, beat, next, inTime, resets,
                   faults>>

(* The heartbeat has stopped and no renewal is on its way: nothing is       *)
(* written after a lost lease.                                              *)
StopHeartbeat(w) ==
    /\ pc[w] = "stopping"
    /\ beat[w].lease = None
    /\ IF beat[w].lost
       THEN Again(w)
       ELSE AskToSettle(w, verdict[w]) /\ UNCHANGED <<todo, job, beat, next>>
    /\ UNCHANGED <<store, resets, faults>>

Outcome(record, how) ==
    IF how = "complete" THEN Completed(record) ELSE Failed(record, how = "retry")

(* completeDelivery or failDelivery: refused unless the worker still holds  *)
(* the claim.                                                               *)
Settle(w) ==
    /\ pc[w] = "settling"
    /\ rec' = IF Holds(w) /\ inTime[w]
              THEN [rec EXCEPT ![job[w].on] = Outcome(@, verdict[w])]
              ELSE rec
    /\ Again(w)
    /\ UNCHANGED <<issued, copies, pending, resets, faults>>

(* The lock of the record is busy for too long, or the store fails.         *)
SettleUnwritten(w) ==
    /\ pc[w] = "settling"
    /\ Fault
    /\ Again(w)
    /\ UNCHANGED <<store, resets>>

-----------------------------------------------------------------------------
(* The heartbeat.                                                           *)

(* The interval is over: the new lease starts at the time read here.        *)
BeginRenewal(w) ==
    /\ pc[w] \in {"extracting", "saving"}
    /\ beat[w] = Silent
    /\ beat' = [beat EXCEPT ![w] =
           IF LeaseOf(w) > 0 THEN [@ EXCEPT !.lease = LeaseDuration]
                             ELSE [@ EXCEPT !.lost = TRUE]]
    /\ UNCHANGED <<store, pc, todo, job, next, verdict, inTime, resets, faults>>

(* The lease reaches the record some time later, or the claim is lost.      *)
FinishRenewal(w) ==
    /\ beat[w].lease # None
    /\ IF Holds(w)
       THEN /\ rec' = [rec EXCEPT ![job[w].on] = Renewed(@, beat[w].lease)]
            /\ beat' = [beat EXCEPT ![w] = Silent]
       ELSE /\ beat' = [beat EXCEPT ![w] = [lease |-> None, lost |-> TRUE]]
            /\ UNCHANGED rec
    /\ UNCHANGED <<issued, copies, pending, pc, todo, job, next, verdict, inTime,
                   resets, faults>>

(* A renewal that throws counts as a lost lease.                            *)
RenewalFails(w) ==
    /\ beat[w].lease # None
    /\ Fault
    /\ beat' = [beat EXCEPT ![w] = [lease |-> None, lost |-> TRUE]]
    /\ UNCHANGED <<store, pc, todo, job, next, verdict, inTime, resets>>

-----------------------------------------------------------------------------

(* The process ends, or the store fails under the worker's own loop.        *)
Crash(w) ==
    /\ pc[w] # "idle"
    /\ Fault
    /\ Goto(w, "idle")
    /\ todo' = [todo EXCEPT ![w] = {}]
    /\ Forget(w)
    /\ UNCHANGED <<store, resets>>

(* Time passes for the records and for the renewals on their way.           *)
Tick ==
    /\ \/ \E d \in Deliveries : rec[d].lease > 0 \/ rec[d].retry > 0
       \/ \E w \in Workers : beat[w].lease \notin {None, 0}
    /\ rec' = [d \in Deliveries |-> Aged(rec[d])]
    /\ beat' = [w \in Workers |->
           IF beat[w].lease = None THEN beat[w]
           ELSE [beat[w] EXCEPT !.lease = Later(@)]]
    /\ UNCHANGED <<issued, copies, pending, pc, todo, job, next, verdict, inTime,
                   resets, faults>>

(* What a run does by itself, the heartbeat aside.                          *)
RunStep(w) ==
    \/ \E d \in Deliveries : Restore(w, d) \/ Claim(w, d)
    \/ NoWork(w) \/ Load(w) \/ Extract(w) \/ SaveExperience(w) \/ Archive(w)
    \/ StopHeartbeat(w) \/ Settle(w)

WorkerStep(w) ==
    \/ StartRun(w) \/ RunStep(w)
    \/ BeginRenewal(w) \/ FinishRenewal(w) \/ RenewalFails(w)
    \/ SettleUnwritten(w) \/ Crash(w)

Next ==
    \/ \E d \in Deliveries : Submit(d) \/ RetryDeadLetter(d)
    \/ \E w \in Workers : WorkerStep(w)
    \/ Tick

(* Runs are started again and again, a run goes on by itself, a renewal is  *)
(* answered and the clock does not stand still.                             *)
Fairness ==
    /\ WF_vars(Tick)
    /\ \A w \in Workers :
           WF_vars(StartRun(w)) /\ WF_vars(RunStep(w)) /\ WF_vars(FinishRenewal(w))

Spec == Init /\ [][Next]_vars /\ Fairness

-----------------------------------------------------------------------------
(* What the promise of ExperienceIntake sees: a claim is not told from a     *)
(* wait for one.                                                            *)
PhaseOf(d) ==
    IF rec[d].status \in {"pending", "processing"} THEN "open" ELSE rec[d].status

StoredOf(d) == {i \in Experiences(d) : copies[d][i] = 1}

Intake == INSTANCE ExperienceIntake WITH
              Contents <- [d \in Deliveries |-> Experiences(d)],
              phase <- [d \in Deliveries |-> PhaseOf(d)],
              stored <- [d \in Deliveries |-> StoredOf(d)],
              kept <- pending

-----------------------------------------------------------------------------
(***************************************************************************)
(* Properties                                                               *)
(***************************************************************************)

(* The type invariant of the deliveries and of the workers: a record has    *)
(* at most MaxAttempts attempts and a worker is on a delivery from its claim *)
(* to its settling.                                                         *)
TypeOK ==
    /\ rec \in [Deliveries -> Records(Owners)]
    /\ issued \in [Deliveries -> Nat]
    /\ DOMAIN copies = Deliveries
    /\ \A d \in Deliveries : copies[d] \in [Experiences(d) -> Nat]
    /\ pending \subseteq Deliveries
    /\ pc \in [Workers -> Steps]
    /\ todo \in [Workers -> SUBSET Deliveries]
    /\ job \in [Workers -> [on : Deliveries \cup {None}, token : Nat]]
    /\ beat \in [Workers -> [lease : 0..LeaseDuration \cup {None}, lost : BOOLEAN]]
    /\ next \in [Workers -> Nat \ {0}]
    /\ verdict \in [Workers -> Verdicts]
    /\ inTime \in [Workers -> BOOLEAN]
    /\ resets \in 0..MaxResets
    /\ faults \in 0..MaxFaults
    /\ \A w \in Workers : pc[w] \in {"idle", "running"} <=> job[w].on = None

(* context-delivery-processor.ts:14-17: a buffer leaves the pending         *)
(* partition only when all its experiences are in the store, whichever      *)
(* worker saved them and however often one of them died in between.         *)
InputKeptUntilStored ==
    \A d \in Deliveries \ pending : \A i \in Experiences(d) : copies[d][i] > 0

(* context-delivery-processor.ts:18-21: an acknowledged delivery has left   *)
(* nothing to do, its input is no longer in the pending partition.          *)
AckMeansDone ==
    \A d \in Deliveries : rec[d].status = "processed" => d \notin pending

(* memory-cycle.ts:155-169: retries and workers that overlap leave one      *)
(* record of each experience.                                               *)
OneCopyEach ==
    \A d \in Deliveries : \A i \in Experiences(d) : copies[d][i] <= 1

(* One worker, and no other, is on the claim that record d shows, and it    *)
(* settles it in this step.                                                 *)
EndsByHolder(d) ==
    \E w \in Workers :
        /\ job[w] = [on |-> d, token |-> rec[d].token]
        /\ \A v \in Workers : job[v] = job[w] => v = w
        /\ pc[w] = "settling" /\ pc'[w] # "settling"

(* delivery-lifecycle.ts:249-258, delivery-claim.ts:147-152: while a claim's *)
(* lease runs, nobody but its holder ends the claim, neither a worker that   *)
(* had it before nor a run that once saw it expired.                        *)
LiveClaimIsItsHolders ==
    [][\A d \in Deliveries :
           rec[d].status = "processing" /\ rec[d].lease > 0
             /\ rec'[d].token # rec[d].token
           => EndsByHolder(d)]_vars

(* context-delivery-processor.ts:14-21: whatever the workers do, crash or    *)
(* overrun, the memory stores each experience once, discards the input of a *)
(* delivery only when all of them are stored, and acknowledges it after     *)
(* that and for good: no run that listed its claim as expired and no        *)
(* producer that submits again delivers it once more.                       *)
ImplementsIntake == Intake!Spec

(* Every submitted delivery is processed or dead in the end, whatever       *)
(* crashes, failures and overruns there are: none is lost in processing.    *)
EveryDeliverySettles ==
    \A d \in Deliveries :
        rec[d].status # "absent" ~> rec[d].status \in Settled

=============================================================================
