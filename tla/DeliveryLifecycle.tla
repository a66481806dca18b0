------------------------- MODULE DeliveryLifecycle -------------------------
(***************************************************************************)
(* The state machine of a memory delivery record                            *)
(* (src/memory/services/delivery-lifecycle.ts), which every delivery channel *)
(* and every store of the memory subsystem shares: the condition under which *)
(* a transition applies and the record it leaves.                            *)
(*                                                                          *)
(* An ISO time is kept as what is left of it: lease and retry count down to  *)
(* 0, where lease_expires_at and next_retry_at lie in the past or are unset. *)
(* Left out: claimed_at, updated_at, last_error.                             *)
(***************************************************************************)
EXTENDS Integers

CONSTANTS
    MaxAttempts,    \* policy.max_attempts
    BaseDelay,      \* policy.base_delay_ms
    MaxDelay,       \* policy.max_delay_ms
    LeaseDuration,  \* lease_ms
    NoOwner         \* a record that nobody has claimed

ASSUME AttemptsArePositive == MaxAttempts \in Nat \ {0}

ASSUME DelaysAreTimes == BaseDelay \in Nat /\ MaxDelay \in Nat

ASSUME LeaseIsTime == LeaseDuration \in Nat \ {0}

NoToken == 0

Statuses == {"absent", "pending", "processing", "processed", "dead_letter"}

Settled == {"processed", "dead_letter"}

Records(Owners) ==
    [status : Statuses, attempts : 0..MaxAttempts, owner : Owners \cup {NoOwner},
     token : Nat, lease : 0..LeaseDuration, retry : 0..MaxDelay]

NoRecord == [status |-> "absent", attempts |-> 0, owner |-> NoOwner,
             token |-> NoToken, lease |-> 0, retry |-> 0]

Submitted == [NoRecord EXCEPT !.status = "pending"]

(* The smaller of the maximum and the base doubled for every earlier        *)
(* attempt.                                                                 *)
RetryDelay(attempt) ==
    LET delay == BaseDelay * 2 ^ (IF attempt = 0 THEN 0 ELSE attempt - 1)
    IN  IF delay \in 0..MaxDelay THEN delay ELSE MaxDelay

IsDue(record) == record.status = "pending" /\ record.retry = 0

ClaimExpired(record) == record.status = "processing" /\ record.lease = 0

CanClaim(record) == IsDue(record) /\ record.attempts < MaxAttempts

Claimed(record, owner, token) ==
    [record EXCEPT !.status = "processing", !.attempts = @ + 1, !.owner = owner,
                   !.token = token, !.lease = LeaseDuration, !.retry = 0]

HoldsOwner(record, owner, token) ==
    record.status = "processing" /\ record.owner = owner

(* Everything that isHeldBy asks but the lease: it is compared with a time  *)
(* that the caller read before it waited for the record.                    *)
HoldsToken(record, owner, token) ==
    /\ record.status = "processing"
    /\ record.token = token
    /\ record.owner = owner

Renewed(record, lease) == [record EXCEPT !.lease = lease]

Released(record, status) ==
    [record EXCEPT !.status = status, !.token = NoToken, !.lease = 0, !.retry = 0]

Completed(record) == Released(record, "processed")

FailedForever(record, retryable) ==
    IF ~ retryable \/ record.attempts > MaxAttempts
    THEN Released(record, "dead_letter")
    ELSE [Released(record, "pending") EXCEPT !.retry = RetryDelay(record.attempts)]

Failed(record, retryable) ==
    IF ~ retryable \/ record.attempts >= MaxAttempts
    THEN Released(record, "dead_letter")
    ELSE [Released(record, "pending") EXCEPT !.retry = RetryDelay(record.attempts)]

(* Whoever claimed it is gone: no delay, but the attempt counts.            *)
Expired(record) ==
    Released(record,
             IF record.attempts >= MaxAttempts THEN "dead_letter" ELSE "pending")

CanReset(record) == record.status = "dead_letter"

Reset(record) == Submitted

Later(left) == IF left = 0 THEN 0 ELSE left - 1

(* One unit of time passes.                                                 *)
Aged(record) == [record EXCEPT !.lease = Later(@), !.retry = Later(@)]

=============================================================================
