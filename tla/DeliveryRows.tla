---------------------------- MODULE DeliveryRows ----------------------------
(***************************************************************************)
(* The rows of the protocol outbox and inbox, and what each SQL statement   *)
(* of SqliteProtocolDelivery (src/persistence/sqlite-protocol-delivery.ts)   *)
(* asks of a row and does to it.  An UPDATE whose WHERE clause matches no    *)
(* row changes nothing, so each operation is a condition and a new row.      *)
(*                                                                          *)
(* Times are natural numbers, 0 stands for NULL.  Left out: payloads other   *)
(* than the identity of the frame, the attempt count and the journal.        *)
(***************************************************************************)
EXTENDS Naturals

CONSTANT None  \* no owner, no frame, no reply

NoLease == [owner |-> None, until |-> 0]

OutboxStatuses == {"absent", "held", "pending", "sent", "complete", "failed"}
InboxStatuses == {"absent", "received", "processing", "complete"}

Leases(Owners) == [owner : Owners, until : Nat] \cup {NoLease}

OutboxRows(Owners) ==
    [status : OutboxStatuses, activated : BOOLEAN, due : Nat,
     lease : Leases(Owners), settledAt : Nat, revision : Nat]

InboxRows(Owners, Frames, Replies) ==
    [status : InboxStatuses, frame : Frames \cup {None},
     lease : Leases(Owners), reply : Replies \cup {None}, settledAt : Nat,
     revision : Nat]

NoOutboxRow == [status |-> "absent", activated |-> FALSE, due |-> 0,
                lease |-> NoLease, settledAt |-> 0, revision |-> 0]

NoInboxRow == [status |-> "absent", frame |-> None, lease |-> NoLease,
               reply |-> None, settledAt |-> 0, revision |-> 0]

LeaseFreeAlways(row, t) == TRUE

(* lease_expires_at IS NULL OR lease_expires_at <= now                      *)
LeaseFree(row, t) == row.lease.until <= t

Lease(owner, until) == [owner |-> owner, until |-> until]

-----------------------------------------------------------------------------
(* Outbox.                                                                  *)

EnqueuedOutbox(status, t) ==
    [NoOutboxRow EXCEPT !.status = status, !.due = t, !.revision = 1]

CanActivateOutbox(row) == row.status = "held" /\ ~ row.activated

ActivatedOutbox(row) ==
    [row EXCEPT !.activated = TRUE, !.revision = @ + 1]

IsUnsentOrSent(row) == row.status \in {"pending", "held", "sent"}

(* A row that a claim, or listRecoverableOutbox, takes for unsent.          *)
IsUnsent(row) ==
    row.status = "pending" \/ (row.status = "held" /\ row.activated)

CanClaimOutbox(row, t) == IsUnsent(row) /\ row.due <= t /\ LeaseFree(row, t)

ClaimedOutbox(row, owner, until) ==
    [row EXCEPT !.status = "pending", !.lease = Lease(owner, until),
                !.revision = @ + 1]

(* The lease, the owner and the revision the caller last saw.               *)
HoldsOutbox(row, owner, rev, t) ==
    /\ row.status = "pending"
    /\ row.lease.owner = owner
    /\ row.revision = rev
    /\ row.lease.until > t

RenewedOutbox(row, until) ==
    [row EXCEPT !.lease.until = until, !.revision = @ + 1]

(* updateClaimedOutbox: sent, scheduled again, or failed.                   *)
ReleasedOutbox(row, status, due, settledAt) ==
    [row EXCEPT !.status = status, !.due = due, !.settledAt = settledAt,
                !.lease = NoLease, !.revision = @ + 1]

SettledByReceiptUnlessSent(row, t) ==
    IF row.status \in {"held", "pending"}
    THEN [row EXCEPT !.status = "complete", !.settledAt = t,
                     !.lease = NoLease, !.revision = @ + 1]
    ELSE row

(* The receipt of an exchange completes its open outbox row.                *)
SettledByReceipt(row, t) ==
    IF row.status \in {"held", "pending", "sent"}
    THEN [row EXCEPT !.status = "complete", !.settledAt = t,
                     !.lease = NoLease, !.revision = @ + 1]
    ELSE row

-----------------------------------------------------------------------------
(* Inbox.                                                                   *)

ReceivedInbox(frame) ==
    [NoInboxRow EXCEPT !.status = "received", !.frame = frame, !.revision = 1]

CanClaimInboxWhenLeaseFree(row, t) ==
    row.status # "absent" /\ LeaseFree(row, t)

CanClaimInbox(row, t) ==
    \/ row.status = "received"
    \/ row.status = "processing" /\ LeaseFree(row, t)

ClaimedInboxSameRevision(row, owner, until) ==
    [row EXCEPT !.status = "processing", !.lease = Lease(owner, until)]

ClaimedInbox(row, owner, until) ==
    [row EXCEPT !.status = "processing", !.lease = Lease(owner, until),
                !.revision = @ + 1]

HoldsInbox(row, owner, rev, t) ==
    /\ row.status = "processing"
    /\ row.lease.owner = owner
    /\ row.revision = rev
    /\ row.lease.until > t

RenewedInbox(row, until) ==
    [row EXCEPT !.lease.until = until, !.revision = @ + 1]

CompletedInbox(row, reply, t) ==
    [row EXCEPT !.status = "complete", !.settledAt = t, !.reply = reply,
                !.lease = NoLease, !.revision = @ + 1]

=============================================================================
