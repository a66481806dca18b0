-------------------------- MODULE ProtocolDelivery --------------------------
(***************************************************************************)
(* The protocol outbox and inbox of SqliteCoordinationStore                  *)
(* (src/persistence/sqlite-protocol-delivery.ts), used as their README asks: *)
(* workers claim rows under a lease, work outside the transaction, and come  *)
(* back with the revision they saw.  One action is one SQLite transaction.   *)
(* A call whose revision, owner or lease is stale changes nothing (undefined *)
(* or a throw) and is not a step.  Frames travel between outbox and inbox    *)
(* unreliably: lost, late or more than once.                                 *)
(***************************************************************************)
EXTENDS DeliveryRows

CONSTANTS
    Commands,       \* exchanges that ask for work
    Receipts,       \* exchanges that answer one, see CauseOf
    CauseOf,        \* causation_id of a receipt
    Workers,        \* callers of the store
    OwnerOf,        \* the lease owner a worker names; workers may share one
    LeaseDuration,
    MaxTime,        \* bound on the clock
    MaxRevision     \* bound on the revision of a row

Exchanges == Commands \cup Receipts
Owners == {OwnerOf[w] : w \in Workers}

ASSUME ExchangesAreDistinct ==
    Commands \cap Receipts = {} /\ None \notin Exchanges

ASSUME ReceiptsHaveCauses == CauseOf \in [Receipts -> Commands]

ASSUME LeaseIsPositive == LeaseDuration \in Nat \ {0}

ASSUME BoundsAreNumbers == MaxTime \in Nat /\ MaxRevision \in Nat

VARIABLES
    outbox,      \* one row per exchange
    inbox,       \* one row per exchange: an exchange has one consumer
    token,       \* the claim each worker remembers
    issued,      \* exchanges that were ever enqueued; a copy of their frame
                 \* may be received at any time
    completed,   \* history: exchanges whose inbox row was completed
    recompleted, \* history: exchanges completed a second time
    archived,    \* history: a row was moved to the archive
    now

vars == <<outbox, inbox, token, issued, completed, recompleted, archived, now>>

NoToken == [box |-> "none", id |-> None, rev |-> 0]
Tokens == [box : {"outbox", "inbox"}, id : Exchanges, rev : Nat] \cup {NoToken}

Token(box, x, rev) == [box |-> box, id |-> x, rev |-> rev]

(* The store accepts a worker's token for the row it claimed.               *)
Holds(w) ==
    \/ /\ token[w].box = "outbox"
       /\ HoldsOutbox(outbox[token[w].id], OwnerOf[w], token[w].rev, now)
    \/ /\ token[w].box = "inbox"
       /\ HoldsInbox(inbox[token[w].id], OwnerOf[w], token[w].rev, now)

HoldsRow(w, box, x) == Holds(w) /\ token[w].box = box /\ token[w].id = x

Init ==
    /\ outbox = [x \in Exchanges |-> NoOutboxRow]
    /\ inbox = [x \in Exchanges |-> NoInboxRow]
    /\ token = [w \in Workers |-> NoToken]
    /\ issued = {}
    /\ completed = {}
    /\ recompleted = {}
    /\ archived = FALSE
    /\ now = 1

-----------------------------------------------------------------------------

EnqueueOutbox(x, status) ==
    /\ x \notin issued
    /\ outbox' = [outbox EXCEPT ![x] = EnqueuedOutbox(status, now)]
    /\ issued' = issued \cup {x}
    /\ UNCHANGED <<inbox, token, completed, recompleted, archived, now>>

ActivateOutbox(x) ==
    /\ CanActivateOutbox(outbox[x])
    /\ outbox' = [outbox EXCEPT ![x] = ActivatedOutbox(@)]
    /\ UNCHANGED <<inbox, token, issued, completed, recompleted, archived, now>>

ClaimOutbox(w, x) ==
    /\ token[w] = NoToken
    /\ CanClaimOutbox(outbox[x], now)
    /\ outbox[x].revision < MaxRevision
    /\ outbox' = [outbox EXCEPT ![x] =
                      ClaimedOutbox(@, OwnerOf[w], now + LeaseDuration)]
    /\ token' = [token EXCEPT ![w] = Token("outbox", x, outbox'[x].revision)]
    /\ UNCHANGED <<inbox, issued, completed, recompleted, archived, now>>

RenewOutboxLease(w, x) ==
    /\ HoldsRow(w, "outbox", x)
    /\ outbox[x].revision < MaxRevision
    /\ outbox' = [outbox EXCEPT ![x] = RenewedOutbox(@, now + LeaseDuration)]
    /\ token' = [token EXCEPT ![w].rev = @ + 1]
    /\ UNCHANGED <<inbox, issued, completed, recompleted, archived, now>>

(* updateClaimedOutbox.  A markOutboxSent that comes after the receipt finds *)
(* the row complete and returns it as it is.                                *)
ReleaseOutbox(w, x, status, due, settledAt) ==
    /\ HoldsRow(w, "outbox", x)
    /\ outbox' = [outbox EXCEPT ![x] =
                      ReleasedOutbox(@, status, due, settledAt)]
    /\ token' = [token EXCEPT ![w] = NoToken]
    /\ UNCHANGED <<inbox, issued, completed, recompleted, archived, now>>

MarkOutboxSent(w, x) ==
    ReleaseOutbox(w, x, "sent", outbox[x].due, outbox[x].settledAt)

RetryOutbox(w, x) ==
    \E due \in now .. MaxTime :
        ReleaseOutbox(w, x, "pending", due, outbox[x].settledAt)

FailOutbox(w, x) == ReleaseOutbox(w, x, "failed", outbox[x].due, now)

(* A copy of the frame arrives.  The unique key drops it when there is a    *)
(* row; a new receipt also completes the outbox row of its cause.           *)
ReceiveInbox(x) ==
    /\ x \in issued
    /\ inbox[x].status = "absent"
    /\ inbox' = [inbox EXCEPT ![x] = ReceivedInbox(x)]
    /\ outbox' = IF x \in Receipts
                 THEN [outbox EXCEPT ![CauseOf[x]] = SettledByReceipt(@, now)]
                 ELSE outbox
    /\ UNCHANGED <<token, issued, completed, recompleted, archived, now>>

ClaimInbox(w, x) ==
    /\ token[w] = NoToken
    /\ CanClaimInbox(inbox[x], now)
    /\ inbox[x].revision < MaxRevision
    /\ inbox' = [inbox EXCEPT ![x] =
                     ClaimedInbox(@, OwnerOf[w], now + LeaseDuration)]
    /\ token' = [token EXCEPT ![w] = Token("inbox", x, inbox'[x].revision)]
    /\ UNCHANGED <<outbox, issued, completed, recompleted, archived, now>>

RenewInboxLease(w, x) ==
    /\ HoldsRow(w, "inbox", x)
    /\ inbox[x].revision < MaxRevision
    /\ inbox' = [inbox EXCEPT ![x] = RenewedInbox(@, now + LeaseDuration)]
    /\ token' = [token EXCEPT ![w].rev = @ + 1]
    /\ UNCHANGED <<outbox, issued, completed, recompleted, archived, now>>

Replies(x) == {r \in Receipts : CauseOf[r] = x /\ r \notin issued}

(* The reply is enqueued in the transaction that completes the row.         *)
CompleteInbox(w, x, reply) ==
    /\ HoldsRow(w, "inbox", x)
    /\ inbox' = [inbox EXCEPT ![x] = CompletedInbox(@, reply, now)]
    /\ outbox' = IF reply = None THEN outbox
                 ELSE [outbox EXCEPT ![reply] = EnqueuedOutbox("pending", now)]
    /\ issued' = IF reply = None THEN issued ELSE issued \cup {reply}
    /\ token' = [token EXCEPT ![w] = NoToken]
    /\ completed' = completed \cup {x}
    /\ recompleted' = recompleted \cup (completed \cap {x})
    /\ UNCHANGED <<archived, now>>

ArchivesOutbox(row, before) ==
    row.status \in {"complete", "failed"} /\ row.settledAt < before

(* Rows settled before a time move to the archive tables, if there are any; *)
(* the limit of a batch is not reached.                                     *)
ArchiveSettled(before) ==
    /\ outbox' = [x \in Exchanges |->
           IF ArchivesOutbox(outbox[x], before)
           THEN NoOutboxRow ELSE outbox[x]]
    /\ inbox' = [x \in Exchanges |->
           IF inbox[x].status = "complete" /\ inbox[x].settledAt < before
           THEN NoInboxRow ELSE inbox[x]]
    /\ <<outbox', inbox'>> # <<outbox, inbox>>
    /\ archived' = TRUE
    /\ UNCHANGED <<token, issued, completed, recompleted, now>>

(* A worker dies, or gives up after a refused call.                         *)
ForgetToken(w) ==
    /\ token[w] # NoToken
    /\ token' = [token EXCEPT ![w] = NoToken]
    /\ UNCHANGED <<outbox, inbox, issued, completed, recompleted, archived, now>>

Tick ==
    /\ now < MaxTime
    /\ now' = now + 1
    /\ UNCHANGED <<outbox, inbox, token, issued, completed, recompleted, archived>>

WorkerNext(w) ==
    \/ ForgetToken(w)
    \/ \E x \in Exchanges :
        \/ ClaimOutbox(w, x)
        \/ RenewOutboxLease(w, x)
        \/ MarkOutboxSent(w, x)
        \/ RetryOutbox(w, x)
        \/ FailOutbox(w, x)
        \/ ClaimInbox(w, x)
        \/ RenewInboxLease(w, x)
        \/ \E reply \in Replies(x) \cup {None} : CompleteInbox(w, x, reply)

Next ==
    \/ \E w \in Workers : WorkerNext(w)
    \/ \E x \in Commands, status \in {"held", "pending"} :
           EnqueueOutbox(x, status)
    \/ \E x \in Exchanges : ActivateOutbox(x) \/ ReceiveInbox(x)
    \/ \E before \in 1 .. now : ArchiveSettled(before)
    \/ Tick

Spec == Init /\ [][Next]_vars

-----------------------------------------------------------------------------
(***************************************************************************)
(* Properties                                                               *)
(***************************************************************************)

TypeOK ==
    /\ outbox \in [Exchanges -> OutboxRows(Owners)]
    /\ inbox \in [Exchanges -> InboxRows(Owners, Exchanges, Receipts)]
    /\ token \in [Workers -> Tokens]
    /\ issued \subseteq Exchanges
    /\ completed \subseteq Exchanges
    /\ recompleted \subseteq completed
    /\ archived \in BOOLEAN
    /\ now \in Nat

(* Of all the workers that ever claimed a row, and whatever owner names     *)
(* they share, at most one has a token the store still accepts.  Until rows *)
(* are archived: a row received again starts its revisions anew.            *)
OneLiveHolder ==
    ~ archived =>
        \A w, v \in Workers :
            w # v /\ Holds(w) /\ Holds(v) =>
                token[w].box # token[v].box \/ token[w].id # token[v].id

RowIsSettled(w) ==
    token[w].box = "outbox" /\ outbox[token[w].id].status = "complete"

(* A worker loses its row only by its own call, by the end of its lease, or *)
(* because the receipt settled the outbox row: no claim, retry or receipt   *)
(* of another worker takes it away, until rows are archived.                *)
HolderKeepsLease ==
    [][~ archived' =>
           \A w \in Workers :
               Holds(w) /\ UNCHANGED <<token[w], now>>
                   => Holds(w)' \/ RowIsSettled(w)']_vars

(* A sent command is never sent again, a settled one never reopened, by a   *)
(* late worker, a late markOutboxSent or a late receipt.                    *)
SettledStays ==
    [][\A x \in Exchanges :
           /\ outbox[x].status = "sent"
                  => outbox'[x].status \in {"sent", "complete"}
           /\ outbox[x].status \in {"complete", "failed"}
                  => outbox'[x].status \in {outbox[x].status, "absent"}]_vars

(* Once the receipt of a command is in an inbox, no worker can still send   *)
(* the command: its outbox row is not open, and stays so.                   *)
ReceiptSettlesRequest ==
    \A r \in Receipts :
        inbox[r].status # "absent" =>
            outbox[CauseOf[r]].status \in {"absent", "complete", "failed"}

(* README.md of src/persistence: the unique inbox key prevents duplicate    *)
(* admission.  However often a frame arrives and a lease runs out, the work *)
(* of an exchange is committed once, as long as the inbox remembers it: a   *)
(* frame whose row was archived is admitted again.                          *)
CompletedOnce == ~ archived => recompleted = {}

=============================================================================
