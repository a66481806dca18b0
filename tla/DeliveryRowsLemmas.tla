------------------------- MODULE DeliveryRowsLemmas -------------------------
(***************************************************************************)
(* What the statements of the protocol store keep true of a row: every      *)
(* column keeps its type, whatever the owners, frames and replies are.      *)
(***************************************************************************)
EXTENDS DeliveryRows, TLAPS

(* The columns of an outbox row have their types, and a row put together    *)
(* from columns of these types is a row.                                    *)
LEMMA OutboxColumns ==
    ASSUME NEW Owners, NEW row \in OutboxRows(Owners)
    PROVE  /\ row.status \in OutboxStatuses
           /\ row.activated \in BOOLEAN
           /\ row.due \in Nat
           /\ row.lease \in Leases(Owners)
           /\ row.settledAt \in Nat
           /\ row.revision \in Nat
           /\ row.revision + 1 \in Nat
           /\ row = [status |-> row.status, activated |-> row.activated,
                     due |-> row.due, lease |-> row.lease,
                     settledAt |-> row.settledAt, revision |-> row.revision]
BY DEF OutboxRows

(* The same for an inbox row.                                               *)
LEMMA InboxColumns ==
    ASSUME NEW Owners, NEW Frames, NEW Replies,
           NEW row \in InboxRows(Owners, Frames, Replies)
    PROVE  /\ row.status \in InboxStatuses
           /\ row.frame \in Frames \cup {None}
           /\ row.lease \in Leases(Owners)
           /\ row.reply \in Replies \cup {None}
           /\ row.settledAt \in Nat
           /\ row.revision \in Nat
           /\ row.revision + 1 \in Nat
           /\ row = [status |-> row.status, frame |-> row.frame,
                     lease |-> row.lease, reply |-> row.reply,
                     settledAt |-> row.settledAt, revision |-> row.revision]
BY DEF InboxRows

(* A lease a claim writes, and the NULL one, are leases.                    *)
LEMMA LeaseShape ==
    ASSUME NEW Owners
    PROVE  /\ NoLease \in Leases(Owners)
           /\ \A o \in Owners, until \in Nat : Lease(o, until) \in Leases(Owners)
BY DEF Leases, Lease

(* activateOutbox and a receipt leave a well-formed outbox row.             *)
LEMMA StoreRowShape ==
    ASSUME NEW Owners, NEW row \in OutboxRows(Owners), NEW t \in Nat
    PROVE  /\ ActivatedOutbox(row) \in OutboxRows(Owners)
           /\ SettledByReceipt(row, t) \in OutboxRows(Owners)
<1>1. ActivatedOutbox(row) \in OutboxRows(Owners)
  BY OutboxColumns DEF ActivatedOutbox, OutboxRows
<1>2. SettledByReceipt(row, t) \in OutboxRows(Owners)
  BY OutboxColumns, LeaseShape
     DEF SettledByReceipt, OutboxRows, OutboxStatuses
<1>3. QED BY <1>1, <1>2

(* So do claimOutbox and the calls that give a claim back.                  *)
LEMMA OutboxRowShape ==
    ASSUME NEW Owners, NEW row \in OutboxRows(Owners), NEW o \in Owners,
           NEW until \in Nat, NEW due \in Nat, NEW settled \in Nat,
           NEW s \in OutboxStatuses
    PROVE  /\ ClaimedOutbox(row, o, until) \in OutboxRows(Owners)
           /\ ReleasedOutbox(row, s, due, settled) \in OutboxRows(Owners)
<1>1. ClaimedOutbox(row, o, until) \in OutboxRows(Owners)
  BY OutboxColumns, LeaseShape
     DEF ClaimedOutbox, OutboxRows, OutboxStatuses
<1>2. ReleasedOutbox(row, s, due, settled) \in OutboxRows(Owners)
  BY OutboxColumns, LeaseShape DEF ReleasedOutbox, OutboxRows
<1>3. QED BY <1>1, <1>2

(* The rows a table starts with, and a row just enqueued.                   *)
LEMMA EmptyRowShape ==
    ASSUME NEW Owners, NEW Frames, NEW Replies
    PROVE  /\ NoOutboxRow \in OutboxRows(Owners)
           /\ NoInboxRow \in InboxRows(Owners, Frames, Replies)
           /\ \A s \in OutboxStatuses, t \in Nat :
                  EnqueuedOutbox(s, t) \in OutboxRows(Owners)
           /\ \A f \in Frames :
                  ReceivedInbox(f) \in InboxRows(Owners, Frames, Replies)
<1>1. NoOutboxRow \in OutboxRows(Owners)
  BY LeaseShape DEF NoOutboxRow, OutboxRows, OutboxStatuses
<1>2. NoInboxRow \in InboxRows(Owners, Frames, Replies)
  BY LeaseShape DEF NoInboxRow, InboxRows, InboxStatuses
<1>3. ASSUME NEW s \in OutboxStatuses, NEW t \in Nat
      PROVE  EnqueuedOutbox(s, t) \in OutboxRows(Owners)
  BY LeaseShape DEF EnqueuedOutbox, NoOutboxRow, OutboxRows
<1>4. ASSUME NEW f \in Frames
      PROVE  ReceivedInbox(f) \in InboxRows(Owners, Frames, Replies)
  BY LeaseShape DEF ReceivedInbox, NoInboxRow, InboxRows, InboxStatuses
<1>5. QED BY <1>1, <1>2, <1>3, <1>4

(* Every inbox statement leaves a well-formed row.                          *)
LEMMA InboxRowShape ==
    ASSUME NEW Owners, NEW Frames, NEW Replies,
           NEW row \in InboxRows(Owners, Frames, Replies),
           NEW o \in Owners, NEW r \in Replies \cup {None},
           NEW t \in Nat, NEW until \in Nat
    PROVE  /\ row.revision \in Nat
           /\ ClaimedInbox(row, o, until) \in InboxRows(Owners, Frames, Replies)
           /\ CompletedInbox(row, r, t) \in InboxRows(Owners, Frames, Replies)
<1>1. ClaimedInbox(row, o, until) \in InboxRows(Owners, Frames, Replies)
  BY InboxColumns, LeaseShape DEF ClaimedInbox, InboxRows, InboxStatuses
<1>2. CompletedInbox(row, r, t) \in InboxRows(Owners, Frames, Replies)
  BY InboxColumns, LeaseShape DEF CompletedInbox, InboxRows, InboxStatuses
<1>3. QED BY <1>1, <1>2, InboxColumns

(* A renewed lease: a row is renewed only by an owner that holds it.        *)
LEMMA RenewShape ==
    ASSUME NEW Owners, NEW Frames, NEW Replies, NEW until \in Nat,
           NEW outRow \in OutboxRows(Owners),
           NEW inRow \in InboxRows(Owners, Frames, Replies)
    PROVE  /\ outRow.lease # NoLease =>
                  RenewedOutbox(outRow, until) \in OutboxRows(Owners)
           /\ inRow.lease # NoLease =>
                  RenewedInbox(inRow, until)
                      \in InboxRows(Owners, Frames, Replies)
<1>1. ASSUME NEW l \in Leases(Owners), l # NoLease
      PROVE  [l EXCEPT !.until = until] \in Leases(Owners)
  BY <1>1 DEF Leases
<1>2. ASSUME outRow.lease # NoLease
      PROVE  RenewedOutbox(outRow, until) \in OutboxRows(Owners)
  BY <1>1, <1>2, OutboxColumns DEF OutboxRows, RenewedOutbox
<1>3. ASSUME inRow.lease # NoLease
      PROVE  RenewedInbox(inRow, until) \in InboxRows(Owners, Frames, Replies)
  BY <1>1, <1>3, InboxColumns DEF InboxRows, RenewedInbox
<1>4. QED BY <1>2, <1>3

(* A row somebody holds has a lease.                                        *)
LEMMA HeldHasLease ==
    ASSUME NEW row, NEW o, NEW rev, NEW t \in Nat,
           HoldsOutbox(row, o, rev, t) \/ HoldsInbox(row, o, rev, t)
    PROVE  row.lease # NoLease
BY DEF HoldsOutbox, HoldsInbox, NoLease

=============================================================================
