----------------------- MODULE ProtocolDeliveryProofs -----------------------
(***************************************************************************)
(* Proofs about ProtocolDelivery, for every set of exchanges and workers,   *)
(* every assignment of lease owners and every lease duration.               *)
(***************************************************************************)
EXTENDS ProtocolDelivery, DeliveryRowsLemmas

(* The row of a worker whose token is good: which one, at which revision,   *)
(* and that it has a lease.                                                 *)
LEMMA HeldRow ==
    ASSUME TypeOK, NEW w \in Workers, NEW x \in Exchanges
    PROVE  /\ HoldsRow(w, "outbox", x) =>
                  /\ HoldsOutbox(outbox[x], OwnerOf[w], token[w].rev, now)
                  /\ outbox[x].lease # NoLease
           /\ HoldsRow(w, "inbox", x) =>
                  /\ HoldsInbox(inbox[x], OwnerOf[w], token[w].rev, now)
                  /\ inbox[x].lease # NoLease
           /\ \A box : HoldsRow(w, box, x) =>
                  /\ token[w] = Token(box, x, token[w].rev)
                  /\ token[w] # NoToken
                  /\ token[w].rev \in Nat
                  /\ box \in {"outbox", "inbox"}
<1>1. token[w] \in Tokens /\ now \in Nat
  BY DEF TypeOK
<1>2. ASSUME HoldsRow(w, "outbox", x)
      PROVE  /\ HoldsOutbox(outbox[x], OwnerOf[w], token[w].rev, now)
             /\ outbox[x].lease # NoLease
  BY <1>1, <1>2, HeldHasLease DEF HoldsRow, Holds
<1>3. ASSUME HoldsRow(w, "inbox", x)
      PROVE  /\ HoldsInbox(inbox[x], OwnerOf[w], token[w].rev, now)
             /\ inbox[x].lease # NoLease
  BY <1>1, <1>3, HeldHasLease DEF HoldsRow, Holds
<1>4. ASSUME NEW box, HoldsRow(w, box, x)
      PROVE  /\ token[w] = Token(box, x, token[w].rev)
             /\ token[w] # NoToken
             /\ token[w].rev \in Nat
             /\ box \in {"outbox", "inbox"}
  BY <1>1, <1>4, ExchangesAreDistinct
     DEF HoldsRow, Holds, Tokens, NoToken, Token
<1>5. QED BY <1>2, <1>3, <1>4

-----------------------------------------------------------------------------
(* Type correctness.                                                        *)

(* A token of a row, and the token of a renewed lease, are tokens.          *)
LEMMA TokenShape ==
    ASSUME TypeOK, NEW x \in Exchanges, NEW box \in {"outbox", "inbox"},
           NEW rev \in Nat
    PROVE  /\ Token(box, x, rev) \in Tokens
           /\ NoToken \in Tokens
           /\ [Token(box, x, rev) EXCEPT !.rev = @ + 1] \in Tokens
BY DEF Token, Tokens, NoToken

LEMMA OutboxWorkerTypes ==
    ASSUME TypeOK, NEW w \in Workers, NEW x \in Exchanges,
           \/ ClaimOutbox(w, x)
           \/ RenewOutboxLease(w, x)
           \/ MarkOutboxSent(w, x)
           \/ RetryOutbox(w, x)
           \/ FailOutbox(w, x)
    PROVE  TypeOK'
<1>1. /\ outbox[x] \in OutboxRows(Owners) /\ OwnerOf[w] \in Owners
      /\ now \in Nat /\ now + LeaseDuration \in Nat
      /\ outbox[x].due \in Nat /\ outbox[x].settledAt \in Nat
  <2>1. outbox[x] \in OutboxRows(Owners) /\ now \in Nat
    BY DEF TypeOK
  <2>2. OwnerOf[w] \in Owners
    BY DEF Owners
  <2>3. outbox[x].due \in Nat /\ outbox[x].settledAt \in Nat
    BY <2>1, OutboxColumns
  <2>4. QED BY <2>1, <2>2, <2>3, LeaseIsPositive
<1>2. CASE ClaimOutbox(w, x)
  <2>1. outbox' \in [Exchanges -> OutboxRows(Owners)]
    <3>1. ClaimedOutbox(outbox[x], OwnerOf[w], now + LeaseDuration)
              \in OutboxRows(Owners)
      BY <1>1, OutboxRowShape DEF OutboxStatuses
    <3>2. QED BY <1>2, <3>1 DEF ClaimOutbox, TypeOK
  <2>2. outbox'[x].revision \in Nat
    BY <2>1, OutboxColumns
  <2>3. token' \in [Workers -> Tokens]
    BY <1>2, <2>2, TokenShape DEF ClaimOutbox, TypeOK
  <2>4. QED BY <1>2, <2>1, <2>3 DEF ClaimOutbox, TypeOK
<1>3. CASE RenewOutboxLease(w, x)
  <2>1. outbox' \in [Exchanges -> OutboxRows(Owners)]
    <3>1. RenewedOutbox(outbox[x], now + LeaseDuration) \in OutboxRows(Owners)
      BY <1>1, <1>3, HeldRow, RenewShape, EmptyRowShape
         DEF RenewOutboxLease
    <3>2. QED BY <1>3, <3>1 DEF RenewOutboxLease, TypeOK
  <2>2. token' \in [Workers -> Tokens]
    BY <1>3, HeldRow, TokenShape DEF RenewOutboxLease, TypeOK
  <2>3. QED BY <1>3, <2>1, <2>2 DEF RenewOutboxLease, TypeOK
<1>4. ASSUME NEW status \in OutboxStatuses, NEW due \in Nat,
             NEW settledAt \in Nat,
             ReleaseOutbox(w, x, status, due, settledAt)
      PROVE  TypeOK'
  <2>1. outbox' \in [Exchanges -> OutboxRows(Owners)]
    <3>1. ReleasedOutbox(outbox[x], status, due, settledAt)
              \in OutboxRows(Owners)
      BY <1>1, OutboxRowShape
    <3>2. QED BY <1>4, <3>1 DEF ReleaseOutbox, TypeOK
  <2>2. token' \in [Workers -> Tokens]
    BY <1>4 DEF ReleaseOutbox, TypeOK, Tokens
  <2>3. QED BY <1>4, <2>1, <2>2 DEF ReleaseOutbox, TypeOK
<1>5. CASE MarkOutboxSent(w, x)
  BY <1>1, <1>4, <1>5 DEF MarkOutboxSent, OutboxStatuses
<1>6. CASE RetryOutbox(w, x)
  <2>1. PICK due \in now .. MaxTime :
            ReleaseOutbox(w, x, "pending", due, outbox[x].settledAt)
    BY <1>6 DEF RetryOutbox
  <2>2. due \in Nat
    BY <1>1, BoundsAreNumbers
  <2>3. QED BY <1>1, <1>4, <2>1, <2>2 DEF OutboxStatuses
<1>7. CASE FailOutbox(w, x)
  BY <1>1, <1>4, <1>7 DEF FailOutbox, OutboxStatuses
<1>8. QED BY <1>2, <1>3, <1>5, <1>6, <1>7

LEMMA InboxWorkerTypes ==
    ASSUME TypeOK, NEW w \in Workers, NEW x \in Exchanges,
           \/ ClaimInbox(w, x)
           \/ RenewInboxLease(w, x)
           \/ \E reply \in Replies(x) \cup {None} : CompleteInbox(w, x, reply)
    PROVE  TypeOK'
<1>1. /\ inbox[x] \in InboxRows(Owners, Exchanges, Receipts)
      /\ OwnerOf[w] \in Owners
      /\ now \in Nat /\ now + LeaseDuration \in Nat
  BY LeaseIsPositive DEF TypeOK, Owners
<1>2. CASE ClaimInbox(w, x)
  <2>1. inbox' \in [Exchanges -> InboxRows(Owners, Exchanges, Receipts)]
    <3>1. ClaimedInbox(inbox[x], OwnerOf[w], now + LeaseDuration)
              \in InboxRows(Owners, Exchanges, Receipts)
      BY <1>1, InboxRowShape
    <3>2. QED BY <1>2, <3>1 DEF ClaimInbox, TypeOK
  <2>2. inbox'[x].revision \in Nat
    BY <2>1, InboxColumns
  <2>3. token' \in [Workers -> Tokens]
    BY <1>2, <2>2, TokenShape DEF ClaimInbox, TypeOK
  <2>4. QED BY <1>2, <2>1, <2>3 DEF ClaimInbox, TypeOK
<1>3. CASE RenewInboxLease(w, x)
  <2>1. inbox' \in [Exchanges -> InboxRows(Owners, Exchanges, Receipts)]
    <3>1. RenewedInbox(inbox[x], now + LeaseDuration)
              \in InboxRows(Owners, Exchanges, Receipts)
      BY <1>1, <1>3, HeldRow, RenewShape, EmptyRowShape DEF RenewInboxLease
    <3>2. QED BY <1>3, <3>1 DEF RenewInboxLease, TypeOK
  <2>2. token' \in [Workers -> Tokens]
    BY <1>3, HeldRow, TokenShape DEF RenewInboxLease, TypeOK
  <2>3. QED BY <1>3, <2>1, <2>2 DEF RenewInboxLease, TypeOK
<1>4. ASSUME NEW reply \in Replies(x) \cup {None}, CompleteInbox(w, x, reply)
      PROVE  TypeOK'
  <2>1. reply \in Receipts \cup {None}
    BY DEF Replies
  <2>2. inbox' \in [Exchanges -> InboxRows(Owners, Exchanges, Receipts)]
    <3>1. CompletedInbox(inbox[x], reply, now)
              \in InboxRows(Owners, Exchanges, Receipts)
      BY <1>1, <2>1, InboxRowShape
    <3>2. QED BY <1>4, <3>1 DEF CompleteInbox, TypeOK
  <2>3. outbox' \in [Exchanges -> OutboxRows(Owners)]
    <3>1. EnqueuedOutbox("pending", now) \in OutboxRows(Owners)
      BY <1>1, EmptyRowShape DEF OutboxStatuses
    <3>2. QED BY <1>4, <3>1 DEF CompleteInbox, TypeOK
  <2>4. issued' \subseteq Exchanges
    BY <1>4, <2>1 DEF CompleteInbox, TypeOK, Exchanges
  <2>5. token' \in [Workers -> Tokens]
    BY <1>4 DEF CompleteInbox, TypeOK, Tokens
  <2>6. QED BY <1>4, <2>2, <2>3, <2>4, <2>5 DEF CompleteInbox, TypeOK
<1>5. QED BY <1>2, <1>3, <1>4

LEMMA StoreTypes ==
    ASSUME TypeOK,
           \/ \E x \in Commands, s \in {"held", "pending"} :
                  EnqueueOutbox(x, s)
           \/ \E x \in Exchanges : ActivateOutbox(x) \/ ReceiveInbox(x)
           \/ \E before \in 1 .. now : ArchiveSettled(before)
           \/ \E w \in Workers : ForgetToken(w)
           \/ Tick
    PROVE  TypeOK'
<1>1. now \in Nat /\ \A x \in Exchanges : outbox[x] \in OutboxRows(Owners)
  BY DEF TypeOK
<1>2. ASSUME NEW x \in Commands, NEW s \in {"held", "pending"},
             EnqueueOutbox(x, s)
      PROVE  TypeOK'
  <2>1. EnqueuedOutbox(s, now) \in OutboxRows(Owners)
    BY <1>1, EmptyRowShape DEF OutboxStatuses
  <2>2. QED BY <1>2, <2>1 DEF EnqueueOutbox, TypeOK, Exchanges
<1>3. ASSUME NEW x \in Exchanges, ActivateOutbox(x) PROVE TypeOK'
  <2>1. ActivatedOutbox(outbox[x]) \in OutboxRows(Owners)
    BY <1>1, StoreRowShape
  <2>2. QED BY <1>3, <2>1 DEF ActivateOutbox, TypeOK
<1>4. ASSUME NEW x \in Exchanges, ReceiveInbox(x) PROVE TypeOK'
  <2>1. inbox' \in [Exchanges -> InboxRows(Owners, Exchanges, Receipts)]
    <3>1. ReceivedInbox(x) \in InboxRows(Owners, Exchanges, Receipts)
      BY EmptyRowShape
    <3>2. QED BY <1>4, <3>1 DEF ReceiveInbox, TypeOK
  <2>2. \A y \in Exchanges :
            SettledByReceipt(outbox[y], now) \in OutboxRows(Owners)
    BY <1>1, StoreRowShape
  <2>3. outbox' \in [Exchanges -> OutboxRows(Owners)]
    BY <1>4, <2>2, ReceiptsHaveCauses DEF ReceiveInbox, TypeOK, Exchanges
  <2>4. QED BY <1>4, <2>1, <2>3 DEF ReceiveInbox, TypeOK
<1>5. ASSUME NEW before \in 1 .. now, ArchiveSettled(before) PROVE TypeOK'
  <2>1. /\ NoOutboxRow \in OutboxRows(Owners)
        /\ NoInboxRow \in InboxRows(Owners, Exchanges, Receipts)
    BY EmptyRowShape
  <2>2. QED BY <1>5, <2>1 DEF ArchiveSettled, TypeOK
<1>6. ASSUME NEW w \in Workers, ForgetToken(w) PROVE TypeOK'
  BY <1>6 DEF ForgetToken, TypeOK, Tokens
<1>7. CASE Tick
  BY <1>7 DEF Tick, TypeOK
<1>8. QED BY <1>2, <1>3, <1>4, <1>5, <1>6, <1>7

(* Type correctness is inductive on its own.                                *)
LEMMA TypeStep ==
    ASSUME TypeOK, [Next]_vars
    PROVE  TypeOK'
<1>1. CASE UNCHANGED vars
  BY <1>1 DEF vars, TypeOK
<1>2. CASE \E w \in Workers : WorkerNext(w)
  BY <1>2, OutboxWorkerTypes, InboxWorkerTypes, StoreTypes DEF WorkerNext
<1>3. CASE Next /\ ~ \E w \in Workers : WorkerNext(w)
  BY <1>3, StoreTypes DEF Next
<1>4. QED BY <1>1, <1>2, <1>3

LEMMA TypeInit == Init => TypeOK
<1> SUFFICES ASSUME Init PROVE TypeOK
  OBVIOUS
<1>1. /\ outbox \in [Exchanges -> OutboxRows(Owners)]
      /\ inbox \in [Exchanges -> InboxRows(Owners, Exchanges, Receipts)]
      /\ token \in [Workers -> Tokens]
      /\ issued \subseteq Exchanges /\ completed \subseteq Exchanges
      /\ recompleted \subseteq completed /\ now \in Nat
  BY EmptyRowShape DEF Init, Tokens
<1>2. archived \in BOOLEAN
  BY DEF Init
<1>3. QED BY <1>1, <1>2 DEF TypeOK

(* The tables, the tokens and the histories keep their types through every  *)
(* call of the store.                                                       *)
THEOREM TypeCorrect == Spec => []TypeOK
  BY TypeInit, TypeStep, PTL DEF Spec

-----------------------------------------------------------------------------
(* The inductive invariant.                                                 *)

Revision(box, x) ==
    IF box = "outbox" THEN outbox[x].revision ELSE inbox[x].revision

(* What was never enqueued has no row, and no receipt comes before what it  *)
(* answers.                                                                 *)
FramesAreIssued ==
    /\ \A x \in Exchanges \ issued :
           outbox[x].status = "absent" /\ inbox[x].status = "absent"
    /\ \A r \in Receipts : r \in issued => CauseOf[r] \in issued

(* Revisions of a row start at 0.                                           *)
AbsentRowsAreNew ==
    \A x \in Exchanges :
        /\ outbox[x].status = "absent" => outbox[x].revision = 0
        /\ inbox[x].status = "absent" => inbox[x].revision = 0

(* A token names a revision its row has had, and no other worker has it.    *)
TokensAreBehind ==
    \A w \in Workers, box \in {"outbox", "inbox"}, x \in Exchanges :
        token[w] = Token(box, x, token[w].rev) =>
            token[w].rev <= Revision(box, x)

TokensAreDistinct ==
    \A w, v \in Workers :
        w # v /\ token[w] # NoToken => token[w] # token[v]

CompletedRowsStay ==
    /\ \A x \in completed : inbox[x].status = "complete"
    /\ recompleted = {}

StoreInvariant ==
    /\ TypeOK
    /\ FramesAreIssued
    /\ AbsentRowsAreNew
    /\ ReceiptSettlesRequest
    /\ ~ archived => TokensAreBehind /\ TokensAreDistinct /\ CompletedRowsStay

(* A receipt is enqueued by whoever holds its cause, hence after the cause; *)
(* a row that was never issued is in no table.                              *)
LEMMA FramesAreIssuedStep ==
    ASSUME TypeOK, FramesAreIssued, [Next]_vars
    PROVE  FramesAreIssued'
<1>1. CASE UNCHANGED vars
  BY <1>1 DEF vars, FramesAreIssued
<1>2. ASSUME NEW x \in Commands, NEW s \in {"held", "pending"},
             EnqueueOutbox(x, s)
      PROVE  FramesAreIssued'
  BY <1>2, ExchangesAreDistinct, ReceiptsHaveCauses
     DEF EnqueueOutbox, FramesAreIssued, TypeOK, Exchanges
<1>3. ASSUME NEW x \in Exchanges, ActivateOutbox(x) PROVE FramesAreIssued'
  BY <1>3 DEF ActivateOutbox, CanActivateOutbox, FramesAreIssued, TypeOK
<1>4. ASSUME NEW x \in Exchanges, ReceiveInbox(x) PROVE FramesAreIssued'
  <2>1. \A y \in Exchanges :
            outbox[y].status = "absent" => outbox'[y].status = "absent"
    BY <1>4, ReceiptsHaveCauses
       DEF ReceiveInbox, SettledByReceipt, TypeOK, Exchanges
  <2>2. QED BY <1>4, <2>1 DEF ReceiveInbox, FramesAreIssued, TypeOK
<1>5. ASSUME NEW before \in 1 .. now, ArchiveSettled(before)
      PROVE  FramesAreIssued'
  BY <1>5 DEF ArchiveSettled, ArchivesOutbox, FramesAreIssued, TypeOK
<1>6. ASSUME NEW w \in Workers, WorkerNext(w) PROVE FramesAreIssued'
  <2>1. CASE ForgetToken(w)
    BY <2>1 DEF ForgetToken, FramesAreIssued
  <2>2. ASSUME NEW x \in Exchanges,
               \/ ClaimOutbox(w, x)
               \/ RenewOutboxLease(w, x)
               \/ \E s, due, t : ReleaseOutbox(w, x, s, due, t)
        PROVE  FramesAreIssued'
    <3>1. outbox[x].status # "absent"
      BY <2>2, HeldRow
         DEF ClaimOutbox, RenewOutboxLease, ReleaseOutbox, CanClaimOutbox,
             IsUnsent, HoldsOutbox
    <3>2. /\ \A y \in Exchanges \ {x} : outbox'[y] = outbox[y]
          /\ UNCHANGED <<inbox, issued>>
      BY <2>2 DEF ClaimOutbox, RenewOutboxLease, ReleaseOutbox, TypeOK
    <3>3. QED BY <3>1, <3>2 DEF FramesAreIssued
  <2>3. ASSUME NEW x \in Exchanges,
               ClaimInbox(w, x) \/ RenewInboxLease(w, x)
        PROVE  FramesAreIssued'
    <3>1. inbox[x].status # "absent"
      BY <2>3, HeldRow
         DEF ClaimInbox, RenewInboxLease, CanClaimInbox, HoldsInbox
    <3>2. /\ \A y \in Exchanges \ {x} : inbox'[y] = inbox[y]
          /\ UNCHANGED <<outbox, issued>>
      BY <2>3 DEF ClaimInbox, RenewInboxLease, TypeOK
    <3>3. QED BY <3>1, <3>2 DEF FramesAreIssued
  <2>4. ASSUME NEW x \in Exchanges, NEW reply \in Replies(x) \cup {None},
               CompleteInbox(w, x, reply)
        PROVE  FramesAreIssued'
    <3>1. x \in issued
      BY <2>4, HeldRow DEF CompleteInbox, HoldsInbox, FramesAreIssued
    <3>2. \A y \in Exchanges \ issued' :
              outbox'[y].status = "absent" /\ inbox'[y].status = "absent"
      BY <2>4, <3>1 DEF CompleteInbox, FramesAreIssued, TypeOK
    <3>3. \A r \in Receipts : r \in issued' => CauseOf[r] \in issued'
      BY <2>4, <3>1, ExchangesAreDistinct
         DEF CompleteInbox, FramesAreIssued, Replies, Exchanges
    <3>4. QED BY <3>2, <3>3 DEF FramesAreIssued
  <2>5. QED
    BY <1>6, <2>1, <2>2, <2>3, <2>4
       DEF WorkerNext, MarkOutboxSent, RetryOutbox, FailOutbox
<1>7. CASE Tick
  BY <1>7 DEF Tick, FramesAreIssued
<1>8. QED BY <1>1, <1>2, <1>3, <1>4, <1>5, <1>6, <1>7 DEF Next

(* What one call of the store can do to one outbox row.                     *)
LEMMA OutboxStep ==
    ASSUME TypeOK, FramesAreIssued, [Next]_vars, NEW y \in Exchanges
    PROVE  \/ outbox'[y] = outbox[y]
           \/ /\ y \notin issued
              /\ y \in issued'
              /\ outbox'[y].status \in {"held", "pending"}
              /\ outbox'[y].revision = 1
           \/ /\ outbox[y].status \in {"held", "pending", "sent"}
              /\ outbox'[y].status # "absent"
              /\ outbox[y].status = "sent" => outbox'[y].status = "complete"
              /\ outbox'[y].revision = outbox[y].revision + 1
           \/ /\ archived'
              /\ outbox[y].status \in {"complete", "failed"}
              /\ outbox'[y] = NoOutboxRow
<1> DEFINE Goal ==
           \/ outbox'[y] = outbox[y]
           \/ /\ y \notin issued
              /\ y \in issued'
              /\ outbox'[y].status \in {"held", "pending"}
              /\ outbox'[y].revision = 1
           \/ /\ outbox[y].status \in {"held", "pending", "sent"}
              /\ outbox'[y].status # "absent"
              /\ outbox[y].status = "sent" => outbox'[y].status = "complete"
              /\ outbox'[y].revision = outbox[y].revision + 1
           \/ /\ archived'
              /\ outbox[y].status \in {"complete", "failed"}
              /\ outbox'[y] = NoOutboxRow
<1>1. /\ outbox \in [Exchanges -> OutboxRows(Owners)]
      /\ outbox[y] \in OutboxRows(Owners)
  BY DEF TypeOK
<1>2. ASSUME NEW x \in Commands, NEW s \in {"held", "pending"},
             EnqueueOutbox(x, s)
      PROVE  Goal
  BY <1>1, <1>2 DEF EnqueueOutbox, EnqueuedOutbox, NoOutboxRow, Exchanges
<1>3. ASSUME NEW x \in Exchanges, ActivateOutbox(x) PROVE Goal
  BY <1>1, <1>3
     DEF ActivateOutbox, CanActivateOutbox, ActivatedOutbox, OutboxRows
<1>4. ASSUME NEW x \in Exchanges, ReceiveInbox(x) PROVE Goal
  BY <1>1, <1>4, ReceiptsHaveCauses
     DEF ReceiveInbox, SettledByReceipt, Exchanges, OutboxRows
<1>5. ASSUME NEW before \in 1 .. now, ArchiveSettled(before) PROVE Goal
  BY <1>5 DEF ArchiveSettled, ArchivesOutbox
<1>6. ASSUME NEW w \in Workers, NEW x \in Exchanges, ClaimOutbox(w, x)
      PROVE  Goal
  BY <1>1, <1>6
     DEF ClaimOutbox, CanClaimOutbox, IsUnsent, ClaimedOutbox, OutboxRows
<1>7. ASSUME NEW w \in Workers, NEW x \in Exchanges, RenewOutboxLease(w, x)
      PROVE  Goal
  BY <1>1, <1>7, HeldRow
     DEF RenewOutboxLease, HoldsOutbox, RenewedOutbox, OutboxRows
<1>8. ASSUME NEW w \in Workers, NEW x \in Exchanges,
             NEW s \in {"sent", "pending", "failed"}, NEW due, NEW t,
             ReleaseOutbox(w, x, s, due, t)
      PROVE  Goal
  BY <1>1, <1>8, HeldRow
     DEF ReleaseOutbox, HoldsOutbox, ReleasedOutbox, OutboxRows
<1>9. ASSUME NEW w \in Workers, NEW x \in Exchanges,
             NEW reply \in Replies(x) \cup {None}, CompleteInbox(w, x, reply)
      PROVE  Goal
  BY <1>1, <1>9
     DEF CompleteInbox, Replies, EnqueuedOutbox, NoOutboxRow, Exchanges
<1>10. CASE UNCHANGED outbox
  BY <1>10
<1>11. QED
  BY <1>2, <1>3, <1>4, <1>5, <1>6, <1>7, <1>8, <1>9, <1>10
     DEF Next, WorkerNext, MarkOutboxSent, RetryOutbox, FailOutbox, ClaimInbox,
         RenewInboxLease, ForgetToken, Tick, vars

(* What one call of the store can do to one inbox row.                      *)
LEMMA InboxStep ==
    ASSUME TypeOK, [Next]_vars, NEW y \in Exchanges
    PROVE  \/ inbox'[y] = inbox[y]
           \/ /\ inbox[y].status = "absent"
              /\ inbox'[y].status = "received"
              /\ inbox'[y].revision = 1
              /\ y \in Receipts =>
                     outbox'[CauseOf[y]].status
                         \in {"absent", "complete", "failed"}
           \/ /\ inbox[y].status \in {"received", "processing"}
              /\ inbox'[y].status \in {"processing", "complete"}
              /\ inbox'[y].revision = inbox[y].revision + 1
           \/ /\ archived'
              /\ inbox[y].status = "complete"
              /\ inbox'[y] = NoInboxRow
<1> DEFINE Goal ==
           \/ inbox'[y] = inbox[y]
           \/ /\ inbox[y].status = "absent"
              /\ inbox'[y].status = "received"
              /\ inbox'[y].revision = 1
              /\ y \in Receipts =>
                     outbox'[CauseOf[y]].status
                         \in {"absent", "complete", "failed"}
           \/ /\ inbox[y].status \in {"received", "processing"}
              /\ inbox'[y].status \in {"processing", "complete"}
              /\ inbox'[y].revision = inbox[y].revision + 1
           \/ /\ archived'
              /\ inbox[y].status = "complete"
              /\ inbox'[y] = NoInboxRow
<1>1. /\ inbox \in [Exchanges -> InboxRows(Owners, Exchanges, Receipts)]
      /\ inbox[y] \in InboxRows(Owners, Exchanges, Receipts)
  BY DEF TypeOK
<1>2. ASSUME NEW x \in Exchanges, ReceiveInbox(x) PROVE Goal
  <2>1. CASE x = y /\ y \in Receipts
    <3>1. /\ CauseOf[y] \in Exchanges
          /\ outbox[CauseOf[y]].status \in OutboxStatuses
          /\ outbox' = [outbox EXCEPT ![CauseOf[y]] = SettledByReceipt(@, now)]
      BY <1>2, <2>1, ReceiptsHaveCauses, OutboxColumns
         DEF ReceiveInbox, TypeOK, Exchanges
    <3>2. outbox'[CauseOf[y]].status \in {"absent", "complete", "failed"}
      BY <3>1, OutboxColumns DEF SettledByReceipt, OutboxStatuses, TypeOK,
                                OutboxRows
    <3>3. QED
      BY <1>1, <1>2, <2>1, <3>2 DEF ReceiveInbox, ReceivedInbox, NoInboxRow
  <2>2. CASE ~ (x = y /\ y \in Receipts)
    BY <1>1, <1>2, <2>2 DEF ReceiveInbox, ReceivedInbox, NoInboxRow
  <2>3. QED BY <2>1, <2>2
<1>3. ASSUME NEW before \in 1 .. now, ArchiveSettled(before) PROVE Goal
  BY <1>3 DEF ArchiveSettled
<1>4. ASSUME NEW w \in Workers, NEW x \in Exchanges, ClaimInbox(w, x)
      PROVE  Goal
  BY <1>1, <1>4 DEF ClaimInbox, CanClaimInbox, ClaimedInbox, InboxRows
<1>5. ASSUME NEW w \in Workers, NEW x \in Exchanges, RenewInboxLease(w, x)
      PROVE  Goal
  BY <1>1, <1>5, HeldRow
     DEF RenewInboxLease, HoldsInbox, RenewedInbox, InboxRows
<1>6. ASSUME NEW w \in Workers, NEW x \in Exchanges,
             NEW reply \in Replies(x) \cup {None}, CompleteInbox(w, x, reply)
      PROVE  Goal
  BY <1>1, <1>6, HeldRow
     DEF CompleteInbox, HoldsInbox, CompletedInbox, InboxRows
<1>7. CASE UNCHANGED inbox
  BY <1>7
<1>8. QED
  BY <1>2, <1>3, <1>4, <1>5, <1>6, <1>7
     DEF Next, WorkerNext, EnqueueOutbox, ActivateOutbox, ClaimOutbox,
         RenewOutboxLease, MarkOutboxSent, RetryOutbox, FailOutbox,
         ReleaseOutbox, ForgetToken, Tick, vars

LEMMA ArchivedForGood ==
    ASSUME [Next]_vars, ~ archived'
    PROVE  ~ archived
BY DEF Next, WorkerNext, EnqueueOutbox, ActivateOutbox, ReceiveInbox,
       ArchiveSettled, ClaimOutbox, RenewOutboxLease, MarkOutboxSent,
       RetryOutbox, FailOutbox, ReleaseOutbox, ClaimInbox, RenewInboxLease,
       CompleteInbox, ForgetToken, Tick, vars

(* Without archiving the revision of a row never falls.                     *)
LEMMA RevisionsGrow ==
    ASSUME TypeOK, FramesAreIssued, AbsentRowsAreNew, [Next]_vars, ~ archived',
           NEW box \in {"outbox", "inbox"}, NEW x \in Exchanges
    PROVE  /\ Revision(box, x) \in Nat
           /\ Revision(box, x)' \in Nat
           /\ Revision(box, x) <= Revision(box, x)'
<1>1. /\ outbox[x].revision \in Nat /\ outbox'[x].revision \in Nat
      /\ inbox[x].revision \in Nat /\ inbox'[x].revision \in Nat
  BY TypeStep, OutboxColumns, InboxColumns DEF TypeOK
<1>2. outbox[x].revision <= outbox'[x].revision
  BY <1>1, OutboxStep DEF FramesAreIssued, AbsentRowsAreNew
<1>3. inbox[x].revision <= inbox'[x].revision
  BY <1>1, InboxStep DEF AbsentRowsAreNew
<1>4. QED BY <1>1, <1>2, <1>3 DEF Revision

(* A call writes no token, drops one, or writes one with the new revision   *)
(* of the row it has just changed.                                          *)
LEMMA TokenStep ==
    ASSUME TypeOK, [Next]_vars
    PROVE  \/ UNCHANGED token
           \/ \E w \in Workers : token' = [token EXCEPT ![w] = NoToken]
           \/ \E w \in Workers, box \in {"outbox", "inbox"}, x \in Exchanges :
                 /\ token' = [token EXCEPT
                                 ![w] = Token(box, x, Revision(box, x)')]
                 /\ Revision(box, x)' = Revision(box, x) + 1
<1> DEFINE Writes(w, box, x) ==
           /\ token' = [token EXCEPT ![w] = Token(box, x, Revision(box, x)')]
           /\ Revision(box, x)' = Revision(box, x) + 1
<1>1. /\ outbox \in [Exchanges -> OutboxRows(Owners)]
      /\ inbox \in [Exchanges -> InboxRows(Owners, Exchanges, Receipts)]
      /\ token \in [Workers -> Tokens]
  BY DEF TypeOK
<1>2. ASSUME NEW w \in Workers, NEW x \in Exchanges, ClaimOutbox(w, x)
      PROVE  Writes(w, "outbox", x)
  BY <1>1, <1>2 DEF ClaimOutbox, ClaimedOutbox, Revision, OutboxRows
<1>3. ASSUME NEW w \in Workers, NEW x \in Exchanges, ClaimInbox(w, x)
      PROVE  Writes(w, "inbox", x)
  BY <1>1, <1>3 DEF ClaimInbox, ClaimedInbox, Revision, InboxRows
<1>4. ASSUME NEW w \in Workers, NEW x \in Exchanges, RenewOutboxLease(w, x)
      PROVE  Writes(w, "outbox", x)
  <2>1. /\ outbox'[x].revision = outbox[x].revision + 1
        /\ token[w] = Token("outbox", x, outbox[x].revision)
    BY <1>1, <1>4, HeldRow
       DEF RenewOutboxLease, HoldsOutbox, RenewedOutbox, OutboxRows
  <2>2. [token[w] EXCEPT !.rev = @ + 1]
            = Token("outbox", x, outbox[x].revision + 1)
    BY <2>1 DEF Token
  <2>3. QED BY <1>1, <1>4, <2>1, <2>2 DEF RenewOutboxLease, Revision
<1>5. ASSUME NEW w \in Workers, NEW x \in Exchanges, RenewInboxLease(w, x)
      PROVE  Writes(w, "inbox", x)
  <2>1. /\ inbox'[x].revision = inbox[x].revision + 1
        /\ token[w] = Token("inbox", x, inbox[x].revision)
    BY <1>1, <1>5, HeldRow
       DEF RenewInboxLease, HoldsInbox, RenewedInbox, InboxRows
  <2>2. [token[w] EXCEPT !.rev = @ + 1]
            = Token("inbox", x, inbox[x].revision + 1)
    BY <2>1 DEF Token
  <2>3. QED BY <1>1, <1>5, <2>1, <2>2 DEF RenewInboxLease, Revision
<1>6. \/ UNCHANGED token
      \/ \E w \in Workers : token' = [token EXCEPT ![w] = NoToken]
      \/ \E w \in Workers, x \in Exchanges :
            \/ ClaimOutbox(w, x) \/ RenewOutboxLease(w, x)
            \/ ClaimInbox(w, x) \/ RenewInboxLease(w, x)
  BY DEF Next, WorkerNext, EnqueueOutbox, ActivateOutbox, ReceiveInbox,
         ArchiveSettled, MarkOutboxSent, RetryOutbox, FailOutbox,
         ReleaseOutbox, CompleteInbox, ForgetToken, Tick, vars
<1>7. QED BY <1>2, <1>3, <1>4, <1>5, <1>6

(* The store gives out each revision of a row once.                         *)
LEMMA TokensStep ==
    ASSUME TypeOK, FramesAreIssued, AbsentRowsAreNew, TokensAreBehind,
           TokensAreDistinct, [Next]_vars, ~ archived'
    PROVE  TokensAreBehind' /\ TokensAreDistinct'
<1>1. \A w \in Workers : token[w] # NoToken => token[w].rev \in Nat
  BY DEF TypeOK, Tokens
<1>2. \A w \in Workers, box \in {"outbox", "inbox"}, x \in Exchanges :
          token[w] = Token(box, x, token[w].rev) =>
              /\ token[w] # NoToken
              /\ token[w].rev \in Nat
              /\ token[w].rev <= Revision(box, x)
              /\ token[w].rev <= Revision(box, x)'
  <2>1. SUFFICES ASSUME NEW w \in Workers, NEW box \in {"outbox", "inbox"},
                        NEW x \in Exchanges,
                        token[w] = Token(box, x, token[w].rev)
                 PROVE  /\ token[w] # NoToken
                        /\ token[w].rev \in Nat
                        /\ token[w].rev <= Revision(box, x)
                        /\ token[w].rev <= Revision(box, x)'
    OBVIOUS
  <2>2. token[w] # NoToken
    BY <2>1, ExchangesAreDistinct DEF Token, NoToken
  <2>3. token[w].rev <= Revision(box, x)
    BY <2>1 DEF TokensAreBehind
  <2>4. QED BY <1>1, <2>2, <2>3, RevisionsGrow
<1>3. CASE UNCHANGED token
  <2>1. TokensAreBehind'
    BY <1>2, <1>3 DEF TokensAreBehind
  <2>2. QED BY <1>3, <2>1 DEF TokensAreDistinct
<1>4. ASSUME NEW w \in Workers, token' = [token EXCEPT ![w] = NoToken]
      PROVE  TokensAreBehind' /\ TokensAreDistinct'
  <2>1. /\ token'[w] = NoToken
        /\ \A v \in Workers \ {w} : token'[v] = token[v]
    BY <1>4 DEF TypeOK
  <2>2. TokensAreBehind'
    BY <1>2, <2>1, ExchangesAreDistinct DEF TokensAreBehind, NoToken, Token
  <2>3. TokensAreDistinct'
    BY <2>1 DEF TokensAreDistinct
  <2>4. QED BY <2>2, <2>3
<1>5. ASSUME NEW w \in Workers, NEW box \in {"outbox", "inbox"},
             NEW x \in Exchanges,
             token' = [token EXCEPT ![w] = Token(box, x, Revision(box, x)')],
             Revision(box, x)' = Revision(box, x) + 1
      PROVE  TokensAreBehind' /\ TokensAreDistinct'
  <2>1. /\ token'[w] = Token(box, x, Revision(box, x)')
        /\ \A v \in Workers \ {w} : token'[v] = token[v]
    BY <1>5 DEF TypeOK
  <2>2. Revision(box, x) \in Nat /\ Revision(box, x)' \in Nat
    BY RevisionsGrow
  <2>3. TokensAreBehind'
    <3>1. SUFFICES ASSUME NEW v \in Workers, NEW b \in {"outbox", "inbox"},
                          NEW y \in Exchanges,
                          token'[v] = Token(b, y, token'[v].rev)
                   PROVE  token'[v].rev <= Revision(b, y)'
      BY DEF TokensAreBehind
    <3>2. CASE v = w
      BY <2>1, <2>2, <3>1, <3>2 DEF Token
    <3>3. CASE v # w
      BY <1>2, <2>1, <3>1, <3>3
    <3>4. QED BY <3>2, <3>3
  <2>4. \A v \in Workers \ {w} : token[v] # Token(box, x, Revision(box, x)')
    <3>1. SUFFICES ASSUME NEW v \in Workers \ {w},
                          token[v] = Token(box, x, Revision(box, x)')
                   PROVE  FALSE
      OBVIOUS
    <3>2. token[v] = Token(box, x, token[v].rev)
          /\ token[v].rev = Revision(box, x) + 1
      BY <1>5, <3>1 DEF Token
    <3>3. QED BY <1>2, <2>2, <3>2
  <2>5. TokensAreDistinct'
    BY <2>1, <2>4 DEF TokensAreDistinct
  <2>6. QED BY <2>3, <2>5
<1>6. QED BY <1>3, <1>4, <1>5, TokenStep

LEMMA AbsentRowsAreNewStep ==
    ASSUME TypeOK, FramesAreIssued, AbsentRowsAreNew, [Next]_vars
    PROVE  AbsentRowsAreNew'
<1>1. ASSUME NEW x \in Exchanges, outbox'[x].status = "absent"
      PROVE  outbox'[x].revision = 0
  BY <1>1, OutboxStep DEF AbsentRowsAreNew, NoOutboxRow
<1>2. ASSUME NEW x \in Exchanges, inbox'[x].status = "absent"
      PROVE  inbox'[x].revision = 0
  BY <1>2, InboxStep DEF AbsentRowsAreNew, NoInboxRow
<1>3. QED BY <1>1, <1>2 DEF AbsentRowsAreNew

(* A receipt settles its request as it arrives, and nothing opens a settled *)
(* outbox row again; the request cannot be enqueued after its receipt.      *)
LEMMA ReceiptSettlesRequestStep ==
    ASSUME TypeOK, FramesAreIssued, ReceiptSettlesRequest, [Next]_vars
    PROVE  ReceiptSettlesRequest'
<1> SUFFICES ASSUME NEW r \in Receipts, inbox'[r].status # "absent"
             PROVE  outbox'[CauseOf[r]].status
                        \in {"absent", "complete", "failed"}
  BY DEF ReceiptSettlesRequest
<1>1. r \in Exchanges /\ CauseOf[r] \in Exchanges
  BY ReceiptsHaveCauses DEF Exchanges
<1>2. CASE inbox[r].status # "absent"
  <2>1. outbox[CauseOf[r]].status \in {"absent", "complete", "failed"}
    BY <1>2 DEF ReceiptSettlesRequest
  <2>2. CauseOf[r] \in issued
    BY <1>1, <1>2 DEF FramesAreIssued
  <2>3. QED BY <1>1, <2>1, <2>2, OutboxStep DEF NoOutboxRow
<1>3. CASE inbox[r].status = "absent"
  BY <1>1, <1>3, InboxStep DEF NoInboxRow
<1>4. QED BY <1>2, <1>3

LEMMA CompletedRowsStayStep ==
    ASSUME TypeOK, CompletedRowsStay, [Next]_vars, ~ archived'
    PROVE  CompletedRowsStay'
<1>1. completed \subseteq Exchanges
  BY DEF TypeOK
<1>2. \A x \in completed : inbox'[x].status = "complete"
  BY <1>1, InboxStep DEF CompletedRowsStay
<1>3. CASE UNCHANGED <<completed, recompleted>>
  BY <1>2, <1>3 DEF CompletedRowsStay
<1>4. ASSUME NEW w \in Workers, NEW x \in Exchanges,
             NEW reply \in Replies(x) \cup {None}, CompleteInbox(w, x, reply)
      PROVE  CompletedRowsStay'
  <2>1. inbox[x].status = "processing"
    BY <1>4, HeldRow DEF CompleteInbox, HoldsInbox
  <2>2. x \notin completed
    BY <2>1 DEF CompletedRowsStay
  <2>3. inbox[x] \in InboxRows(Owners, Exchanges, Receipts)
    BY DEF TypeOK
  <2>4. inbox'[x].status = "complete"
    BY <1>4, <2>3 DEF CompleteInbox, CompletedInbox, TypeOK, InboxRows
  <2>5. QED BY <1>2, <1>4, <2>2, <2>4 DEF CompleteInbox, CompletedRowsStay
<1>5. QED
  BY <1>3, <1>4
     DEF Next, WorkerNext, EnqueueOutbox, ActivateOutbox, ReceiveInbox,
         ArchiveSettled, ClaimOutbox, RenewOutboxLease, MarkOutboxSent,
         RetryOutbox, FailOutbox, ReleaseOutbox, ClaimInbox, RenewInboxLease,
         ForgetToken, Tick, vars

LEMMA StoreInvariantInit == Init => StoreInvariant
<1> SUFFICES ASSUME Init PROVE StoreInvariant
  OBVIOUS
<1>1. FramesAreIssued /\ AbsentRowsAreNew
  BY DEF Init, FramesAreIssued, AbsentRowsAreNew, NoOutboxRow, NoInboxRow
<1>2. ReceiptSettlesRequest
  BY DEF Init, ReceiptSettlesRequest, NoInboxRow, Exchanges
<1>3. TokensAreBehind
  BY ExchangesAreDistinct DEF Init, TokensAreBehind, NoToken, Token
<1>4. TokensAreDistinct /\ CompletedRowsStay
  BY DEF Init, TokensAreDistinct, CompletedRowsStay
<1>5. QED BY <1>1, <1>2, <1>3, <1>4, TypeInit DEF StoreInvariant

LEMMA StoreInvariantStep == StoreInvariant /\ [Next]_vars => StoreInvariant'
  BY TypeStep, FramesAreIssuedStep, AbsentRowsAreNewStep, ArchivedForGood,
     ReceiptSettlesRequestStep, TokensStep, CompletedRowsStayStep
     DEF StoreInvariant

LEMMA StoreInvariantHolds == Spec => []StoreInvariant
  BY StoreInvariantInit, StoreInvariantStep, PTL DEF Spec

-----------------------------------------------------------------------------
(* What follows for the callers of the store.                               *)

(* Two workers that both hold one row would have the same revision, hence   *)
(* the same token, whatever owner they named.                               *)
LEMMA DistinctTokensHoldDistinctRows ==
    StoreInvariant => OneLiveHolder
<1> SUFFICES ASSUME StoreInvariant, ~ archived,
                    NEW w \in Workers, NEW v \in Workers,
                    w # v, Holds(w), Holds(v),
                    token[w].box = token[v].box, token[w].id = token[v].id
             PROVE  FALSE
  BY DEF OneLiveHolder
<1>1. token[w] \in Tokens \ {NoToken} /\ token[v] \in Tokens \ {NoToken}
  BY DEF StoreInvariant, TypeOK, Holds, NoToken
<1>2. token[w].rev = token[v].rev
  BY DEF Holds, HoldsOutbox, HoldsInbox
<1>3. token[w] = token[v]
  BY <1>1, <1>2 DEF Tokens
<1>4. QED BY <1>1, <1>3 DEF StoreInvariant, TokensAreDistinct

(* At most one worker holds a row, though owners be shared and leases end.  *)
THEOREM ClaimsAreExclusive == Spec => []OneLiveHolder
  BY StoreInvariantHolds, DistinctTokensHoldDistinctRows, PTL

(* A command is not open for delivery once its receipt has arrived, with or *)
(* without archiving.                                                       *)
THEOREM ReceiptsSettle == Spec => []ReceiptSettlesRequest
<1>1. StoreInvariant => ReceiptSettlesRequest
  BY DEF StoreInvariant
<1>2. QED BY <1>1, StoreInvariantHolds, PTL

(* While nothing is archived, the work of an exchange is committed once.    *)
THEOREM WorkIsCommittedOnce == Spec => []CompletedOnce
<1>1. StoreInvariant => CompletedOnce
  BY DEF StoreInvariant, CompletedRowsStay, CompletedOnce
<1>2. QED BY <1>1, StoreInvariantHolds, PTL

(* No call reopens a sent or settled outbox row, with or without archiving. *)
THEOREM SettledRowsStay == Spec => SettledStays
<1>1. ASSUME StoreInvariant, [Next]_vars
      PROVE  [\A x \in Exchanges :
                 /\ outbox[x].status = "sent"
                        => outbox'[x].status \in {"sent", "complete"}
                 /\ outbox[x].status \in {"complete", "failed"}
                        => outbox'[x].status
                               \in {outbox[x].status, "absent"}]_vars
  BY <1>1, OutboxStep DEF StoreInvariant, FramesAreIssued, NoOutboxRow
<1>2. QED BY <1>1, StoreInvariantHolds, PTL DEF Spec, SettledStays

(* A call that keeps the token of a worker is not a call of that worker     *)
(* with this token, and by exclusion of no other worker with its row.       *)
LEMMA OthersDoNotHold ==
    ASSUME StoreInvariant, ~ archived, NEW w \in Workers, Holds(w),
           NEW x \in Exchanges, NEW box \in {"outbox", "inbox"},
           token[w].box = box, token[w].id = x, token'[w] = token[w],
           NEW v \in Workers, HoldsRow(v, box, x)
    PROVE  /\ token' # [token EXCEPT ![v] = NoToken]
           /\ token' # [token EXCEPT ![v].rev = @ + 1]
<1>1. v = w
  BY DistinctTokensHoldDistinctRows DEF OneLiveHolder, HoldsRow
<1>2. /\ token[w] # NoToken
      /\ token[w] = Token(box, x, token[w].rev)
      /\ token[w].rev \in Nat
  BY <1>1, HeldRow DEF StoreInvariant
<1>3. token \in [Workers -> Tokens]
  BY DEF StoreInvariant, TypeOK
<1>4. [token EXCEPT ![w] = NoToken][w] # token[w]
  BY <1>2, <1>3
<1>5. [token EXCEPT ![w].rev = @ + 1][w] # token[w]
  <2>1. [token EXCEPT ![w].rev = @ + 1][w] = [token[w] EXCEPT !.rev = @ + 1]
    BY <1>3
  <2>2. [token[w] EXCEPT !.rev = @ + 1].rev = token[w].rev + 1
    BY <1>2 DEF Token
  <2>3. [token[w] EXCEPT !.rev = @ + 1].rev # token[w].rev
    BY <1>2, <2>2
  <2>4. QED BY <2>1, <2>3
<1>6. QED BY <1>1, <1>4, <1>5

LEMMA HeldOutboxRowStays ==
    ASSUME StoreInvariant, ~ archived', [Next]_vars,
           NEW w \in Workers, Holds(w), token[w].box = "outbox",
           token'[w] = token[w]
    PROVE  \/ outbox'[token[w].id] = outbox[token[w].id]
           \/ outbox'[token[w].id].status = "complete"
<1> DEFINE x == token[w].id
           Goal == outbox'[x] = outbox[x] \/ outbox'[x].status = "complete"
<1>1. /\ x \in Exchanges
      /\ HoldsRow(w, "outbox", x)
  BY ExchangesAreDistinct
     DEF StoreInvariant, TypeOK, Tokens, NoToken, HoldsRow
<1>2. HoldsOutbox(outbox[x], OwnerOf[w], token[w].rev, now)
  BY <1>1, HeldRow DEF StoreInvariant
<1>3. /\ outbox \in [Exchanges -> OutboxRows(Owners)]
      /\ outbox[x] \in OutboxRows(Owners)
      /\ x \in issued
  BY <1>1, <1>2 DEF StoreInvariant, TypeOK, FramesAreIssued, HoldsOutbox
<1> HIDE DEF x
<1>4. ASSUME NEW y \in Exchanges,
             \/ \E s \in {"held", "pending"} : EnqueueOutbox(y, s)
             \/ ActivateOutbox(y)
             \/ \E v \in Workers : ClaimOutbox(v, y)
      PROVE  Goal
  <2>1. x # y
    BY <1>2, <1>3, <1>4
       DEF HoldsOutbox, EnqueueOutbox, ActivateOutbox, CanActivateOutbox,
           ClaimOutbox, CanClaimOutbox, LeaseFree, StoreInvariant, TypeOK,
           OutboxRows, Leases, NoLease
  <2>2. QED
    BY <1>1, <1>3, <1>4, <2>1 DEF EnqueueOutbox, ActivateOutbox, ClaimOutbox
<1>5. ASSUME NEW y \in Exchanges, ReceiveInbox(y) PROVE Goal
  BY <1>2, <1>3, <1>5, ReceiptsHaveCauses
     DEF ReceiveInbox, SettledByReceipt, HoldsOutbox, Exchanges, OutboxRows
<1>6. ASSUME NEW v \in Workers, NEW y \in Exchanges,
             \/ RenewOutboxLease(v, y)
             \/ \E s, due, t : ReleaseOutbox(v, y, s, due, t)
      PROVE  Goal
  <2>1. x # y
    BY <1>1, <1>6, OthersDoNotHold DEF RenewOutboxLease, ReleaseOutbox, x
  <2>2. QED BY <1>1, <1>3, <1>6, <2>1 DEF RenewOutboxLease, ReleaseOutbox
<1>7. ASSUME NEW v \in Workers, NEW y \in Exchanges,
             NEW reply \in Replies(y) \cup {None}, CompleteInbox(v, y, reply)
      PROVE  Goal
  BY <1>1, <1>3, <1>7 DEF CompleteInbox, Replies
<1>8. CASE UNCHANGED outbox
  BY <1>8
<1>9. Goal
  BY <1>4, <1>5, <1>6, <1>7, <1>8
     DEF Next, WorkerNext, MarkOutboxSent, RetryOutbox, FailOutbox, ClaimInbox,
         RenewInboxLease, ArchiveSettled, ForgetToken, Tick, vars, Exchanges
<1>10. QED BY <1>9 DEF x

LEMMA HeldInboxRowStays ==
    ASSUME StoreInvariant, ~ archived', [Next]_vars,
           NEW w \in Workers, Holds(w), token[w].box = "inbox",
           token'[w] = token[w]
    PROVE  inbox'[token[w].id] = inbox[token[w].id]
<1> DEFINE x == token[w].id
<1>1. /\ x \in Exchanges
      /\ HoldsRow(w, "inbox", x)
  BY ExchangesAreDistinct
     DEF StoreInvariant, TypeOK, Tokens, NoToken, HoldsRow
<1>2. HoldsInbox(inbox[x], OwnerOf[w], token[w].rev, now)
  BY <1>1, HeldRow DEF StoreInvariant
<1>3. /\ inbox \in [Exchanges -> InboxRows(Owners, Exchanges, Receipts)]
      /\ inbox[x] \in InboxRows(Owners, Exchanges, Receipts)
  BY <1>1 DEF StoreInvariant, TypeOK
<1> HIDE DEF x
<1>4. ASSUME NEW y \in Exchanges,
             ReceiveInbox(y) \/ \E v \in Workers : ClaimInbox(v, y)
      PROVE  inbox'[x] = inbox[x]
  <2>1. x # y
    BY <1>2, <1>3, <1>4
       DEF HoldsInbox, ReceiveInbox, ClaimInbox, CanClaimInbox, LeaseFree,
           StoreInvariant, TypeOK, InboxRows, Leases, NoLease
  <2>2. QED BY <1>1, <1>3, <1>4, <2>1 DEF ReceiveInbox, ClaimInbox
<1>5. ASSUME NEW v \in Workers, NEW y \in Exchanges,
             \/ RenewInboxLease(v, y)
             \/ \E reply \in Replies(y) \cup {None} : CompleteInbox(v, y, reply)
      PROVE  inbox'[x] = inbox[x]
  <2>1. x # y
    BY <1>1, <1>5, OthersDoNotHold DEF RenewInboxLease, CompleteInbox, x
  <2>2. QED BY <1>1, <1>3, <1>5, <2>1 DEF RenewInboxLease, CompleteInbox
<1>6. CASE UNCHANGED inbox
  BY <1>6
<1>7. inbox'[x] = inbox[x]
  BY <1>4, <1>5, <1>6
     DEF Next, WorkerNext, EnqueueOutbox, ActivateOutbox, ClaimOutbox,
         RenewOutboxLease, MarkOutboxSent, RetryOutbox, FailOutbox,
         ReleaseOutbox, ArchiveSettled, ForgetToken, Tick, vars
<1>8. QED BY <1>7 DEF x

(* While nothing is archived, no call of another worker takes a row away    *)
(* from the worker that holds it.                                           *)
THEOREM HoldersKeepTheirLeases == Spec => HolderKeepsLease
<1>1. ASSUME StoreInvariant, [Next]_vars, ~ archived', NEW w \in Workers,
             Holds(w), UNCHANGED <<token[w], now>>
      PROVE  Holds(w)' \/ RowIsSettled(w)'
  <2>1. CASE token[w].box = "outbox"
    BY <1>1, <2>1, HeldOutboxRowStays DEF Holds, RowIsSettled
  <2>2. CASE token[w].box = "inbox"
    BY <1>1, <2>2, HeldInboxRowStays DEF Holds
  <2>3. QED BY <1>1, <2>1, <2>2 DEF Holds
<1>2. StoreInvariant /\ [Next]_vars =>
          [~ archived' =>
               \A w \in Workers :
                   Holds(w) /\ UNCHANGED <<token[w], now>>
                       => Holds(w)' \/ RowIsSettled(w)']_vars
  BY <1>1
<1>3. QED BY <1>2, StoreInvariantHolds, PTL DEF Spec, HolderKeepsLease

=============================================================================
