\* Two workers under one lease owner, archiving at any time.
CONSTANTS
    None = None
    ask = ask
    reply1 = reply1
    w1 = w1
    w2 = w2
    o1 = o1
    Commands = {ask}
    Receipts = {reply1}
    CauseOf <- MCCauseOf
    Workers = {w1, w2}
    OwnerOf <- MCOwnerOf
    LeaseDuration = 1
    MaxTime = 2
    MaxRevision = 4
SYMMETRY WorkerSymmetry
SPECIFICATION Spec
INVARIANTS
    OneLiveHolder
    ReceiptSettlesRequest
    CompletedOnce
PROPERTIES
    HolderKeepsLease
    SettledStays
CHECK_DEADLOCK FALSE
