\* Three executors of one command whose lease ends before its deadline.
CONSTANTS
    None = None
    Execute = Execute
    Cancel = Cancel
    e1 = e1
    e2 = e2
    e3 = e3
    res1 = res1
    res2 = res2
    Executors = {e1, e2, e3}
    Results = {res1, res2}
    LeaseDuration = 1
    Deadline = 4
    MaxTime = 5
SYMMETRY BridgeSymmetry
SPECIFICATION Spec
INVARIANTS
    OneLiveAdmission
    AnswerIsDelivered
    ResultInLeaseIsKept
PROPERTIES
    CancelIsTerminal
    ImplementsExchangeAnswer
CHECK_DEADLOCK FALSE
