\* One executor of a command whose lease ends before its deadline.
CONSTANTS
    None = None
    Execute = Execute
    Cancel = Cancel
    e1 = e1
    e2 = e2
    e3 = e3
    res1 = res1
    res2 = res2
    Executors = {e1}
    Results = {res1, res2}
    LeaseDuration = 1
    Deadline = 4
    MaxTime = 5
SPECIFICATION Spec
INVARIANT
    AcceptedResultIsPersisted
CHECK_DEADLOCK FALSE
