\* Two callers find the lock of a dead process.
CONSTANTS
    None = None
    p1 = p1
    p2 = p2
    p3 = p3
    Callers = {p1, p2, p3}
    MaxCrashes = 1
    Aging = FALSE
SPECIFICATION LockSpec
PROPERTY
    StolenLockIsTheOneSeen
\* The system stops when every caller has come to its end.
CHECK_DEADLOCK FALSE
