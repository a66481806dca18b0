\* One of three processes may die anywhere, and any lock may look stale.
CONSTANTS
    None = None
    p1 = p1
    p2 = p2
    p3 = p3
    Callers = {p1, p2, p3}
    MaxCrashes = 1
    Aging = TRUE
SPECIFICATION LockSpec
INVARIANTS
    NothingLeftBehind
PROPERTY
    AcquireEnds
\* The system stops when every caller has come to its end.
CHECK_DEADLOCK FALSE
