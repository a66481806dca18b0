\* Two callers, two documents; one of the processes may die anywhere.
CONSTANTS
    None = None
    NoFile = NoFile
    p1 = p1
    p2 = p2
    base = base
    other = other
    Callers = {p1, p2}
    Docs = {base, other}
    BaseDoc = base
    MaxCrashes = 1
    Aging = FALSE
SPECIFICATION RoutingSpec
INVARIANTS
    MutualExclusion
    FileIsTheWriters
PROPERTIES
    NoLostUpdate
    UpdateEnds
\* The system stops when every caller has come to its end.
CHECK_DEADLOCK FALSE
