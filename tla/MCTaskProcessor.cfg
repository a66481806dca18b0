\* Every handler in any order.
CONSTANTS
    r1 = r1
    r2 = r2
    r3 = r3
    c1 = c1
    c2 = c2
    Runs = {r1, r2, r3}
    Agents = {a1}
    Changesets = {c1, c2}
    d1 = d1
    d2 = d2
    Deliveries = {d1, d2}
    Invocations = {i1}
    None = None
    ZeroHash = ZeroHash
SYMMETRY RunsSymmetry
SPECIFICATION Spec
INVARIANTS
    TypeOK
    OneActiveRun
    ActiveRunIsTracked
    InterruptedTaskIsResumable
    OnlyGatedChangesetDelivered
    CouncilOverrideHonoured
    ActiveStageOnCursor
    WaitingTaskHasContext
PROPERTIES
    ImplementsLifecycle
    KeepsWait
CHECK_DEADLOCK FALSE
