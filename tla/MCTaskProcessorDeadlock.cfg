CONSTANTS
    r1 = r1
    r2 = r2
    r3 = r3
    c1 = c1
    c2 = c2
    Runs = {r1, r2}
    Agents = {a1}
    Changesets = {c1, c2}
    d1 = d1
    d2 = d2
    Deliveries = {d1}
    Invocations = {i1}
    None = None
    ZeroHash = ZeroHash
SPECIFICATION Spec
INVARIANT
    DeadlockedWaitIsResumable
CHECK_DEADLOCK FALSE
