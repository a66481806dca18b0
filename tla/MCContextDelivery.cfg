\* Two workers with one worker_id, a delivery of two attempts, one fault, one
\* retry by hand.
CONSTANTS
    None = None
    NoOwner = NoOwner
    w1 = w1
    w2 = w2
    d1 = d1
    id = id
    Workers = {w1, w2}
    Owners = {id}
    WorkerId <- OneId
    Deliveries = {d1}
    Size <- TwoExperiences
    MaxAttempts = 2
    BaseDelay = 1
    MaxDelay = 1
    LeaseDuration = 1
    MaxResets = 1
    MaxFaults = 1
SPECIFICATION Spec
INVARIANTS
    InputKeptUntilStored
    AckMeansDone
    OneCopyEach
PROPERTIES
    LiveClaimIsItsHolders
    ImplementsIntake
    EveryDeliverySettles
\* The system stops when every delivery is settled and no run is started.
CHECK_DEADLOCK FALSE
