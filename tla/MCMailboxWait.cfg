\* Two waits, two calls, one restart or interruption; answers are due within two units.
CONSTANTS
    None = None
    MaxRequests = 2
    MaxCalls = 2
    LeaseDuration = 1
    AnswerTime = 2
    MaxTime = 3
    MaxReplies = 2
    MaxInterrupts = 1
SPECIFICATION Spec
INVARIANTS
    ContinuedOnce
PROPERTIES
    TimeoutIsDue
    ImplementsExchanges
    SavedReplyWakesTask
CHECK_DEADLOCK FALSE
