SPECIFICATION Spec

CONSTANTS
    c1 = c1
    c2 = c2
    i1 = i1
    Loop = Loop
    None = None
    CancelCalls <- MCCancelCalls
    InterruptCalls <- MCInterruptCalls
    Calls <- MCCalls
    MaxSequence = 5

INVARIANTS
    TypeOK
    AnswersAreTrue
    EndsAgree

PROPERTY
    CallsReturn

CHECK_DEADLOCK FALSE
