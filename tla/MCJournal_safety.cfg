CONSTANTS
    Callers = {c1, c2}
    MaxAttempts = 2
    MaxSequence = 4
    MaxFaults = 3
SPECIFICATION Spec
CHECK_DEADLOCK FALSE
INVARIANTS
    TypeOK
    OneInFlight
    InferenceBudget
    CompletedIsLast
    ReconciledFirst
    KnownCostIsWhole
PROPERTIES
    OutcomesFinal
    RequestEnds
