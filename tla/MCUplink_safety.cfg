CONSTANTS
    Keys = {k1}
    NoKey = none
    MaxSequence = 3
    MaxInstance = 2
    MaxFrames = 2
    MaxLate = 1
    AdminCli = TRUE
SPECIFICATION FairSpec
INVARIANTS
    TypeOK
    ConfirmedIsDelivered
    CursorCoversEffects
    CommandAppliedOnce
    NeverGaps
    OneOpenOperation
PROPERTIES
    ImplementsOrderedStream
    ConfirmedAcrossLaunches
CHECK_DEADLOCK FALSE
