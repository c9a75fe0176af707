SPECIFICATION Spec
CONSTANTS
    Apps = {a1, a2}
    MaxEpoch = 2
    MaxInstance = 2
    MaxPublish = 2
    MaxUser = 1
    MaxQueue = 3
CHECK_DEADLOCK FALSE
SYMMETRY Symmetry
INVARIANTS TypeOK SettledIsTrue NotStartedIsTrue RecordsAgree AppliedIsSettled
PROPERTIES UnknownBlocks
