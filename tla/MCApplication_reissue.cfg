SPECIFICATION Spec
CONSTANTS
    Apps = {a1}
    MaxEpoch = 2
    MaxInstance = 2
    MaxPublish = 2
    MaxUser = 1
    MaxQueue = 4
CHECK_DEADLOCK FALSE
INVARIANTS EveryAppliedIsSettled
