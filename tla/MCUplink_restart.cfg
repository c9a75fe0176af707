\* A relaunch whose Hello is answered late or not at all.
CONSTANTS
    Keys = {k1}
    NoKey = none
    MaxSequence = 3
    MaxInstance = 2
    MaxFrames = 2
    MaxLate = 0
    AdminCli = FALSE
SPECIFICATION FairSpec
PROPERTY EventuallyConfirmed
CHECK_DEADLOCK FALSE
