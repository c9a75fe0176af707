CONSTANTS
    Handlers = {h1}
    MaxSequence = 2
    MaxInstance = 2
    MaxFrames = 2
    MaxLate = 0
SPECIFICATION FairSpec
PROPERTY EventuallyConsumed
