CONSTANTS
    Handlers = {h1, h2}
    MaxSequence = 2
    MaxInstance = 2
    MaxFrames = 2
    MaxLate = 1
SPECIFICATION FairSpec
INVARIANTS
    TypeOK
    UnconsumedRetained
    NeverRefused
    ResponseContinues
    EffectsInOrder
PROPERTIES
    ImplementsOrderedStream
    ConsumedAcrossLaunches
