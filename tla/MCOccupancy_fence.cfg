CONSTANTS
    Handlers = {h1, h2}
    MaxLeases = 2
    MaxTokens = 3
    MaxSessions = 1
    MaxQueue = 2
    MaxAnswers = 1
    Failures = FALSE
SPECIFICATION Spec
INVARIANT OccupiedIsMirrored
