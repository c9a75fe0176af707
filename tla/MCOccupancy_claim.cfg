CONSTANTS
    Handlers = {h1, h2}
    MaxLeases = 2
    MaxTokens = 2
    MaxSessions = 1
    MaxQueue = 3
    MaxAnswers = 1
    Failures = FALSE
SPECIFICATION FairSpec
PROPERTY ReservationEnds
