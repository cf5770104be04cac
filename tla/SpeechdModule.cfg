SPECIFICATION FairSpec
CONSTANTS
    MaxSpeaks = 2
    MaxStops = 2
    MaxOthers = 1
    MaxClauses = 2
    MaxChunks = 2
INVARIANTS
    StopIsHeededBetweenChunks
PROPERTIES
    ImplementsEvents
    EveryMessageIsAnswered
CHECK_DEADLOCK FALSE
