SPECIFICATION FairSpec
CONSTANTS
    MaxTurns = 2
    Capacity = 1
    MaxChunks = 0
    MaxCalls = 1
    MaxResumed = 1
PROPERTY
    RunEnds
