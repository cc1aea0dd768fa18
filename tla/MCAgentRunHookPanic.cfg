SPECIFICATION Spec
CONSTANTS
    MaxTurns = 1
    Capacity = 2
    MaxChunks = 0
    MaxCalls = 1
    MaxResumed = 0
INVARIANT
    HookFailureIsNoPanic
