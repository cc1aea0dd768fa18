SPECIFICATION Spec
CONSTANTS
    MaxTurns = 2
    Capacity = 2
    MaxChunks = 1
    MaxCalls = 1
    MaxResumed = 1
INVARIANTS
    TypeInvariant
    ModelCallsWithinBudget
    TurnsLeaveBudget
    TerminalOrder
    CompletedRunsAreDone
    OutcomeMatchesError
    AtMostOneEventLost
    StepsBracketed
    RejectedTurnsInvisible
PROPERTY
    HookFailureFences
