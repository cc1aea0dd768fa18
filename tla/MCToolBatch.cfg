SPECIFICATION MCSpec
CONSTANTS
    N = 3
    MaxParallel = 2
    Kinds = {"plain", "gated", "client", "skip", "invalid", "broken"}
INVARIANTS
    TypeInvariant
    CancellationCapsStarts
    ResultsCommittedInModelOrder
    NothingRunsUnannounced
    ContinueHasEveryResult
    SuspensionHidesNoFailure
PROPERTY
    BatchEnds
