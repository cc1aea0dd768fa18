CONSTANTS
    Configs <- MCConfigs
    Kinds <- CallKinds
SPECIFICATION Spec
INVARIANTS
    TypeInvariant
    WireIsWellFormed
    
    ResultCountsUsageOnce
    WireCountsUsageOnce
CHECK_DEADLOCK FALSE
