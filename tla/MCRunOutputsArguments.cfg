CONSTANTS
    Configs <- MCConfigs
    Kinds <- CallKinds
SPECIFICATION Spec
INVARIANTS
    ArgumentsReachTheClient
CHECK_DEADLOCK FALSE
