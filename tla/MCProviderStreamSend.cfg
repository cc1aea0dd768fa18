SPECIFICATION Spec
CONSTANTS
  Calls <- ThoughtsCalls
  RawCap = 1
  OutCap = 1
INVARIANTS
  StreamMatchesSend
CHECK_DEADLOCK FALSE
