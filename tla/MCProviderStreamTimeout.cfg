SPECIFICATION Spec
CONSTANTS
  Calls <- ShortCalls
  RawCap = 1
  OutCap = 1
PROPERTIES
  TimeoutMeansSilence
CHECK_DEADLOCK FALSE
