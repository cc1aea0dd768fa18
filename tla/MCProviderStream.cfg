SPECIFICATION Spec
CONSTANTS
  Calls <- MCCalls
  RawCap = 1
  OutCap = 1
INVARIANTS
  TypeInvariant
  BodyReleasedFirst
  AggregateIsPrefix
  NoSilentLoss
  StreamDiffersOnlyAsKnown
PROPERTIES
  StreamEnds
CHECK_DEADLOCK FALSE
