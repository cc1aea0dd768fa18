SPECIFICATION MCSpec
CONSTANTS
  Requests = {"init", "call", "other"}
  Handshake = "init"
  MaxAnswers = 2
  MaxRetries = 1
  MaxConnects = 1
  Characters = {"A", "B", "a", "b", "x", "y", "z", "_", ".", "/", " "}
  LowerCase <- MCLowerCase
  Cursors = {"", "p", "q", "gone"}
  Catalogs <- MCCatalogs
  Routings <- MCRoutings
  Envs <- MCEnvs
INVARIANTS
  TypeInvariant
  PendingIsInFlight
  ToolSetFaithful
PROPERTIES
  CloseReleasesAll
CHECK_DEADLOCK FALSE
