SPECIFICATION Spec
CONSTANTS
  Server = {n1, n2, n3}
  NoServer = NoServer
  MaxTerm = 3
  MaxIndex = 2
  MaxCrashes = 1
INVARIANTS ElectionSafety CommittedOnQuorum LeaderCompleteness
SYMMETRY Symmetry
CHECK_DEADLOCK FALSE
