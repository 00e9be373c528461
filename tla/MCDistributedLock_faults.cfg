SPECIFICATION Spec
CONSTANTS
  Nodes = {n1, n2}
  Keys = {k1}
  Requests = {r1, r2, r3}
  Faults = {"timeout", "write_error", "release_error"}
  MaxRestarts = 1
  MaxLog = 4
SYMMETRY Symmetry
INVARIANTS ExclusiveWhenUnique GuardInTable
PROPERTIES ReleasedOnlyByOwner ImplementsRWLock
CHECK_DEADLOCK FALSE
