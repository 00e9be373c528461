SPECIFICATION FairSpec
CONSTANTS
  Node = {1, 2}
  r1 = r1
  r2 = r2
  Request = {r1, r2}
  Kinds <- AllKinds
  Scenarios <- Cases
  MaxRetries = 1
  MaxTerm = 3
  MaxHops = 3
INVARIANTS RefusedChangesNothing CommittedOnce DrainedMeansDone
PROPERTIES RequestsAnswered
CHECK_DEADLOCK FALSE
