SPECIFICATION FairSpec
CONSTANTS
  Node = {n1, n2}
  Leader = n1
  w = w
  r1 = r1
  r2 = r2
  Holder = {w, r1, r2}
  Readers = {r1, r2}
  MaxLog = 3
  MaxCrashes = 1
  MaxSnapshots = 2
  Builders = {n1}
  Scenarios <- Cases
INVARIANTS ReplicasConverge StopsOnlyOnSecondCreate NothingUnreachable
PROPERTY CatchesUp
CHECK_DEADLOCK FALSE
