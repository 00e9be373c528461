SPECIFICATION FairSpec
CONSTANTS
  Nodes = {n1, n2}
  Keys = {k1}
  Requests = {r1, r2}
  Faults = {}
  MaxRestarts = 0
  MaxLog = 6
INVARIANTS NoOrphan
PROPERTIES EventuallyGranted GuardDropReleases
CHECK_DEADLOCK FALSE
