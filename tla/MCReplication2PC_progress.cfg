SPECIFICATION FairSpec
CONSTANTS
  Nodes = {n1, n2}
  Coordinators = {n1}
  NumOps = 3
  replication_factor = 2
  FaultSets = {{"timeout", "late", "crash"}}
  MaxRetries = 0
  MaxCrashes = 1
PROPERTIES OperationsEnd OrphansCleaned
CHECK_DEADLOCK FALSE
