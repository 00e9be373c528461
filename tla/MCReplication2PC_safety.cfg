SPECIFICATION Spec
CONSTANTS
  Nodes = {n1, n2, n3}
  Coordinators = {n1, n2, n3}
  NumOps = 2
  replication_factor = 3
  FaultSets = {{"unhealthy", "prepare_error", "local_error", "lost_answer"},
               {"unhealthy", "prepare_error", "local_error", "fsync_error", "lost_answer"},
               {"unhealthy", "prepare_error", "commit_error", "local_error", "fsync_error",
                "timeout", "lost_answer", "cancel", "late"},
               {"prepare_error", "timeout", "cancel", "late", "crash"}}
  MaxRetries = 1
  MaxCrashes = 1
SYMMETRY Symmetry
INVARIANTS AckedTakesEffect FailedInvisible NothingLeft
PROPERTIES ImplementsRegister
CHECK_DEADLOCK FALSE
