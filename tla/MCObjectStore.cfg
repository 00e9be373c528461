SPECIFICATION FairSpec
CONSTANTS
  Requests = {r1, r2, r3}
  NoObject = NoObject
  Strong = TRUE
  Environments <- Cases
  MaxCrashes = 1
INVARIANTS NoPhantom FailuresKeepMatch GetConsistent
PROPERTIES ImplementsRegister RequestsEnd
CHECK_DEADLOCK FALSE
