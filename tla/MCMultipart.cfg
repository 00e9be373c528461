SPECIFICATION FairSpec
CONSTANTS
  Part = {1, 2}
  MaxRequests = 4
  MaxActive = 2
  MaxCrashes = 1
  MaxInstalls = 1
  FaultSets = {{}, {"storage"}, {"metadata"}, {"disconnect"}, {"crash"}, {"install"}, {"part_key"}}
INVARIANTS RecordedPartsExist CompletedIntact GaugeExact
PROPERTY LeftoversCollected
CHECK_DEADLOCK FALSE
