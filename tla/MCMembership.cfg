SPECIFICATION FairSpec
CONSTANTS
  Node = {1, 2, 3}
  Scenarios <- Cases
  MemberLists = {{1, 2}}
  JoinMaxRetries = 0
  MaxTerm = 3
  MaxIndex = 8
  MaxLeaves = 1
  MaxCrashes = 1
  MaxStarts = 1
INVARIANTS LeftMeansRemoved ReadyMeansMember
PROPERTIES JoinEnds LeaveSucceeds
CHECK_DEADLOCK FALSE
