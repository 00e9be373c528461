SPECIFICATION FairSpec
CONSTANTS
  p1 = p1
  p2 = p2
  p3 = p3
  Peer = {p1, p2, p3}
  Scenarios <- Cases
  FailureThreshold = 2
  MaxChanges = 2
  MaxCalls = 2
INVARIANT QuorumCurrent
PROPERTIES PeersRecover ClientsFollowMembership
CHECK_DEADLOCK FALSE
