SPECIFICATION FairSpec
CONSTANTS
  Lanes = {l1}
  l1 = l1
  NoLane = NoLane
  EndpointSets = {e1}
  e1 = e1
  NoEndpoints = NoEndpoints
  FreshHash = FreshHash
  PathGaps = {"INCOMPLETE", "BOUND"}
  MaxRevision = 3
  MaxFaults = 1
  PolicyIsolation = FALSE
  Polled = FALSE
  Overrun = FALSE
PROPERTIES
  TransportChangeEnds
CHECK_DEADLOCK FALSE
