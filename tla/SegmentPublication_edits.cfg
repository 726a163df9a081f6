SPECIFICATION Spec
CONSTANTS
  Lanes = {l1, l2}
  l1 = l1
  l2 = l2
  NoLane = NoLane
  EndpointSets = {}
  NoEndpoints = NoEndpoints
  FreshHash = FreshHash
  PathGaps = {"INCOMPLETE"}
  MaxRevision = 4
  MaxFaults = 1
  PolicyIsolation = FALSE
  Polled = FALSE
  Overrun = FALSE
SYMMETRY Symmetry
CONSTRAINT OneFailure
INVARIANTS
  PublicationOrder
  DesiredIsLive
  PrepareFence
PROPERTIES
  ImplementsLog
CHECK_DEADLOCK FALSE
