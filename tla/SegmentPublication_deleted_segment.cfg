SPECIFICATION Spec
CONSTANTS
  Lanes = {l1}
  l1 = l1
  NoLane = NoLane
  EndpointSets = {}
  NoEndpoints = NoEndpoints
  FreshHash = FreshHash
  PathGaps = {}
  MaxRevision = 3
  MaxFaults = 0
  PolicyIsolation = FALSE
  Polled = TRUE
  Overrun = FALSE
SYMMETRY Symmetry
INVARIANTS
  DeletedWithdrawn
CHECK_DEADLOCK FALSE
