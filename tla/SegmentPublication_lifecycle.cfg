SPECIFICATION Spec
CONSTANTS
  Lanes = {l1, l2}
  l1 = l1
  l2 = l2
  NoLane = NoLane
  EndpointSets = {}
  NoEndpoints = NoEndpoints
  FreshHash = FreshHash
  PathGaps = {"INCOMPLETE"}
  MaxRevision = 3
  MaxFaults = 1
  PolicyIsolation = TRUE
  Polled = TRUE
  Overrun = TRUE
SYMMETRY Symmetry
INVARIANTS
  TypeOK
  LogContiguous
  ReceiptTruthful
  OneLease
PROPERTIES
  HistoryKept
CHECK_DEADLOCK FALSE
