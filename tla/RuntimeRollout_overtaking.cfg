SPECIFICATION Spec
CONSTANTS
  Devices = {d1, d2}
  TransportNodes = {d1, d2}
  Roaming = {}
  d1 = d1
  d2 = d2
  MaxGeneration = 4
  Window = 1
  PolicyIsolation = TRUE
  MaxStale = 1
  MaxInFlight = 2
  MaxFaults = 0
SYMMETRY Symmetry
CONSTRAINT PolicyChain
INVARIANTS
  ActiveTruthful
  GrantsAdmitted
  ResyncAnnounced
PROPERTIES
  ActiveMonotone
CHECK_DEADLOCK FALSE
