SPECIFICATION FairSpec
CONSTANTS
  Devices = {d1, d2}
  TransportNodes = {d1, d2}
  Roaming = {}
  d1 = d1
  d2 = d2
  MaxGeneration = 2
  Window = 1
  PolicyIsolation = FALSE
  MaxStale = 0
  MaxInFlight = 1
  MaxFaults = 1
PROPERTIES
  RolloutEnds
CHECK_DEADLOCK FALSE
