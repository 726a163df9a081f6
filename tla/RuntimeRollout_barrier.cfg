SPECIFICATION Spec
CONSTANTS
  Devices = {d1, d2}
  TransportNodes = {d1, d2}
  Roaming = {d1, d2}
  d1 = d1
  d2 = d2
  MaxGeneration = 2
  Window = 1
  PolicyIsolation = TRUE
  MaxStale = 0
  MaxInFlight = 2
  MaxFaults = 1
SYMMETRY Symmetry
CONSTRAINT ReportOrRoam
INVARIANTS
  TypeOK
  BarrierHolds
  CompleteTruthful
  GrantsAdmitted
PROPERTIES
  CommitKept
CHECK_DEADLOCK FALSE
