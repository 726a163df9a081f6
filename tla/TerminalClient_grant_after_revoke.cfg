SPECIFICATION Spec
CONSTANTS
  Keys = {k1, k2}
  Requests = {r1, r2}
  Calls = {a1, a2}
  k1 = k1
  k2 = k2
  r1 = r1
  r2 = r2
  a1 = a1
  a2 = a2
  Nodes = {1, 2}
  MaxNodes = 1
  LeaseSecs = 1
  GrantTtl = 2
  ProjectionTtl = 2
  RefreshMargin = 1
  MaxAttempts = 2
  MaxTime = 1
  MaxPolicies = 2
  MaxSettings = 1
  MaxGrants = 2
  MaxProjections = 0
  MaxReceipts = 0
  MaxEvents = 1
  MaxDocuments = 4
SYMMETRY Symmetry
CONSTRAINT Bounds
INVARIANT NoUsableGrantBehind
CHECK_DEADLOCK FALSE
