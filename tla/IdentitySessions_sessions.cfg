SPECIFICATION Spec
CONSTANTS
  Users = {u1, u2}
  DemoUsers = {u1}
  u1 = u1
  u2 = u2
  Assignable = {"TENANT_ADMIN"}
  Clients = {c1, c2}
  c1 = c1
  c2 = c2
  MaxSessions = 2
  MaxTokens = 3
  MaxLinks = 1
  MaxInvitations = 2
  MaxPassword = 1
SYMMETRY Symmetry
CONSTRAINT Bounds
INVARIANTS
  TypeOK
  OneOwner
  CondemnedAreDead
  OneLiveToken
CHECK_DEADLOCK FALSE
