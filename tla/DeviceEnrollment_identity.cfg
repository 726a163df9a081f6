SPECIFICATION Spec
CONSTANTS
  MaxCodes = 3
  MaxCertificates = 3
  Instances = {i1, i2}
  RequestIds = {r1, r2}
  Calls = {a1, a2}
  i1 = i1
  i2 = i2
  r1 = r1
  r2 = r2
  a1 = a1
  a2 = a2
SYMMETRY Symmetry
CONSTRAINT Bounds
INVARIANTS
  TypeOK
  OneIdentityPerCode
  OneActiveCertificate
  ReplacedIsDead
PROPERTIES
  NewestCodeTakesOver
CHECK_DEADLOCK FALSE
