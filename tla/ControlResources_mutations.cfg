SPECIFICATION Spec
CONSTANTS
  g = g
  h = h
  s = s
  n = n
  a = a
  p = p
  y = y
  Ids <- MCIds
  Kind <- MCKind
  Documents <- MCDocuments
  Existing <- MCExisting
  Keys = {k1, k2}
  k1 = k1
  k2 = k2
  Transactions = {t1, t2}
  t1 = t1
  t2 = t2
  MaxReplacements = 1
  NoId = NoId
SYMMETRY Symmetry
INVARIANTS
  TypeOK
  NoDangling
  AddressPlanSound
  RevisionsAccounted
PROPERTIES
  SegmentsTold
CHECK_DEADLOCK FALSE
