SPECIFICATION Spec
CHECK_DEADLOCK FALSE
CONSTANTS
  p1 = p1
  p2 = p2
  n1 = n1
  n2 = n2
  c1 = c1
  c2 = c2
  o1 = o1
  o2 = o2
  k1 = k1
  k2 = k2
  People = {p1, p2}
  Phones = {n1, n2}
  Null = Null
  Customers = {c1, c2}
  Orders = {o1, o2}
  Codes = {k1, k2}
  OTP_TTL_SECONDS = 0
  MaxTime = 1
  MaxOpen = 2
SYMMETRY Symmetry
INVARIANTS
  SeenByOne
  SeesOnEvidence
PROPERTIES
  HistoryStays
