SPECIFICATION Spec
CONSTANTS
  a = a
  b = b
  c = c
  g = g
  n = n
  Ips <- MCIps
  Groups = {g}
  Names = {n}
  Sessions <- MCSessions
  Rows <- MCRows
  SeedLimits <- MCSeed
  Amounts <- MCAmounts
  Threads = {p, q, r}
  None = None
  Days = 2
  MaxRequests = 4
  MaxAdmin = 1
INVARIANTS
  OverrunBounded
  CountsAgree
SYMMETRY MCSymmetry
CHECK_DEADLOCK FALSE
