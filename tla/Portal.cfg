SPECIFICATION Spec
CONSTANTS
  Ips = {a, b}
  n1 = n1
  n2 = n2
  t1 = t1
  t2 = t2
  Names <- MCNames
  Tiers <- MCTiers
  Idents <- MCIdents
  Groups = {g}
  Workers = {w1, w2}
  Reaper = reaper
  None = None
  Leavers = {a}
  Stamps = {0}
  OneSignInPerIp = TRUE
  MaxSessions = 3
  MaxRestarts = 1
  MaxFailures = 1
  MaxTimeouts = 1
  MaxTroubles = 1
INVARIANTS
  TypeOK
  StrangersIsolated
  AcceptsAccounted
  SessionPerDevice
PROPERTIES
  NameFixedWhileAdmitted
SYMMETRY MCSymmetry
CHECK_DEADLOCK FALSE
