SPECIFICATION Spec
CONSTANTS
  Ips = {a, b}
  n1 = n1
  n2 = n2
  t1 = t1
  t2 = t2
  Names <- MCNames
  Tiers <- MCTiers
  Idents <- MCIdents
  Groups = {g}
  Workers = {w1, w2}
  Reaper = reaper
  None = None
  Leavers = {}
  Stamps = {0}
  OneSignInPerIp = FALSE
  MaxSessions = 3
  MaxRestarts = 0
  MaxFailures = 0
  MaxTimeouts = 0
  MaxTroubles = 3
INVARIANTS
  StrangersIsolated
SYMMETRY MCSymmetry
CHECK_DEADLOCK FALSE
