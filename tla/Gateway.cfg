SPECIFICATION GatewaySpec
CONSTANTS
  Ips = {a}
  n1 = n1
  n2 = n2
  t1 = t1
  g1 = g1
  g2 = g2
  Names <- MCNames
  Tiers <- MCTiers
  Idents <- MCIdents
  Groups <- MCGroups
  Workers = {w1, w2}
  Reaper = reaper
  None = None
  Leavers = {}
  Stamps = {1, 2}
  OneSignInPerIp = TRUE
  MaxSessions = 2
  MaxRestarts = 1
  MaxFailures = 0
  MaxTimeouts = 1
  MaxTroubles = 3
  Anon = anon
  Denied = denied
  NoGroup = nogroup
  SeedGroups <- MCTwoGroups
  SeedUsers <- MCUsers
  SeedPublished <- MCPublished
  MaxAdmin = 1
  Reachable <- BothWays
  MaxMishaps = 1
INVARIANTS
  EnforcerReferences
  ActiveIsCurrent
  CurrentIsActive
  BilledAsAdmitted
SYMMETRY MCSymmetry
CHECK_DEADLOCK FALSE
