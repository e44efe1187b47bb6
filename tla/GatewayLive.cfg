SPECIFICATION FairGateway
CONSTANTS
  Ips = {a}
  n1 = n1
  n2 = n2
  t1 = t1
  g1 = g1
  g2 = g2
  Names <- MCOneName
  Tiers <- MCTiers
  Idents <- MCIdents
  Groups <- MCGroup
  Workers = {w1}
  Reaper = reaper
  None = None
  Leavers = {a}
  Stamps = {1}
  OneSignInPerIp = TRUE
  MaxSessions = 2
  MaxRestarts = 0
  MaxFailures = 1
  MaxTimeouts = 1
  MaxTroubles = 3
  Anon = anon
  Denied = denied
  NoGroup = nogroup
  SeedGroups <- MCOneGroup
  SeedUsers <- MCMember
  SeedPublished <- MCPublished
  MaxAdmin = 1
  Reachable <- Online
  MaxMishaps = 1
CHECK_DEADLOCK FALSE
PROPERTIES
  RevokedIsPutOut
  GoneIsRevoked
  RequestsEnd
