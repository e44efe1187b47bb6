SPECIFICATION Spec
CONSTANTS
  None = None
  ann = ann
  bob = bob
  Wallets <- MCWallets
  Origins <- MCOrigins
  Labels = {k1, k2}
  Branches = {k2}
  Roles = {crew}
  WifiGroups = {}
  MaxMinted = 2
  MaxMoves = 3
  MaxMishaps = 2
  MaxChecks = 1
SYMMETRY MCSymmetry
INVARIANTS
  NothingOnTrust
  SureMemberSpared
  LiveIsMirrored
  ReportedIsOff
CHECK_DEADLOCK FALSE
