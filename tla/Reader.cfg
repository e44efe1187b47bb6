SPECIFICATION Spec
CONSTANTS
  None = None
  b1 = b1
  b2 = b2
  ann = ann
  bob = bob
  Order <- MCOrder
  Superseded = {old}
  Wallets <- MCWallets
  Labels = {k}
  MaxMoves = 2
  MaxMishaps = 1
SYMMETRY MCSymmetry
INVARIANTS
  DenialIsDefinite
  ListedOwnersHeld
  RecordedIsListed
CHECK_DEADLOCK FALSE
