SPECIFICATION Spec
CONSTANTS
  a = a
  b = b
  Ips <- MCIps
  Names = {n}
  w1 = w1
  w2 = w2
  Wallets <- MCWallets
  Requests = {r1, r2}
  None = None
  TTL = 1
  MAX_OUTSTANDING = 2
  MaxNonces = 3
  MaxNow = 1
  MaxRestarts = 1
  MaxTransfers = 1
INVARIANTS
  TypeOK
  AdmissionProved
  ReplyIsTrue
PROPERTIES
  SingleUse
  OldestGoFirst
SYMMETRY MCSymmetry
CHECK_DEADLOCK FALSE
