SPECIFICATION Spec
CONSTANTS
  None = None
  NotRead = NotRead
  ann = ann
  bob = bob
  acme = acme
  beta = beta
  tokyo = tokyo
  Tabs = {t1, t2}
  Wallets = {ann, bob}
  Orgs = {acme, beta}
  FirstSetUp = {acme}
  FirstOwner <- MCFirstOwner
  Sites <- MCSites
  MaxMoves = 3
  MaxMishaps = 1
SYMMETRY MCSymmetry
CHECK_DEADLOCK FALSE
INVARIANTS
  ProvedOnly
  OfferedIsTheirs
