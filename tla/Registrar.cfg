SPECIFICATION Spec
CONSTANTS
  staff = staff
  guest = guest
  l1 = l1
  l2 = l2
  k1 = k1
  k2 = k2
  r1 = r1
  None = None
  Accounts <- MCAccounts
  Labels <- MCLabels
  Keys <- MCKeys
  Roles <- MCRoles
  Root <- MCRoot
  Delegates = {}
  Definitions <- MCDefinitions
  OrgSetters = {staff}
  CarefulSync = TRUE
  MaxVersions = 2
  MaxChanges = 3
  MaxOutside = 1
INVARIANTS
  PointersAgree
  GrantsAgree
  OwnRecordsEnd
  RegistryAgrees
  AuthorityIsLive
PROPERTIES
  KeepsPromise
SYMMETRY MCSymmetry
CHECK_DEADLOCK FALSE
