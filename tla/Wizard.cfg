SPECIFICATION WizardSpec
CONSTANTS
  None = None
  smart = smart
  plain = plain
  Wallets <- MCWallets
  Batching <- MCBatching
  Labels = {acme}
  BranchLabels = {tokyo}
  Groups = {crew, guest}
  MaxMishaps = 2
  MaxReads = 1
  MaxPending = 2
INVARIANTS
  GrantAccounted
  DoneIsOpen
  DefinedIsPublished
CHECK_DEADLOCK FALSE
