SPECIFICATION Spec
CONSTANTS
  None = None
  Tabs = {t1, t2}
  Groups = {staff, guest}
  Resources = {rpc}
  Caps = {device, ens}
  Amounts = {50}
  MaxMoves = 3
SYMMETRY MCSymmetry
CHECK_DEADLOCK FALSE
INVARIANTS
  NoAccessWasRead
  DiscardedStaysOut
PROPERTIES
  UntouchedKept
