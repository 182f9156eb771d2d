SPECIFICATION Spec
CONSTANTS
  None = None
  Nodes = {n1, n2, n3}
  Roles = {first, moved}
  Redundancies = {maximum}
  Values <- Placements
  BackoffLimit = 2
  MaxFaults = 6
  MaxUpgrades = 3
INVARIANT LayoutTypeOK
INVARIANT SuccessIsComplete
PROPERTY NoNeedlessVersion
PROPERTY Converges
CHECK_DEADLOCK FALSE
