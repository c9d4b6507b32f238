CONSTANTS
  Impls = {i1, i2}
  First = i1
  NitroPools = {n1, n2}
  NoOne = NoOne
  Amounts = {1, 3}
  Seed = 2
  MaxCalls = 8
  MaxUpgrades = 2
SPECIFICATION Spec
INVARIANTS
  SpNFTInReach
  HoldersCanLeave
PROPERTY
  RateNeverFalls
CHECK_DEADLOCK FALSE
