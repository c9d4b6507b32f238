CONSTANTS
  Impls = {i1, i2}
  First = i1
  NitroPools = {n1}
  NoOne = NoOne
  Amounts = {1, 3}
  Seed = 2
  MaxCalls = 3
  MaxUpgrades = 1
SPECIFICATION Spec
INVARIANT SharesIssuedAreTotal
CHECK_DEADLOCK FALSE
