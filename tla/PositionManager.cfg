CONSTANTS
  Accounts = {alice, bob}
  Manager = Manager
  NoOne = NoOne
  MaxUint = 9
  Tokens = {weth}
  One = 10
  Factor = 9
  CollateralCap = 400
  StrategyCap = 1000
  Seed = 1
  Collaterals = {0, 100}
  Borrows = {0, 200}
  Repayments = {}
  Losses = {200}
  Prices = {10}
  MaxIndex = 10
  Yields = {50}
  Statuses = {}
  MaxId = 2
  MaxCalls = 2
  MaxMoves = 1
SPECIFICATION ManagerSpec
INVARIANT
  TokensArePositions
PROPERTIES
  BurnedIsOutOfReach
  KeepsRegistry
SYMMETRY Interchangeable
