CONSTANTS
  Owners = {alice}
  NoOne = NoOne
  Tokens = {weth}
  One = 10
  Factor = 9
  CollateralCap = 400
  StrategyCap = 1000
  Seed = 1
  Collaterals = {0, 100}
  Borrows = {0, 200}
  Repayments = {50}
  Losses = {200}
  Prices = {10, 5}
  MaxIndex = 11
  Yields = {50, 150}
  Statuses = {1, 2, 3}
  MaxPositions = 2
  MaxCalls = 4
  MaxMoves = 2
SPECIFICATION Spec
INVARIANTS
  TypeOK
  SharesBacked
  DebtMatches
  CollateralBacked
  HealthyCanClose
PROPERTIES
  NoDilution
  HealthyStaysHealthy
  FeesNeverSpent
  ChangesAreGated
  ClosingRepaysAll
  LiquidatorPremium
SYMMETRY Interchangeable
