CONSTANTS
  Amounts = {20, 41, 101}
  Losses = {0, 500}
  Prices = {1, 2}
  Seed = 1
  slippage = 500
  reserveRatio = 1000
  HandlerChanges = {"deposit", "withdrawal"}
  MaxTrades = 3
  MaxRequests = 3
SPECIFICATION FairSpec
INVARIANTS
  OneRequestAtATime
  PendingMeansInFlight
  RateIsExact
  NothingArrivesAfterExit
PROPERTY
  PendingClears
CHECK_DEADLOCK FALSE
