SPECIFICATION FairSpec
CONSTANTS
  Accounts = {a}
  None = None
  Choices = {a}
  Tabs = {t}
  Runs = {r1, r2}
  Forms = {"siloWithdraw"}
  Caching = TRUE
  Approved = {a}
  Amounts = {100}
  Deposited = 100
  Price = 3
  MaxTxs = 3
INVARIANT NothingStranded
PROPERTIES HashesShownOnce HashIsShown
