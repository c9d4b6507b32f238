SPECIFICATION Spec
CONSTANTS
  Accounts = {a, b}
  None = None
  Choices = {a, b, None}
  Tabs = {t}
  Runs = {r}
  Forms = {"earnDeposit", "earnWithdraw"}
  Caching = FALSE
  Approved = {b}
  Amounts = {50}
  Deposited = 41
  Price = 3
  MaxTxs = 2
INVARIANTS TypeOK RecipientIsSigner BurnsWhatWasAsked
PROPERTY SignsForRenderedAccount
