SPECIFICATION Spec
CONSTANTS
  Accounts = {alice, bob}
  NoOne = NoOne
  MaxId = 3
  MaxUint = 9
INVARIANTS
  EnumerationMatchesOwnership
PROPERTIES
  ApprovalsDieWithOwnership
  ImplementsLedger
