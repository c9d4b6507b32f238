SPECIFICATION Spec
CONSTANTS
  Addresses = {a, b, c}
  Reqs = {r1, r2}
  Kinds = {"view", "discord", "x", "job"}
  MaxRequests = 4
  MaxDeaths = 1
SYMMETRY Symmetry
INVARIANTS TypeOK TotalsBacked ReferredByEarlier ReferralBudget
CHECK_DEADLOCK FALSE
