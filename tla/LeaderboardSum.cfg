SPECIFICATION Spec
CONSTANTS
  Addresses = {a, b}
  Reqs = {r1}
  Kinds = {"view", "discord", "x", "job"}
  MaxRequests = 4
  MaxDeaths = 0
SYMMETRY Symmetry
INVARIANTS PointsAreTheSum
CHECK_DEADLOCK FALSE
