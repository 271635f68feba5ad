SPECIFICATION Spec
CONSTANTS
  MaxNodes = 3
  Ids = {1, 2}
  LimitPrices = {0, 1}
  Quantities = {1, 2}
  ReuseIds = FALSE
  Orders <- MCOrders
INVARIANTS VerifyInvariants
