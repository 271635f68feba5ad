SPECIFICATION Spec
CONSTANTS
  MaxNodes = 3
  Ids = {1, 2}
  LimitPrices = {1, 2}
  Quantities = {1, 2}
  ReuseIds = TRUE
  Orders <- MCOrders
INVARIANTS NotCrossed ListsConsistent NoneLeftBehind MapNeverDangles
