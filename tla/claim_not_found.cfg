SPECIFICATION Spec
CONSTANTS
  PoolCapacity = 2
  WordBits = 2
  MaxLevels = 3
  Ids = {1, 2}
  Prices = {1, 2}
  Quantities = {1, 2}
  ReuseIds = TRUE
  Orders <- MCOrders
INVARIANTS NotFoundIsGone
