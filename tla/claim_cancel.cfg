SPECIFICATION Spec
CONSTANTS
  PoolCapacity = 2
  WordBits = 2
  MaxLevels = 2
  Ids = {1, 2}
  Prices = {1, 2}
  Quantities = {1, 2}
  ReuseIds = FALSE
  Orders <- MCOrders
INVARIANTS CancelHitsItsOrder
