SPECIFICATION FairSpec
CONSTANTS
  PoolCapacity = 3
  WordBits = 2
  MaxLevels = 2
  Ids = {1, 2}
  Prices = {1, 2}
  Quantities = {1, 2}
  ReuseIds = FALSE
  Orders <- FewOrders
PROPERTIES CallReturns
