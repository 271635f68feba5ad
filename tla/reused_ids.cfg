SPECIFICATION FairSpec
CONSTANTS
  PoolCapacity = 3
  WordBits = 2
  MaxLevels = 2
  Ids = {1, 2}
  Prices = {1}
  Quantities = {1, 2}
  ReuseIds = TRUE
  Orders <- Contenders
INVARIANTS Linked BookConsistent NoLeak NotCrossed RestingReported
PROPERTIES   EveryCallReturns
