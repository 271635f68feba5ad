SPECIFICATION FairSpec
CONSTANTS
  PoolCapacity = 2
  WordBits = 2
  MaxLevels = 3
  Ids = {1, 2, 3}
  Prices = {1, 2}
  Quantities = {1, 2}
  ReuseIds = FALSE
  Orders <- SizedOrders
INVARIANTS
  Linked BookConsistent NotCrossed MapSound MapComplete NoLeak
  EventReconciles NoMissedTrade VerifyInvariants TopOfBookShown
PROPERTIES PriceTimePriority ImplementsPriceTimeBook CarriesCallsThrough
