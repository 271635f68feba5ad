SPECIFICATION PipelineFairSpec
CONSTANTS
  PoolCapacity = 2
  WordBits = 2
  MaxLevels = 3
  QueueCapacity = 2
  MaxSubmissions = 4
  ReuseIds = FALSE
  ClientOrders <- MCClientOrders
  Orders <- MCOrders
INVARIANTS
  InSequence FirstNumberedFirst ValidatedIsMatched LastReportHolds
  FeedReconciles
PROPERTIES EveryOrderAnswered
