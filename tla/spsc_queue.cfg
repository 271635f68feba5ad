SPECIFICATION FairSpec
CONSTANTS
  Capacity = 2
  MaxPushes = 5
INVARIANTS TypeOK NoDataRace ItemsInPlace SizeWithinCapacity
PROPERTIES ImplementsFifo AllDelivered
