SPECIFICATION FairSpec
CONSTANTS
  Producers = {p1, p2}
  Consumers = {c1}
  Closers = {k1}
  Capacity = 1
  MaxPushes = 3
PROPERTIES EveryItemDelivered CloseReleasesEveryone EveryPushReturns PopForReturns
