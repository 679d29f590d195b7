CONSTANTS
  j1 = j1
  j2 = j2
  w1 = w1
  w2 = w2
  Jobs <- MCOneJob
  Workers <- MCOneWorker
  MaxPriority = 1
  Capacity <- MCOneSlot
  MaxRetries = 2
  MaxWorkers = 1
  ScaleUpAt = 0
SPECIFICATION FairSpec
PROPERTIES RetriedUpToMaxRetries
CHECK_DEADLOCK FALSE
