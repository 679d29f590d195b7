CONSTANTS
  j1 = j1
  j2 = j2
  w1 = w1
  w2 = w2
  Jobs <- MCJobs2
  Workers <- MCOneWorker
  MaxPriority = 1
  Capacity <- MCOneSlot
  MaxRetries = 1
  MaxWorkers = 2
  ScaleUpAt = 0
SPECIFICATION FairSpec
PROPERTIES AcceptedSettles StopReturns
CHECK_DEADLOCK FALSE
