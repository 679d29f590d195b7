CONSTANTS
  j1 = j1
  j2 = j2
  w1 = w1
  w2 = w2
  Jobs <- MCJobs2
  Workers <- MCWorkers
  MaxPriority = 2
  Capacity <- MCUnbufferedTop
  MaxRetries = 1
  MaxWorkers = 3
  ScaleUpAt = 1
SPECIFICATION Spec
SYMMETRY MCSymmetry
INVARIANTS TypeOK SingleOwner RunBudget AccountsKept
PROPERTIES HighestFirst ImplementsLifecycle
CHECK_DEADLOCK FALSE
