CONSTANTS
  Measured = {r1}
  Askers = {a1, a2}
  MaxConcurrent = 1
  MaxAsks = 2
  HistoryMaxSize = 2
SPECIFICATION PerfFairSpec
PROPERTIES MetricsAnswered
CHECK_DEADLOCK FALSE
