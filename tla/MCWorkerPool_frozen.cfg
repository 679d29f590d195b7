CONSTANTS
  w1 = w1
  w2 = w2
  w3 = w3
  Workers <- Three
  MinWorkers = 2
  MaxWorkers = 3
  ScaleUpAt = 1
  MaxBacklog = 3
SPECIFICATION FairSpec
PROPERTIES WorkersComeBack
CHECK_DEADLOCK FALSE
