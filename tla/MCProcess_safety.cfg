CONSTANTS
  Scenes = {"pool", "delayed", "client", "server", "config", "monitor"}
  w1 = w1
  w2 = w2
  w3 = w3
  Workers <- Three
  MinWorkers = 2
  MaxWorkers = 3
  ScaleUpAt = 1
  MaxBacklog = 4
  DelayedEvents = {e1, e2}
  Waiters = {g1}
  Callers = {c1, c2}
  Hosts = {"jira"}
  Statuses <- SomeStatuses
  FailureThreshold = 2
  MaxAttempts = 2
  h1 = h1
  h2 = h2
  h3 = h3
  Hooks <- ThreeHooks
  LimiterKeys <- TwoLimiters
  LimiterKey <- HookLimiter
  Burst = 1
  MaxRefills = 1
  PoolMin = 1
  PoolMax = 2
  PoolScaleAt = 0
  Constructor = "NewWithRegistry"
  WithOAuth = FALSE
  Files <- SomeFiles
  Handlers = 2
  MaxEdits = 3
  Measured = {r1, r2}
  Askers = {a1}
  MaxConcurrent = 1
  MaxAsks = 2
  HistoryMaxSize = 2
SPECIFICATION ProcessSpec
INVARIANTS Typed StoppedQuiet OneMoreJob InOnePlace ClientSound ServerSafe InFlightExplained
PROPERTIES UnscaledLives DelayedArrives BreakerRecovers ShutdownEnds  HandlersCatchUp RequestsUnhindered
CHECK_DEADLOCK FALSE
