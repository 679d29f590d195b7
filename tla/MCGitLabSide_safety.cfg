CONSTANTS
  Scenes = {"webhook", "client", "alerts", "monitor", "recovery"}
  s1 = s1
  p1 = p1
  A = A
  B = B
  Deliveries <- Both
  HookOf <- Hooks
  EventsOf <- SomeEvents
  Keys <- TwoKeys
  MaxRetries = 1
  MaxAttempts = 2
  Longest = 2
  ApiCallers = {a1}
  ApiRequests <- SomeRequests
  Token = "good"
  MaxAsked = 2
  RuleIDs = {"load", "leak"}
  MetricNames = {"cpu", "heap"}
  MetricValues = {1, 2}
  Rules <- SomeRules
  ChanSize = 1
  HistoryMax = 1
  MaxAlerts = 2
  Endpoints = {"hook", "health"}
  Elsewhere = {"jira"}
  MaxProbes = 3
  MaxReports = 1
  ErrorTypes = {"network", "service"}
  Recoverers = {"g1", "g2"}
  RecoveryTries = 2
  MaxRecoveries = 2
SPECIFICATION GitLabSideSpec
INVARIANTS Typed SuccessMeansCommented CommentsBounded FilterSound AnswersExplained MonitoringAgrees
CHECK_DEADLOCK FALSE
