CONSTANTS
  Scenes = {"webhook", "client", "mirror"}
  d1 = d1
  d2 = d2
  d3 = d3
  k1 = k1
  k2 = k2
  b1 = b1
  b2 = b2
  b3 = b3
  i1 = i1
  Deliveries <- Three
  Keys <- TwoKeys
  Bodies <- ThreeBodies
  KeyOf <- SomeShared
  BodyOf <- OwnBodies
  KindOf <- Lifecycle
  IssueOf <- OneIssue
  MaxRetries = 1
  JiraCallers = {c1, c2}
  Operations = {"transition", "validated", "assign", "unassign", "probe"}
  Capacity = 1
  UsesOAuth = TRUE
  MaxTries = 2
  MaxGrants = 2
  Browser = browser
  Mirrors = {m1, m2}
  ClosedStatuses = {"Done"}
  Workflow <- MirrorWorkflow
  FixVersions = {"v1"}
  Released = {"v1"}
  FallbackClosed <- KnownClosed
  FallbackOpen <- KnownOpen
  TwoWay = TRUE
  MaxEdits = 2
  MaxEchoes = 2
  MirrorTries = 2
SPECIFICATION JiraSideSpec
INVARIANTS Typed AppliedOnce LeaksExplained FirstRunFinds JiraClientSafe IssueMirrored
CHECK_DEADLOCK FALSE
