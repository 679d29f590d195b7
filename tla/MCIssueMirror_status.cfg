CONSTANTS
  Mirrors = {m1, m2}
  ClosedStatuses = {"Done"}
  Workflow <- MirrorWorkflow
  FixVersions = {"v1"}
  Released = {"v1"}
  FallbackClosed <- KnownClosed
  FallbackOpen <- KnownOpen
  TwoWay = FALSE
  MaxEdits = 2
  MaxEchoes = 2
  MirrorTries = 2
SPECIFICATION MirrorSpec
INVARIANTS StatusFollows
CHECK_DEADLOCK FALSE
