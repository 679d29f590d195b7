CONSTANTS
  Scenes = {"manager", "audit", "layers", "cache", "ring"}
  e1 = e1
  e2 = e2
  s1 = s1
  s2 = s2
  Events <- TwoEvents
  Bases <- TwoSummaries
  Window = 1
  MaxTime = 2
  Syncs = {"x", "y"}
  AuditedIssues = {"A-1"}
  MaxEvents = 2
  LastTime = 1
  Recordings = 4
  CacheKeys = {"k", "l"}
  CacheUsers = {"u", "v"}
  LevelSize <- SmallLevels
  ItemKeys = {"k", "l", "m"}
  ItemSizes = {1, 2}
  Readers = {"u", "v"}
  MaxItems = 2
  Megabyte = 2
  MaxMemory = 1
  EvictsOne = TRUE
  UsageBound = 5
  PhantomBound = 2
  RingNodes = {"a", "b", "c"}
  Weights = {1, 2}
  RingPlaces = {0, 1, 2, 3, 4}
  PlaceOf <- Hashes
SPECIFICATION SyncSideSpec
SYMMETRY Symmetric
INVARIANTS Typed DuplicatesExplained SuccessMeansDone BookkeepingAgrees
PROPERTIES DescriptionsKept NewerLosesOnlyByRace
CHECK_DEADLOCK FALSE
