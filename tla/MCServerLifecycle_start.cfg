CONSTANTS
  h1 = h1
  h2 = h2
  h3 = h3
  Hooks <- ThreeHooks
  LimiterKeys <- TwoLimiters
  LimiterKey <- HookLimiter
  Burst = 1
  MaxRefills = 1
  PoolMin = 1
  PoolMax = 2
  PoolScaleAt = 0
  Constructor = "New"
  WithOAuth = FALSE
SPECIFICATION ServerSpec
INVARIANTS StartsUp
CHECK_DEADLOCK FALSE
