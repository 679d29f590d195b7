CONSTANTS
  s1 = s1
  p1 = p1
  A = A
  B = B
  Deliveries <- Both
  HookOf <- Hooks
  EventsOf <- SomeEvents
  Keys <- TwoKeys
  MaxRetries = 1
  MaxAttempts = 2
  Longest = 2
SPECIFICATION Spec
INVARIANTS EventsSurvived
CHECK_DEADLOCK FALSE
