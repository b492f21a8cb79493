CONSTANTS
  MaxCalls = 2
  MaxTasks = 2
  ReturnAs = "generator"
  SupportsRetrieveCallback = TRUE
  PreDispatchAll = FALSE
  CallbackThreads = 1
  MayFail = FALSE
  MayOverlap = FALSE
  UseContext = FALSE
  DispatchImplemented = TRUE
SPECIFICATION Spec
INVARIANT IterableExhausted
CHECK_DEADLOCK FALSE
