CONSTANTS
  MaxCalls = 1
  MaxTasks = 4
  ReturnAs = "list"
  SupportsRetrieveCallback = TRUE
  PreDispatchAll = FALSE
  CallbackThreads = 1
  MayFail = FALSE
  MayOverlap = FALSE
  UseContext = FALSE
  DispatchImplemented = TRUE
SPECIFICATION Spec
INVARIANT PreDispatched
CHECK_DEADLOCK FALSE
