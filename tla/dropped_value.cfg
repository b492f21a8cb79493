CONSTANTS
  MaxCalls = 1
  MaxTasks = 3
  ReturnAs = "list"
  SupportsRetrieveCallback = FALSE
  PreDispatchAll = FALSE
  CallbackThreads = 1
  MayFail = FALSE
  MayOverlap = FALSE
  UseContext = FALSE
  DispatchImplemented = TRUE
SPECIFICATION Spec
INVARIANT EverythingDelivered
CHECK_DEADLOCK FALSE
