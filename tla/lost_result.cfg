CONSTANTS
  MaxCalls = 1
  MaxTasks = 3
  ReturnAs = "generator"
  SupportsRetrieveCallback = TRUE
  PreDispatchAll = FALSE
  CallbackThreads = 1
  MayFail = FALSE
  MayOverlap = FALSE
  UseContext = FALSE
  DispatchImplemented = TRUE
SPECIFICATION Spec
INVARIANT EverythingRetrieved
CHECK_DEADLOCK FALSE
