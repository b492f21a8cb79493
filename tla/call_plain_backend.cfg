CONSTANTS
  MaxCalls = 2
  MaxTasks = 3
  ReturnAs = "list"
  SupportsRetrieveCallback = FALSE
  PreDispatchAll = FALSE
  CallbackThreads = 1
  MayFail = TRUE
  MayOverlap = FALSE
  UseContext = FALSE
  DispatchImplemented = TRUE
SPECIFICATION FairSpec
INVARIANT WaitsForSomebody
PROPERTIES ImplementsOrderedResults CallReturns
CHECK_DEADLOCK FALSE
