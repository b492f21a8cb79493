CONSTANTS
  MaxCalls = 1
  MaxTasks = 5
  ReturnAs = "generator"
  SupportsRetrieveCallback = TRUE
  PreDispatchAll = FALSE
  CallbackThreads = 2
  MayFail = TRUE
  MayOverlap = FALSE
  UseContext = FALSE
  DispatchImplemented = TRUE
SPECIFICATION FairSpec
INVARIANTS TypeOK CompletedBounded WaitsForSomebody
PROPERTIES ImplementsOrderedResults CallReturns
CHECK_DEADLOCK FALSE
