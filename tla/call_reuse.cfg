CONSTANTS
  MaxCalls = 2
  MaxTasks = 2
  ReturnAs = "generator_unordered"
  SupportsRetrieveCallback = TRUE
  PreDispatchAll = FALSE
  CallbackThreads = 2
  MayFail = TRUE
  MayOverlap = TRUE
  UseContext = TRUE
  DispatchImplemented = TRUE
SPECIFICATION Spec
INVARIANT DeliveredOnce
PROPERTY StaleOutcomeDropped
CHECK_DEADLOCK FALSE
