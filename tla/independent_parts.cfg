CONSTANTS
  Readers = {r1, r2}
  Registrars = {w1, w2}
  Processes = {p1, p2}
  SemNames = {n1, n2, n3, n4, n5}
  MaxNaming = 2
  ConditionSize = 4
  Runs = {1, 2, 3}
  MaxLines = 2
  SeqCalls = {1, 2}
  SeqTasks = 3
  Threads = {t1, t2}
  Objects = {o1, o2, o3}
  Addresses = {a1, a2}
  Values = {v1, v2}
  NoValue = NoValue
  NoObject = NoObject
  NoAddress = NoAddress
  Jobs = {2}
  ScopeBackends = {Unset, None, "custom"}
  BatchBackends = {"ThreadingBackend"}
  MaxOpen = 2
  Unset = Unset
  None = None
SPECIFICATION Spec
INVARIANTS ReadersFindResult SemaphoresDistinct SemaphoresTracked LastRunsKept
           SequentialCounts DaskTypeOK FuturesOfLiveObjects
           ConfigTypeOK ConfigIsNested DefaultRegistered
PROPERTY IsMapOfObjects
CONSTRAINT NestedSoFar
CHECK_DEADLOCK FALSE
