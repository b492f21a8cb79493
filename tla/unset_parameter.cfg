CONSTANTS
  Threads = {t1, t2}
  Jobs = {2}
  ScopeBackends = {Unset, None, "custom"}
  BatchBackends = {"ThreadingBackend"}
  MaxOpen = 2
  Unset = Unset
  None = None
SPECIFICATION Spec
INVARIANT ExplicitWins
CHECK_DEADLOCK FALSE
