CONSTANTS
  Arrays = {a1}
  Workers = {w1, w2}
  MaxPickled = 4
  DumpMayFail = TRUE
  NoArray = NoArray
SPECIFICATION Spec
INVARIANT LoadsSucceed
CHECK_DEADLOCK FALSE
