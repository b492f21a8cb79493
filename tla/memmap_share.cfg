CONSTANTS
  Arrays = {a1, a2}
  Workers = {w1, w2}
  MaxPickled = 4
  DumpMayFail = FALSE
  NoArray = NoArray
SPECIFICATION FairSpec
INVARIANTS TypeOK LoadsSucceed TrackerSilent NoFileLeft
PROPERTY FilesUnlinked
CHECK_DEADLOCK FALSE
