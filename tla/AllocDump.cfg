CONSTANTS
  Threads = {t1, t2}
  MaxRecords = 0
  MaxAllocs = 4
  MaxCalls = 3
  LastSecond = 0
  NoThread = none
SPECIFICATION ArtSpec
CHECK_DEADLOCK FALSE
INVARIANT
  DumpedOnce
