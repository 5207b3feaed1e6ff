CONSTANTS
  Threads = {t1, t2}
  LongjmpOutcomes = {"kept", "null"}
  NoOne = NoOne
SPECIFICATION SafeSpec
CHECK_DEADLOCK FALSE
INVARIANT
  ReadsLiveFrames
