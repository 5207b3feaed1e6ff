CONSTANTS
  Threads = {t1, t2}
  LongjmpOutcomes = {"kept"}
  NoOne = NoOne
SPECIFICATION Spec
CHECK_DEADLOCK FALSE
INVARIANTS
  ReadsLiveFrames
PROPERTIES
  JumpsIntoOpenCall
  OpFaultClaimed
  CallReturns
