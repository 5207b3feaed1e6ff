CONSTANTS
  Orig = Orig
  Slots = {s1}
  Hooks = {h1, h2}
  Mutators = {m1}
  Callers = {c1}
  MaxId = 2
  MaxList = 3
  MaxDepth = 1
  MayFail = TRUE
  Repeats = FALSE
  NoOne = NoOne
SPECIFICATION SafeSpec
CHECK_DEADLOCK FALSE
INVARIANT
  SuccessHijacks
