CONSTANTS
  Orig = Orig
  Slots = {s1, s2}
  Hooks = {h1, h2}
  Mutators = {m1, m2}
  Callers = {c1}
  MaxId = 3
  MaxList = 3
  MaxDepth = 1
  MayFail = TRUE
  Repeats = FALSE
  NoOne = NoOne
  Names = {n1, n2, n3}
  NumHashes = 4
  MaxBuckets = 2
  MaskBits = 2
  BloomSize = 2
  BloomShift = 1
  Orders <- MCOrders
  PltLists <- MCPltLists
  RelSets = {{}, {1}}
  Users = {u1, u2}
  l1 = l1
  l2 = l2
  l3 = l3
  Libs = {l1, l2, l3}
  Base <- MCBase
  MaxLoads = 2
  Nobody = Nobody
  Workers = {w1, w2}
  TagValues = {x, y}
  All = All
  MaxOps = 5
  BlockSize = 1
SPECIFICATION MCSpec
SYMMETRY MCSymmetry
CHECK_DEADLOCK FALSE
INVARIANTS
  GotMatchesIndex
  NoImpossibleAbort
  HooksRun
  LookupExact
  HooksAllLibs
  HookedCallsOnce
PROPERTIES
  TagsComeBack
