CONSTANTS
  Handlers = {h1}
  Mutators = {m1}
  Functions = {f}
  AppValues = {f, "dfl", "ign"}
  OneShot = {}
  Initialised = FALSE
  DefaultFatal = TRUE
  AlwaysFatal = FALSE
  NoOne = NoOne
SPECIFICATION SafeSpec
CHECK_DEADLOCK FALSE
INVARIANT
  InitKeepsHandler
