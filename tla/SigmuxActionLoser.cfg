CONSTANTS
  Handlers = {h1, h2}
  Mutators = {}
  Functions = {f}
  AppValues = {f, "dfl", "ign"}
  OneShot = {f}
  Initialised = TRUE
  DefaultFatal = TRUE
  AlwaysFatal = FALSE
  NoOne = NoOne
SPECIFICATION SafeSpec
CHECK_DEADLOCK FALSE
INVARIANT
  LoserIgnores
