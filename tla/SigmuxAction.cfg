CONSTANTS
  Handlers = {h1, h2}
  Mutators = {m1}
  Functions = {f}
  AppValues = {f, "ign"}
  OneShot = {f}
  Initialised = FALSE
  DefaultFatal = TRUE
  AlwaysFatal = FALSE
  NoOne = NoOne
SPECIFICATION Spec
CHECK_DEADLOCK FALSE
INVARIANTS
  FallsBackOnInstalled
PROPERTY
  LockReleased
