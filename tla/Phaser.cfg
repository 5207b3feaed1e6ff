CONSTANTS
  Readers = {r1, r2, n1}
  Nested = {n1}
SPECIFICATION Spec
INVARIANTS
  CountersExact
  NoLostWakeup
PROPERTIES
  DrainCoversCall
  ImplementsProgress
  DrainTerminates
  EnterUnlessDrained
