SPECIFICATION Spec
CONSTANTS
  Threads = {thread}
  Throwables = {x1}
  MaxDepth = 5
  MaxNest = 2
  Slots = {a, b, c}
  Objects = {x}
  MaxRefs = 3
  MaxFrames = 1
  Pins = {p, q}
  Buffers = {b1, b2}
  Locks = {m, n}
  Hybrids = {h}
  Parts = {c1, c2}
  e1 = e1
  e2 = e2
  Elements <- MCElements
  Points = {0, 65, 127, 128, 2047, 2048, 55295, 57344, 65535, 65536, 524288, 1114111}
  Bytes = {0, 65, 128, 240, 247}
  Units = {65, 233, 2048, 55296, 56319, 56320, 57343, 57344}
  MaxPoints = 3
  MaxBytes = 5
  MaxUnits = 3
SYMMETRY Perms
INVARIANTS TlsSound OwnedOnce HeldOnce ConversionsExact
PROPERTIES DetachSafe ExceptionsArrive ThrowChangesNothing
CHECK_DEADLOCK FALSE
