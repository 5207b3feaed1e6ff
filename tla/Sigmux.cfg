CONSTANTS
  Handlers = {h1, h2}
  Mutators = {m1}
  Regs = {a1, a2}
  Signals = {"segv"}
  FlagSets = {{"normal", "low", "default"}}
  Head = Head
  NoOne = NoOne
SPECIFICATION Spec
INVARIANTS
  NoUseAfterFree
  ListConsistent
  CallOrder
PROPERTIES
  ImplementsTable
  CallsEnd
