CONSTANTS
  Threads = {t1, t2}
  MaxRecords = 0
  MaxAllocs = 4
  MaxCalls = 4
  LastSecond = 1
  NoThread = none
  Arches = {"i386", "x86_64", "aarch64", "arm"}
  Page = 16
  Isas = {"thumb", "arm", "ia32", "x64near", "x64far"}
  MaxSpecial = 2
  PrefixRuns <- MCPrefixRuns
  RexRuns <- MCRexRuns
  RegFields = {1, 2}
  Block = 4
  Word = 32
  BufferSize = 3
  MaxFed = 9
  MaxDigests = 2
  Keys = {0, 1, 2}
  CrashThreads = {c1, d}
  Dump = d
  MaxInits = 2
  MaxNest = 3
  SysArches = {"i386", "x86_64", "arm", "thumb2", "aarch64", "mips32", "mips64", "ppc"}
  NSig = 4
  WordBits = 2
  Half = 4
  MaxWraps = 3
SPECIFICATION MCSpec
SYMMETRY MCSymmetry
CHECK_DEADLOCK FALSE
INVARIANTS
  Accounted
  ForcedCallSound
  
  DigestExact
  CrashEnds
  HookedCallTransparent
  SyscallsSound
  
  LengthDecoded
