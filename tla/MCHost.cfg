CONSTANTS
  Threads = {t1, t2}
  Devices = {probe, d1, d2}
  Probe = probe
  Blocks = {b1, b2, b3}
  Null = null
  Nobody = nobody
  Numbers <- TwoNumbers
  Words <- TwoWords
  Widths = {0, 4}
  ArgCounts = {0, 3}
  MaxCommands = 2
  FillSizes = {0, 1, 2, 3, 4, 5, 6, 7, 8, 9, 10, 11, 12}
  PatternSizes = {1, 2, 3, 4, 5}
  MaxChunk = 4
  Rooms = {0, 3, 8, 12}
  ElfFiles <- Files
  Slots = {s1, s2}
  Names = {"k", "g"}
  ElfBase = 100
  ElfSize = 12
  ZeroChunk = 2
  MaxLoads = 2
  PlatformNames <- TwoPlatforms
  DeviceNames <- SomeDevices
  WantedNames = {"", "refsi"}
  Answers = {0, 1, 3}
  h0 = h0
  h1 = h1
  Harts = {h0, h1}
  Cmp = cmp
  Memory <- DMAMemory
  Jobs <- DMAJobs
  IdLimit = 3
  MaxStart = 2
  NoJob = nojob
SPECIFICATION HostSpec
INVARIANTS
  MemoryIsOwned NoSelfDeadlock
  BufferDecodes FillRepeats LoadIsExact SymbolsAreFound ExamplesVerify
  EventsAreFinished EventsAreFresh
PROPERTIES TransfersAreExact
SYMMETRY HostSymmetry
CHECK_DEADLOCK FALSE
