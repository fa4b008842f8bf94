\* Two launches by two threads; four blocks, one more than a launch takes.
CONSTANTS
  Threads = {t1, t2}
  Ranges <- MCRanges
  Blocks = {b1, b2, b3, b4}
  Null = null
  Counting = TRUE
  MaxCalls = 2
  Nobody = nobody
  Half = 3
  Wide = 1024
SYMMETRY Symmetry
SPECIFICATION Spec
INVARIANTS BuffersAreLive OwnParameters EveryGroupOnce RomComputesGroups CountersMeasureCall SuccessReturnsMemory
PROPERTIES ImplementsLaunch
CHECK_DEADLOCK FALSE
