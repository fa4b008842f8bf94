\* A slice without barriers after one that a fault has aborted.
CONSTANTS
  NumHarts = 3
  Widths = {2, 3}
  Counts = {0, 3, 4}
  Addrs = {1, 2}
  ExitCodes = {0, 1}
  Faults = {5}
  Ecall = 11
  BadCalls = FALSE
  TrapBit = 16
  MaxBarriers = 0
  MaxSlices = 2
SPECIFICATION Spec
INVARIANT EverySliceExecutesAll
CHECK_DEADLOCK FALSE
