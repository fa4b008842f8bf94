\* Kernels that may do anything but compute for ever, on two slices, with the
\* debugger and without.
CONSTANTS
  NumHarts = 3
  Widths = {2, 3}
  Counts = {0, 4}
  Addrs = {1, 2}
  ExitCodes = {0, 1}
  Faults = {5}
  Ecall = 11
  BadCalls = TRUE
  TrapBit = 16
  MaxBarriers = 2
  MaxSlices = 2
  StepCounts = {1}
  Cores = {1, 3}
  Values = {0}
SPECIFICATION DebugSpec
INVARIANTS SomeHartRuns AbortIsReported SliceExecutesAll TrapsComeFromFailures
PROPERTIES ImplementsBarrier SlicesEnd CommandsReturn
CHECK_DEADLOCK FALSE
