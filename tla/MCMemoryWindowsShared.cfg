\* Two windows that claim the same addresses, one of them the memory's.
CONSTANTS
  w1 = w1
  w2 = w2
  ram = ram
  io = io
  Windows = {w1, w2}
  Phys = {ram, io}
  IODevices = {io}
  PhysBase <- MCPhysBase
  PhysSize <- MCPhysSize
  Harts = {0, 1}
  OtherUnits = {cmp}
  Bases <- SharedBases
  Targets = {4, 7, 12, 16}
  Scales = {2}
  Sizes = {1, 2}
  Unmapped = unmapped
SPECIFICATION Spec
INVARIANT PhysStays
