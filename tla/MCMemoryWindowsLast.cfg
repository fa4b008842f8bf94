\* One window on an I/O device: is its last byte reached?
CONSTANTS
  w1 = w1
  w2 = w2
  ram = ram
  io = io
  Windows = {w1}
  Phys = {ram, io}
  IODevices = {io}
  PhysBase <- MCPhysBase
  PhysSize <- MCPhysSize
  Harts = {0, 1}
  OtherUnits = {cmp}
  Bases <- OwnBases
  Targets = {12}
  Scales = {2}
  Sizes = {1, 2}
  Unmapped = unmapped
SPECIFICATION Spec
INVARIANT ValidOffsetsAreReached
