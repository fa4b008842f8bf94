\* Every sequence of commands on one window; MODE 3 is a per-hart window of
\* one word, 9 a shared one of two, 0 is inactive and 5 reserved; SCALE 2 and 5
\* both stand for a factor of two. The memory ends at 8: only one word is left
\* at 7.
CONSTANTS
  ram = ram
  io = io
  Windows = {w1}
  Phys = {ram, io}
  IODevices = {io}
  PhysBase <- MCPhysBase
  PhysSize <- MCPhysSize
  Harts = {0, 1}
  OtherUnits = {cmp}
  Bases <- MCBases
  Targets = {2, 6, 12}
  Scales = {}
  Sizes = {}
  Unmapped = unmapped
  Cmp = cmp
  Addresses = {2, 6, 7, 13, 16}
  ModeValues = {0, 3, 5, 9}
  ScaleValues = {2, 5}
  Loaded = {0}
  MaxCount = 2
SPECIFICATION CSpec
INVARIANTS MappedAsDescribed CopyIsComplete
