--------------------------- MODULE MCMemoryWindows ---------------------------
(***************************************************************************)
(* Model checking of MemoryWindows on a device with a memory at address 4, *)
(* an I/O device at 12 and free space from 16 up.                          *)
(***************************************************************************)
EXTENDS MemoryWindows

CONSTANTS w1, w2, ram, io

MCPhysBase == [p \in {ram, io} |-> IF p = ram THEN 4 ELSE 12]
MCPhysSize == [p \in {ram, io} |-> IF p = ram THEN 6 ELSE 2]

\* Each window keeps to a part of the free address space.
OwnBases == [w \in Windows |-> IF w = w1 THEN {16, 20} ELSE {18}]

\* Both windows use both bases, one of which is that of the memory.
SharedBases == [w \in Windows |-> {0, 4, 16}]

\* The first choice of bases is one the theorems about the map cover.
ASSUME OwnRangesHold == Bases = OwnBases => OwnRanges
=============================================================================
