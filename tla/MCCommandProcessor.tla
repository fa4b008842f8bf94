-------------------------- MODULE MCCommandProcessor --------------------------
(***************************************************************************)
(* Model checking of CommandProcessor: one window, a memory at address 4   *)
(* and an I/O device at 12.                                                *)
(***************************************************************************)
EXTENDS CommandProcessor

CONSTANTS ram, io

MCPhysBase == [p \in {ram, io} |-> IF p = ram THEN 4 ELSE 12]
MCPhysSize == [p \in {ram, io} |-> IF p = ram THEN 4 ELSE 2]
MCBases == [w \in Windows |-> {16, 20}]
=============================================================================
