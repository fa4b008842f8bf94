------------------------------- MODULE MemFill --------------------------------
(***************************************************************************)
(* mem_fill: the HAL repeats a pattern in a chunk of host memory and       *)
(* writes the chunk to the device until what is left is shorter than the   *)
(* pattern.  The device refuses a write that does not fit.                 *)
(*                                                                         *)
(* A cell of memory is one byte, and holds the index of the byte of the    *)
(* pattern that has been written to it.                                    *)
(***************************************************************************)
EXTENDS Integers, Sequences

CONSTANTS
  FillSizes,     \* sizes of the memory to fill
  PatternSizes,  \* sizes of the pattern; an empty one is never written to the end
  MaxChunk,      \* max_chunk_size (4096 in the code)
  Rooms          \* sizes of the memory from the destination on

ASSUME FillAssumption ==
  /\ FillSizes \subseteq Nat /\ Rooms \subseteq Nat
  /\ PatternSizes \subseteq Nat \ {0}
  /\ MaxChunk \in Nat \ {0}

VARIABLES
  fill,      \* the call: sizes of the memory and of the pattern, and the room
  size,      \* what is left to write
  chunk,     \* size of the chunk, a number of patterns
  cells,     \* the memory from the destination on
  reported,  \* the last value of HOST_MEM_WRITE
  filled     \* what mem_fill returned

fillVars == <<fill, size, chunk, cells, reported, filled>>

FillInit ==
  /\ fill \in [size : FillSizes, pattern : PatternSizes, room : Rooms]
  /\ size = fill.size
  /\ chunk = 0 /\ cells = <<>> /\ reported = -1
  /\ filled = "none"

ChunkTooShort == chunk < size /\ chunk < MaxChunk

\* chunk.insert
GrowChunk ==
  /\ filled = "none" /\ cells = <<>>
  /\ ChunkTooShort
  /\ chunk' = chunk + fill.pattern
  /\ UNCHANGED <<fill, size, cells, reported, filled>>

\* Faulty ToWrite: the whole chunk.
WholeChunk == chunk

ToWrite == IF size < chunk THEN size ELSE chunk

\* mem_write: MemoryDeviceBase::store writes all of it or nothing.
WriteChunk ==
  /\ filled = "none" /\ ~ChunkTooShort
  /\ size >= fill.pattern
  /\ IF Len(cells) + ToWrite <= fill.room
     THEN /\ cells' = cells \o [i \in 1 .. ToWrite |-> (i - 1) % fill.pattern]
          /\ size' = size - ToWrite
          /\ reported' = ToWrite
          /\ UNCHANGED filled
     ELSE /\ filled' = "false"
          /\ UNCHANGED <<cells, size, reported>>
  /\ UNCHANGED <<fill, chunk>>

\* The counter gets what is left, not what was asked for.
FillReturn ==
  /\ filled = "none" /\ ~ChunkTooShort
  /\ size < fill.pattern
  /\ filled' = "true"
  /\ reported' = size
  /\ UNCHANGED <<fill, size, chunk, cells>>

FillNext == GrowChunk \/ WriteChunk \/ FillReturn

FillSpec == FillInit /\ [][FillNext]_fillVars

-----------------------------------------------------------------------------
(* Properties                                                              *)

Whole(n) == n - (n % fill.pattern)

\* The memory holds the pattern over and over, from chunk to chunk, and
\* nothing is written past the end; a call that returns true has written
\* everything if the size is a multiple of the pattern's, and otherwise at
\* least every whole pattern (refsi_hal_device::mem_fill).
FillRepeats ==
  /\ Len(cells) <= fill.size
  /\ \A i \in 1 .. Len(cells) : cells[i] = (i - 1) % fill.pattern
  /\ filled = "true" => Len(cells) >= Whole(fill.size)

=============================================================================
