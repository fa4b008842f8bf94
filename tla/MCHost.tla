------------------------------- MODULE MCHost --------------------------------
(***************************************************************************)
(* The host side of the HAL on small instances: the entry points, the      *)
(* command buffers that it encodes, mem_fill, the ELF loader and the       *)
(* example programs; and the DMA device of the other side.  The parts      *)
(* share no state here; one of them runs in each behaviour.                *)
(***************************************************************************)
EXTENDS HalDevice, CommandBuffer, MemFill, ElfLoader, HostPrograms, KernelDMA, TLC

CONSTANTS h0, h1

VARIABLE part  \* which of them

\* Only the blocks: to compare the states of every part under more permutations
\* costs more than it saves.
HostSymmetry == Permutations(Blocks)

\* Numbers and words with the bits of a header in them.
TwoNumbers == { <<5, 0>>, <<16384, 8192>> }
TwoWords == { <<8192, 49152, 0, 0>>, <<1, 0, 65535, 9>> }

-----------------------------------------------------------------------------
(* Files                                                                   *)

\* A 64-bit program of two segments, with bss, and the symbols of two kernels.
Seg(ptLoad, address, offset, filesz, memsz) ==
  [load |-> ptLoad, address |-> address, offset |-> offset, filesz |-> filesz, memsz |-> memsz]
Sec(type, name, first, offset, entsize) ==
  [type |-> type, name |-> name, at |-> first, offset |-> offset, entsize |-> entsize]
Sym(global, name, first, length, value) ==
  [global |-> global, name |-> name, at |-> first, length |-> length, value |-> value]
Table(offset, stride, entries) == [offset |-> offset, stride |-> stride, entries |-> entries]

Sections(symtab, strtab, shstrtab) ==
  << Sec("other", ".text", 0, 0, 0), Sec("symtab", ".symtab", 1, symtab, 24),
     Sec("strtab", ".strtab", 9, strtab, 0), Sec("strtab", ".shstrt", 17, shstrtab, 0) >>

Basic ==
  [id |-> 1, size |-> 592, class |-> "rv64", noEntry |-> FALSE,
   segments |-> Table(64, 56, << Seg(TRUE, 102, 176, 4, 4), Seg(TRUE, 106, 180, 1, 6) >>),
   symbols |-> << Sym(FALSE, "k", 0, 1, 5), Sym(TRUE, "k", 2, 1, 102), Sym(TRUE, "g", 4, 1, 104),
                  Sym(TRUE, "g", 4, 1, 105) >>,
   sections |-> Table(336, 64, Sections(184, 280, 296)),
   shstrndx |-> 3, shstrtab |-> 296, strings |-> 280]

\* Segments that overlap, one of them larger in the file than in memory.
Overlap == [Basic EXCEPT !.id = 2,
  !.segments.entries = << Seg(TRUE, 100, 176, 2, 8), Seg(TRUE, 104, 178, 3, 2),
                          Seg(FALSE, 100, 0, 9, 9), Seg(TRUE, 101, 0, 9, 0) >>]

Files ==
  { Basic, Overlap,
    \* the data of the file do not fit behind the segment's address
    [Basic EXCEPT !.id = 3, !.segments.entries = << Seg(TRUE, 102, 176, 2, 4), Seg(TRUE, 109, 180, 4, 2) >>],
    \* a segment outside of the ELF memory, one outside of the file
    [Basic EXCEPT !.id = 4, !.segments.entries = << Seg(TRUE, 90, 176, 2, 12) >>],
    [Basic EXCEPT !.id = 5, !.segments.entries = << Seg(TRUE, 102, 590, 4, 4) >>],
    \* the names of symbols end where the file ends
    [Basic EXCEPT !.id = 6, !.sections.entries[3].offset = 584, !.strings = 584],
    [Basic EXCEPT !.id = 7, !.sections.entries[3].offset = 582, !.strings = 582],
    \* an index of the section of names that is one and two past the table
    [Basic EXCEPT !.id = 8, !.shstrndx = 4], [Basic EXCEPT !.id = 9, !.shstrndx = 5],
    \* not a 64-bit program, no symbols, entries that are too small
    [Basic EXCEPT !.id = 10, !.class = "rv32"], [Basic EXCEPT !.id = 11, !.class = "other"],
    [Basic EXCEPT !.id = 12, !.sections.entries[2].type = "other"],
    [Basic EXCEPT !.id = 13, !.sections.entries[2].entsize = 16],
    [Basic EXCEPT !.id = 14, !.noEntry = TRUE] }

\* These files are some that the theorems about loading and finding cover.
ASSUME FilesHoldNumbers == SegmentsAreNumbers
ASSUME FilesHoldNames == StringsAreInTheirTable

-----------------------------------------------------------------------------
(* Hosts                                                                   *)

TwoPlatforms == { << >>, << "cpu", "refsi" >> }
SomeDevices == { << >>, << "refsi" >>, << "cpu", "refsi" >>, << "refsi", "", "refsi" >> }

\* The examples are programs that the theorem about them covers.
ASSUME ExamplesAreDisciplined == ProgramsAreDisciplined /\ NamesAreFew

-----------------------------------------------------------------------------
(* Transfers out of the addresses 0 to 5 into 6 to 11, and back            *)

DMAMemory == 0 .. 11

Line(src, dst, n) ==
  [dim |-> 1, src |-> src, dst |-> dst, size |-> <<n, 0, 0>>,
   srcStride |-> <<0, 0>>, dstStride |-> <<0, 0>>]

Rect(src, dst, extent, srcStride, dstStride) ==
  [dim |-> 2, src |-> src, dst |-> dst, size |-> extent \o <<0>>,
   srcStride |-> <<srcStride, 0>>, dstStride |-> <<dstStride, 0>>]

Box(src, dst, extent, srcStride, dstStride) ==
  [dim |-> 3, src |-> src, dst |-> dst, size |-> extent,
   srcStride |-> srcStride, dstStride |-> dstStride]

\* One hart copies rectangles, the other boxes and lines; the command
\* processor repeats a row.  Some transfers are empty, have a destination
\* outside the memory, or rows that overlap.
DMAJobs ==
  [u \in Units |->
     CASE u = h0 -> {Rect(0, 7, <<2, 2>>, 3, 2), Line(0, 99, 1)}
       [] u = h1 -> {Box(0, 6, <<1, 2, 2>>, <<1, 3>>, <<2, 3>>), Line(6, 0, 3),
                     Box(0, 6, <<2, 2, 2>>, <<1, 2>>, <<2, 4>>)}
       [] u = Cmp -> {Rect(0, 6, <<2, 2>>, 0, 3), Rect(0, 6, <<2, 0>>, 2, 2)}]

\* The transfers are some that the theorem about them covers.
ASSUME JobsApart == JobsKeepApart

-----------------------------------------------------------------------------
\* mem_fill and the examples have their inputs in the initial state; those of
\* a part that does not run are the same.
HostInit ==
  /\ part \in {"hal", "buffer", "fill", "elf", "program", "dma"}
  /\ HalInit /\ BufferInit /\ ElfInit /\ FillInit /\ ProgramInit /\ Init
  /\ part # "fill" => fill = [size |-> 0, pattern |-> 1, room |-> 0]
  /\ part # "program" => program = "absf" /\ host.names.device = << >>
                         /\ host.names.platform = << >> /\ \A k \in Kinds : host.wanted[k] = ""

HostNext ==
  \/ part = "hal" /\ HalNext /\ UNCHANGED <<bufferVars, fillVars, elfVars, programVars, vars>>
  \/ part = "buffer" /\ BufferNext /\ UNCHANGED <<halVars, fillVars, elfVars, programVars, vars>>
  \/ part = "fill" /\ FillNext /\ UNCHANGED <<halVars, bufferVars, elfVars, programVars, vars>>
  \/ part = "elf" /\ ElfNext /\ UNCHANGED <<halVars, bufferVars, fillVars, programVars, vars>>
  \/ part = "program" /\ ProgramNext /\ UNCHANGED <<halVars, bufferVars, fillVars, elfVars, vars>>
  \/ part = "dma" /\ Next /\ UNCHANGED <<halVars, bufferVars, fillVars, elfVars, programVars>>

hostVars == <<part, halVars, bufferVars, fillVars, elfVars, programVars, vars>>

HostSpec == HostInit /\ [][HostNext /\ UNCHANGED part]_hostVars

=============================================================================
