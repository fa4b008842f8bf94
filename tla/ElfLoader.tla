------------------------------ MODULE ElfLoader -------------------------------
(***************************************************************************)
(* The ELF loader: a program is read from a file in host memory, its       *)
(* kernels are found by name, and each execution of a kernel loads the     *)
(* program's segments into the ELF memory of the device again.             *)
(*                                                                         *)
(* A file is a record: its size, its class and where its tables are, with  *)
(* the real sizes of their entries.  The byte of a file at an offset is    *)
(* represented by the offset, so a cell of memory holds [file, offset],    *)
(* Zero or Old.  Every call has the lock of the HAL, so nothing else       *)
(* happens while a program is loaded.                                      *)
(***************************************************************************)
EXTENDS Integers, Sequences, FiniteSets

SequenceOps == INSTANCE SequencesExt

CONSTANTS
  ElfFiles,   \* the files that are loaded
  Slots,      \* the HAL's programs
  Names,      \* names that are looked up
  ElfBase,    \* elf_mem_base
  ElfSize,    \* elf_mem_size
  ZeroChunk,  \* bytes of bss written at a time (256 in the code)
  MaxLoads    \* bound: loads of a program into memory

ASSUME ElfAssumption ==
  /\ ElfBase \in Nat /\ ElfSize \in Nat /\ MaxLoads \in Nat
  /\ ZeroChunk \in Nat \ {0}

VARIABLES
  programs,  \* Slots -> program, or NoProgram
  memory,    \* ELF memory of the device
  load,      \* the load under way
  before,    \* history: the memory when it began
  handle,    \* history: what the last program_find_kernel returned
  loads      \* history: loads that have begun

elfVars == <<programs, memory, load, before, handle, loads>>

ElfWindow == ElfBase .. ElfBase + ElfSize - 1

NoProgram == [file |-> "none"]
NoLoad == [slot |-> "none"]
NoHandle == [slot |-> "none", name |-> "none", symbol |-> 0]
Old == "old"
Zero == "zero"

ElfInit ==
  /\ programs = [s \in Slots |-> NoProgram]
  /\ memory = [a \in ElfWindow |-> Old] /\ before = memory
  /\ load = NoLoad /\ handle = NoHandle /\ loads = 0

Loading == load.slot # "none"

-----------------------------------------------------------------------------
(* Reading a file                                                          *)

\* BufferDevice::load
Inside(file, offset, length) == offset + length <= file.size

HeaderSize(file)  == IF file.class = "rv64" THEN 64 ELSE 52
SegmentSize(file) == IF file.class = "rv64" THEN 56 ELSE 32
SectionSize(file) == IF file.class = "rv64" THEN 64 ELSE 40
SymbolSize(file)  == IF file.class = "rv64" THEN 24 ELSE 16

\* The 32-bit header is read first; it tells which class the file has.
ReadHeader(file) ==
  /\ Inside(file, 0, 52)
  /\ file.class \in {"rv32", "rv64"}
  /\ Inside(file, 0, HeaderSize(file))

\* The table is read with the entry size of the class, at the header's stride.
ReadTable(file, table, entry) ==
  \A i \in DOMAIN table.entries : Inside(file, table.offset + (i - 1) * table.stride, entry)

\* PT_LOAD with memory; their data must be in the file.
Loadable(file) == SelectSeq(file.segments.entries, LAMBDA s : s.load /\ s.memsz > 0)

ReadSegments(file) ==
  /\ ReadTable(file, file.segments, SegmentSize(file))
  /\ \A i \in DOMAIN Loadable(file) :
       LET s == Loadable(file)[i] IN s.filesz > 0 => Inside(file, s.offset, s.filesz)

\* read_c_string takes eight bytes at a time, so that a string is not read
\* when the file ends in the eight bytes that hold its terminator.
Readable(file, offset, length) == Inside(file, offset, 8 * (length \div 8 + 1))

\* sections[e_shstrndx]; the index may be one past the table, and what is
\* read there may be anything.
NameTables(file) ==
  LET n == file.shstrndx + 1
      sections == file.sections.entries
  IN  IF n <= Len(sections) THEN {sections[n].offset}
      ELSE {sections[i].offset : i \in DOMAIN sections} \cup {file.size}

\* The last section of a type and a name, 0 for none.
Section(file, names, type, name) ==
  LET sections == file.sections.entries
      Matches == {i \in DOMAIN sections :
                    /\ sections[i].type = type /\ sections[i].name = name
                    /\ names = file.shstrtab
                    /\ Readable(file, names + sections[i].at, 7)}
  IN  IF Matches = {} THEN 0 ELSE CHOOSE i \in Matches : \A j \in Matches : j <= i

\* Faulty AddSymbol: the first symbol of a name is kept.
AddFirstSymbol(file, strings, symbols, s) ==
  IF s.global /\ Readable(file, strings + s.at, s.length) /\ s.name \notin DOMAIN symbols
  THEN [n \in DOMAIN symbols \cup {s.name} |-> IF n = s.name THEN s.value ELSE symbols[n]]
  ELSE symbols

AddSymbol(file, strings, symbols, s) ==
  IF s.global /\ Readable(file, strings + s.at, s.length)
  THEN [n \in DOMAIN symbols \cup {s.name} |-> IF n = s.name THEN s.value ELSE symbols[n]]
  ELSE symbols

\* The symbols that read_symbols can return: none if it fails, one map unless
\* the table of names is read from beyond the sections.
ReadSymbols(file) ==
  LET sections == file.sections.entries
      From(symtab, strtab) ==
        SequenceOps!FoldLeft(LAMBDA map, s : AddSymbol(file, sections[strtab].offset, map, s),
                 << >>, file.symbols)
      Good(symtab, strtab) ==
        /\ symtab # 0 /\ strtab # 0
        /\ sections[symtab].entsize >= SymbolSize(file)
        /\ ReadTable(file, [offset |-> sections[symtab].offset, entries |-> file.symbols,
                            stride |-> sections[symtab].entsize], SymbolSize(file))
      Tables(names) == << Section(file, names, "symtab", ".symtab"),
                          Section(file, names, "strtab", ".strtab") >>
  IN  IF Len(sections) < file.shstrndx \/ ~ReadTable(file, file.sections, SectionSize(file))
      THEN {}
      ELSE {From(t[1], t[2]) : t \in {u \in {Tables(n) : n \in NameTables(file)} : Good(u[1], u[2])}}

\* program_load: the device takes 64-bit programs.
ProgramLoad(slot, file) ==
  /\ ~Loading /\ programs[slot] = NoProgram
  /\ ReadHeader(file) /\ ReadSegments(file)
  /\ file.class = "rv64"
  /\ \E symbols \in ReadSymbols(file) :
       programs' = [programs EXCEPT ![slot] =
         [file |-> file, segments |-> Loadable(file), symbols |-> symbols, kernels |-> << >>]]
  /\ UNCHANGED <<memory, load, before, handle, loads>>

\* program_free, with the program's kernels.
ProgramFree(slot) ==
  /\ ~Loading /\ programs[slot] # NoProgram
  /\ programs' = [programs EXCEPT ![slot] = NoProgram]
  /\ handle' = IF handle.slot = slot THEN NoHandle ELSE handle
  /\ UNCHANGED <<memory, load, before, loads>>

\* find_kernel: the kernel is created when it is found for the first time;
\* a symbol of value 0 is none.
FindKernel(slot, name) ==
  LET p == programs[slot]
      symbol == IF name \in DOMAIN p.kernels THEN p.kernels[name]
                ELSE IF name \in DOMAIN p.symbols THEN p.symbols[name] ELSE 0
  IN  /\ ~Loading /\ p # NoProgram
      /\ handle' = [slot |-> slot, name |-> name, symbol |-> symbol]
      /\ programs' = IF symbol = 0 THEN programs
                     ELSE [programs EXCEPT ![slot].kernels =
                            [n \in DOMAIN p.kernels \cup {name} |->
                               IF n = name THEN symbol ELSE p.kernels[n]]]
      /\ UNCHANGED <<memory, load, before, loads>>

-----------------------------------------------------------------------------
(* Loading a program, with each kernel_exec                                *)

\* kernel_exec refuses a program with a segment outside of the ELF memory.
InWindow(s) ==
  /\ s.address >= ElfBase /\ s.address < ElfBase + ElfSize
  /\ s.address + s.memsz <= ElfBase + ElfSize

LoadBegin(slot) ==
  /\ ~Loading /\ programs[slot] # NoProgram /\ loads < MaxLoads
  /\ ~programs[slot].file.noEntry
  /\ \A i \in DOMAIN programs[slot].segments : InWindow(programs[slot].segments[i])
  /\ load' = [slot |-> slot, segment |-> 1, data |-> TRUE, at |-> 0, left |-> 0]
  /\ before' = memory
  /\ loads' = loads + 1
  /\ UNCHANGED <<programs, memory, handle>>

Current == programs[load.slot].segments[load.segment]
More == Loading /\ load.segment <= Len(programs[load.slot].segments)

\* The device stores all of the bytes or none.
Store(first, bytes) ==
  memory' = [a \in ElfWindow |-> IF a - first \in DOMAIN bytes THEN bytes[a - first] ELSE memory[a]]

Fits(first, length) == first + length <= ElfBase + ElfSize

LoadFails == load' = NoLoad /\ UNCHANGED <<memory, before>>

DataOf(s) ==
  [i \in 0 .. s.filesz - 1 |-> [file |-> programs[load.slot].file.id, offset |-> s.offset + i]]

\* Faulty StoreData: bss is cleared for as many bytes as the segment has.
StoreDataClearAll ==
  /\ More /\ load.data
  /\ LET s == Current
     IN  IF Fits(s.address, s.filesz)
         THEN /\ Store(s.address, DataOf(s))
              /\ load' = [load EXCEPT !.data = FALSE, !.at = s.address + s.filesz,
                                      !.left = s.memsz]
              /\ UNCHANGED before
         ELSE LoadFails
  /\ UNCHANGED <<programs, handle, loads>>

StoreData ==
  /\ More /\ load.data
  /\ LET s == Current
     IN  IF Fits(s.address, s.filesz)
         THEN /\ Store(s.address, DataOf(s))
              /\ load' = [load EXCEPT !.data = FALSE, !.at = s.address + s.filesz,
                            !.left = IF s.memsz > s.filesz THEN s.memsz - s.filesz ELSE 0]
              /\ UNCHANGED before
         ELSE LoadFails
  /\ UNCHANGED <<programs, handle, loads>>

\* The rest of the segment is cleared in chunks.
StoreZeros ==
  /\ More /\ ~load.data /\ load.left > 0
  /\ LET length == IF ZeroChunk < load.left THEN ZeroChunk ELSE load.left
     IN  IF Fits(load.at, length)
         THEN /\ Store(load.at, [i \in 0 .. length - 1 |-> Zero])
              /\ load' = [load EXCEPT !.at = @ + length, !.left = @ - length]
              /\ UNCHANGED before
         ELSE LoadFails
  /\ UNCHANGED <<programs, handle, loads>>

NextSegment ==
  /\ More /\ ~load.data /\ load.left = 0
  /\ load' = [load EXCEPT !.segment = @ + 1, !.data = TRUE]
  /\ UNCHANGED <<programs, memory, before, handle, loads>>

\* All of it is loaded: the harts may run it.
Loaded == Loading /\ ~More

RunKernel ==
  /\ Loaded
  /\ load' = NoLoad
  /\ UNCHANGED <<programs, memory, before, handle, loads>>

ElfNext ==
  \/ \E slot \in Slots :
       \/ \E file \in ElfFiles : ProgramLoad(slot, file)
       \/ ProgramFree(slot)
       \/ \E name \in Names : FindKernel(slot, name)
       \/ LoadBegin(slot)
  \/ StoreData \/ StoreZeros \/ NextSegment \/ RunKernel

ElfSpec == ElfInit /\ [][ElfNext]_elfVars

-----------------------------------------------------------------------------
(* Properties                                                              *)

\* What the class of a file makes of its numbers: they are not negative.
SegmentsAreNumbers ==
  \A f \in ElfFiles :
    Loadable(f) \in Seq([load : BOOLEAN, address : Nat, offset : Nat, filesz : Nat, memsz : Nat])

\* What is read of a file: its symbols and sections are sequences, and the names
\* of its symbols are in its one table of strings.
StringsAreInTheirTable ==
  \A f \in ElfFiles :
    LET sections == f.sections.entries
    IN  /\ Len(f.symbols) \in Nat /\ DOMAIN f.symbols = 1 .. Len(f.symbols)
        /\ Len(sections) \in Nat /\ DOMAIN sections = 1 .. Len(sections)
        /\ \A i \in DOMAIN sections :
             sections[i].type = "strtab" /\ sections[i].name = ".strtab"
               => sections[i].offset = f.strings

Latest(S) == CHOOSE i \in S : \A j \in S : j <= i

\* The cell that the program's file describes: the last segment that has the
\* address decides, with its data or with a zero; elsewhere nothing changes.
Image(a) ==
  LET p == programs[load.slot]
      Covers(s) == a >= s.address /\ (a < s.address + s.memsz \/ a < s.address + s.filesz)
      Covering == {i \in DOMAIN p.segments : Covers(p.segments[i])}
      s == p.segments[Latest(Covering)]
  IN  IF Covering = {} THEN before[a]
      ELSE IF a < s.address + s.filesz
           THEN [file |-> p.file.id, offset |-> s.offset + (a - s.address)]
           ELSE Zero

\* When the harts run a program, its ELF memory is what its file describes,
\* whatever other programs, and earlier executions of its own kernels, have
\* left there (ELFProgram::load, refsi_m1_hal_device::kernel_exec).
LoadIsExact == Loaded => \A a \in ElfWindow : memory[a] = Image(a)

\* A kernel is found at the address of the last global symbol of its name
\* in its own program, again and again, and other names are not found
\* (read_symbols, find_symbol, find_kernel).
SymbolsAreFound ==
  handle # NoHandle =>
    LET file == programs[handle.slot].file
        Named == {i \in DOMAIN file.symbols :
                    LET s == file.symbols[i]
                    IN  /\ s.global /\ s.name = handle.name
                        /\ Readable(file, file.strings + s.at, s.length)}
    IN  handle.symbol = IF Named = {} THEN 0 ELSE file.symbols[Latest(Named)].value

=============================================================================
