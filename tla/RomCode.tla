------------------------------- MODULE RomCode --------------------------------
(***************************************************************************)
(* The code that the HAL writes to the ROM of a device: the exit that      *)
(* kernels return to, and one function per number of dimensions that works *)
(* out the work-group of an instance and calls the kernel.  The encoder    *)
(* turns instructions into words; the harts decode and execute the words.  *)
(*                                                                         *)
(* Words and registers are numbers: operands are small, so that no field   *)
(* of a word reaches bit 31, and addresses are, so that no sum overflows a *)
(* register.  Loads and stores move the lower half of a register only.     *)
(***************************************************************************)
EXTENDS Integers, Sequences

CONSTANTS
  Half,   \* 2^31, the weight of the sign of what LW loads and SW stores
  Wide    \* 2^64, registers are smaller

Word == 2 * Half

ASSUME RomAssumption == Half \in Nat \ {0} /\ Wide \in Nat /\ Wide >= Word

Zero == 0
T1 == 6
T2 == 7
A0 == 10
A1 == 11
A2 == 12
A3 == 13
A7 == 17
DIVU == 5
REMU == 7

-----------------------------------------------------------------------------
(* riscv_encoder: the fields of a word do not overlap, so that | is +.     *)

\* Where the fields of a word are, as the weight of their lowest bit: bits 7,
\* 12, 15, 20 and 25.  Immediates are where rd, rs2 and func7 would be.
RdAt == 128
Func3At == 4096
Rs1At == 32768
Rs2At == 1048576
Func7At == 33554432

EncodeI(opc, func3, rd, rs1, imm) ==
  opc + rd * RdAt + func3 * Func3At + rs1 * Rs1At + (imm % 4096) * Rs2At

\* Faulty EncodeS: rs1 and rs2 are swapped.
EncodeSwapped(opc, func3, rs1, rs2, imm) ==
  opc + (imm % 32) * RdAt + func3 * Func3At + rs2 * Rs1At + rs1 * Rs2At
      + ((imm % 4096) \div 32) * Func7At

EncodeS(opc, func3, rs1, rs2, imm) ==
  opc + (imm % 32) * RdAt + func3 * Func3At + rs1 * Rs1At + rs2 * Rs2At
      + ((imm % 4096) \div 32) * Func7At

EncodeR(opc, func3, func7, rd, rs1, rs2) ==
  opc + rd * RdAt + func3 * Func3At + rs1 * Rs1At + rs2 * Rs2At + func7 * Func7At

AddADDI(rd, rs, imm) == EncodeI(19, 0, rd, rs, imm)
AddLI(rd, imm) == AddADDI(rd, Zero, imm)
AddMV(rd, rs) == AddADDI(rd, rs, 0)
AddLW(rd, rs, imm) == EncodeI(3, 2, rd, rs, imm)
AddSW(rs2, rs1, imm) == EncodeS(35, 2, rs1, rs2, imm)
AddMulInst(opc, rd, rs1, rs2) == EncodeR(51, opc, 1, rd, rs1, rs2)
AddJR(rs) == EncodeI(103, 0, Zero, rs, 0)
AddECALL == 115

-----------------------------------------------------------------------------
(* exec_state_t, which A3 points to, begins with wg_info_t.                *)

WgOffset == 0
GroupIdOffset(rank) == WgOffset + 8 * rank
NumGroupsOffset(rank) == WgOffset + 24 + 8 * rank
KernelEntryOffset == 152

EncodeKernelExit == << AddLI(A0, 0), AddLI(A7, 0), AddECALL >>

EncodeLaunchKernel(dims) ==
  << AddSW(A0, A3, GroupIdOffset(0)) >>
  \o (IF dims > 1 THEN << AddLW(T1, A3, NumGroupsOffset(1)),
                          AddMulInst(REMU, T2, A1, T1),
                          AddSW(T2, A3, GroupIdOffset(1)) >> ELSE <<>>)
  \o (IF dims > 2 THEN << AddMulInst(DIVU, T2, A1, T1),
                          AddSW(T2, A3, GroupIdOffset(2)) >> ELSE <<>>)
  \o << AddMV(A0, A2), AddADDI(A1, A3, WgOffset),
        AddLW(T1, A3, KernelEntryOffset), AddJR(T1) >>

\* createROM: the functions one after the other, and where each one starts,
\* in words.  Kernels return to the first word.
Rom == EncodeKernelExit \o EncodeLaunchKernel(1) \o EncodeLaunchKernel(2)
                        \o EncodeLaunchKernel(3)

LaunchAddr(dims) ==
  Len(EncodeKernelExit) + (IF dims > 1 THEN Len(EncodeLaunchKernel(1)) ELSE 0)
                        + (IF dims > 2 THEN Len(EncodeLaunchKernel(2)) ELSE 0)

-----------------------------------------------------------------------------
(* A hart: a state is [reg, mem, stop], mem has cells of the size of a     *)
(* register, and stop is the address it has left the ROM for, or one of    *)
(* the two values below.                                                   *)

InRom == -1
InHost == -2

Field(word, at, size) == (word \div at) % size

ImmI(word) == Field(word, Rs2At, 2048)
ImmS(word) == Field(word, RdAt, 32) + 32 * Field(word, Func7At, 64)

\* LW loads the lower half of a cell and extends its sign; SW stores the lower
\* half of a register, and the upper half of the cell stays.
LoadWord(cell) == IF cell % Word < Half THEN cell % Word
                                           ELSE (cell % Word) + (Wide - Word)
StoreWord(cell, value) == (cell - (cell % Word)) + (value % Word)

SetReg(m, rd, value) == [m EXCEPT !.reg[rd] = IF rd = Zero THEN 0 ELSE value]

Execute(m, word) ==
  LET opc == Field(word, 1, 128)    func3 == Field(word, Func3At, 8)
      rd  == Field(word, RdAt, 32)  a == m.reg[Field(word, Rs1At, 32)]
      b   == m.reg[Field(word, Rs2At, 32)]
  IN  CASE m.stop # InRom -> m
        [] m.stop = InRom /\ opc = 19  -> SetReg(m, rd, a + ImmI(word))
        [] m.stop = InRom /\ opc = 3   -> SetReg(m, rd, LoadWord(m.mem[a + ImmI(word)]))
        [] m.stop = InRom /\ opc = 35  -> [m EXCEPT !.mem[a + ImmS(word)] =
                                            StoreWord(m.mem[a + ImmS(word)], b)]
        [] m.stop = InRom /\ opc = 51  ->
             SetReg(m, rd, IF func3 = DIVU THEN a \div b ELSE a % b)
        [] m.stop = InRom /\ opc = 103 -> [m EXCEPT !.stop = a + ImmI(word)]
        [] m.stop = InRom /\ opc = 115 -> [m EXCEPT !.stop = InHost]

\* One word after the other, from the one behind start to the last.
RunFrom(m, start) ==
  LET after[n \in start .. Len(Rom)] ==
        IF n = start THEN m ELSE Execute(after[n - 1], Rom[n])
  IN  after[Len(Rom)]

\* A hart that enters the ROM for an instance: RUN_INSTANCES passes the
\* instance, the slice, the arguments and the execution state in A0 to A3.
Entered(state, kernel, args, groups, instance, slice) ==
  [reg |-> [r \in 0 .. 31 |-> CASE r = A0 -> instance [] r = A1 -> slice
                                [] r = A2 -> args     [] r = A3 -> state
                                [] OTHER  -> 0],
   mem |-> [a \in {state + 8 * n : n \in 0 .. 19} |->
              CASE a = state + NumGroupsOffset(0) -> groups[1]
                [] a = state + NumGroupsOffset(1) -> groups[2]
                [] a = state + NumGroupsOffset(2) -> groups[3]
                [] a = state + KernelEntryOffset  -> kernel
                [] OTHER -> 0],
   stop |-> InRom]

\* The call that the kernel receives from the ROM.  Its address is the largest
\* that LW loads as it is; a program is in the ELF memory, far below it.
CallFor(dims, groups, instance, slice) ==
  LET state == 160  kernel == Half - 1  args == 500
      m == RunFrom(Entered(state, kernel, args, groups, instance, slice), LaunchAddr(dims))
  IN  [kernel |-> m.stop = kernel,
       args   |-> m.reg[A0] = args,
       wg     |-> m.reg[A1] = state + WgOffset,
       group  |-> << m.mem[state + GroupIdOffset(0)], m.mem[state + GroupIdOffset(1)],
                     m.mem[state + GroupIdOffset(2)] >>]

\* A kernel returns to the ROM with any values in its registers.
ExitFor(value) ==
  LET m == RunFrom([reg |-> [r \in 0 .. 31 |-> IF r = Zero THEN 0 ELSE value],
                    mem |-> <<>>, stop |-> InRom], 0)
  IN  << m.stop, m.reg[A7], m.reg[A0] >>
=============================================================================
