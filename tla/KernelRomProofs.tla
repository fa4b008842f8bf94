---------------------------- MODULE KernelRomProofs ----------------------------
(***************************************************************************)
(* Proofs about KernelRom: the words that the encoder writes to the ROM    *)
(* decode to its instructions, and a hart that executes them one after the *)
(* other calls the kernel for the work-group of its instance, whatever the *)
(* addresses, the number of groups, the instance and the slice.  With the  *)
(* invariant of a launch, of what the CMP and the harts hold when a slice  *)
(* runs, this is what the launches count on.                               *)
(***************************************************************************)
EXTENDS KernelRom, KernelLaunchProofs, WellFoundedInduction

(* The fields of a word                                                    *)

\* A word, split at a bit of this weight.
Splits(word, low, weight, high) ==
  weight \in Nat /\ low \in 0 .. weight - 1 /\ high \in Nat /\ word = high * weight + low

\* The higher part, split into its lowest field and the rest.
Begins(high, size, value, rest) ==
  size \in Nat /\ value \in 0 .. size - 1 /\ rest \in Nat /\ high = rest * size + value

\* The lowest field of the higher part.
LEMMA FieldIs ==
  ASSUME NEW word, NEW low, NEW weight, NEW high, NEW size, NEW value, NEW rest,
         Splits(word, low, weight, high), Begins(high, size, value, rest)
  PROVE  Field(word, weight, size) = value
<1> USE DEF Splits, Begins
<1>1. word \div weight = high
  BY DivModUnique
<1>2. high % size = value
  BY DivModUnique
<1> QED
  BY <1>1, <1>2 DEF Field

\* The word, split behind that field.
LEMMA RestIs ==
  ASSUME NEW word, NEW low, NEW weight, NEW high, NEW size, NEW value, NEW rest, NEW above,
         Splits(word, low, weight, high), Begins(high, size, value, rest), above = size * weight
  PROVE  Splits(word, low + value * weight, above, rest)
<1> USE DEF Splits, Begins
<1>1. value * weight <= (size - 1) * weight /\ value * weight \in Nat
  OBVIOUS
<1>2. low + value * weight \in 0 .. size * weight - 1
  BY <1>1
<1>3. word = rest * (size * weight) + (low + value * weight)
  OBVIOUS
<1> QED
  BY <1>2, <1>3

\* A word of so many fields.
IsWord(word, opc, rd, func3, rs1, rs2, func7) ==
  /\ opc \in 0 .. 127 /\ rd \in 0 .. 31 /\ func3 \in 0 .. 7
  /\ rs1 \in 0 .. 31 /\ rs2 \in 0 .. 31 /\ func7 \in 0 .. 63
  /\ word = opc + rd * RdAt + func3 * Func3At + rs1 * Rs1At + rs2 * Rs2At + func7 * Func7At

LEMMA WordFields ==
  ASSUME NEW word, NEW opc, NEW rd, NEW func3, NEW rs1, NEW rs2, NEW func7,
         IsWord(word, opc, rd, func3, rs1, rs2, func7)
  PROVE  /\ Field(word, 1, 128) = opc /\ Field(word, RdAt, 32) = rd
         /\ Field(word, Func3At, 8) = func3 /\ Field(word, Rs1At, 32) = rs1
         /\ Field(word, Rs2At, 32) = rs2
         /\ ImmI(word) = rs2 + 32 * func7 /\ ImmS(word) = rd + 32 * func7
<1> USE DEF IsWord
<1> DEFINE h5 == 0 * 64 + func7   h4 == h5 * 32 + rs2   h3 == h4 * 32 + rs1
           h2 == h3 * 8 + func3  h1 == h2 * 32 + rd  h0 == h1 * 128 + opc
           l1 == opc  l2 == l1 + rd * RdAt  l3 == l2 + func3 * Func3At
           l4 == l3 + rs1 * Rs1At  l5 == l4 + rs2 * Rs2At
<1>1. word = h0 * 1 + 0
  BY SMT DEF RdAt, Func3At, Rs1At, Rs2At, Func7At
<1>2. /\ 32 * RdAt = Func3At /\ 8 * Func3At = Rs1At
      /\ 32 * Rs1At = Rs2At /\ 32 * Rs2At = Func7At
  BY SMT DEF RdAt, Func3At, Rs1At, Rs2At, Func7At
<1>3. h5 \in Nat /\ h4 \in Nat /\ h3 \in Nat /\ h2 \in Nat /\ h1 \in Nat /\ h0 \in Nat
  OBVIOUS
<1>4. /\ Begins(h0, 128, opc, h1) /\ Begins(h1, 32, rd, h2) /\ Begins(h2, 8, func3, h3)
      /\ Begins(h3, 32, rs1, h4) /\ Begins(h4, 32, rs2, h5) /\ Begins(h5, 64, func7, 0)
      /\ Begins(h4, 2048, rs2 + 32 * func7, 0)
  BY <1>3 DEF Begins
<1>5. Splits(word, 0, 1, h0)
  BY <1>1, <1>3 DEF Splits
<1>6. Splits(word, l1, RdAt, h1)
  BY <1>1, <1>3, SMT DEF Splits, RdAt
<1> HIDE DEF IsWord, h0, h1, h2, h3, h4, h5
<1>7. Splits(word, l2, Func3At, h2)
  <2> HIDE DEF l1
  <2> QED
    BY <1>2, <1>4, <1>6, RestIs
<1>8. Splits(word, l3, Rs1At, h3)
  <2> HIDE DEF l2
  <2> QED
    BY <1>2, <1>4, <1>7, RestIs
<1>9. Splits(word, l4, Rs2At, h4)
  <2> HIDE DEF l3
  <2> QED
    BY <1>2, <1>4, <1>8, RestIs
<1>10. Splits(word, l5, Func7At, h5)
  <2> HIDE DEF l4
  <2> QED
    BY <1>2, <1>4, <1>9, RestIs
<1>11. /\ Field(word, 1, 128) = opc /\ Field(word, RdAt, 32) = rd
       /\ Field(word, Func3At, 8) = func3 /\ Field(word, Rs1At, 32) = rs1
       /\ Field(word, Rs2At, 32) = rs2 /\ Field(word, Func7At, 64) = func7
       /\ Field(word, Rs2At, 2048) = rs2 + 32 * func7
  <2> HIDE DEF l1, l2, l3, l4, l5
  <2> QED
    BY <1>4, <1>5, <1>6, <1>7, <1>8, <1>9, <1>10, FieldIs
<1> QED
  BY <1>11 DEF ImmI, ImmS

\* What a hart finds in the words of the encoder.
IsI(word, opc, func3, rd, rs1, imm) ==
  /\ opc \in 0 .. 127 /\ func3 \in 0 .. 7 /\ rd \in 0 .. 31 /\ rs1 \in 0 .. 31
  /\ imm \in 0 .. 2047 /\ word = EncodeI(opc, func3, rd, rs1, imm)

LEMMA FieldsOfI ==
  ASSUME NEW word, NEW opc, NEW func3, NEW rd, NEW rs1, NEW imm,
         IsI(word, opc, func3, rd, rs1, imm)
  PROVE  /\ Field(word, 1, 128) = opc /\ Field(word, RdAt, 32) = rd
         /\ Field(word, Rs1At, 32) = rs1 /\ ImmI(word) = imm
<1> USE DEF IsI
<1> DEFINE rs2 == imm % 32  func7 == imm \div 32
<1>1. /\ rs2 \in 0 .. 31 /\ func7 \in 0 .. 63 /\ imm = rs2 + 32 * func7 /\ imm % 4096 = imm
  OBVIOUS
<1>2. Func7At = 32 * Rs2At /\ Rs2At \in Nat
  BY SMT DEF Rs2At, Func7At
<1> HIDE DEF rs2, func7
<1>3. (imm % 4096) * Rs2At = rs2 * Rs2At + func7 * Func7At
  BY <1>1, <1>2
<1>4. RdAt \in Nat /\ Func3At \in Nat /\ Rs1At \in Nat
  BY SMT DEF RdAt, Func3At, Rs1At
<1>5. IsWord(word, opc, rd, func3, rs1, rs2, func7)
  BY <1>1, <1>2, <1>3, <1>4 DEF EncodeI, IsWord
<1> QED
  BY <1>1, <1>5, WordFields

IsS(word, opc, func3, rs1, rs2, imm) ==
  /\ opc \in 0 .. 127 /\ func3 \in 0 .. 7 /\ rs1 \in 0 .. 31 /\ rs2 \in 0 .. 31
  /\ imm \in 0 .. 2047 /\ word = EncodeS(opc, func3, rs1, rs2, imm)

LEMMA FieldsOfS ==
  ASSUME NEW word, NEW opc, NEW func3, NEW rs1, NEW rs2, NEW imm,
         IsS(word, opc, func3, rs1, rs2, imm)
  PROVE  /\ Field(word, 1, 128) = opc /\ Field(word, Rs1At, 32) = rs1
         /\ Field(word, Rs2At, 32) = rs2 /\ ImmS(word) = imm
<1> USE DEF IsS
<1> DEFINE rd == imm % 32  func7 == (imm % 4096) \div 32
<1>1. rd \in 0 .. 31 /\ func7 \in 0 .. 63 /\ imm = rd + 32 * func7
  OBVIOUS
<1>2. IsWord(word, opc, rd, func3, rs1, rs2, func7)
  BY <1>1 DEF EncodeS, IsWord
<1> HIDE DEF rd, func7
<1> QED
  BY <1>1, <1>2, WordFields

IsR(word, opc, func3, func7, rd, rs1, rs2) ==
  /\ opc \in 0 .. 127 /\ func3 \in 0 .. 7 /\ func7 \in 0 .. 63
  /\ rd \in 0 .. 31 /\ rs1 \in 0 .. 31 /\ rs2 \in 0 .. 31
  /\ word = EncodeR(opc, func3, func7, rd, rs1, rs2)

LEMMA FieldsOfR ==
  ASSUME NEW word, NEW opc, NEW func3, NEW func7, NEW rd, NEW rs1, NEW rs2,
         IsR(word, opc, func3, func7, rd, rs1, rs2)
  PROVE  /\ Field(word, 1, 128) = opc /\ Field(word, RdAt, 32) = rd
         /\ Field(word, Func3At, 8) = func3 /\ Field(word, Rs1At, 32) = rs1
         /\ Field(word, Rs2At, 32) = rs2
<1>1. IsWord(word, opc, rd, func3, rs1, rs2, func7)
  BY DEF EncodeR, IsR, IsWord
<1> QED
  BY <1>1, WordFields

\* What the instructions of the ROM do to a hart that executes them.
Regs == 0 .. 31
DestRegs == 1 .. 31
Immediates == 0 .. 2047
Put(m, rd, value) == [m EXCEPT !.reg[rd] = value]
Store(m, addr, value) == [m EXCEPT !.mem[addr] = StoreWord(m.mem[addr], value)]
Leave(m, addr) == [m EXCEPT !.stop = addr]

LEMMA SetRegPuts ==
  ASSUME NEW m, NEW rd \in DestRegs, NEW value
  PROVE  SetReg(m, rd, value) = Put(m, rd, value)
BY DEF SetReg, Put, Zero, DestRegs

LEMMA DoesADDI ==
  ASSUME NEW m, m.stop = InRom, NEW rd \in DestRegs, NEW rs \in Regs, NEW imm \in Immediates
  PROVE  Execute(m, AddADDI(rd, rs, imm)) = Put(m, rd, m.reg[rs] + imm)
<1> DEFINE word == AddADDI(rd, rs, imm)
<1>1. IsI(word, 19, 0, rd, rs, imm)
  BY DEF AddADDI, IsI, Regs, DestRegs, Immediates
<1> HIDE DEF word
<1>2. /\ Field(word, 1, 128) = 19 /\ Field(word, RdAt, 32) = rd
      /\ Field(word, Rs1At, 32) = rs /\ ImmI(word) = imm
  BY <1>1, FieldsOfI
<1>3. Execute(m, word) = SetReg(m, rd, m.reg[rs] + imm)
  BY <1>2 DEF Execute
<1> QED
  BY <1>3, SetRegPuts DEF word

LEMMA DoesLW ==
  ASSUME NEW m, m.stop = InRom, NEW rd \in DestRegs, NEW rs \in Regs, NEW imm \in Immediates
  PROVE  Execute(m, AddLW(rd, rs, imm)) = Put(m, rd, LoadWord(m.mem[m.reg[rs] + imm]))
<1> DEFINE word == AddLW(rd, rs, imm)
<1>1. IsI(word, 3, 2, rd, rs, imm)
  BY DEF AddLW, IsI, Regs, DestRegs, Immediates
<1> HIDE DEF word
<1>2. /\ Field(word, 1, 128) = 3 /\ Field(word, RdAt, 32) = rd
      /\ Field(word, Rs1At, 32) = rs /\ ImmI(word) = imm
  BY <1>1, FieldsOfI
<1>3. Execute(m, word) = SetReg(m, rd, LoadWord(m.mem[m.reg[rs] + imm]))
  BY <1>2 DEF Execute
<1> QED
  BY <1>3, SetRegPuts DEF word

LEMMA DoesSW ==
  ASSUME NEW m, m.stop = InRom, NEW rt \in Regs, NEW rs \in Regs, NEW imm \in Immediates
  PROVE  Execute(m, AddSW(rt, rs, imm)) = Store(m, m.reg[rs] + imm, m.reg[rt])
<1> DEFINE word == AddSW(rt, rs, imm)
<1>1. IsS(word, 35, 2, rs, rt, imm)
  BY DEF AddSW, IsS, Regs, DestRegs, Immediates
<1> HIDE DEF word
<1>2. /\ Field(word, 1, 128) = 35 /\ Field(word, Rs1At, 32) = rs
      /\ Field(word, Rs2At, 32) = rt /\ ImmS(word) = imm
  BY <1>1, FieldsOfS
<1>3. Execute(m, word) = [m EXCEPT !.mem[m.reg[rs] + imm] =
                                        StoreWord(m.mem[m.reg[rs] + imm], m.reg[rt])]
  BY <1>2 DEF Execute
<1> QED
  BY <1>3 DEF word, Store

LEMMA DoesMul ==
  ASSUME NEW m, m.stop = InRom, NEW rd \in DestRegs, NEW rs \in Regs, NEW rt \in Regs,
         NEW func \in {DIVU, REMU}
  PROVE  Execute(m, AddMulInst(func, rd, rs, rt))
           = Put(m, rd, IF func = DIVU THEN m.reg[rs] \div m.reg[rt] ELSE m.reg[rs] % m.reg[rt])
<1> DEFINE word == AddMulInst(func, rd, rs, rt)
<1>1. IsR(word, 51, func, 1, rd, rs, rt)
  BY DEF IsR, AddMulInst, DIVU, REMU, Regs, DestRegs, Immediates
<1> HIDE DEF word
<1>2. /\ Field(word, 1, 128) = 51 /\ Field(word, RdAt, 32) = rd
      /\ Field(word, Func3At, 8) = func /\ Field(word, Rs1At, 32) = rs
      /\ Field(word, Rs2At, 32) = rt
  BY <1>1, FieldsOfR
<1>3. Execute(m, word) = SetReg(m, rd, IF func = DIVU THEN m.reg[rs] \div m.reg[rt]
                                                     ELSE m.reg[rs] % m.reg[rt])
  BY <1>2 DEF Execute
<1> QED
  BY <1>3, SetRegPuts DEF word

LEMMA DoesJR ==
  ASSUME NEW m, m.stop = InRom, NEW rs \in Regs
  PROVE  Execute(m, AddJR(rs)) = Leave(m, m.reg[rs] + 0)
<1> DEFINE word == AddJR(rs)
<1>1. IsI(word, 103, 0, 0, rs, 0)
  BY DEF IsI, AddJR, Zero, Regs, DestRegs, Immediates
<1> HIDE DEF word
<1>2. Field(word, 1, 128) = 103 /\ Field(word, Rs1At, 32) = rs /\ ImmI(word) = 0
  BY <1>1, FieldsOfI
<1>3. Execute(m, word) = [m EXCEPT !.stop = m.reg[rs] + 0]
  BY <1>2 DEF Execute
<1> QED
  BY <1>3 DEF word, Leave

LEMMA DoesECALL ==
  ASSUME NEW m, m.stop = InRom
  PROVE  Execute(m, AddECALL) = Leave(m, InHost)
<1>1. Field(AddECALL, 1, 128) = 115
  BY DEF AddECALL, Field
<1> QED
  BY <1>1 DEF Execute, Leave

-----------------------------------------------------------------------------
(* The words of the ROM                                                    *)

\* u is s followed by t.
Joined(S, s, t, u) ==
  /\ s \in Seq(S) /\ t \in Seq(S) /\ u \in Seq(S) /\ Len(u) = Len(s) + Len(t)
  /\ \A i \in 1 .. Len(s) : u[i] = s[i]
  /\ \A i \in 1 .. Len(t) : u[Len(s) + i] = t[i]

LEMMA CatIs ==
  ASSUME NEW S, NEW s, NEW t, NEW u, Joined(S, s, t, u)
  PROVE  s \o t = u
BY DEF Joined

\* The words of the three functions, one after the other.
LEMMA Tuple1and3 ==
  ASSUME NEW a, NEW b, NEW c, NEW d
  PROVE  << a >> \o << b, c, d >> = << a, b, c, d >>
<1> DEFINE S == {a, b, c, d}  s == << a >>  t == << b, c, d >>  u == << a, b, c, d >>
<1>1. /\ s \in Seq(S) /\ t \in Seq(S) /\ u \in Seq(S)
      /\ Len(s) = 1 /\ Len(t) = 3 /\ Len(u) = 4
      /\ s[1] = u[1] /\ t[1] = u[2] /\ t[2] = u[3] /\ t[3] = u[4]
  OBVIOUS
<1> HIDE DEF S, s, t, u
<1>2. Joined(S, s, t, u)
  BY <1>1 DEF Joined
<1>3. s \o t = u
  BY <1>2, CatIs
<1> QED
  BY <1>3 DEF s, t, u

LEMMA Tuple1and4 ==
  ASSUME NEW a, NEW b, NEW c, NEW d, NEW e
  PROVE  << a >> \o << b, c, d, e >> = << a, b, c, d, e >>
<1> DEFINE S == {a, b, c, d, e}  s == << a >>  t == << b, c, d, e >>  u == << a, b, c, d, e >>
<1>1. /\ s \in Seq(S) /\ t \in Seq(S) /\ u \in Seq(S)
      /\ Len(s) = 1 /\ Len(t) = 4 /\ Len(u) = 5
      /\ s[1] = u[1] /\ t[1] = u[2] /\ t[2] = u[3] /\ t[3] = u[4] /\ t[4] = u[5]
  OBVIOUS
<1> HIDE DEF S, s, t, u
<1>2. Joined(S, s, t, u)
  BY <1>1 DEF Joined
<1>3. s \o t = u
  BY <1>2, CatIs
<1> QED
  BY <1>3 DEF s, t, u

LEMMA Tuple4and2 ==
  ASSUME NEW a, NEW b, NEW c, NEW d, NEW e, NEW f
  PROVE  << a, b, c, d >> \o << e, f >> = << a, b, c, d, e, f >>
<1> DEFINE S == {a, b, c, d, e, f}  s == << a, b, c, d >>  t == << e, f >>
           u == << a, b, c, d, e, f >>
<1>1. /\ s \in Seq(S) /\ t \in Seq(S) /\ u \in Seq(S)
      /\ Len(s) = 4 /\ Len(t) = 2 /\ Len(u) = 6
      /\ s[1] = u[1] /\ s[2] = u[2] /\ s[3] = u[3] /\ s[4] = u[4]
      /\ t[1] = u[5] /\ t[2] = u[6]
  OBVIOUS
<1> HIDE DEF S, s, t, u
<1>2. Joined(S, s, t, u)
  BY <1>1 DEF Joined
<1>3. s \o t = u
  BY <1>2, CatIs
<1> QED
  BY <1>3 DEF s, t, u

LEMMA Tuple4and4 ==
  ASSUME NEW a, NEW b, NEW c, NEW d, NEW e, NEW f, NEW g, NEW h
  PROVE  << a, b, c, d >> \o << e, f, g, h >> = << a, b, c, d, e, f, g, h >>
<1> DEFINE S == {a, b, c, d, e, f, g, h}  s == << a, b, c, d >>  t == << e, f, g, h >>
           u == << a, b, c, d, e, f, g, h >>
<1>1. /\ s \in Seq(S) /\ t \in Seq(S) /\ u \in Seq(S)
      /\ Len(s) = 4 /\ Len(t) = 4 /\ Len(u) = 8
      /\ s[1] = u[1] /\ s[2] = u[2] /\ s[3] = u[3] /\ s[4] = u[4]
      /\ t[1] = u[5] /\ t[2] = u[6] /\ t[3] = u[7] /\ t[4] = u[8]
  OBVIOUS
<1> HIDE DEF S, s, t, u
<1>2. Joined(S, s, t, u)
  BY <1>1 DEF Joined
<1>3. s \o t = u
  BY <1>2, CatIs
<1> QED
  BY <1>3 DEF s, t, u

LEMMA Tuple6and4 ==
  ASSUME NEW a, NEW b, NEW c, NEW d, NEW e, NEW f, NEW g, NEW h, NEW i, NEW j
  PROVE  << a, b, c, d, e, f >> \o << g, h, i, j >> = << a, b, c, d, e, f, g, h, i, j >>
<1> DEFINE S == {a, b, c, d, e, f, g, h, i, j}  s == << a, b, c, d, e, f >>
           t == << g, h, i, j >>  u == << a, b, c, d, e, f, g, h, i, j >>
<1>1. /\ s \in Seq(S) /\ t \in Seq(S) /\ u \in Seq(S)
      /\ Len(s) = 6 /\ Len(t) = 4 /\ Len(u) = 10
      /\ s[1] = u[1] /\ s[2] = u[2] /\ s[3] = u[3] /\ s[4] = u[4] /\ s[5] = u[5] /\ s[6] = u[6]
      /\ t[1] = u[7] /\ t[2] = u[8] /\ t[3] = u[9] /\ t[4] = u[10]
  OBVIOUS
<1> HIDE DEF S, s, t, u
<1>2. Joined(S, s, t, u)
  BY <1>1 DEF Joined
<1>3. s \o t = u
  BY <1>2, CatIs
<1> QED
  BY <1>3 DEF s, t, u

LEMMA NothingJoined ==
  ASSUME NEW S, NEW s \in Seq(S)
  PROVE  s \o <<>> = s
OBVIOUS

\* The words of the functions.
LEMMA LaunchWords ==
  /\ EncodeLaunchKernel(1) =
       << AddSW(A0, A3, 0), AddMV(A0, A2), AddADDI(A1, A3, 0), AddLW(T1, A3, 152), AddJR(T1) >>
  /\ EncodeLaunchKernel(2) =
       << AddSW(A0, A3, 0), AddLW(T1, A3, 32), AddMulInst(REMU, T2, A1, T1), AddSW(T2, A3, 8),
          AddMV(A0, A2), AddADDI(A1, A3, 0), AddLW(T1, A3, 152), AddJR(T1) >>
  /\ EncodeLaunchKernel(3) =
       << AddSW(A0, A3, 0), AddLW(T1, A3, 32), AddMulInst(REMU, T2, A1, T1), AddSW(T2, A3, 8),
          AddMulInst(DIVU, T2, A1, T1), AddSW(T2, A3, 16),
          AddMV(A0, A2), AddADDI(A1, A3, 0), AddLW(T1, A3, 152), AddJR(T1) >>
<1> DEFINE a == AddSW(A0, A3, 0)  b == AddLW(T1, A3, 32)  c == AddMulInst(REMU, T2, A1, T1)
           d == AddSW(T2, A3, 8)  e == AddMulInst(DIVU, T2, A1, T1)  f == AddSW(T2, A3, 16)
           g == AddMV(A0, A2)  h == AddADDI(A1, A3, 0)  i == AddLW(T1, A3, 152)  j == AddJR(T1)
<1>1. /\ GroupIdOffset(0) = 0 /\ GroupIdOffset(1) = 8 /\ GroupIdOffset(2) = 16
      /\ NumGroupsOffset(1) = 32 /\ KernelEntryOffset = 152 /\ WgOffset = 0
  BY DEF GroupIdOffset, NumGroupsOffset, KernelEntryOffset, WgOffset
<1>2. /\ EncodeLaunchKernel(1) = << a >> \o <<>> \o <<>> \o << g, h, i, j >>
      /\ EncodeLaunchKernel(2) = << a >> \o << b, c, d >> \o <<>> \o << g, h, i, j >>
      /\ EncodeLaunchKernel(3) = << a >> \o << b, c, d >> \o << e, f >> \o << g, h, i, j >>
  BY <1>1 DEF EncodeLaunchKernel
<1> HIDE DEF a, b, c, d, e, f, g, h, i, j
<1>3. << a >> \in Seq({a}) /\ << a, b, c, d >> \in Seq({a, b, c, d})
  OBVIOUS
<1>4. << a >> \o <<>> \o <<>> = << a >> /\ << a, b, c, d >> \o <<>> = << a, b, c, d >>
  BY <1>3, NothingJoined
<1>5. EncodeLaunchKernel(1) = << a, g, h, i, j >>
  BY <1>2, <1>4, Tuple1and4
<1>6. EncodeLaunchKernel(2) = << a, b, c, d, g, h, i, j >>
  BY <1>2, <1>4, Tuple1and3, Tuple4and4
<1>7. EncodeLaunchKernel(3) = << a, b, c, d, e, f, g, h, i, j >>
  BY <1>2, Tuple1and3, Tuple4and2, Tuple6and4
<1> QED
  BY <1>5, <1>6, <1>7 DEF a, b, c, d, e, f, g, h, i, j

\* Where each word of the ROM is.
LEMMA RomWords ==
  /\ Len(Rom) = 26 /\ LaunchAddr(1) = 3 /\ LaunchAddr(2) = 8 /\ LaunchAddr(3) = 16
  /\ Rom[1] = AddLI(A0, 0) /\ Rom[2] = AddLI(A7, 0) /\ Rom[3] = AddECALL
  /\ Rom[4] = AddSW(A0, A3, 0)
  /\ Rom[5] = AddMV(A0, A2) /\ Rom[6] = AddADDI(A1, A3, 0)
  /\ Rom[7] = AddLW(T1, A3, 152) /\ Rom[8] = AddJR(T1)
  /\ Rom[9] = AddSW(A0, A3, 0)
  /\ Rom[10] = AddLW(T1, A3, 32) /\ Rom[11] = AddMulInst(REMU, T2, A1, T1)
  /\ Rom[12] = AddSW(T2, A3, 8)
  /\ Rom[13] = AddMV(A0, A2) /\ Rom[14] = AddADDI(A1, A3, 0)
  /\ Rom[15] = AddLW(T1, A3, 152) /\ Rom[16] = AddJR(T1)
  /\ Rom[17] = AddSW(A0, A3, 0)
  /\ Rom[18] = AddLW(T1, A3, 32) /\ Rom[19] = AddMulInst(REMU, T2, A1, T1)
  /\ Rom[20] = AddSW(T2, A3, 8)
  /\ Rom[21] = AddMulInst(DIVU, T2, A1, T1) /\ Rom[22] = AddSW(T2, A3, 16)
  /\ Rom[23] = AddMV(A0, A2) /\ Rom[24] = AddADDI(A1, A3, 0)
  /\ Rom[25] = AddLW(T1, A3, 152) /\ Rom[26] = AddJR(T1)
<1> DEFINE s1 == EncodeKernelExit  s2 == EncodeLaunchKernel(1)
           s3 == EncodeLaunchKernel(2)  s4 == EncodeLaunchKernel(3)
<1> DEFINE S == {AddLI(A0, 0), AddLI(A7, 0), AddECALL, AddSW(A0, A3, 0), AddMV(A0, A2),
                 AddADDI(A1, A3, 0), AddLW(T1, A3, 152), AddJR(T1), AddLW(T1, A3, 32),
                 AddMulInst(REMU, T2, A1, T1), AddSW(T2, A3, 8),
                 AddMulInst(DIVU, T2, A1, T1), AddSW(T2, A3, 16)}
<1>1. /\ AddLI(A0, 0) \in S /\ AddLI(A7, 0) \in S /\ AddECALL \in S
      /\ AddSW(A0, A3, 0) \in S /\ AddMV(A0, A2) \in S /\ AddADDI(A1, A3, 0) \in S
      /\ AddLW(T1, A3, 152) \in S /\ AddJR(T1) \in S
      /\ AddLW(T1, A3, 32) \in S /\ AddMulInst(REMU, T2, A1, T1) \in S
      /\ AddSW(T2, A3, 8) \in S /\ AddMulInst(DIVU, T2, A1, T1) \in S
      /\ AddSW(T2, A3, 16) \in S
  OBVIOUS
<1>2. /\ s1 = << AddLI(A0, 0), AddLI(A7, 0), AddECALL >>
      /\ s2 = << AddSW(A0, A3, 0), AddMV(A0, A2), AddADDI(A1, A3, 0), AddLW(T1, A3, 152),
                 AddJR(T1) >>
      /\ s3 = << AddSW(A0, A3, 0), AddLW(T1, A3, 32), AddMulInst(REMU, T2, A1, T1),
                 AddSW(T2, A3, 8), AddMV(A0, A2), AddADDI(A1, A3, 0), AddLW(T1, A3, 152),
                 AddJR(T1) >>
      /\ s4 = << AddSW(A0, A3, 0), AddLW(T1, A3, 32), AddMulInst(REMU, T2, A1, T1),
                 AddSW(T2, A3, 8), AddMulInst(DIVU, T2, A1, T1), AddSW(T2, A3, 16),
                 AddMV(A0, A2), AddADDI(A1, A3, 0), AddLW(T1, A3, 152), AddJR(T1) >>
  BY LaunchWords DEF EncodeKernelExit
<1> DEFINE t2 == s1 \o s2  t3 == t2 \o s3  t4 == t3 \o s4
<1>3. Rom = t4
  BY DEF Rom
<1> HIDE DEF S, s1, s2, s3, s4, t2, t3, t4
<1>4. /\ s1 \in Seq(S) /\ Len(s1) = 3
      /\ s1[1] = AddLI(A0, 0) /\ s1[2] = AddLI(A7, 0) /\ s1[3] = AddECALL
  BY <1>1, <1>2
<1>5. /\ s2 \in Seq(S) /\ Len(s2) = 5 /\ s2[1] = AddSW(A0, A3, 0)
      /\ s2[2] = AddMV(A0, A2) /\ s2[3] = AddADDI(A1, A3, 0)
      /\ s2[4] = AddLW(T1, A3, 152) /\ s2[5] = AddJR(T1)
  BY <1>1, <1>2
<1>6. /\ s3 \in Seq(S) /\ Len(s3) = 8 /\ s3[1] = AddSW(A0, A3, 0)
      /\ s3[2] = AddLW(T1, A3, 32) /\ s3[3] = AddMulInst(REMU, T2, A1, T1)
      /\ s3[4] = AddSW(T2, A3, 8)
      /\ s3[5] = AddMV(A0, A2) /\ s3[6] = AddADDI(A1, A3, 0)
      /\ s3[7] = AddLW(T1, A3, 152) /\ s3[8] = AddJR(T1)
  BY <1>1, <1>2
<1>7. /\ s4 \in Seq(S) /\ Len(s4) = 10 /\ s4[1] = AddSW(A0, A3, 0)
      /\ s4[2] = AddLW(T1, A3, 32) /\ s4[3] = AddMulInst(REMU, T2, A1, T1)
      /\ s4[4] = AddSW(T2, A3, 8)
      /\ s4[5] = AddMulInst(DIVU, T2, A1, T1) /\ s4[6] = AddSW(T2, A3, 16)
      /\ s4[7] = AddMV(A0, A2) /\ s4[8] = AddADDI(A1, A3, 0)
      /\ s4[9] = AddLW(T1, A3, 152) /\ s4[10] = AddJR(T1)
  BY <1>1, <1>2
<1>8. /\ t2 \in Seq(S) /\ Len(t2) = 8
      /\ \A i \in 1 .. 3 : t2[i] = s1[i]
      /\ \A i \in 1 .. 5 : t2[3 + i] = s2[i]
  <2>1. /\ t2 \in Seq(S) /\ Len(t2) = Len(s1) + Len(s2)
        /\ \A i \in 1 .. Len(s1) : t2[i] = s1[i]
        /\ \A i \in 1 .. Len(s2) : t2[Len(s1) + i] = s2[i]
    <3>1. s1 \in Seq(S) /\ s2 \in Seq(S)
      BY <1>4, <1>5
    <3> QED
      BY <3>1, CatAt DEF t2
  <2> QED
    BY <1>4, <1>5, <2>1
<1>9. /\ t3 \in Seq(S) /\ Len(t3) = 16
      /\ \A i \in 1 .. 8 : t3[i] = t2[i]
      /\ \A i \in 1 .. 8 : t3[8 + i] = s3[i]
  <2>1. /\ t3 \in Seq(S) /\ Len(t3) = Len(t2) + Len(s3)
        /\ \A i \in 1 .. Len(t2) : t3[i] = t2[i]
        /\ \A i \in 1 .. Len(s3) : t3[Len(t2) + i] = s3[i]
    <3>1. t2 \in Seq(S) /\ s3 \in Seq(S)
      BY <1>6, <1>8
    <3> QED
      BY <3>1, CatAt DEF t3
  <2> QED
    BY <1>6, <1>8, <2>1
<1>10. /\ Len(t4) = 26
       /\ \A i \in 1 .. 16 : t4[i] = t3[i]
       /\ \A i \in 1 .. 10 : t4[16 + i] = s4[i]
  <2>1. /\ Len(t4) = Len(t3) + Len(s4)
        /\ \A i \in 1 .. Len(t3) : t4[i] = t3[i]
        /\ \A i \in 1 .. Len(s4) : t4[Len(t3) + i] = s4[i]
    <3>1. t3 \in Seq(S) /\ s4 \in Seq(S)
      BY <1>7, <1>9
    <3> QED
      BY <3>1, CatAt DEF t4
  <2> QED
    BY <1>7, <1>9, <2>1
<1>11. LaunchAddr(1) = 3 /\ LaunchAddr(2) = 8 /\ LaunchAddr(3) = 16
  <2>1. Len(EncodeKernelExit) = 3 /\ Len(EncodeLaunchKernel(1)) = 5
        /\ Len(EncodeLaunchKernel(2)) = 8
    BY <1>4, <1>5, <1>6 DEF s1, s2, s3
  <2>2. \A dims \in {1, 2, 3} :
          LaunchAddr(dims) = 3 + (IF dims > 1 THEN 5 ELSE 0) + (IF dims > 2 THEN 8 ELSE 0)
    BY <2>1 DEF LaunchAddr
  <2> QED
    BY <2>2
<1>12. /\ t4[1] = s1[1] /\ t4[2] = s1[2] /\ t4[3] = s1[3]
       /\ t4[4] = s2[1] /\ t4[5] = s2[2] /\ t4[6] = s2[3] /\ t4[7] = s2[4] /\ t4[8] = s2[5]
  <2>1. \A i \in 1 .. 8 : t4[i] = t2[i]
    <3>1. \A i \in 1 .. 8 : i \in 1 .. 16
      OBVIOUS
    <3> QED
      BY <1>9, <1>10, <3>1
  <2>2. /\ t2[3 + 1] = s2[1] /\ t2[3 + 2] = s2[2] /\ t2[3 + 3] = s2[3] /\ t2[3 + 4] = s2[4]
        /\ t2[3 + 5] = s2[5] /\ t2[1] = s1[1] /\ t2[2] = s1[2] /\ t2[3] = s1[3]
    BY <1>8
  <2> QED
    BY <2>1, <2>2
<1>13. /\ t4[9] = s3[1] /\ t4[10] = s3[2] /\ t4[11] = s3[3] /\ t4[12] = s3[4]
       /\ t4[13] = s3[5] /\ t4[14] = s3[6] /\ t4[15] = s3[7] /\ t4[16] = s3[8]
  <2>1. /\ t3[8 + 1] = s3[1] /\ t3[8 + 2] = s3[2] /\ t3[8 + 3] = s3[3] /\ t3[8 + 4] = s3[4]
        /\ t3[8 + 5] = s3[5] /\ t3[8 + 6] = s3[6] /\ t3[8 + 7] = s3[7] /\ t3[8 + 8] = s3[8]
    BY <1>9
  <2>2. /\ t4[9] = t3[9] /\ t4[10] = t3[10] /\ t4[11] = t3[11] /\ t4[12] = t3[12]
        /\ t4[13] = t3[13] /\ t4[14] = t3[14] /\ t4[15] = t3[15] /\ t4[16] = t3[16]
    BY <1>10
  <2> QED
    BY <2>1, <2>2
<1>14. /\ t4[17] = s4[1] /\ t4[18] = s4[2] /\ t4[19] = s4[3] /\ t4[20] = s4[4]
       /\ t4[21] = s4[5] /\ t4[22] = s4[6] /\ t4[23] = s4[7] /\ t4[24] = s4[8]
       /\ t4[25] = s4[9] /\ t4[26] = s4[10]
  <2>1. /\ t4[16 + 1] = s4[1] /\ t4[16 + 2] = s4[2] /\ t4[16 + 3] = s4[3] /\ t4[16 + 4] = s4[4]
        /\ t4[16 + 5] = s4[5] /\ t4[16 + 6] = s4[6] /\ t4[16 + 7] = s4[7] /\ t4[16 + 8] = s4[8]
        /\ t4[16 + 9] = s4[9] /\ t4[16 + 10] = s4[10]
    BY <1>10
  <2> QED
    BY <2>1
<1> QED
  BY <1>3, <1>4, <1>5, <1>6, <1>7, <1>10, <1>11, <1>12, <1>13, <1>14


-----------------------------------------------------------------------------
(* Running the ROM                                                         *)

\* Induction with a set in the place of a predicate.
LEMMA SetInduction ==
  ASSUME NEW S, 0 \in S, \A n \in Nat : n \in S => n + 1 \in S
  PROVE  Nat \subseteq S
<1> DEFINE T == Nat \ S
           R == {ss \in Nat \X Nat : ss[1] < ss[2]}
<1> SUFFICES ASSUME T # {} PROVE FALSE
  OBVIOUS
<1>1. IsWellFoundedOn(R, Nat)
  BY NatLessThanWellFounded DEF OpToRel
<1>2. T \in SUBSET Nat
  OBVIOUS
<1> HIDE DEF R, T
<1>3. PICK t \in T : \A u \in T : ~(<<u, t>> \in R)
  BY <1>1, <1>2, WFMin
<1>4. t \in Nat /\ t \notin S /\ t # 0
  BY DEF T
<1>5. t - 1 \in Nat /\ (t - 1) + 1 = t /\ t - 1 < t
  BY <1>4
<1>6. t - 1 \in T
  BY <1>4, <1>5 DEF T
<1>7. <<t - 1, t>> \in R
  BY <1>4, <1>5 DEF R
<1> QED
  BY <1>3, <1>6, <1>7

\* f is what the words behind start do to a hart.
IsRun(m, start, last, f) ==
  f = [n \in start .. last |-> IF n = start THEN m ELSE Execute(f[n - 1], Rom[n])]

LEMMA RunsExist ==
  ASSUME NEW m, NEW start \in Nat
  PROVE  \A k \in Nat : \E f : IsRun(m, start, start + k, f)
<1> DEFINE S == {k \in Nat : \E f : IsRun(m, start, start + k, f)}
<1>1. 0 \in S
  <2> DEFINE f == [n \in start .. start |-> m]
             g == [n \in start .. start |-> IF n = start THEN m ELSE Execute(f[n - 1], Rom[n])]
  <2>1. start + 0 = start /\ \A n \in start .. start : n = start
    OBVIOUS
  <2>2. f = g
    BY <2>1
  <2>3. IsRun(m, start, start + 0, f)
    BY <2>1, <2>2 DEF IsRun
  <2> QED
    BY <2>3
<1>2. ASSUME NEW k \in Nat, k \in S
      PROVE  k + 1 \in S
  <2> DEFINE last == start + k
  <2>1. PICK f : IsRun(m, start, last, f)
    BY <1>2
  <2>2. last \in Nat /\ start + (k + 1) = last + 1 /\ last >= start
    OBVIOUS
  <2> HIDE DEF last
  <2> DEFINE g == [n \in start .. last + 1 |->
                     IF n = last + 1 THEN Execute(f[last], Rom[last + 1]) ELSE f[n]]
             h == [n \in start .. last + 1 |->
                     IF n = start THEN m ELSE Execute(g[n - 1], Rom[n])]
  <2>3. \A n \in start .. last : f[n] = IF n = start THEN m ELSE Execute(f[n - 1], Rom[n])
    BY <2>1 DEF IsRun
  <2>4. ASSUME NEW n \in start .. last + 1
        PROVE  g[n] = h[n]
    <3>1. CASE n = last + 1
      <4>1. n # start /\ n - 1 = last /\ last \in start .. last + 1 /\ last # last + 1
        BY <2>2, <3>1
      <4> QED
        BY <3>1, <4>1
    <3>2. CASE n # last + 1 /\ n # start
      <4>1. n \in start .. last /\ n - 1 \in start .. last + 1 /\ n - 1 # last + 1
        BY <2>2, <3>2
      <4> QED
        BY <2>3, <3>2, <4>1
    <3>3. CASE n = start
      <4>1. start \in start .. last /\ start # last + 1
        BY <2>2
      <4> QED
        BY <2>3, <3>3, <4>1
    <3> QED
      BY <3>1, <3>2, <3>3
  <2>5. g = h
    BY <2>4
  <2>6. IsRun(m, start, last + 1, g)
    BY <2>5 DEF IsRun
  <2> HIDE DEF g
  <2> QED
    BY <2>2, <2>6
<1> HIDE DEF S
<1>3. Nat \subseteq S
  BY <1>1, <1>2, SetInduction
<1> QED
  BY <1>3 DEF S

\* A hart executes one word after the other, and stays as it is once it has left
\* the ROM.
LEMMA RunFromSteps ==
  ASSUME NEW m, NEW start \in 0 .. 26
  PROVE  \E f : /\ f[start] = m
                /\ \A n \in start + 1 .. 26 : f[n] = Execute(f[n - 1], Rom[n])
                /\ \A n \in start .. 26 : f[n].stop # InRom => RunFrom(m, start) = f[n]
<1> DEFINE F == CHOOSE f : f = [n \in start .. Len(Rom) |->
                             IF n = start THEN m ELSE Execute(f[n - 1], Rom[n])]
<1>0. Len(Rom) = 26
  BY RomWords
<1>1. RunFrom(m, start) = F[Len(Rom)]
  BY DEF RunFrom
<1>2. IsRun(m, start, Len(Rom), F)
  <2>1. start + (26 - start) = 26 /\ 26 - start \in Nat
    OBVIOUS
  <2>2. \E f : IsRun(m, start, start + (26 - start), f)
    <3> DEFINE k == 26 - start
    <3>1. k \in Nat /\ start \in Nat
      OBVIOUS
    <3> HIDE DEF k
    <3>2. \E f : IsRun(m, start, start + k, f)
      BY <3>1, RunsExist
    <3> QED
      BY <3>2 DEF k
  <2>3. \E f : IsRun(m, start, Len(Rom), f)
    BY <1>0, <2>1, <2>2
  <2> QED
    BY <2>3 DEF IsRun
<1> HIDE DEF F
<1>3. /\ F[start] = m
      /\ \A n \in start + 1 .. 26 : F[n] = Execute(F[n - 1], Rom[n])
      /\ RunFrom(m, start) = F[26]
  <2>1. F = [n \in start .. 26 |-> IF n = start THEN m ELSE Execute(F[n - 1], Rom[n])]
    BY <1>0, <1>2 DEF IsRun
  <2>2. \A n \in start + 1 .. 26 : n \in start .. 26 /\ n # start
    OBVIOUS
  <2>3. start \in start .. 26
    OBVIOUS
  <2> QED
    BY <1>0, <1>1, <2>1, <2>2, <2>3
<1>4. ASSUME NEW n \in start .. 26, F[n].stop # InRom
      PROVE  RunFrom(m, start) = F[n]
  <2> DEFINE S == {k \in Nat : n + k <= 26 => F[n + k] = F[n]}
  <2>1. 0 \in S
    OBVIOUS
  <2>2. ASSUME NEW k \in Nat, k \in S
        PROVE  k + 1 \in S
    <3> SUFFICES ASSUME n + (k + 1) <= 26 PROVE F[n + (k + 1)] = F[n]
      OBVIOUS
    <3>1. F[n + k] = F[n] /\ n + (k + 1) \in start + 1 .. 26 /\ (n + (k + 1)) - 1 = n + k
      BY <2>2
    <3>2. F[n + (k + 1)] = Execute(F[n], Rom[n + (k + 1)])
      BY <1>3, <3>1
    <3> QED
      BY <1>4, <3>2 DEF Execute
  <2> HIDE DEF S
  <2>3. Nat \subseteq S
    BY <2>1, <2>2, SetInduction
  <2>4. 26 - n \in Nat /\ n + (26 - n) = 26
    OBVIOUS
  <2>5. F[26] = F[n]
    BY <2>3, <2>4 DEF S
  <2> QED
    BY <1>3, <2>5
<1> QED
  BY <1>3, <1>4

-----------------------------------------------------------------------------
(* A hart in the ROM                                                       *)

\* A hart in the ROM: its registers, and its memory.
Hart(m, a0, a1, a2, a3, t1, t2, cells) ==
  /\ m = [reg |-> m.reg, mem |-> m.mem, stop |-> InRom]
  /\ m.reg = [r \in Regs |-> m.reg[r]]
  /\ m.reg[A0] = a0 /\ m.reg[A1] = a1 /\ m.reg[A2] = a2 /\ m.reg[A3] = a3
  /\ m.reg[T1] = t1 /\ m.reg[T2] = t2 /\ m.mem = cells

LEMMA PutInHart ==
  ASSUME NEW m, NEW a0, NEW a1, NEW a2, NEW a3, NEW t1, NEW t2, NEW cells,
         Hart(m, a0, a1, a2, a3, t1, t2, cells), NEW v
  PROVE  /\ Hart(Put(m, T1, v), a0, a1, a2, a3, v, t2, cells)
         /\ Hart(Put(m, T2, v), a0, a1, a2, a3, t1, v, cells)
         /\ Hart(Put(m, A0, v), v, a1, a2, a3, t1, t2, cells)
         /\ Hart(Put(m, A1, v), a0, v, a2, a3, t1, t2, cells)
<1>1. /\ T1 \in Regs /\ T2 \in Regs /\ A0 \in Regs /\ A1 \in Regs /\ A2 \in Regs /\ A3 \in Regs
      /\ T1 # T2 /\ T1 # A0 /\ T1 # A1 /\ T1 # A2 /\ T1 # A3
      /\ T2 # T1 /\ T2 # A0 /\ T2 # A1 /\ T2 # A2 /\ T2 # A3
      /\ A0 # T1 /\ A0 # T2 /\ A0 # A1 /\ A0 # A2 /\ A0 # A3
      /\ A1 # T1 /\ A1 # T2 /\ A1 # A0 /\ A1 # A2 /\ A1 # A3
  BY DEF T1, T2, A0, A1, A2, A3, Regs
<1>2. ASSUME NEW r \in Regs
      PROVE  /\ Put(m, r, v) = [reg |-> Put(m, r, v).reg, mem |-> cells, stop |-> InRom]
             /\ Put(m, r, v).mem = cells
             /\ Put(m, r, v).reg = [x \in Regs |-> IF x = r THEN v ELSE m.reg[x]]
             /\ Put(m, r, v).reg = [x \in Regs |-> Put(m, r, v).reg[x]]
  <2>1. m = [reg |-> m.reg, mem |-> cells, stop |-> InRom] /\ m.reg = [x \in Regs |-> m.reg[x]]
    BY DEF Hart
  <2>2. Put(m, r, v) = [reg |-> [m.reg EXCEPT ![r] = v], mem |-> cells, stop |-> InRom]
    BY <2>1 DEF Put
  <2>3. [m.reg EXCEPT ![r] = v] = [x \in Regs |-> IF x = r THEN v ELSE m.reg[x]]
    BY <2>1
  <2> QED
    BY <2>2, <2>3
<1>3. /\ m.reg[A0] = a0 /\ m.reg[A1] = a1 /\ m.reg[A2] = a2 /\ m.reg[A3] = a3
      /\ m.reg[T1] = t1 /\ m.reg[T2] = t2
  BY DEF Hart
<1>4. ASSUME NEW r \in Regs, NEW x \in Regs
      PROVE  Put(m, r, v).reg[x] = IF x = r THEN v ELSE m.reg[x]
  <2>1. Put(m, r, v).reg = [y \in Regs |-> IF y = r THEN v ELSE m.reg[y]]
    BY <1>2
  <2> QED
    BY <2>1
<1>5. Hart(Put(m, T1, v), a0, a1, a2, a3, v, t2, cells)
  BY <1>1, <1>2, <1>3, <1>4 DEF Hart
<1>6. Hart(Put(m, T2, v), a0, a1, a2, a3, t1, v, cells)
  BY <1>1, <1>2, <1>3, <1>4 DEF Hart
<1>7. Hart(Put(m, A0, v), v, a1, a2, a3, t1, t2, cells)
  BY <1>1, <1>2, <1>3, <1>4 DEF Hart
<1>8. Hart(Put(m, A1, v), a0, v, a2, a3, t1, t2, cells)
  BY <1>1, <1>2, <1>3, <1>4 DEF Hart
<1> QED
  BY <1>5, <1>6, <1>7, <1>8

LEMMA StoreInHart ==
  ASSUME NEW m, NEW a0, NEW a1, NEW a2, NEW a3, NEW t1, NEW t2, NEW cells,
         Hart(m, a0, a1, a2, a3, t1, t2, cells), NEW a, NEW v
  PROVE  Hart(Store(m, a, v), a0, a1, a2, a3, t1, t2,
              [cells EXCEPT ![a] = StoreWord(cells[a], v)])
<1>1. Store(m, a, v) = [reg |-> m.reg, mem |-> [cells EXCEPT ![a] = StoreWord(cells[a], v)],
                        stop |-> InRom]
  BY DEF Hart, Store
<1> QED
  BY <1>1 DEF Hart

\* What the instructions of the launch functions do to a hart.
LEMMA HartSteps ==
  ASSUME NEW m, NEW a0, NEW a1, NEW a2, NEW a3, NEW t1, NEW t2, NEW cells,
         Hart(m, a0, a1, a2, a3, t1, t2, cells), NEW imm \in Immediates
  PROVE  /\ Hart(Execute(m, AddSW(A0, A3, imm)), a0, a1, a2, a3, t1, t2,
                 [cells EXCEPT ![a3 + imm] = StoreWord(cells[a3 + imm], a0)])
         /\ Hart(Execute(m, AddSW(T2, A3, imm)), a0, a1, a2, a3, t1, t2,
                 [cells EXCEPT ![a3 + imm] = StoreWord(cells[a3 + imm], t2)])
         /\ Hart(Execute(m, AddLW(T1, A3, imm)), a0, a1, a2, a3,
                 LoadWord(cells[a3 + imm]), t2, cells)
         /\ Hart(Execute(m, AddMulInst(REMU, T2, A1, T1)), a0, a1, a2, a3, t1, a1 % t1, cells)
         /\ Hart(Execute(m, AddMulInst(DIVU, T2, A1, T1)), a0, a1, a2, a3, t1, a1 \div t1, cells)
         /\ Hart(Execute(m, AddMV(A0, A2)), a2 + 0, a1, a2, a3, t1, t2, cells)
         /\ Hart(Execute(m, AddADDI(A1, A3, imm)), a0, a3 + imm, a2, a3, t1, t2, cells)
         /\ Execute(m, AddJR(T1)).stop = t1 + 0
         /\ Execute(m, AddJR(T1)).reg = m.reg /\ Execute(m, AddJR(T1)).mem = cells
<1>1. /\ m.stop = InRom /\ m.mem = cells /\ m.reg[A0] = a0 /\ m.reg[A1] = a1
      /\ m.reg[A2] = a2 /\ m.reg[A3] = a3 /\ m.reg[T1] = t1 /\ m.reg[T2] = t2
  BY DEF Hart
<1>2. /\ T1 \in DestRegs /\ T2 \in DestRegs /\ A0 \in DestRegs /\ A1 \in DestRegs
      /\ T1 \in Regs /\ T2 \in Regs /\ A0 \in Regs /\ A1 \in Regs
      /\ A2 \in Regs /\ A3 \in Regs /\ 0 \in Immediates
  BY DEF T1, T2, A0, A1, A2, A3, Regs, DestRegs, Immediates
<1>3. /\ Execute(m, AddSW(A0, A3, imm)) = Store(m, a3 + imm, a0)
      /\ Execute(m, AddSW(T2, A3, imm)) = Store(m, a3 + imm, t2)
  BY <1>1, <1>2, DoesSW
<1>4. Execute(m, AddLW(T1, A3, imm)) = Put(m, T1, LoadWord(cells[a3 + imm]))
  BY <1>1, <1>2, DoesLW
<1>5. /\ Execute(m, AddMulInst(REMU, T2, A1, T1)) = Put(m, T2, a1 % t1)
      /\ Execute(m, AddMulInst(DIVU, T2, A1, T1)) = Put(m, T2, a1 \div t1)
  <2>1. DIVU # REMU
    BY DEF DIVU, REMU
  <2> QED
    BY <1>1, <1>2, <2>1, DoesMul
<1>6. /\ Execute(m, AddMV(A0, A2)) = Put(m, A0, a2 + 0)
      /\ Execute(m, AddADDI(A1, A3, imm)) = Put(m, A1, a3 + imm)
  BY <1>1, <1>2, DoesADDI DEF AddMV
<1>7. Execute(m, AddJR(T1)) = Leave(m, t1 + 0)
  BY <1>1, <1>2, DoesJR
<1>8. Leave(m, t1 + 0) = [reg |-> m.reg, mem |-> cells, stop |-> t1 + 0]
  BY DEF Hart, Leave
<1>9. /\ Hart(Store(m, a3 + imm, a0), a0, a1, a2, a3, t1, t2,
              [cells EXCEPT ![a3 + imm] = StoreWord(cells[a3 + imm], a0)])
      /\ Hart(Store(m, a3 + imm, t2), a0, a1, a2, a3, t1, t2,
              [cells EXCEPT ![a3 + imm] = StoreWord(cells[a3 + imm], t2)])
  BY StoreInHart
<1>10. /\ Hart(Put(m, T1, LoadWord(cells[a3 + imm])), a0, a1, a2, a3,
               LoadWord(cells[a3 + imm]), t2, cells)
       /\ Hart(Put(m, T2, a1 % t1), a0, a1, a2, a3, t1, a1 % t1, cells)
       /\ Hart(Put(m, T2, a1 \div t1), a0, a1, a2, a3, t1, a1 \div t1, cells)
       /\ Hart(Put(m, A0, a2 + 0), a2 + 0, a1, a2, a3, t1, t2, cells)
       /\ Hart(Put(m, A1, a3 + imm), a0, a3 + imm, a2, a3, t1, t2, cells)
  BY PutInHart
<1> QED
  BY <1>3, <1>4, <1>5, <1>6, <1>7, <1>8, <1>9, <1>10

\* The end of each function: it calls the kernel.
LEMMA CallsKernel ==
  ASSUME NEW m, NEW a0, NEW a1, NEW args, NEW state, NEW t1, NEW t2, NEW cells,
         Hart(m, a0, a1, args, state, t1, t2, cells)
  PROVE  LET m1 == Execute(m, AddMV(A0, A2))
             m2 == Execute(m1, AddADDI(A1, A3, 0))
             m3 == Execute(m2, AddLW(T1, A3, 152))
             m4 == Execute(m3, AddJR(T1))
         IN  /\ m4.stop = LoadWord(cells[state + 152]) + 0
             /\ m4.reg[A0] = args + 0 /\ m4.reg[A1] = state + 0 /\ m4.mem = cells
<1> DEFINE m1 == Execute(m, AddMV(A0, A2))
           m2 == Execute(m1, AddADDI(A1, A3, 0))
           m3 == Execute(m2, AddLW(T1, A3, 152))
           m4 == Execute(m3, AddJR(T1))
<1> DEFINE x0 == args + 0  x1 == state + 0  off == 152  x2 == LoadWord(cells[state + off])  x3 == x2 + 0
<1>1. 0 \in Immediates /\ off \in Immediates
  BY DEF Immediates
<1>2. Hart(m1, x0, a1, args, state, t1, t2, cells)
  BY <1>1, HartSteps
<1> HIDE DEF m1, x0
<1>3. Hart(m2, x0, x1, args, state, t1, t2, cells)
  BY <1>1, <1>2, HartSteps
<1> HIDE DEF m2, x1, off
<1>4. Hart(Execute(m2, AddLW(T1, A3, off)), x0, x1, args, state, x2, t2, cells)
  BY <1>1, <1>3, HartSteps
<1>5. Hart(m3, x0, x1, args, state, x2, t2, cells)
  BY <1>4 DEF off
<1> HIDE DEF m3, x2
<1>6. m4.stop = x3 /\ m4.reg = m3.reg /\ m4.mem = cells
  BY <1>1, <1>5, HartSteps
<1> HIDE DEF m4, x3
<1>7. m3.reg[A0] = x0 /\ m3.reg[A1] = x1
  BY <1>5 DEF Hart
<1> QED
  BY <1>6, <1>7 DEF m1, m2, m3, m4, x0, x1, x2, x3, off

\* What an instance finds in the execution state when it enters the ROM.
LEMMA EntersAsHart ==
  ASSUME NEW state \in Nat, NEW kernel, NEW args, NEW groups, NEW instance, NEW slice
  PROVE  LET m == Entered(state, kernel, args, groups, instance, slice)
         IN  /\ Hart(m, instance, slice, args, state, 0, 0, m.mem)
             /\ m.mem[state + 32] = groups[2] /\ m.mem[state + 152] = kernel
             /\ m.mem[state + 0] = 0 /\ m.mem[state + 8] = 0 /\ m.mem[state + 16] = 0
             /\ {state + 0, state + 8, state + 16, state + 32, state + 152} \subseteq DOMAIN m.mem
             /\ m.mem = [a \in DOMAIN m.mem |-> m.mem[a]]
<1> DEFINE m == Entered(state, kernel, args, groups, instance, slice)
           reg == [r \in 0 .. 31 |-> CASE r = A0 -> instance [] r = A1 -> slice
                                       [] r = A2 -> args     [] r = A3 -> state
                                       [] OTHER  -> 0]
           D == {state + 8 * n : n \in 0 .. 19}
           cells == [a \in D |->
              CASE a = state + NumGroupsOffset(0) -> groups[1]
                [] a = state + NumGroupsOffset(1) -> groups[2]
                [] a = state + NumGroupsOffset(2) -> groups[3]
                [] a = state + KernelEntryOffset  -> kernel
                [] OTHER -> 0]
<1>1. m = [reg |-> reg, mem |-> cells, stop |-> InRom]
  BY DEF Entered
<1>2. /\ NumGroupsOffset(0) = 24 /\ NumGroupsOffset(1) = 32 /\ NumGroupsOffset(2) = 40
      /\ KernelEntryOffset = 152
  BY DEF NumGroupsOffset, WgOffset, KernelEntryOffset
<1>3. /\ state + 0 \in D /\ state + 8 \in D /\ state + 16 \in D /\ state + 32 \in D
      /\ state + 152 \in D
  <2>1. /\ state + 0 = state + 8 * 0 /\ state + 8 = state + 8 * 1 /\ state + 16 = state + 8 * 2
        /\ state + 32 = state + 8 * 4 /\ state + 152 = state + 8 * 19
    OBVIOUS
  <2>2. 0 \in 0 .. 19 /\ 1 \in 0 .. 19 /\ 2 \in 0 .. 19 /\ 4 \in 0 .. 19 /\ 19 \in 0 .. 19
    OBVIOUS
  <2> QED
    BY <2>1, <2>2
<1> HIDE DEF D
<1>4. cells[state + 32] = groups[2]
  BY <1>2, <1>3
<1>5. cells[state + 152] = kernel
  BY <1>2, <1>3
<1>6. cells[state + 0] = 0 /\ cells[state + 8] = 0 /\ cells[state + 16] = 0
  BY <1>2, <1>3
<1>7. DOMAIN cells = D /\ cells = [a \in DOMAIN cells |-> cells[a]]
  OBVIOUS
<1>8. /\ reg = [r \in Regs |-> reg[r]] /\ reg[A0] = instance /\ reg[A1] = slice /\ reg[A2] = args
      /\ reg[A3] = state /\ reg[T1] = 0 /\ reg[T2] = 0
  BY DEF Regs, A0, A1, A2, A3, T1, T2
<1> HIDE DEF cells, reg, m
<1>9. m.reg = reg /\ m.mem = cells /\ m = [reg |-> reg, mem |-> cells, stop |-> InRom]
  BY <1>1
<1>10. Hart(m, instance, slice, args, state, 0, 0, m.mem)
  BY <1>8, <1>9 DEF Hart
<1> QED
  BY <1>3, <1>4, <1>5, <1>6, <1>7, <1>9, <1>10 DEF m

-----------------------------------------------------------------------------
(* The functions of the ROM                                                *)

\* The beginning of the functions, and what those of more dimensions add.
StoreGroup(cells, state, offset, value) ==
  [cells EXCEPT ![state + offset] = StoreWord(cells[state + offset], value)]

LEMMA StoresInstance ==
  ASSUME NEW m, NEW instance, NEW slice, NEW args, NEW state, NEW t1, NEW t2, NEW cells,
         Hart(m, instance, slice, args, state, t1, t2, cells)
  PROVE  Hart(Execute(m, AddSW(A0, A3, 0)), instance, slice, args, state, t1, t2,
              StoreGroup(cells, state, 0, instance))
<1>1. 0 \in Immediates
  BY DEF Immediates
<1> QED
  BY <1>1, HartSteps DEF StoreGroup

LEMMA StoresRow ==
  ASSUME NEW m, NEW instance, NEW slice, NEW args, NEW state, NEW t1, NEW t2, NEW cells,
         Hart(m, instance, slice, args, state, t1, t2, cells)
  PROVE  LET m1 == Execute(m, AddLW(T1, A3, 32))
             m2 == Execute(m1, AddMulInst(REMU, T2, A1, T1))
             m3 == Execute(m2, AddSW(T2, A3, 8))
             rows == LoadWord(cells[state + 32])
             row == slice % rows
         IN  Hart(m3, instance, slice, args, state, rows, row, StoreGroup(cells, state, 8, row))
<1> DEFINE from == 32  to == 8
           m1 == Execute(m, AddLW(T1, A3, from))
           m2 == Execute(m1, AddMulInst(REMU, T2, A1, T1))
           m3 == Execute(m2, AddSW(T2, A3, to))
           rows == LoadWord(cells[state + from])
           row == slice % rows
<1>1. from \in Immediates /\ to \in Immediates
  BY DEF Immediates
<1> HIDE DEF from, to
<1>2. Hart(m1, instance, slice, args, state, rows, t2, cells)
  BY <1>1, HartSteps
<1> HIDE DEF m1, rows
<1>3. Hart(m2, instance, slice, args, state, rows, row, cells)
  BY <1>1, <1>2, HartSteps
<1> HIDE DEF m2, row
<1>4. Hart(m3, instance, slice, args, state, rows, row, StoreGroup(cells, state, to, row))
  BY <1>1, <1>3, HartSteps DEF StoreGroup
<1> HIDE DEF m3
<1> QED
  BY <1>4 DEF m1, m2, m3, rows, row, from, to

LEMMA StoresPlane ==
  ASSUME NEW m, NEW instance, NEW slice, NEW args, NEW state, NEW t1, NEW t2, NEW cells,
         Hart(m, instance, slice, args, state, t1, t2, cells)
  PROVE  LET m1 == Execute(m, AddMulInst(DIVU, T2, A1, T1))
             m2 == Execute(m1, AddSW(T2, A3, 16))
             plane == slice \div t1
         IN  Hart(m2, instance, slice, args, state, t1, plane, StoreGroup(cells, state, 16, plane))
<1> DEFINE to == 16
           m1 == Execute(m, AddMulInst(DIVU, T2, A1, T1))
           m2 == Execute(m1, AddSW(T2, A3, to))
           plane == slice \div t1
<1>1. to \in Immediates
  BY DEF Immediates
<1> HIDE DEF to
<1>2. Hart(m1, instance, slice, args, state, t1, plane, cells)
  BY <1>1, HartSteps
<1> HIDE DEF m1, plane
<1>3. Hart(m2, instance, slice, args, state, t1, plane, StoreGroup(cells, state, to, plane))
  BY <1>1, <1>2, HartSteps DEF StoreGroup
<1> HIDE DEF m2
<1> QED
  BY <1>3 DEF m1, m2, plane, to

\* What a function leaves behind when it has filled the memory with cells.
Called(out, args, state, cells) ==
  /\ out.stop = LoadWord(cells[state + 152]) + 0
  /\ out.reg[A0] = args + 0 /\ out.reg[A1] = state + 0 /\ out.mem = cells

\* The three functions.
LEMMA RunsFunction1 ==
  ASSUME NEW m, NEW instance, NEW slice, NEW args, NEW state, NEW t1, NEW t2, NEW cells,
         Hart(m, instance, slice, args, state, t1, t2, cells)
  PROVE  \E out : /\ Called(out, args, state, StoreGroup(cells, state, 0, instance))
                  /\ out.stop # InRom => RunFrom(m, LaunchAddr(1)) = out
<1>0. LaunchAddr(1) = 3 /\ 3 \in 0 .. 26
  BY RomWords
<1>1. PICK f : /\ f[3] = m
               /\ \A n \in 3 + 1 .. 26 : f[n] = Execute(f[n - 1], Rom[n])
               /\ \A n \in 3 .. 26 : f[n].stop # InRom => RunFrom(m, 3) = f[n]
  BY <1>0, RunFromSteps
<1> DEFINE g(n) == f[n]
<1>2. /\ g(4) = Execute(m, AddSW(A0, A3, 0))
      /\ g(5) = Execute(g(4), AddMV(A0, A2)) /\ g(6) = Execute(g(5), AddADDI(A1, A3, 0))
      /\ g(7) = Execute(g(6), AddLW(T1, A3, 152)) /\ g(8) = Execute(g(7), AddJR(T1))
  <2>1. /\ g(4) = Execute(m, Rom[4]) /\ g(5) = Execute(g(4), Rom[5])
        /\ g(6) = Execute(g(5), Rom[6]) /\ g(7) = Execute(g(6), Rom[7])
        /\ g(8) = Execute(g(7), Rom[8])
    BY <1>1
  <2> QED
    BY <2>1, RomWords
<1>3. g(8).stop # InRom => RunFrom(m, 3) = g(8)
  BY <1>1
<1> HIDE DEF g
<1>4. Hart(g(4), instance, slice, args, state, t1, t2, StoreGroup(cells, state, 0, instance))
  BY <1>2, StoresInstance
<1>5. Called(g(8), args, state, StoreGroup(cells, state, 0, instance))
  BY <1>2, <1>4, CallsKernel DEF Called
<1> QED
  BY <1>0, <1>3, <1>5

LEMMA RunsFunction2 ==
  ASSUME NEW m, NEW instance, NEW slice, NEW args, NEW state, NEW t1, NEW t2, NEW cells,
         Hart(m, instance, slice, args, state, t1, t2, cells)
  PROVE  LET mem1 == StoreGroup(cells, state, 0, instance)
             mem2 == StoreGroup(mem1, state, 8, slice % LoadWord(mem1[state + 32]))
         IN  \E out : /\ Called(out, args, state, mem2)
                      /\ out.stop # InRom => RunFrom(m, LaunchAddr(2)) = out
<1> DEFINE mem1 == StoreGroup(cells, state, 0, instance)
           rows == LoadWord(mem1[state + 32])
           row == slice % rows
           mem2 == StoreGroup(mem1, state, 8, row)
<1>0. LaunchAddr(2) = 8 /\ 8 \in 0 .. 26
  BY RomWords
<1>1. PICK f : /\ f[8] = m
               /\ \A n \in 8 + 1 .. 26 : f[n] = Execute(f[n - 1], Rom[n])
               /\ \A n \in 8 .. 26 : f[n].stop # InRom => RunFrom(m, 8) = f[n]
  BY <1>0, RunFromSteps
<1> DEFINE g(n) == f[n]
<1>2. /\ g(9) = Execute(m, AddSW(A0, A3, 0)) /\ g(10) = Execute(g(9), AddLW(T1, A3, 32))
      /\ g(11) = Execute(g(10), AddMulInst(REMU, T2, A1, T1))
      /\ g(12) = Execute(g(11), AddSW(T2, A3, 8))
      /\ g(13) = Execute(g(12), AddMV(A0, A2)) /\ g(14) = Execute(g(13), AddADDI(A1, A3, 0))
      /\ g(15) = Execute(g(14), AddLW(T1, A3, 152)) /\ g(16) = Execute(g(15), AddJR(T1))
  <2>1. /\ g(9) = Execute(m, Rom[9]) /\ g(10) = Execute(g(9), Rom[10])
        /\ g(11) = Execute(g(10), Rom[11]) /\ g(12) = Execute(g(11), Rom[12])
        /\ g(13) = Execute(g(12), Rom[13]) /\ g(14) = Execute(g(13), Rom[14])
        /\ g(15) = Execute(g(14), Rom[15]) /\ g(16) = Execute(g(15), Rom[16])
    BY <1>1
  <2> QED
    BY <2>1, RomWords
<1>3. g(16).stop # InRom => RunFrom(m, 8) = g(16)
  BY <1>1
<1> HIDE DEF g
<1>4. Hart(g(9), instance, slice, args, state, t1, t2, mem1)
  BY <1>2, StoresInstance
<1> HIDE DEF mem1
<1>5. Hart(g(12), instance, slice, args, state, rows, row, mem2)
  BY <1>2, <1>4, StoresRow
<1> HIDE DEF rows, row, mem2
<1>6. Called(g(16), args, state, mem2)
  BY <1>2, <1>5, CallsKernel DEF Called
<1> QED
  BY <1>0, <1>3, <1>6 DEF mem1, rows, row, mem2

LEMMA RunsFunction3 ==
  ASSUME NEW m, NEW instance, NEW slice, NEW args, NEW state, NEW t1, NEW t2, NEW cells,
         Hart(m, instance, slice, args, state, t1, t2, cells)
  PROVE  LET mem1 == StoreGroup(cells, state, 0, instance)
             mem2 == StoreGroup(mem1, state, 8, slice % LoadWord(mem1[state + 32]))
             mem3 == StoreGroup(mem2, state, 16, slice \div LoadWord(mem1[state + 32]))
         IN  \E out : /\ Called(out, args, state, mem3)
                      /\ out.stop # InRom => RunFrom(m, LaunchAddr(3)) = out
<1> DEFINE mem1 == StoreGroup(cells, state, 0, instance)
           rows == LoadWord(mem1[state + 32])
           row == slice % rows  plane == slice \div rows
           mem2 == StoreGroup(mem1, state, 8, row)
           mem3 == StoreGroup(mem2, state, 16, plane)
<1>0. LaunchAddr(3) = 16 /\ 16 \in 0 .. 26
  BY RomWords
<1>1. PICK f : /\ f[16] = m
               /\ \A n \in 16 + 1 .. 26 : f[n] = Execute(f[n - 1], Rom[n])
               /\ \A n \in 16 .. 26 : f[n].stop # InRom => RunFrom(m, 16) = f[n]
  BY <1>0, RunFromSteps
<1> DEFINE g(n) == f[n]
<1>2. /\ g(17) = Execute(m, AddSW(A0, A3, 0)) /\ g(18) = Execute(g(17), AddLW(T1, A3, 32))
      /\ g(19) = Execute(g(18), AddMulInst(REMU, T2, A1, T1))
      /\ g(20) = Execute(g(19), AddSW(T2, A3, 8))
      /\ g(21) = Execute(g(20), AddMulInst(DIVU, T2, A1, T1))
      /\ g(22) = Execute(g(21), AddSW(T2, A3, 16))
      /\ g(23) = Execute(g(22), AddMV(A0, A2)) /\ g(24) = Execute(g(23), AddADDI(A1, A3, 0))
      /\ g(25) = Execute(g(24), AddLW(T1, A3, 152)) /\ g(26) = Execute(g(25), AddJR(T1))
  <2>1. /\ g(17) = Execute(m, Rom[17]) /\ g(18) = Execute(g(17), Rom[18])
        /\ g(19) = Execute(g(18), Rom[19]) /\ g(20) = Execute(g(19), Rom[20])
        /\ g(21) = Execute(g(20), Rom[21]) /\ g(22) = Execute(g(21), Rom[22])
        /\ g(23) = Execute(g(22), Rom[23]) /\ g(24) = Execute(g(23), Rom[24])
        /\ g(25) = Execute(g(24), Rom[25]) /\ g(26) = Execute(g(25), Rom[26])
    BY <1>1
  <2> QED
    BY <2>1, RomWords
<1>3. g(26).stop # InRom => RunFrom(m, 16) = g(26)
  BY <1>1
<1> HIDE DEF g
<1>4. Hart(g(17), instance, slice, args, state, t1, t2, mem1)
  BY <1>2, StoresInstance
<1> HIDE DEF mem1
<1>5. Hart(g(20), instance, slice, args, state, rows, row, mem2)
  BY <1>2, <1>4, StoresRow
<1> HIDE DEF row, mem2
<1>6. Hart(g(22), instance, slice, args, state, rows, plane, mem3)
  <2> HIDE DEF rows
  <2> QED
    BY <1>2, <1>5, StoresPlane
<1> HIDE DEF rows, plane, mem3
<1>7. Called(g(26), args, state, mem3)
  BY <1>2, <1>6, CallsKernel DEF Called
<1> QED
  BY <1>0, <1>3, <1>7 DEF mem1, rows, row, plane, mem2, mem3

\* What a hart that enters the ROM for an instance does: it enters the kernel with
\* its arguments, the execution state and the three coordinates of the group.
RunsFor(state, kernel, args, groups, instance, slice, dims) ==
  LET m == RunFrom(Entered(state, kernel, args, groups, instance, slice), LaunchAddr(dims))
  IN  /\ m.stop = kernel /\ m.reg[A0] = args /\ m.reg[A1] = state
      /\ m.mem[state + 0] = instance
      /\ m.mem[state + 8] = (IF dims > 1 THEN slice % groups[2] ELSE 0)
      /\ m.mem[state + 16] = (IF dims > 2 THEN slice \div groups[2] ELSE 0)

\* The coordinates of a work-group, its number of groups and the address of its
\* kernel fit what the ROM stores and loads.
Fits(kernel, groups, instance, slice, dims) ==
  /\ kernel < Half /\ instance < Word
  /\ dims > 1 => groups[2] < Half
  /\ dims > 2 => slice \div groups[2] < Word

\* What fits is loaded as it was stored.
LEMMA WordsFit ==
  /\ \A v \in 0 .. Half - 1 : LoadWord(v) = v /\ v < Word
  /\ \A v \in 0 .. Word - 1 : StoreWord(0, v) = v
<1>1. Word \in Nat \ {0} /\ Half \in Nat /\ Word = Half + Half
  BY RomAssumption DEF Word
<1>2. ASSUME NEW v \in 0 .. Word - 1
      PROVE  v % Word = v
  BY <1>1, <1>2
<1>3. 0 % Word = 0
  BY <1>1, <1>2
<1> QED
  BY <1>1, <1>2, <1>3 DEF LoadWord, StoreWord

\* The words of the ROM, executed by a hart, call the kernel for the work-group
\* of the instance: for any state, kernel, arguments and number of groups that
\* fit its loads and stores.
THEOREM RomRunsKernel ==
  ASSUME NEW state \in Nat, NEW kernel \in Nat, NEW args \in Nat,
         NEW groups \in [1 .. 3 -> Nat \ {0}], NEW instance \in Nat, NEW slice \in Nat,
         NEW dims \in 1 .. 3, Fits(kernel, groups, instance, slice, dims)
  PROVE  RunsFor(state, kernel, args, groups, instance, slice, dims)
<1> SUFFICES
      LET m == RunFrom(Entered(state, kernel, args, groups, instance, slice), LaunchAddr(dims))
      IN  /\ m.stop = kernel /\ m.reg[A0] = args /\ m.reg[A1] = state
          /\ m.mem[state + 0] = instance
          /\ m.mem[state + 8] = (IF dims > 1 THEN slice % groups[2] ELSE 0)
          /\ m.mem[state + 16] = (IF dims > 2 THEN slice \div groups[2] ELSE 0)
  BY DEF RunsFor
<1> DEFINE enter == Entered(state, kernel, args, groups, instance, slice)
           mem0 == enter.mem
           row == slice % groups[2]  plane == slice \div groups[2]
           mem1 == StoreGroup(mem0, state, 0, instance)
           mem2 == StoreGroup(mem1, state, 8, row)
           mem3 == StoreGroup(mem2, state, 16, plane)
<1>1. /\ Hart(enter, instance, slice, args, state, 0, 0, mem0)
      /\ mem0[state + 32] = groups[2] /\ mem0[state + 152] = kernel
      /\ mem0[state + 0] = 0 /\ mem0[state + 8] = 0 /\ mem0[state + 16] = 0
      /\ state + 0 \in DOMAIN mem0 /\ state + 8 \in DOMAIN mem0 /\ state + 16 \in DOMAIN mem0
      /\ state + 32 \in DOMAIN mem0 /\ state + 152 \in DOMAIN mem0
      /\ mem0 = [a \in DOMAIN mem0 |-> mem0[a]]
  BY EntersAsHart
<1> HIDE DEF enter, mem0
<1>2. /\ LoadWord(kernel) = kernel /\ StoreWord(0, instance) = instance
      /\ dims > 1 => LoadWord(groups[2]) = groups[2] /\ StoreWord(0, row) = row
      /\ dims > 2 => StoreWord(0, plane) = plane
  <2>1. Word \in Nat /\ Half \in Nat
    BY RomAssumption DEF Word
  <2>2. kernel \in 0 .. Half - 1 /\ instance \in 0 .. Word - 1
    BY <2>1 DEF Fits
  <2>3. groups[2] \in Nat \ {0} /\ row \in 0 .. groups[2] - 1 /\ plane \in Nat
    OBVIOUS
  <2>4. dims > 2 => dims > 1
    OBVIOUS
  <2> HIDE DEF row
  <2>5. ASSUME dims > 1
        PROVE  groups[2] \in 0 .. Half - 1 /\ row \in 0 .. Half - 1
    BY <2>1, <2>3, <2>5 DEF Fits
  <2>6. ASSUME dims > 1
        PROVE  row \in 0 .. Word - 1
    BY <2>5, <2>6, <2>1 DEF Word
  <2>7. ASSUME dims > 2
        PROVE  plane \in 0 .. Word - 1
    BY <2>1, <2>3, <2>7 DEF Fits
  <2> HIDE DEF plane
  <2> QED
    BY <2>2, <2>5, <2>6, <2>7, WordsFit
<1> HIDE DEF row, plane
<1>3. /\ mem1[state + 32] = groups[2] /\ mem1[state + 152] = kernel
      /\ mem1[state + 0] = instance /\ mem1[state + 8] = 0 /\ mem1[state + 16] = 0
      /\ DOMAIN mem1 = DOMAIN mem0
  BY <1>1, <1>2 DEF StoreGroup
<1> HIDE DEF mem1
<1>4. ASSUME dims > 1
      PROVE  /\ mem2[state + 152] = kernel
             /\ mem2[state + 0] = instance /\ mem2[state + 8] = row /\ mem2[state + 16] = 0
             /\ DOMAIN mem2 = DOMAIN mem0
  BY <1>1, <1>2, <1>3, <1>4 DEF StoreGroup
<1> HIDE DEF mem2
<1>5. ASSUME dims > 2
      PROVE  /\ mem3[state + 152] = kernel
             /\ mem3[state + 0] = instance /\ mem3[state + 8] = row /\ mem3[state + 16] = plane
  <2>1. dims > 1
    BY <1>5
  <2> QED
    BY <1>1, <1>2, <1>4, <1>5, <2>1 DEF StoreGroup
<1> HIDE DEF mem3
<1>6. ASSUME NEW out, NEW cells, cells[state + 152] = kernel, Called(out, args, state, cells)
      PROVE  /\ out.stop = kernel /\ out.stop # InRom /\ out.mem = cells
             /\ out.reg[A0] = args /\ out.reg[A1] = state
  BY <1>2, <1>6 DEF Called, InRom
<1>7. CASE dims = 1
  <2>1. PICK out : /\ Called(out, args, state, mem1)
                   /\ out.stop # InRom => RunFrom(enter, LaunchAddr(1)) = out
    BY <1>1, RunsFunction1 DEF mem1
  <2> QED
    BY <1>3, <1>6, <1>7, <2>1 DEF enter
<1>8. CASE dims = 2
  <2>1. PICK out : /\ Called(out, args, state, mem2)
                   /\ out.stop # InRom => RunFrom(enter, LaunchAddr(2)) = out
    <3>1. mem2 = StoreGroup(mem1, state, 8, slice % LoadWord(mem1[state + 32]))
      BY <1>2, <1>3, <1>8 DEF mem2, row
    <3> QED
      BY <1>1, <3>1, RunsFunction2 DEF mem1
  <2>2. dims > 1
    BY <1>8
  <2> QED
    BY <1>4, <1>6, <1>8, <2>1, <2>2 DEF enter, row
<1>9. CASE dims = 3
  <2>1. PICK out : /\ Called(out, args, state, mem3)
                   /\ out.stop # InRom => RunFrom(enter, LaunchAddr(3)) = out
    <3>1. /\ mem2 = StoreGroup(mem1, state, 8, slice % LoadWord(mem1[state + 32]))
          /\ mem3 = StoreGroup(mem2, state, 16, slice \div LoadWord(mem1[state + 32]))
      BY <1>2, <1>3, <1>9 DEF mem2, mem3, row, plane
    <3> QED
      BY <1>1, <3>1, RunsFunction3 DEF mem1
  <2>2. dims > 2
    BY <1>9
  <2> QED
    BY <1>5, <1>6, <1>9, <2>1, <2>2 DEF enter, row, plane
<1> QED
  BY <1>7, <1>8, <1>9

\* A kernel that returns to the ROM exits without an error, whatever it leaves in
\* the registers.
THEOREM RomExits ==
  ASSUME NEW value
  PROVE  ExitFor(value) = << InHost, 0, 0 >>
<1> DEFINE enter == [reg |-> [r \in 0 .. 31 |-> IF r = Zero THEN 0 ELSE value],
                     mem |-> <<>>, stop |-> InRom]
<1>0. 0 \in 0 .. 26
  OBVIOUS
<1> HIDE DEF enter
<1>1. PICK f : /\ f[0] = enter
               /\ \A n \in 0 + 1 .. 26 : f[n] = Execute(f[n - 1], Rom[n])
               /\ \A n \in 0 .. 26 : f[n].stop # InRom => RunFrom(enter, 0) = f[n]
  BY <1>0, RunFromSteps
<1>2. /\ f[1] = Execute(f[0], AddADDI(A0, Zero, 0))
      /\ f[2] = Execute(f[1], AddADDI(A7, Zero, 0))
      /\ f[3] = Execute(f[2], AddECALL)
  <2>1. /\ f[1] = Execute(f[0], Rom[1]) /\ f[2] = Execute(f[1], Rom[2])
        /\ f[3] = Execute(f[2], Rom[3])
    BY <1>1
  <2> QED
    BY <2>1, RomWords DEF AddLI
<1>3. /\ A0 \in DestRegs /\ A7 \in DestRegs /\ Zero \in Regs /\ 0 \in Immediates
      /\ A0 # Zero /\ A7 # Zero /\ A0 # A7 /\ A0 \in Regs /\ A7 \in Regs
  BY DEF A0, A7, Zero, DestRegs, Regs, Immediates
<1>4. f[0] = [reg |-> [r \in Regs |-> IF r = Zero THEN 0 ELSE value], mem |-> <<>>, stop |-> InRom]
  BY <1>1 DEF Regs, enter
<1>5. f[0].stop = InRom /\ f[0].reg[Zero] = 0
  BY <1>3, <1>4
<1>6. f[1] = Put(f[0], A0, 0)
  <2>1. f[1] = Put(f[0], A0, f[0].reg[Zero] + 0)
    BY <1>2, <1>3, <1>5, DoesADDI
  <2> QED
    BY <1>5, <2>1
<1>7. /\ f[1].stop = InRom /\ f[1].reg[Zero] = 0 /\ f[1].reg[A0] = 0
      /\ f[1] = [reg |-> f[1].reg, mem |-> <<>>, stop |-> InRom]
      /\ f[1].reg = [r \in Regs |-> f[1].reg[r]]
  <2> DEFINE reg0 == [r \in Regs |-> IF r = Zero THEN 0 ELSE value]
             reg1 == [reg0 EXCEPT ![A0] = 0]
  <2>1. f[1] = [reg |-> reg1, mem |-> <<>>, stop |-> InRom]
    <3> HIDE DEF reg0
    <3>1. f[0] = [reg |-> reg0, mem |-> <<>>, stop |-> InRom]
      BY <1>4 DEF reg0
    <3>2. Put(f[0], A0, 0) = [reg |-> reg1, mem |-> <<>>, stop |-> InRom]
      BY <3>1 DEF Put
    <3> QED
      BY <1>6, <3>2
  <2>2. reg1 = [r \in Regs |-> reg1[r]] /\ reg1[Zero] = 0 /\ reg1[A0] = 0
    BY <1>3
  <2> HIDE DEF reg0, reg1
  <2> QED
    BY <2>1, <2>2
<1>8. f[2] = Put(f[1], A7, 0)
  <2>1. f[2] = Put(f[1], A7, f[1].reg[Zero] + 0)
    BY <1>2, <1>3, <1>7, DoesADDI
  <2> QED
    BY <1>7, <2>1
<1>9. f[2].stop = InRom /\ f[2].reg[A0] = 0 /\ f[2].reg[A7] = 0
      /\ f[2] = [reg |-> f[2].reg, mem |-> <<>>, stop |-> InRom]
  BY <1>3, <1>7, <1>8 DEF Put
<1>10. f[3] = Leave(f[2], InHost)
  BY <1>2, <1>9, DoesECALL
<1>11. f[3].stop = InHost /\ f[3].reg = f[2].reg
  BY <1>9, <1>10 DEF Leave
<1>12. RunFrom(enter, 0) = f[3]
  BY <1>1, <1>11 DEF InHost, InRom
<1> QED
  BY <1>9, <1>11, <1>12 DEF ExitFor, enter

-----------------------------------------------------------------------------
(* The launches                                                            *)

\* The call that a kernel receives for an instance.
LEMMA CallIsGroup ==
  ASSUME NEW dims \in 1 .. 3, NEW groups \in [1 .. 3 -> Nat \ {0}],
         NEW instance \in Nat, NEW slice \in Nat, Fits(Half - 1, groups, instance, slice, dims)
  PROVE  CallFor(dims, groups, instance, slice)
           = [kernel |-> TRUE, args |-> TRUE, wg |-> TRUE,
              group |-> GroupOf(dims, groups, instance, slice)]
<1> DEFINE state == 160  kernel == Half - 1  args == 500
           m == RunFrom(Entered(state, kernel, args, groups, instance, slice), LaunchAddr(dims))
           row == IF dims > 1 THEN slice % groups[2] ELSE 0
           plane == IF dims > 2 THEN slice \div groups[2] ELSE 0
<1>1. /\ GroupIdOffset(0) = 0 /\ GroupIdOffset(1) = 8 /\ GroupIdOffset(2) = 16 /\ WgOffset = 0
  BY DEF GroupIdOffset, WgOffset
<1>2. CallFor(dims, groups, instance, slice)
        = [kernel |-> m.stop = kernel, args |-> m.reg[A0] = args, wg |-> m.reg[A1] = state + 0,
           group |-> << m.mem[state + 0], m.mem[state + 8], m.mem[state + 16] >>]
  BY <1>1 DEF CallFor
<1>3. state \in Nat /\ kernel \in Nat /\ args \in Nat /\ Fits(kernel, groups, instance, slice, dims)
  BY RomAssumption
<1>4. /\ m.stop = kernel /\ m.reg[A0] = args /\ m.reg[A1] = state
      /\ m.mem[state + 0] = instance /\ m.mem[state + 8] = row /\ m.mem[state + 16] = plane
  <2>1. RunsFor(state, kernel, args, groups, instance, slice, dims)
    BY <1>3, RomRunsKernel
  <2> QED
    BY <2>1 DEF RunsFor
<1> HIDE DEF state, kernel, args
<1> HIDE DEF m
<1>5. GroupOf(dims, groups, instance, slice) = << instance, row, plane >>
  BY DEF GroupOf
<1> HIDE DEF row, plane
<1>6. (m.stop = kernel) = TRUE /\ (m.reg[A0] = args) = TRUE /\ (m.reg[A1] = state + 0) = TRUE
  BY <1>3, <1>4
<1> QED
  BY <1>2, <1>4, <1>5, <1>6

\* The ROM does what the launches count on, for ranges of any size that fits its
\* loads and stores: every instance of a slice calls the kernel with its arguments
\* and execution state for the work-group GroupOf gives, and what returns to the
\* ROM exits.
THEOREM RomRunsEveryLaunch == GroupsFit => (Spec => []RomComputesGroups)
<1> SUFFICES ASSUME GroupsFit PROVE Spec => []RomComputesGroups
  OBVIOUS
<1>1. LaunchInv => RomComputesGroups
  <2> SUFFICES ASSUME LaunchInv, queue # <<>>, Executing("RUN"),
                      NEW i \in 0 .. Command.instances - 1
               PROVE  CallFor(entry, exec.groups, i, Command.slice)
                        = [kernel |-> TRUE, args |-> TRUE, wg |-> TRUE,
                           group |-> GroupOf(entry, exec.groups, i, Command.slice)]
    BY RomExits DEF RomComputesGroups
  <2> DEFINE r == Latest.range  s == at - FirstRun
  <2>1. Command.op = "RUN"
    BY DEF Executing, Command
  <2>2. s \in SliceIds(r) /\ Command.slice = s /\ Command.instances = r.groups[1]
    BY <2>1, CommandNow
  <2>3. r \in Ranges /\ at \in Nat /\ at > 3
    <3>1. r \in Ranges /\ at \in 1 .. FinishAt(r)
      BY CmpFacts
    <3> QED
      BY <2>2, <3>1, Positions DEF SliceIds
  <2>4. exec.groups = r.groups /\ entry = r.dim
    BY <2>3 DEF LaunchInv, ParametersInv
  <2>5. r.dim \in {1, 2, 3} /\ r.groups \in [1 .. 3 -> Nat \ {0}] /\ i \in Nat /\ s \in Nat
    <3> HIDE DEF r
    <3>1. /\ r.groups[1] \in Nat /\ r.groups[2] \in Nat /\ r.groups[3] \in Nat
          /\ r.dim \in {1, 2, 3} /\ Slices(r) = r.groups[2] * r.groups[3]
          /\ r.groups \in [1 .. 3 -> Nat]
      BY <2>3, RangeShape, LaunchAssumption DEF Dims
    <3>2. i \in Nat /\ r.groups[1] # 0
      BY <2>2, <3>1
    <3>3. s \in Nat /\ Slices(r) # 0
      BY <2>2, <3>1 DEF SliceIds
    <3>4. r.groups[2] # 0 /\ r.groups[3] # 0
      BY <3>1, <3>3
    <3> QED
      BY <3>1, <3>2, <3>3, <3>4
  <2>6. Fits(Half - 1, r.groups, i, s, r.dim)
    <3>1. GroupOf(r.dim, r.groups, i, s) \in Groups(r)
      BY <2>2, <2>3, GroupsAreInRange DEF Instances
    <3> HIDE DEF r, s
    <3>2. r.dim > 2 => s \div r.groups[2] < r.groups[3]
      <4>1. GroupOf(r.dim, r.groups, i, s)[3] < r.groups[3]
        BY <2>5, <3>1 DEF Groups
      <4> QED
        BY <4>1 DEF GroupOf
    <3>3. i < r.groups[1]
      BY <2>2, <2>5
    <3>4. r.groups[1] <= Word /\ r.groups[2] < Half /\ r.groups[3] <= Word
      BY <2>3 DEF GroupsFit
    <3>5. Word \in Nat /\ Half \in Nat
      BY RomAssumption DEF Word
    <3>6. s \div r.groups[2] \in Nat
      BY <2>5
    <3> QED
      BY <2>5, <3>2, <3>3, <3>4, <3>5, <3>6 DEF Fits
  <2> DEFINE dims == entry  groups == exec.groups  slice == Command.slice
  <2>7. /\ dims \in 1 .. 3 /\ groups \in [1 .. 3 -> Nat \ {0}] /\ i \in Nat /\ slice \in Nat
        /\ Fits(Half - 1, groups, i, slice, dims)
    BY <2>2, <2>4, <2>5, <2>6
  <2> HIDE DEF r, s, dims, groups, slice
  <2>8. CallFor(dims, groups, i, slice)
          = [kernel |-> TRUE, args |-> TRUE, wg |-> TRUE, group |-> GroupOf(dims, groups, i, slice)]
    BY <2>7, CallIsGroup
  <2> QED
    BY <2>8 DEF dims, groups, slice
<1> QED
  BY <1>1, LaunchInvariant, PTL

=============================================================================
