------------------------ MODULE CommandProcessorProofs ------------------------
(***************************************************************************)
(* Proofs about CommandProcessor, for every sequence of commands.          *)
(***************************************************************************)
EXTENDS CommandProcessor, MemoryWindowsProofs

\* The values that commands carry fit the registers of the windows.
LEMMA FieldsAreTyped ==
  ASSUME NEW v \in Nat
  PROVE  /\ ActiveField(v) \in BOOLEAN /\ ModeField(v) \in Modes
         /\ SizeField(v) \in Nat /\ ScaleField(v) \in Nat
<1>1. v \div 8 \in Nat /\ v \div 4 \in Nat /\ v % 4 \in 0 .. 3
  OBVIOUS
<1>2. ScaleField(v) \in Nat
  <2> DEFINE factor == (v \div 4) + 1
  <2>1. factor \in Nat /\ 2 * factor \in Nat /\ 4 * factor \in Nat
    BY <1>1
  <2> HIDE DEF factor
  <2>2. v % 4 = 0 \/ v % 4 = 1 \/ v % 4 = 2 \/ v % 4 = 3
    BY <1>1
  <2>3. ScaleField(v) = CASE v % 4 = 0 -> 0
                          [] v % 4 = 1 -> factor
                          [] v % 4 = 2 -> 2 * factor
                          [] v % 4 = 3 -> 4 * factor
    BY DEF ScaleField, factor
  <2> QED
    BY <2>1, <2>2, <2>3
<1> QED
  BY <1>1, <1>2 DEF ActiveField, ModeField, SizeField, Modes

\* The values a register can be written with.
LEMMA ValuesAreTyped ==
  ASSUME NEW kind \in Kinds, NEW w \in Windows, NEW v \in Values(kind, w)
  PROVE  v \in Nat /\ (kind = "BASE" => v \in Bases[w])
BY WindowsAssumption, CommandsAssumption DEF Values, Kinds

\* A WRITE_REG64 reaches one register of one window.
LEMMA WindowWriteIsRegWrite ==
  ASSUME NEW kind \in Kinds, NEW w \in Windows, NEW v \in Values(kind, w),
         WindowWrite(kind, w, v)
  PROVE  RegWrite(w)
BY ValuesAreTyped, FieldsAreTyped DEF WindowWrite, RegWrite

\* The window's configuration then is the one that was written, but for the
\* ACTIVE bit that a change of settings clears.
LEMMA HandleSetsConfig ==
  ASSUME RegInv, NEW w \in Windows, NEW c \in Config, NEW changed,
         HandleRegWrite(w, c, changed)
  PROVE  /\ config' \in [Windows -> Config]
         /\ \A x \in Windows \ {w} : config'[x] = config[x]
         /\ config'[w] = c \/ config'[w] = [c EXCEPT !.active = FALSE]
<1>1. [c EXCEPT !.active = FALSE] \in Config
  BY DEF Config
<1>2. config' = [config EXCEPT ![w] = c] \/ config' = [config EXCEPT ![w] = [c EXCEPT !.active = FALSE]]
  BY DEF HandleRegWrite, Disable, Enable, Store
<1> QED
  BY <1>1, <1>2 DEF RegInv, ConfigsTyped

-----------------------------------------------------------------------------
RegistersTyped == registers \in [WindowRegs -> Nat] /\ drifted \subseteq WindowRegs

\* A register that has not drifted describes its part of the configuration.
Describes(w) ==
  /\ <<"BASE", w>> \notin drifted => config[w].base = registers[<<"BASE", w>>]
  /\ <<"TARGET", w>> \notin drifted => config[w].target = registers[<<"TARGET", w>>]
  /\ <<"SCALE", w>> \notin drifted =>
       config[w].scale = ScaleField(registers[<<"SCALE", w>>])
  /\ <<"MODE", w>> \notin drifted =>
       /\ config[w].mode = ModeField(registers[<<"MODE", w>>])
       /\ config[w].size = SizeField(registers[<<"MODE", w>>])
       /\ config[w].active => ActiveField(registers[<<"MODE", w>>])

CmpInv == RegInv /\ RegistersTyped /\ \A w \in Windows : Describes(w)

\* A write of one register leaves what the others describe, and the written
\* register describes what was written.
LEMMA WriteRegKeepsInv ==
  ASSUME CmpInv, NEW kind \in Kinds, NEW w \in Windows, NEW v \in Values(kind, w),
         WriteReg(kind, w, v)
  PROVE  CmpInv'
<1>0. v \in Nat
  BY ValuesAreTyped
<1>1. WindowWrite(kind, w, v)
  BY DEF WriteReg
<1>2. RegInv'
  <2>1. PICK c \in Config, changed \in BOOLEAN :
          GoodWrite(w, c, changed) /\ HandleRegWrite(w, c, changed)
    BY <1>1, WindowWriteIsRegWrite, RegWriteIsGood DEF CmpInv
  <2> QED
    BY <2>1, HandleKeepsInv DEF CmpInv
<1>3. /\ RegistersTyped'
      /\ \/ /\ drifted' = drifted \cup {<<kind, w>>}
            /\ registers' = registers
         \/ /\ drifted' = drifted \ {<<kind, w>>}
            /\ registers' = [registers EXCEPT ![<<kind, w>>] = v]
  BY <1>0 DEF WriteReg, CmpInv, RegistersTyped, WindowRegs
<1>4. PICK c \in Config :
        /\ kind = "BASE" => c = [config[w] EXCEPT !.base = v]
        /\ kind = "TARGET" => c = [config[w] EXCEPT !.target = v]
        /\ kind = "SCALE" => c = [config[w] EXCEPT !.scale = ScaleField(v)]
        /\ kind = "MODE" => c = [config[w] EXCEPT !.active = ActiveField(v),
                                 !.mode = ModeField(v), !.size = SizeField(v)]
        /\ config' \in [Windows -> Config]
        /\ \A x \in Windows \ {w} : config'[x] = config[x]
        /\ config'[w] = c \/ config'[w] = [c EXCEPT !.active = FALSE]
  <2>1. config[w] \in Config
    BY DEF CmpInv, RegInv, ConfigsTyped
  <2>2. CASE kind = "BASE"
    <3> DEFINE c == [config[w] EXCEPT !.base = v]
    <3>1. c \in Config
      BY <1>0, <2>1 DEF Config
    <3>2. HandleRegWrite(w, c, v # mapped[w].base)
      BY <1>1, <2>2 DEF WindowWrite, WriteBase
    <3> HIDE DEF c
    <3>3. /\ config' \in [Windows -> Config]
          /\ \A x \in Windows \ {w} : config'[x] = config[x]
          /\ config'[w] = c \/ config'[w] = [c EXCEPT !.active = FALSE]
      BY <3>1, <3>2, HandleSetsConfig DEF CmpInv
    <3> QED
      BY <2>2, <3>1, <3>3 DEF c
  <2>3. CASE kind = "TARGET"
    <3> DEFINE c == [config[w] EXCEPT !.target = v]
    <3>1. c \in Config
      BY <1>0, <2>1 DEF Config
    <3>2. HandleRegWrite(w, c, v # mapped[w].target)
      BY <1>1, <2>3 DEF WindowWrite, WriteTarget
    <3> HIDE DEF c
    <3>3. /\ config' \in [Windows -> Config]
          /\ \A x \in Windows \ {w} : config'[x] = config[x]
          /\ config'[w] = c \/ config'[w] = [c EXCEPT !.active = FALSE]
      BY <3>1, <3>2, HandleSetsConfig DEF CmpInv
    <3> QED
      BY <2>3, <3>1, <3>3 DEF c
  <2>4. CASE kind = "SCALE"
    <3> DEFINE c == [config[w] EXCEPT !.scale = ScaleField(v)]
    <3>1. c \in Config
      BY <1>0, <2>1, FieldsAreTyped DEF Config
    <3>2. HandleRegWrite(w, c, ScaleField(v) # mapped[w].scale)
      BY <1>1, <2>4 DEF WindowWrite, WriteScale
    <3> HIDE DEF c
    <3>3. /\ config' \in [Windows -> Config]
          /\ \A x \in Windows \ {w} : config'[x] = config[x]
          /\ config'[w] = c \/ config'[w] = [c EXCEPT !.active = FALSE]
      BY <3>1, <3>2, HandleSetsConfig DEF CmpInv
    <3> QED
      BY <2>4, <3>1, <3>3 DEF c
  <2>5. CASE kind = "MODE"
    <3> DEFINE c == [config[w] EXCEPT !.active = ActiveField(v),
                     !.mode = ModeField(v), !.size = SizeField(v)]
    <3>1. c \in Config
      BY <1>0, <2>1, FieldsAreTyped DEF Config
    <3>2. HandleRegWrite(w, c, \/ ModeField(v) # mapped[w].mode
                               \/ SizeField(v) # mapped[w].size)
      BY <1>1, <2>5 DEF WindowWrite, WriteMode
    <3> HIDE DEF c
    <3>3. /\ config' \in [Windows -> Config]
          /\ \A x \in Windows \ {w} : config'[x] = config[x]
          /\ config'[w] = c \/ config'[w] = [c EXCEPT !.active = FALSE]
      BY <3>1, <3>2, HandleSetsConfig DEF CmpInv
    <3> QED
      BY <2>5, <3>1, <3>3 DEF c
  <2> QED
    BY <2>2, <2>3, <2>4, <2>5 DEF Kinds
<1>5. ASSUME NEW x \in Windows
      PROVE  Describes(x)'
  <2>1. CASE x # w
    <3>1. config'[x] = config[x]
      BY <1>4, <2>1
    <3>2. \A k \in Kinds : /\ <<k, x>> \in drifted' <=> <<k, x>> \in drifted
                           /\ registers'[<<k, x>>] = registers[<<k, x>>]
      BY <1>3, <2>1 DEF CmpInv, RegistersTyped, WindowRegs
    <3> QED
      BY <3>1, <3>2 DEF CmpInv, Describes, Kinds
  <2>2. CASE x = w
    <3> config[w] \in Config /\ config'[w] \in Config
      BY <1>4 DEF CmpInv, RegInv, ConfigsTyped
    <3>1. \A k \in Kinds \ {kind} :
             /\ <<k, w>> \in drifted' <=> <<k, w>> \in drifted
             /\ registers'[<<k, w>>] = registers[<<k, w>>]
      BY <1>3 DEF CmpInv, RegistersTyped, WindowRegs
    <3>2. <<kind, w>> \notin drifted' => registers'[<<kind, w>>] = v
      BY <1>3 DEF CmpInv, RegistersTyped, WindowRegs
    <3>3. CASE kind = "BASE"
      BY <1>4, <2>2, <3>1, <3>2, <3>3 DEF CmpInv, Describes, Kinds, Config
    <3>4. CASE kind = "TARGET"
      BY <1>4, <2>2, <3>1, <3>2, <3>4 DEF CmpInv, Describes, Kinds, Config
    <3>5. CASE kind = "SCALE"
      BY <1>4, <2>2, <3>1, <3>2, <3>5 DEF CmpInv, Describes, Kinds, Config
    <3>6. CASE kind = "MODE"
      <4>1. /\ config'[w].mode = ModeField(v) /\ config'[w].size = SizeField(v)
            /\ config'[w].base = config[w].base
            /\ config'[w].target = config[w].target
            /\ config'[w].scale = config[w].scale
        <5>1. /\ c.mode = ModeField(v) /\ c.size = SizeField(v)
              /\ c.base = config[w].base /\ c.target = config[w].target
              /\ c.scale = config[w].scale
          <6>1. c = [config[w] EXCEPT !.active = ActiveField(v),
                     !.mode = ModeField(v), !.size = SizeField(v)]
            BY <1>4, <3>6
          <6> QED
            BY <6>1 DEF Config
        <5> QED
          BY <1>4, <5>1 DEF Config
      <4>2. config'[w].active => ActiveField(v)
        <5>1. c.active = ActiveField(v)
          BY <1>4, <3>6 DEF Config
        <5> QED
          BY <1>4, <5>1 DEF Config
      <4> QED
        BY <2>2, <3>1, <3>2, <3>6, <4>1, <4>2 DEF CmpInv, Describes, Kinds
    <3> QED
      BY <3>3, <3>4, <3>5, <3>6 DEF Kinds
  <2> QED
    BY <2>1, <2>2
<1> QED
  BY <1>2, <1>3, <1>5 DEF CmpInv

\* LOAD_REG64 changes no configuration, and no register that describes one.
LEMMA LoadRegKeepsInv ==
  ASSUME CmpInv, NEW r \in WindowRegs, NEW addr, NEW v \in Nat, LoadReg(r, addr, v)
  PROVE  CmpInv'
<1>1. /\ UNCHANGED vars
      /\ \/ UNCHANGED <<registers, drifted>>
         \/ /\ registers' = [registers EXCEPT ![r] = v]
            /\ drifted' = drifted \cup {r}
  BY DEF LoadReg
<1>2. RegInv'
  BY <1>1 DEF CmpInv, vars, RegInv, ConfigsTyped, NoStaleConfig, OwnBase, IsMapped
<1>3. RegistersTyped'
  BY <1>1 DEF CmpInv, RegistersTyped
<1>4. ASSUME NEW w \in Windows
      PROVE  Describes(w)'
  <2>1. \A k \in Kinds : <<k, w>> \notin drifted' =>
          <<k, w>> \notin drifted /\ registers'[<<k, w>>] = registers[<<k, w>>]
    BY <1>1 DEF CmpInv, RegistersTyped, WindowRegs
  <2> QED
    BY <1>1, <2>1 DEF CmpInv, Describes, Kinds, vars
<1> QED
  BY <1>2, <1>3, <1>4 DEF CmpInv

LEMMA CmpInvHolds == CSpec => []CmpInv
<1>1. CInit => CmpInv
  <2> SUFFICES ASSUME CInit PROVE CmpInv
    OBVIOUS
  <2>1. RegInv
    BY DEF CInit, Init, RegInv, ConfigsTyped, NoStaleConfig, OwnBase, IsMapped,
           Config, DefaultConfig, Modes
  <2>2. RegistersTyped
    BY DEF CInit, RegistersTyped, WindowRegs, Kinds
  <2>3. ASSUME NEW w \in Windows
        PROVE  Describes(w)
    <3>1. \A k \in Kinds : registers[<<k, w>>] = 0
      BY DEF CInit, WindowRegs
    <3>2. ScaleField(0) = 0
      BY DEF ScaleField
    <3>3. <<"MODE", w>> \in drifted
      BY DEF CInit
    <3> QED
      BY <3>1, <3>2, <3>3 DEF CInit, Init, DefaultConfig, Describes, Kinds
  <2> QED
    BY <2>1, <2>2, <2>3 DEF CmpInv
<1>2. CmpInv /\ [CNext]_allVars => CmpInv'
  <2> SUFFICES ASSUME CmpInv, [CNext]_allVars PROVE CmpInv'
    OBVIOUS
  <2>1. ASSUME NEW kind \in Kinds, NEW w \in Windows, NEW v \in Values(kind, w),
               WriteReg(kind, w, v)
        PROVE  CmpInv'
    BY <2>1, WriteRegKeepsInv
  <2>2. ASSUME NEW r \in WindowRegs, NEW addr \in Addresses, NEW v \in Loaded,
               LoadReg(r, addr, v)
        PROVE  CmpInv'
    BY <2>2, LoadRegKeepsInv, CommandsAssumption
  <2>3. ASSUME UNCHANGED <<vars, registers, drifted>>
        PROVE  CmpInv'
    <3>1. RegInv' /\ RegistersTyped'
      BY <2>3 DEF vars, CmpInv, RegInv, ConfigsTyped, NoStaleConfig, OwnBase,
                  IsMapped, RegistersTyped
    <3>2. \A w \in Windows : Describes(w)'
      BY <2>3 DEF vars, CmpInv, Describes
    <3> QED
      BY <3>1, <3>2 DEF CmpInv
  <2>4. ASSUME \/ End \/ OtherCommand \/ UNCHANGED allVars
               \/ \E addr \in Addresses : Begin(addr) \/ StoreWord(addr)
               \/ \E src, dst \in Addresses, count \in 0 .. MaxCount,
                     unit \in Harts \cup OtherUnits : Copy(src, dst, count, unit)
               \/ \E data \in BOOLEAN, kub, blocks \in Addresses :
                     RunKernelSlice(data, kub, blocks)
        PROVE  UNCHANGED <<vars, registers, drifted>>
    <3>1. ASSUME NEW src, NEW dst, NEW count, NEW unit, Copy(src, dst, count, unit)
          PROVE  UNCHANGED <<vars, registers, drifted>>
      BY <3>1 DEF Copy
    <3>2. ASSUME NEW addr, Begin(addr) \/ StoreWord(addr)
          PROVE  UNCHANGED <<vars, registers, drifted>>
      BY <3>2 DEF Begin, StoreWord
    <3>3. ASSUME End \/ OtherCommand \/ UNCHANGED allVars
          PROVE  UNCHANGED <<vars, registers, drifted>>
      BY <3>3 DEF End, OtherCommand, allVars, cmpVars
    <3>4. ASSUME NEW data, NEW kub, NEW blocks, RunKernelSlice(data, kub, blocks)
          PROVE  UNCHANGED <<vars, registers, drifted>>
      BY <3>4 DEF RunKernelSlice
    <3> QED
      BY <2>4, <3>1, <3>2, <3>3, <3>4
  <2> QED
    BY <2>1, <2>2, <2>3, <2>4 DEF CNext
<1> QED
  BY <1>1, <1>2, PTL DEF CSpec

-----------------------------------------------------------------------------
\* MappedAsDescribed: a mapped window translates as the register file of the
\* command processor says, for any windows, values and sequence of commands.
THEOREM WindowsFollowRegisters == CSpec => []MappedAsDescribed
<1>1. CmpInv => MappedAsDescribed
  <2> SUFFICES ASSUME CmpInv, NEW w \in Windows, IsMapped(w), ~Drifted(w)
               PROVE  mapped[w] = Described(w)
    BY DEF MappedAsDescribed
  <2>1. /\ mapped[w] \in Config /\ mapped[w].active = TRUE /\ config[w] = mapped[w]
    BY DEF CmpInv, RegInv, ConfigsTyped, NoStaleConfig, Config
  <2>2. /\ mapped[w].base = registers[<<"BASE", w>>]
        /\ mapped[w].target = registers[<<"TARGET", w>>]
        /\ mapped[w].scale = ScaleField(registers[<<"SCALE", w>>])
        /\ mapped[w].mode = ModeField(registers[<<"MODE", w>>])
        /\ mapped[w].size = SizeField(registers[<<"MODE", w>>])
        /\ ActiveField(registers[<<"MODE", w>>]) = TRUE
    BY <2>1 DEF CmpInv, Describes, Drifted, Kinds, ActiveField
  <2> QED
    BY <2>1, <2>2 DEF Described, Config
<1> QED
  BY <1>1, CmpInvHolds, PTL

-----------------------------------------------------------------------------
\* The map maps addresses, whatever the windows do.
DevicesTyped == DOMAIN devices \subseteq Nat

LEMMA WindowWriteKeepsDevices ==
  ASSUME CmpInv, DevicesTyped, NEW kind \in Kinds, NEW w \in Windows,
         NEW v \in Values(kind, w), WindowWrite(kind, w, v)
  PROVE  DevicesTyped'
<1>1. PICK c \in Config, changed \in BOOLEAN :
        GoodWrite(w, c, changed) /\ HandleRegWrite(w, c, changed)
  BY WindowWriteIsRegWrite, RegWriteIsGood DEF CmpInv
<1>2. CASE Disable(w, c, changed)
  BY <1>2 DEF Disable, Remove, DevicesTyped
<1>3. CASE Enable(w, c)
  <2>1. c.base \in Nat
    BY DEF Config
  <2> QED
    BY <1>3, <2>1 DEF Enable, Add, DevicesTyped
<1>4. CASE Store(w, c, changed)
  BY <1>4 DEF Store, DevicesTyped
<1> QED
  BY <1>1, <1>2, <1>3, <1>4 DEF HandleRegWrite

\* What an access inside a memory does: it succeeds.
LEMMA MemoryAccessSucceeds ==
  ASSUME DevicesTyped, NEW addr \in Nat, NEW count \in Nat, InDevice(addr, count),
         Plain(DeviceAt(addr)), NEW i \in Nat, i < count, NEW unit
  PROVE  Outcomes(DevicePlace(DeviceAt(addr), addr - BaseOf(addr) + i, unit)) = {TRUE}
<1> USE WindowsAssumption
<1> DEFINE d == DeviceAt(addr)
           off == addr - BaseOf(addr)
<1>1. d \in Phys /\ d \notin IODevices /\ d # Unmapped
  BY DEF Plain
<1>2. Found(addr) /\ off + count <= SizeOf(d)
  BY DEF InDevice
<1>3. off \in Nat
  <2>1. BaseOf(addr) \in DOMAIN devices /\ BaseOf(addr) <= addr
    BY <1>2, NearestBase DEF DevicesTyped
  <2> QED
    BY <2>1 DEF DevicesTyped
<1> HIDE DEF d, off
<1>4. SizeOf(d) = PhysSize[d] /\ PhysSize[d] \in Nat
  BY <1>1 DEF SizeOf
<1>5. off + i + 1 <= PhysSize[d]
  BY <1>2, <1>3, <1>4
<1>6. DevicePlace(d, off + i, unit) = PhysReach(d, off + i, 1)
  BY <1>1 DEF DevicePlace
<1>7. PhysReach(d, off + i, 1) = <<d, off + i>>
  BY <1>5 DEF PhysReach
<1>8. DevicePlace(d, off + i, unit) # Nowhere /\ DevicePlace(d, off + i, unit)[1] = d
  BY <1>1, <1>6, <1>7 DEF Nowhere
<1>9. Outcomes(DevicePlace(d, off + i, unit)) = {TRUE}
  BY <1>1, <1>8 DEF Outcomes
<1> QED
  BY <1>9 DEF d, off

\* The step: a copy between memories that has passed its checks is complete.
LEMMA CopyStaysComplete ==
  ASSUME DevicesTyped, CopyIsComplete, NEW src \in Nat, NEW dst \in Nat,
         NEW count \in Nat, NEW unit, Copy(src, dst, count, unit)
  PROVE  CopyIsComplete'
<1>1. CASE ~(InDevice(src, count) /\ InDevice(dst, count))
  <2>1. UNCHANGED torn
    BY <1>1 DEF Copy
  <2> QED
    BY <2>1 DEF CopyIsComplete
<1>2. CASE InDevice(src, count) /\ InDevice(dst, count)
  <2>1. PICK done \in 0 .. count :
          /\ done < count => FALSE \in CopyOutcomes(src, dst, done, unit)
          /\ torn' = CASE done = count -> "none"
                       [] done < count /\ Plain(DeviceAt(src)) /\ Plain(DeviceAt(dst))
                            -> "memories"
                       [] OTHER -> "others"
    BY <1>2, Zenon DEF Copy
  <2>2. ~(done < count /\ Plain(DeviceAt(src)) /\ Plain(DeviceAt(dst)))
    <3> SUFFICES ASSUME done < count, Plain(DeviceAt(src)), Plain(DeviceAt(dst))
                 PROVE  FALSE
      OBVIOUS
    <3>1. /\ Outcomes(DevicePlace(DeviceAt(src), src - BaseOf(src) + done, unit)) = {TRUE}
          /\ Outcomes(DevicePlace(DeviceAt(dst), dst - BaseOf(dst) + done, Cmp)) = {TRUE}
      <4>1. done \in Nat /\ done < count
        OBVIOUS
      <4> QED
        BY <1>2, <4>1, MemoryAccessSucceeds
    <3>2. FALSE \in CopyOutcomes(src, dst, done, unit)
      BY <2>1
    <3>3. \E load, store \in {TRUE} : FALSE <=> load /\ store
      BY <3>1, <3>2, Zenon DEF CopyOutcomes
    <3> QED
      BY <3>3, Zenon
  <2> QED
    BY <2>1, <2>2 DEF CopyIsComplete
<1> QED
  BY <1>1, <1>2

\* CopyIsComplete: a COPY_MEM64 between two memories that passes the checks of
\* its start addresses and sizes copies all its registers, wherever the
\* windows are.
THEOREM CopiesAreComplete == CSpec => []CopyIsComplete
<1>1. CInit => DevicesTyped /\ CopyIsComplete
  BY WindowsAssumption DEF CInit, Init, DevicesTyped, CopyIsComplete
<1>2. CmpInv /\ DevicesTyped /\ CopyIsComplete /\ [CNext]_allVars
        => DevicesTyped' /\ CopyIsComplete'
  <2> SUFFICES ASSUME CmpInv, DevicesTyped, CopyIsComplete, [CNext]_allVars
               PROVE  DevicesTyped' /\ CopyIsComplete'
    OBVIOUS
  <2>1. ASSUME NEW kind \in Kinds, NEW w \in Windows, NEW v \in Values(kind, w),
               WriteReg(kind, w, v)
        PROVE  DevicesTyped' /\ torn' = torn
    BY <2>1, WindowWriteKeepsDevices DEF WriteReg
  <2>2. ASSUME NEW r, NEW addr, NEW v, LoadReg(r, addr, v)
        PROVE  UNCHANGED <<vars, torn>>
    BY <2>2 DEF LoadReg
  <2>3. ASSUME NEW src \in Addresses, NEW dst \in Addresses,
               NEW count \in 0 .. MaxCount, NEW unit, Copy(src, dst, count, unit)
        PROVE  UNCHANGED vars /\ CopyIsComplete'
    <3>1. src \in Nat /\ dst \in Nat /\ count \in Nat
      BY CommandsAssumption
    <3> QED
      BY <2>3, <3>1, CopyStaysComplete, Zenon DEF Copy
  <2>4. ASSUME NEW addr, Begin(addr) \/ StoreWord(addr)
        PROVE  UNCHANGED vars /\ torn' \in {torn, "none"}
    BY <2>4 DEF Begin, StoreWord
  <2>5. ASSUME End \/ OtherCommand \/ UNCHANGED allVars
        PROVE  UNCHANGED <<vars, torn>>
    BY <2>5 DEF End, OtherCommand, allVars, cmpVars
  <2>6. ASSUME NEW data, NEW kub, NEW blocks, RunKernelSlice(data, kub, blocks)
        PROVE  UNCHANGED <<vars, torn>>
    BY <2>6 DEF RunKernelSlice
  <2>7. ASSUME UNCHANGED vars
        PROVE  DevicesTyped'
    BY <2>7 DEF vars, DevicesTyped
  <2> QED
    BY <2>1, <2>2, <2>3, <2>4, <2>5, <2>6, <2>7 DEF CNext, CopyIsComplete
<1> QED
  BY <1>1, <1>2, CmpInvHolds, PTL DEF CSpec

=============================================================================
