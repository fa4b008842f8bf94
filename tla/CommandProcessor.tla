--------------------------- MODULE CommandProcessor ---------------------------
(***************************************************************************)
(* How the command processor (CMP) executes command buffers: its register  *)
(* file, and what the commands do to the memory windows of MemoryWindows.  *)
(* The worker executes one buffer at a time with the device mutex held, so *)
(* a command is one step.  Any command may come next, which stands for     *)
(* every buffer, and the result of a buffer is success or failure.         *)
(*                                                                         *)
(* One address is one 64-bit register or word.  What memory holds is not   *)
(* modelled: a load finds any value.  An I/O device may refuse any access. *)
(***************************************************************************)
EXTENDS MemoryWindows

CONSTANTS
  Cmp,          \* the CMP as a unit that accesses memory
  Addresses,    \* addresses that commands and requests name
  ModeValues,   \* values written to MODE registers
  ScaleValues,  \* values written to SCALE registers
  Loaded,       \* values found in memory by LOAD_REG64
  MaxCount      \* bound: registers copied by one COPY_MEM64

ASSUME CommandsAssumption ==
  /\ Cmp \in OtherUnits
  /\ Addresses \subseteq Nat /\ MaxCount \in Nat
  /\ ModeValues \subseteq Nat /\ ScaleValues \subseteq Nat /\ Loaded \subseteq Nat

Kinds == {"BASE", "TARGET", "MODE", "SCALE"}
WindowRegs == Kinds \X Windows

VARIABLES
  registers,   \* the registers of the windows; no property needs the others
  drifted,     \* history: registers not last written by a WRITE_REG64 that
               \* succeeded
  running,     \* a command buffer is being executed
  result,      \* what execute returned for the last buffer
  torn         \* history: the devices of a COPY_MEM64 that stopped half-way

cmpVars == <<registers, drifted, running, result, torn>>
allVars == <<vars, cmpVars>>

\* The registers are zero, while the window's own configuration has no size:
\* they describe it once MODE has been written.
CInit ==
  /\ Init
  /\ registers = [r \in WindowRegs |-> 0]
  /\ drifted = {"MODE"} \X Windows
  /\ running = FALSE
  /\ result = "none"
  /\ torn = "none"

-----------------------------------------------------------------------------
(* Fields of the MODE and SCALE registers, in narrower fields: ACTIVE is   *)
(* bit 0, the mode bits 1-2 and the size less one the bits above; SCALE    *)
(* encodes zero or 2^(a-1) * (b+1).                                        *)

ActiveField(v) == v % 2 = 1
ModeField(v) == CASE (v \div 2) % 4 = 0 -> "shared"
                  [] (v \div 2) % 4 = 1 -> "perHart"
                  [] OTHER              -> "reserved"
SizeField(v) == (v \div 8) + 1
ScaleField(v) ==
  LET factor == (v \div 4) + 1
  IN  CASE v % 4 = 0 -> 0
        [] v % 4 = 1 -> factor
        [] v % 4 = 2 -> 2 * factor
        [] v % 4 = 3 -> 4 * factor

-----------------------------------------------------------------------------
(* Buffers                                                                 *)

Continue == UNCHANGED <<running, result>>
Abort == running' = FALSE /\ result' = "failure"

\* Whether one access can succeed.
Outcomes(place) == IF place = Nowhere THEN {FALSE}
                   ELSE IF place[1] \in IODevices THEN BOOLEAN ELSE {TRUE}

\* addr_to_mem: I/O devices have no memory.
InMemory(addr, unit) == Outcomes(Reach(addr, 1, unit)) = {TRUE}

\* execute finds the buffer in memory.
Begin(addr) ==
  /\ ~running
  /\ IF InMemory(addr, Cmp)
     THEN running' = TRUE /\ result' = "none"
     ELSE Abort
  /\ torn' = "none"
  /\ UNCHANGED <<vars, registers, drifted>>

\* FINISH, or the last chunk of the buffer.
End ==
  /\ running
  /\ running' = FALSE
  /\ result' = "success"
  /\ UNCHANGED <<vars, registers, drifted, torn>>

-----------------------------------------------------------------------------
(* Commands on registers                                                   *)

WindowWrite(kind, w, v) ==
  \/ kind = "BASE" /\ WriteBase(w, v)
  \/ kind = "TARGET" /\ WriteTarget(w, v)
  \/ kind = "SCALE" /\ WriteScale(w, ScaleField(v))
  \/ kind = "MODE" /\ WriteMode(w, ActiveField(v), ModeField(v), SizeField(v))

\* Faulty WriteReg: SCALE registers are not passed on.
WriteRegNoScale(kind, w, v) ==
  /\ running
  /\ IF kind = "SCALE" THEN UNCHANGED vars ELSE WindowWrite(kind, w, v)
  /\ registers' = [registers EXCEPT ![<<kind, w>>] = v]
  /\ drifted' = drifted \ {<<kind, w>>}
  /\ Continue
  /\ UNCHANGED torn

\* WRITE_REG64 of a window register: the window first, and the register only
\* if the window could do what it was told (enableWindow can fail).
WriteReg(kind, w, v) ==
  /\ running
  /\ WindowWrite(kind, w, v)
  /\ IF config'[w].active /\ device'[w] = Unmapped
     THEN /\ Abort
          /\ drifted' = drifted \cup {<<kind, w>>}
          /\ UNCHANGED registers
     ELSE /\ Continue
          /\ drifted' = drifted \ {<<kind, w>>}
          /\ registers' = [registers EXCEPT ![<<kind, w>>] = v]
  /\ UNCHANGED torn

\* LOAD_REG64: the register alone, also when it is a window's.
LoadReg(r, addr, v) ==
  /\ running
  /\ \E ok \in Outcomes(Reach(addr, 1, Cmp)) :
       IF ok
       THEN /\ Continue
            /\ registers' = [registers EXCEPT ![r] = v]
            /\ drifted' = drifted \cup {r}
       ELSE Abort /\ UNCHANGED <<registers, drifted>>
  /\ UNCHANGED <<vars, torn>>

-----------------------------------------------------------------------------
(* Commands on memory                                                      *)

\* STORE_REG64, STORE_IMM64.
StoreWord(addr) ==
  /\ running
  /\ \E ok \in Outcomes(Reach(addr, 1, Cmp)) : IF ok THEN Continue ELSE Abort
  /\ UNCHANGED <<vars, registers, drifted, torn>>

\* load and store of the devices themselves, which COPY_MEM64 calls: those of
\* a window refuse its last word, whatever it is mapped to.
DevicePlace(d, off, unit) ==
  CASE d \in Phys -> PhysReach(d, off, 1)
    [] d \in Windows /\ off + 1 >= config[d].size -> Nowhere
    [] OTHER -> WindowReach(d, off, 1, unit)

\* Faulty InDevice: the size of the copy is not added.
InDeviceStart(addr, count) ==
  Found(addr) /\ addr - BaseOf(addr) <= SizeOf(DeviceAt(addr))

InDevice(addr, count) ==
  Found(addr) /\ addr - BaseOf(addr) + count <= SizeOf(DeviceAt(addr))

Plain(d) == d \in Phys \ IODevices

\* Whether the i-th register can be loaded, with the rights of the unit, and
\* stored.
CopyOutcomes(src, dst, i, unit) ==
  LET from == DevicePlace(DeviceAt(src), src - BaseOf(src) + i, unit)
      to   == DevicePlace(DeviceAt(dst), dst - BaseOf(dst) + i, Cmp)
  IN  {ok \in BOOLEAN :
        \E load \in Outcomes(from), store \in Outcomes(to) : ok <=> load /\ store}

\* COPY_MEM64: find both devices, check their sizes, and copy register by
\* register until an access fails.
Copy(src, dst, count, unit) ==
  /\ running
  /\ IF InDevice(src, count) /\ InDevice(dst, count)
     THEN \E done \in 0 .. count :
            /\ \A i \in 0 .. done - 1 : TRUE \in CopyOutcomes(src, dst, i, unit)
            /\ done < count => FALSE \in CopyOutcomes(src, dst, done, unit)
            /\ IF done = count THEN Continue ELSE Abort
            /\ torn' = CASE done = count -> "none"
                         [] done < count /\ Plain(DeviceAt(src)) /\ Plain(DeviceAt(dst))
                              -> "memories"
                         [] OTHER -> "others"
     ELSE Abort /\ UNCHANGED torn
  /\ UNCHANGED <<vars, registers, drifted>>

\* RUN_KERNEL_SLICE: the thread-specific data, if any, is copied from the KUB
\* to the block of each hart, with the rights of the hart; then the kernel
\* runs, and may fail.  A kernel cannot write the registers.
RunKernelSlice(data, kub, blocks) ==
  /\ running
  /\ Abort \/ /\ data => \A h \in Harts : InMemory(blocks + h, h) /\ InMemory(kub, h)
              /\ Continue
  /\ UNCHANGED <<vars, registers, drifted, torn>>

\* Commands without effect on windows: NOP, other registers, SYNC_CACHE,
\* RUN_INSTANCES; and what cannot be decoded, has the wrong number of
\* chunks, a register that does not exist or a source that is not aligned.
OtherCommand ==
  /\ running
  /\ Continue \/ Abort
  /\ UNCHANGED <<vars, registers, drifted, torn>>

-----------------------------------------------------------------------------
Values(kind, w) == CASE kind = "BASE"   -> Bases[w]
                     [] kind = "TARGET" -> Targets
                     [] kind = "MODE"   -> ModeValues
                     [] kind = "SCALE"  -> ScaleValues

CNext ==
  \/ End
  \/ OtherCommand
  \/ \E addr \in Addresses : Begin(addr) \/ StoreWord(addr)
  \/ \E kind \in Kinds, w \in Windows : \E v \in Values(kind, w) : WriteReg(kind, w, v)
  \/ \E r \in WindowRegs, addr \in Addresses, v \in Loaded : LoadReg(r, addr, v)
  \/ \E src, dst \in Addresses, count \in 0 .. MaxCount, unit \in Harts \cup OtherUnits :
       Copy(src, dst, count, unit)
  \/ \E data \in BOOLEAN, kub, blocks \in Addresses : RunKernelSlice(data, kub, blocks)

CSpec == CInit /\ [][CNext]_allVars

-----------------------------------------------------------------------------
(* Properties                                                              *)

Drifted(w) == \E kind \in Kinds : <<kind, w>> \in drifted

\* What the registers of a window say.
Described(w) ==
  [active |-> ActiveField(registers[<<"MODE", w>>]),
   mode   |-> ModeField(registers[<<"MODE", w>>]),
   base   |-> registers[<<"BASE", w>>],
   target |-> registers[<<"TARGET", w>>],
   size   |-> SizeField(registers[<<"MODE", w>>]),
   scale  |-> ScaleField(registers[<<"SCALE", w>>])]

\* Accesses go where the register file says: a mapped window translates with
\* the settings in the registers of the CMP, whatever the order in which they
\* were written, refused and written again.  Registers that LOAD_REG64 wrote,
\* or whose last write the window refused, are the exception
\* (executeWRITE_REG64, handleRegWrite).
MappedAsDescribed ==
  \A w \in Windows : IsMapped(w) /\ ~Drifted(w) => mapped[w] = Described(w)

\* A COPY_MEM64 that has passed its checks copies all the registers, between
\* memories: "ensure that all registers can be copied"
\* (refsi_command_processor.cpp:433-434).  Through a window it may stop half-way.
CopyIsComplete == torn # "memories"

=============================================================================
