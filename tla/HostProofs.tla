------------------------------ MODULE HostProofs ------------------------------
(***************************************************************************)
(* Proofs about the host side of the HAL.  HalDevice: for any number of    *)
(* host threads, devices and blocks, the memory of a device stays its own, *)
(* and device_create never deletes a device while it has the lock.  A      *)
(* thread that works on a device which is not the caller's has that device *)
(* for itself, and a device that is not open has its memory free.          *)
(*                                                                         *)
(* MemFill: for any sizes of the memory, the pattern and the chunk.        *)
(*                                                                         *)
(* CommandBuffer: each command stands in the buffer where the one before   *)
(* it ends, and the CMP is at the start of a command or behind the last.   *)
(*                                                                         *)
(* ElfLoader: while a program is loaded, each cell is that of the last     *)
(* segment, among those loaded so far, that has its address; and the map   *)
(* of symbols, a fold over those of a file, has the last of each name.     *)
(*                                                                         *)
(* HostPrograms: the queue leads from what the memories hold to what the   *)
(* program counts on, for every program that keeps a discipline.           *)
(***************************************************************************)
EXTENDS HalDevice, MemFill, CommandBuffer, ElfLoader, HostPrograms, FiniteSetTheorems, SequenceTheorems,
        WellFoundedInduction, TLAPS

Uses == {"free", "user", "elf", "rom"}
Making == {"windows", "rom"}
Working == {"windows", "rom", "destroy"}
Workers == {t \in Threads : call[t] \in Working}

HalTypes ==
  /\ lock \in Threads \cup {Nobody}
  /\ call \in [Threads -> {"idle", "create", "use"} \cup Working]
  /\ target \in [Threads -> Devices \cup {Null}]
  /\ open \subseteq Devices /\ live \subseteq Devices
  /\ dram \in [Devices -> [Blocks -> Uses]]
  /\ elf \in [Devices -> Blocks \cup {Null}]
  /\ rom \in [Devices -> Blocks \cup {Null}]

\* The lock is held over a step of a call only while a device is made.
LockIsMakers == \A t \in Threads : lock = t <=> call[t] \in Making

\* Who has which device.
TargetsAreOwn ==
  /\ Probe \notin live
  /\ \A t \in Threads : call[t] = "use" => target[t] \in live
  /\ \A t \in Workers : target[t] \in Devices \ (live \cup {Probe})
  /\ \A t, u \in Workers : t # u => target[t] # target[u]
  /\ open = {Probe} \cup live \cup {target[t] : t \in Workers}

\* Memory that is not in use yet, or not any more.
FreshMemory ==
  /\ \A d \in Devices \ open : dram[d] = Untouched
  /\ \A t \in Threads : call[t] = "windows" => dram[target[t]] = Untouched
  /\ \A t \in Threads : call[t] = "rom" =>
       LET d == target[t]
       IN  elf[d] \in Blocks /\ dram[d] = [Untouched EXCEPT ![elf[d]] = "elf"]

\* The memory of a device that is the caller's.
KeptMemory ==
  \A d \in live : /\ elf[d] \in Blocks /\ dram[d][elf[d]] = "elf"
                  /\ rom[d] \in Blocks /\ dram[d][rom[d]] = "rom"

HalInv == HalTypes /\ LockIsMakers /\ TargetsAreOwn /\ FreshMemory /\ KeptMemory

-----------------------------------------------------------------------------
\* There is a block besides any one block.
LEMMA AnotherBlock ==
  ASSUME NEW e \in Blocks
  PROVE  \E b \in Blocks : b # e
<1> SUFFICES ASSUME \A b \in Blocks : b = e PROVE FALSE
  OBVIOUS
<1>1. Blocks = {e}
  OBVIOUS
<1>2. Cardinality({e}) = 1
  BY FS_Singleton
<1> QED
  BY <1>1, <1>2, HalAssumption

\* The free blocks of a device that is being made: all of them, then all but
\* the ELF memory.
LEMMA FreshDeviceHasRoom ==
  ASSUME HalInv, NEW t \in Threads
  PROVE  /\ call[t] = "windows" => Cardinality(FreeBlocks(target[t])) >= 2
         /\ call[t] = "rom" => FreeBlocks(target[t]) # {}
<1>1. ASSUME call[t] = "windows" PROVE Cardinality(FreeBlocks(target[t])) >= 2
  <2>1. dram[target[t]] = Untouched
    BY <1>1 DEF HalInv, FreshMemory
  <2>2. FreeBlocks(target[t]) = Blocks
    BY <2>1 DEF FreeBlocks, Dram, Untouched
  <2> QED
    BY <2>2, HalAssumption
<1>2. ASSUME call[t] = "rom" PROVE FreeBlocks(target[t]) # {}
  <2> DEFINE d == target[t]
  <2>1. elf[d] \in Blocks /\ dram[d] = [Untouched EXCEPT ![elf[d]] = "elf"]
    BY <1>2 DEF HalInv, FreshMemory
  <2>2. PICK b \in Blocks : b # elf[d]
    BY <2>1, AnotherBlock
  <2>3. dram[d][b] = "free"
    BY <2>1, <2>2 DEF Untouched
  <2> QED
    BY <2>2, <2>3 DEF FreeBlocks, Dram
<1> QED
  BY <1>1, <1>2

-----------------------------------------------------------------------------
\* The first state satisfies the invariant.
LEMMA InitHalInv == HalInit => HalInv
<1> SUFFICES ASSUME HalInit PROVE HalInv
  OBVIOUS
<1> USE HalAssumption DEF HalInit
<1>1. HalTypes
  BY DEF HalTypes, Working, Uses, Untouched
<1>2. Workers = {}
  BY DEF Workers, Working
<1> QED
  BY <1>1, <1>2 DEF HalInv, LockIsMakers, TargetsAreOwn, FreshMemory, KeptMemory, Making

\* A call begins.
LEMMA CallKeepsInv ==
  ASSUME HalInv, NEW t \in Threads,
         CallCreate(t) \/ (\E d \in Devices : CallUse(t, d) \/ CallDelete(t, d))
  PROVE  HalInv'
<1> USE DEF HalInv, memVars, Goto
<1>1. CASE CallCreate(t)
  <2> USE <1>1 DEF CallCreate
  <2>1. HalTypes'
    BY DEF HalTypes
  <2>2. Workers' = Workers /\ t \notin Workers
    BY DEF HalTypes, Workers, Working
  <2>3. TargetsAreOwn'
    <3>1. {target'[u] : u \in Workers'} = {target[u] : u \in Workers}
      BY <2>2 DEF Workers, HalTypes
    <3> QED
      BY <2>2, <3>1 DEF TargetsAreOwn, Workers, HalTypes
  <2>4. LockIsMakers'
    BY DEF LockIsMakers, Making, HalTypes
  <2>5. FreshMemory' /\ KeptMemory'
    BY DEF FreshMemory, KeptMemory, Untouched, HalTypes
  <2> QED
    BY <2>1, <2>3, <2>4, <2>5
<1>2. ASSUME NEW d \in Devices, CallUse(t, d) PROVE HalInv'
  <2> USE <1>2 DEF CallUse
  <2>1. HalTypes'
    BY DEF HalTypes
  <2>2. Workers' = Workers /\ t \notin Workers
    BY DEF HalTypes, Workers, Working
  <2>3. TargetsAreOwn'
    <3>1. {target'[u] : u \in Workers'} = {target[u] : u \in Workers}
      BY <2>2 DEF Workers, HalTypes
    <3> QED
      BY <2>2, <3>1 DEF TargetsAreOwn, Workers, HalTypes
  <2>4. LockIsMakers'
    BY DEF LockIsMakers, Making, HalTypes
  <2>5. FreshMemory' /\ KeptMemory'
    BY DEF FreshMemory, KeptMemory, Untouched, HalTypes
  <2> QED
    BY <2>1, <2>3, <2>4, <2>5
<1>3. ASSUME NEW d \in Devices, CallDelete(t, d) PROVE HalInv'
  <2> USE <1>3 DEF CallDelete
  <2>1. HalTypes'
    BY DEF HalTypes, Working
  <2>2. Workers' = Workers \cup {t} /\ t \notin Workers
    BY DEF HalTypes, Workers, Working
  <2>3. target'[t] = d /\ \A u \in Workers : target'[u] = target[u]
    BY <2>2 DEF HalTypes, Workers
  <2>4. TargetsAreOwn'
    <3>1. {target'[u] : u \in Workers'} = {target[u] : u \in Workers} \cup {d}
      BY <2>2, <2>3
    <3>2. open' = {Probe} \cup live' \cup {target'[u] : u \in Workers'}
      BY <3>1 DEF TargetsAreOwn
    <3>3. \A u \in Workers' : target'[u] \in Devices \ (live' \cup {Probe})
      BY <2>2, <2>3 DEF TargetsAreOwn
    <3>4. \A u, v \in Workers' : u # v => target'[u] # target'[v]
      BY <2>2, <2>3 DEF TargetsAreOwn
    <3>5. \A u \in Threads : call'[u] = "use" => target'[u] \in live'
      <4> SUFFICES ASSUME NEW u \in Threads, call'[u] = "use" PROVE target'[u] \in live'
        OBVIOUS
      <4>1. u # t /\ call[u] = "use" /\ target'[u] = target[u]
        BY DEF HalTypes
      <4>2. u \notin Users(d)
        OBVIOUS
      <4> QED
        BY <4>1, <4>2 DEF TargetsAreOwn, Users
    <3> QED
      BY <3>2, <3>3, <3>4, <3>5 DEF TargetsAreOwn
  <2>5. LockIsMakers'
    BY DEF LockIsMakers, Making, HalTypes
  <2>6. KeptMemory'
    BY DEF KeptMemory
  <2>7. FreshMemory'
    <3>1. \A u \in Threads : call'[u] \in Making =>
            call[u] = call'[u] /\ target'[u] = target[u]
      BY DEF HalTypes, Making
    <3> QED
      BY <3>1 DEF FreshMemory, Untouched, Making
  <2> QED
    BY <2>1, <2>4, <2>5, <2>6, <2>7
<1> QED
  BY <1>1, <1>2, <1>3

-----------------------------------------------------------------------------
\* A device is opened: the only one that is being made.
LEMMA OpenKeepsInv ==
  ASSUME HalInv, NEW t \in Threads, Open(t)
  PROVE  HalInv'
<1> USE DEF HalInv, Goto, Open
<1>1. PICK d \in Devices \ open : open' = open \cup {d} /\ target' = [target EXCEPT ![t] = d]
  OBVIOUS
<1>2. \A u \in Threads : call[u] \notin Making
  BY HalAssumption DEF LockIsMakers
<1>3. HalTypes'
  BY <1>1 DEF HalTypes, Working
<1>4. Workers' = Workers \cup {t} /\ t \notin Workers
  BY DEF HalTypes, Workers, Working
<1>5. target'[t] = d /\ \A u \in Threads \ {t} : target'[u] = target[u] /\ call'[u] = call[u]
  BY <1>1 DEF HalTypes
<1>6. LockIsMakers'
  BY <1>2, <1>5 DEF LockIsMakers, Making, HalTypes
<1>7. TargetsAreOwn'
  <2>1. {target'[u] : u \in Workers'} = {target[u] : u \in Workers} \cup {d}
    BY <1>4, <1>5 DEF Workers
  <2>2. open' = {Probe} \cup live' \cup {target'[u] : u \in Workers'}
    BY <1>1, <2>1 DEF TargetsAreOwn
  <2>3. \A u \in Workers' : target'[u] \in Devices \ (live' \cup {Probe})
    BY <1>1, <1>4, <1>5 DEF TargetsAreOwn, Workers
  <2>4. \A u \in Workers : target[u] # d
    BY <1>1 DEF TargetsAreOwn
  <2>5. \A u, v \in Workers' : u # v => target'[u] # target'[v]
    BY <1>4, <1>5, <2>4 DEF TargetsAreOwn, Workers
  <2>6. \A u \in Threads : call'[u] = "use" => target'[u] \in live'
    BY <1>5 DEF TargetsAreOwn, HalTypes
  <2> QED
    BY <2>2, <2>3, <2>5, <2>6 DEF TargetsAreOwn
<1>8. FreshMemory'
  BY <1>1, <1>2, <1>5 DEF FreshMemory, Untouched, Making, HalTypes
<1>9. KeptMemory'
  BY DEF KeptMemory
<1> QED
  BY <1>3, <1>6, <1>7, <1>8, <1>9

\* A device gets its ELF memory.
LEMMA CreateWindowsKeepsInv ==
  ASSUME HalInv, NEW t \in Threads, CreateWindows(t)
  PROVE  HalInv'
<1> USE DEF HalInv, Goto, Dram
<1> DEFINE d == target[t]
<1>1. call[t] = "windows" /\ UNCHANGED <<lock, target, open, live>>
  BY DEF CreateWindows
<1>2. PICK b \in Blocks :
        /\ elf' = [elf EXCEPT ![d] = b] /\ dram' = [dram EXCEPT ![d][b] = "elf"]
        /\ Goto(t, "rom") /\ UNCHANGED rom
  BY <1>1, FreshDeviceHasRoom DEF CreateWindows, Marked, FreeBlocks
<1>3. t \in Workers /\ d \in Devices \ (live \cup {Probe}) /\ d \in open
  BY <1>1 DEF TargetsAreOwn, Workers, Working
<1>4. HalTypes'
  BY <1>1, <1>2, <1>3 DEF HalTypes, Uses, Working
<1>5. Workers' = Workers
  BY <1>1, <1>2 DEF HalTypes, Workers, Working
<1>6. \A u \in Threads \ {t} : call'[u] = call[u] /\ call[u] \notin Making
  BY <1>1, <1>2 DEF HalTypes, LockIsMakers, Making
<1>7. call'[t] = "rom"
  BY <1>2 DEF HalTypes
<1>8. LockIsMakers'
  BY <1>1, <1>6, <1>7 DEF LockIsMakers, Making
<1>9. TargetsAreOwn'
  BY <1>1, <1>5, <1>6, <1>7 DEF TargetsAreOwn, Workers
<1>10. FreshMemory'
  <2>1. dram[d] = Untouched
    BY <1>1 DEF FreshMemory
  <2>2. elf'[d] = b /\ dram'[d] = [Untouched EXCEPT ![b] = "elf"]
    BY <1>2, <1>3, <2>1 DEF HalTypes
  <2>3. \A c \in Devices \ open' : dram'[c] = dram[c]
    BY <1>1, <1>2, <1>3 DEF HalTypes
  <2> QED
    BY <1>1, <1>6, <1>7, <2>2, <2>3 DEF FreshMemory, Making, Untouched
<1>11. KeptMemory'
  BY <1>1, <1>2, <1>3 DEF KeptMemory, HalTypes
<1> QED
  BY <1>4, <1>8, <1>9, <1>10, <1>11

\* A device gets its ROM and becomes the caller's.
LEMMA CreateROMKeepsInv ==
  ASSUME HalInv, NEW t \in Threads, CreateROM(t)
  PROVE  HalInv'
<1> USE DEF HalInv, Goto, Dram
<1> DEFINE d == target[t]
<1>1. call[t] = "rom" /\ UNCHANGED <<target, open>>
  BY DEF CreateROM
<1>2. PICK b \in FreeBlocks(d) :
        /\ rom' = [rom EXCEPT ![d] = b] /\ dram' = [dram EXCEPT ![d][b] = "rom"]
        /\ live' = live \cup {d} /\ lock' = Nobody
        /\ Goto(t, "idle") /\ UNCHANGED elf
  BY <1>1, FreshDeviceHasRoom DEF CreateROM, Marked
<1>3. t \in Workers /\ d \in Devices \ (live \cup {Probe})
  BY <1>1 DEF TargetsAreOwn, Workers, Working
<1>4. b \in Blocks /\ dram[d][b] = "free"
  BY DEF FreeBlocks
<1>5. HalTypes'
  BY <1>1, <1>2, <1>3, <1>4 DEF HalTypes, Uses
<1>6. Workers' = Workers \ {t}
  BY <1>1, <1>2 DEF HalTypes, Workers, Working
<1>7. \A u \in Threads \ {t} : call'[u] = call[u] /\ call[u] \notin Making
  BY <1>1, <1>2 DEF HalTypes, LockIsMakers, Making
<1>8. call'[t] = "idle"
  BY <1>2 DEF HalTypes
<1>9. LockIsMakers'
  BY <1>2, <1>7, <1>8, HalAssumption DEF LockIsMakers, Making
<1>10. TargetsAreOwn'
  <2>1. {target[u] : u \in Workers} = {target'[u] : u \in Workers'} \cup {d}
    BY <1>1, <1>3, <1>6
  <2>2. open' = {Probe} \cup live' \cup {target'[u] : u \in Workers'}
    BY <1>1, <1>2, <2>1 DEF TargetsAreOwn
  <2>3. \A u \in Workers' : target'[u] \in Devices \ (live' \cup {Probe})
    BY <1>1, <1>2, <1>3, <1>6 DEF TargetsAreOwn
  <2>4. \A u, v \in Workers' : u # v => target'[u] # target'[v]
    BY <1>1, <1>6 DEF TargetsAreOwn
  <2>5. \A u \in Threads : call'[u] = "use" => target'[u] \in live'
    BY <1>1, <1>2, <1>7, <1>8 DEF TargetsAreOwn
  <2>6. Probe \notin live'
    BY <1>2, <1>3 DEF TargetsAreOwn
  <2> QED
    BY <2>2, <2>3, <2>4, <2>5, <2>6 DEF TargetsAreOwn
<1>11. FreshMemory'
  <2>1. d \in open
    BY <1>3 DEF TargetsAreOwn
  <2>2. \A c \in Devices \ open' : dram'[c] = dram[c]
    BY <1>1, <1>2, <2>1 DEF HalTypes
  <2> QED
    BY <1>1, <1>7, <1>8, <2>2 DEF FreshMemory, Making, Untouched
<1>12. KeptMemory'
  <2>1. elf'[d] \in Blocks /\ dram'[d][elf'[d]] = "elf"
    <3>1. elf[d] \in Blocks /\ dram[d] = [Untouched EXCEPT ![elf[d]] = "elf"]
      BY <1>1 DEF FreshMemory
    <3>2. dram[d][elf[d]] = "elf"
      BY <3>1 DEF Untouched
    <3>3. elf[d] # b
      BY <1>4, <3>2
    <3> QED
      BY <1>2, <1>3, <1>4, <3>1, <3>2, <3>3 DEF HalTypes
  <2>2. rom'[d] = b /\ dram'[d][b] = "rom"
    BY <1>2, <1>3, <1>4 DEF HalTypes
  <2>3. \A c \in live : elf'[c] = elf[c] /\ rom'[c] = rom[c] /\ dram'[c] = dram[c]
    BY <1>2, <1>3 DEF HalTypes
  <2> QED
    BY <1>2, <1>4, <2>1, <2>2, <2>3 DEF KeptMemory
<1> QED
  BY <1>5, <1>9, <1>10, <1>11, <1>12

\* A device is shut down and its memory freed.
LEMMA DestroyKeepsInv ==
  ASSUME HalInv, NEW t \in Threads, Destroy(t)
  PROVE  HalInv'
<1> USE DEF HalInv, Goto, Dram, Destroy
<1> DEFINE d == target[t]
<1>1. t \in Workers /\ d \in Devices \ (live \cup {Probe})
  BY DEF TargetsAreOwn, Workers, Working
<1>2. HalTypes'
  BY <1>1 DEF HalTypes, Uses, Untouched
<1>3. Workers' = Workers \ {t}
  BY DEF HalTypes, Workers, Working
<1>4. \A u \in Threads \ {t} : call'[u] = call[u]
  BY DEF HalTypes
<1>5. call'[t] = "idle"
  BY DEF HalTypes
<1>6. LockIsMakers'
  BY <1>4, <1>5 DEF LockIsMakers, Making
<1>7. TargetsAreOwn'
  <2>1. {target[u] : u \in Workers} = {target'[u] : u \in Workers'} \cup {d}
    BY <1>1, <1>3
  <2>2. d \notin {target'[u] : u \in Workers'}
    BY <1>1, <1>3 DEF TargetsAreOwn
  <2>3. open' = {Probe} \cup live' \cup {target'[u] : u \in Workers'}
    BY <1>1, <2>1, <2>2 DEF TargetsAreOwn
  <2>4. \A u \in Workers' : target'[u] \in Devices \ (live' \cup {Probe})
    BY <1>3 DEF TargetsAreOwn
  <2>5. \A u, v \in Workers' : u # v => target'[u] # target'[v]
    BY <1>3 DEF TargetsAreOwn
  <2>6. \A u \in Threads : call'[u] = "use" => target'[u] \in live'
    BY <1>4, <1>5 DEF TargetsAreOwn
  <2> QED
    BY <2>3, <2>4, <2>5, <2>6 DEF TargetsAreOwn
<1>8. FreshMemory'
  <2>1. \A u \in Threads : call'[u] \notin Making
    BY <1>4, <1>5, HalAssumption DEF LockIsMakers, Making
  <2>2. dram'[d] = Untouched /\ \A c \in Devices \ {d} : dram'[c] = dram[c]
    BY <1>1 DEF HalTypes
  <2> QED
    BY <2>1, <2>2 DEF FreshMemory, Making, Untouched
<1>9. KeptMemory'
  BY <1>1 DEF KeptMemory, HalTypes
<1> QED
  BY <1>2, <1>6, <1>7, <1>8, <1>9

\* What a call for a live device does to memory: nothing, or a block changes
\* between free and in use by the caller.
UserMarks(d) ==
  \/ UNCHANGED dram
  \/ \E b \in Blocks, use \in {"free", "user"} :
       dram[d][b] \in {"free", "user"} /\ dram' = [dram EXCEPT ![d][b] = use]

LEMMA UseMarks ==
  ASSUME NEW t \in Threads, Use(t)
  PROVE  /\ call[t] = "use" /\ call' = [call EXCEPT ![t] = "idle"]
         /\ UNCHANGED <<lock, target, open, elf, rom, live>>
         /\ UserMarks(target[t])
<1> USE DEF Using, Unchanged, Goto, UserMarks
<1>1. CASE MemAlloc(t)
  BY <1>1 DEF MemAlloc, FreeBlocks, Marked, Dram
<1>2. CASE MemFree(t)
  BY <1>2 DEF MemFree, Marked, Dram
<1>3. CASE MemFill(t) \/ MemCopy(t)
  BY <1>3 DEF MemFill, MemCopy
<1>4. CASE \E c \in Counters : MemTransfer(t, c) \/ CounterRead(t, c)
  BY <1>4 DEF MemTransfer, CounterRead
<1>5. CASE \E on \in BOOLEAN : CounterSetEnabled(t, on)
  BY <1>5 DEF CounterSetEnabled
<1> QED
  BY <1>1, <1>2, <1>3, <1>4, <1>5 DEF Use

\* The use of a device leaves the memory of the HAL alone.
LEMMA UseKeepsInv ==
  ASSUME HalInv, NEW t \in Threads, Use(t)
  PROVE  HalInv'
<1> USE DEF HalInv
<1> DEFINE d == target[t]
<1>1. /\ call[t] = "use" /\ call' = [call EXCEPT ![t] = "idle"]
      /\ UNCHANGED <<lock, target, open, elf, rom, live>>
      /\ UserMarks(d)
  BY UseMarks
<1>2. d \in live /\ d \in Devices
  BY <1>1 DEF TargetsAreOwn, HalTypes
<1>3. \A c \in Devices \ {d} : dram'[c] = dram[c]
  BY <1>1 DEF UserMarks, HalTypes
<1>4. \A b \in Blocks : dram[d][b] \in {"elf", "rom"} => dram'[d][b] = dram[d][b]
  BY <1>1, <1>2 DEF UserMarks, HalTypes
<1>5. HalTypes'
  <2>1. dram' \in [Devices -> [Blocks -> Uses]]
    <3>1. dram \in [Devices -> [Blocks -> Uses]]
      BY DEF HalTypes
    <3>2. CASE UNCHANGED dram
      BY <3>1, <3>2
    <3>3. ASSUME NEW b \in Blocks, NEW use \in {"free", "user"},
                 dram' = [dram EXCEPT ![d][b] = use]
          PROVE  dram' \in [Devices -> [Blocks -> Uses]]
      <4>1. use \in Uses
        BY DEF Uses
      <4> HIDE DEF d, HalInv
      <4> QED
        BY <1>2, <3>1, <3>3, <4>1
    <3> QED
      BY <1>1, <3>2, <3>3 DEF UserMarks
  <2> QED
    BY <1>1, <2>1 DEF HalTypes
<1>6. Workers' = Workers
  BY <1>1 DEF HalTypes, Workers, Working
<1>7. LockIsMakers'
  BY <1>1 DEF LockIsMakers, HalTypes, Making
<1>8. TargetsAreOwn'
  <2>1. {target'[u] : u \in Workers'} = {target[u] : u \in Workers}
    BY <1>1, <1>6
  <2> QED
    BY <1>1, <1>6, <2>1 DEF TargetsAreOwn, HalTypes, Workers
<1>9. FreshMemory'
  <2>1. \A u \in Threads : call'[u] \in Making => call[u] = call'[u] /\ target[u] # d
    BY <1>1, <1>2 DEF TargetsAreOwn, HalTypes, Workers, Working, Making
  <2>2. \A u \in Threads : call'[u] \in Making => target[u] \in Devices
    BY <2>1 DEF TargetsAreOwn, Workers, Working, Making
  <2>3. d \in open
    BY <1>2 DEF TargetsAreOwn
  <2> QED
    BY <1>1, <1>3, <2>1, <2>2, <2>3 DEF FreshMemory, Making, Untouched
<1>10. KeptMemory'
  BY <1>1, <1>2, <1>3, <1>4 DEF KeptMemory, HalTypes
<1> QED
  BY <1>5, <1>7, <1>8, <1>9, <1>10

-----------------------------------------------------------------------------
\* The invariant holds in every behaviour.
THEOREM HalInvariant == HalSpec => []HalInv
<1>1. ASSUME HalInv, [HalNext]_halVars PROVE HalInv'
  <2>1. CASE UNCHANGED halVars
    BY <1>1, <2>1
    DEF halVars, memVars, HalInv, HalTypes, LockIsMakers, TargetsAreOwn,
        FreshMemory, KeptMemory, Workers, Untouched
  <2>2. CASE HalNext
    <3>1. PICK t \in Threads :
            \/ Proceed(t)
            \/ CallCreate(t)
            \/ \E d \in Devices : CallUse(t, d) \/ CallDelete(t, d)
      BY <2>2 DEF HalNext
    <3>2. CASE Proceed(t)
      BY <1>1, <3>2, OpenKeepsInv, CreateWindowsKeepsInv, CreateROMKeepsInv,
         DestroyKeepsInv, UseKeepsInv DEF Proceed
    <3> QED
      BY <1>1, <3>1, <3>2, CallKeepsInv
  <2> QED
    BY <1>1, <2>1, <2>2
<1> QED
  BY InitHalInv, <1>1, PTL DEF HalSpec

\* The program and the ROM of a device stay in its memory while the device
\* lives, whatever other threads allocate, free, create and delete, and no
\* device of the driver is lost or shut down early.
THEOREM MemoryStaysOwned == HalSpec => []MemoryIsOwned
<1>1. HalInv => MemoryIsOwned
  BY DEF HalInv, KeptMemory, TargetsAreOwn, MemoryIsOwned, Dram, Workers, Working
<1> QED
  BY HalInvariant, <1>1, PTL

\* A new device has room for what the HAL keeps in it, so device_create does
\* not come to the path that takes hal_lock twice.
THEOREM CreateNeverDeadlocks == HalSpec => []NoSelfDeadlock
<1>1. HalInv => NoSelfDeadlock
  BY DEF HalInv, LockIsMakers, NoSelfDeadlock, Making
<1> QED
  BY HalInvariant, <1>1, PTL

-----------------------------------------------------------------------------
(* mem_fill                                                                *)

\* A quotient and a remainder are what they are.
LEMMA RemainderIsUnique ==
  ASSUME NEW p \in Nat \ {0}, NEW k \in Nat, NEW r \in 0 .. p - 1
  PROVE  (k * p + r) % p = r
<1> DEFINE n == k * p + r
           q == n \div p
           m == n % p
<1>1. k * p \in Nat /\ n \in Nat
  BY SMTT(30)
<1>2. q \in Int /\ m \in 0 .. p - 1 /\ n = q * p + m
  <2> HIDE DEF n
  <2> QED
    BY <1>1, SMTT(30)
<1> HIDE DEF q, m
<1>3. (k - q) * p = m - r
  BY <1>1, <1>2, SMTT(30)
<1>4. ~(k - q >= 1)
  <2> SUFFICES ASSUME k - q >= 1 PROVE FALSE
    OBVIOUS
  <2>1. (k - q) * p >= p
    BY <1>2, SMTT(30)
  <2> QED
    BY <1>2, <1>3, <2>1
<1>5. ~(k - q <= -1)
  <2> SUFFICES ASSUME k - q <= -1 PROVE FALSE
    OBVIOUS
  <2>1. (k - q) * p <= -p
    BY <1>2, SMTT(30)
  <2> QED
    BY <1>2, <1>3, <2>1
<1>6. k = q
  BY <1>2, <1>4, <1>5
<1>7. m = r
  BY <1>2, <1>3, <1>6
<1> QED
  BY <1>7 DEF m

\* Whole patterns in front do not move the pattern.
LEMMA RemainderShifts ==
  ASSUME NEW p \in Nat \ {0}, NEW k \in Nat, NEW i \in Nat
  PROVE  (k * p + i) % p = i % p
<1> DEFINE q == i \div p
           r == i % p
<1>1. q \in Nat /\ r \in 0 .. p - 1 /\ i = q * p + r
  BY SMTT(30)
<1> HIDE DEF q, r
<1>2. k * p + i = (k + q) * p + r
  BY <1>1, SMTT(30)
<1>3. ((k + q) * p + r) % p = r
  BY <1>1, RemainderIsUnique
<1> QED
  BY <1>2, <1>3 DEF r

Patterns(n) == \E k \in Nat : n = k * fill.pattern

\* The chunk is a number of patterns, and so is what has been written while
\* anything is left: every write but the last is a whole chunk.
FillInv ==
  /\ fill \in [size : Nat, pattern : Nat \ {0}, room : Nat]
  /\ size \in Nat /\ chunk \in Nat /\ Patterns(chunk)
  /\ cells \in Seq(Nat)
  /\ Len(cells) + size = fill.size
  /\ size > 0 => Patterns(Len(cells))
  /\ \A i \in 1 .. Len(cells) : cells[i] = (i - 1) % fill.pattern
  /\ filled = "true" => size < fill.pattern

LEMMA GrowKeepsInv ==
  ASSUME FillInv, GrowChunk
  PROVE  FillInv'
<1> USE DEF FillInv, GrowChunk
<1> DEFINE p == fill.pattern
<1>1. p \in Nat \ {0} /\ UNCHANGED <<fill, size, cells, filled>>
  OBVIOUS
<1>2. PICK k \in Nat : chunk = k * p
  BY DEF Patterns
<1>3. chunk' \in Nat /\ chunk' = (k + 1) * p
  BY <1>1, <1>2, SMTT(30)
<1>4. Patterns(chunk)'
  BY <1>1, <1>3 DEF Patterns
<1>5. (size > 0 => Patterns(Len(cells)))'
  BY <1>1 DEF Patterns
<1> QED
  BY <1>1, <1>3, <1>4, <1>5

\* A chunk is written behind the others.
LEMMA WriteKeepsInv ==
  ASSUME FillInv, WriteChunk
  PROVE  FillInv'
<1> DEFINE p == fill.pattern
           n == Len(cells)
           w == ToWrite
           new == [i \in 1 .. w |-> (i - 1) % p]
<1>1. /\ p \in Nat \ {0} /\ n \in Nat /\ size \in Nat /\ chunk \in Nat
      /\ size >= p /\ size > 0 /\ UNCHANGED <<fill, chunk>>
      /\ cells \in Seq(Nat) /\ n + size = fill.size
  BY DEF FillInv, WriteChunk
<1>2. PICK k \in Nat : n = k * p
  BY <1>1 DEF FillInv, Patterns
<1>3. PICK l \in Nat : chunk = l * p
  BY DEF FillInv, Patterns
<1>4. w \in Nat /\ (w = size \/ w = chunk) /\ w <= size
  BY <1>1 DEF ToWrite
<1>5. CASE UNCHANGED <<cells, size>> /\ filled' = "false"
  BY <1>1, <1>5 DEF FillInv, Patterns
<1>6. CASE /\ cells' = cells \o [i \in 1 .. w |-> (i - 1) % p]
           /\ size' = size - w
           /\ UNCHANGED filled
  <2> HIDE DEF w
  <2>1. \A i \in Nat : i % p \in Nat
    BY <1>1, SMTT(30)
  <2>2. new \in Seq(Nat) /\ Len(new) = w
        /\ \A i \in 1 .. w : new[i] = (i - 1) % p
    BY <1>4, <2>1
  <2> HIDE DEF new
  <2>3. /\ cells' \in Seq(Nat) /\ Len(cells') = n + w
        /\ \A i \in 1 .. n : cells'[i] = cells[i]
        /\ \A i \in 1 .. w : cells'[n + i] = new[i]
    BY <1>1, <1>4, <1>6, <2>2 DEF new
  <2>4. size' \in Nat /\ Len(cells') + size' = fill.size
    BY <1>1, <1>4, <1>6, <2>3
  <2>5. size' > 0 => Patterns(Len(cells))'
    <3> SUFFICES ASSUME size' > 0 PROVE Patterns(Len(cells))'
      OBVIOUS
    <3>1. w = chunk
      BY <1>1, <1>4, <1>6
    <3>2. n + w = (k + l) * p
      BY <1>1, <1>2, <1>3, <3>1, SMTT(30)
    <3>3. k + l \in Nat /\ Len(cells') = (k + l) * fill.pattern'
      BY <1>1, <2>3, <3>2
    <3> QED
      BY <3>3 DEF Patterns
  <2>6. ASSUME NEW i \in 1 .. Len(cells')
        PROVE  cells'[i] = (i - 1) % p
    <3>1. CASE i <= n
      BY <1>1, <2>3, <3>1 DEF FillInv
    <3>2. CASE i > n
      <4> DEFINE j == i - n
      <4>1. j \in 1 .. w /\ i = n + j /\ j - 1 \in Nat /\ i - 1 = k * p + (j - 1)
        <5>1. i \in Nat /\ i <= n + w
          BY <1>1, <1>4, <2>3
        <5>2. j \in 1 .. w /\ i = n + j /\ j - 1 \in Nat /\ i - 1 = n + (j - 1)
          BY <1>1, <1>4, <3>2, <5>1
        <5> QED
          BY <1>2, <5>2
      <4> HIDE DEF j
      <4>2. cells'[i] = (j - 1) % p
        BY <2>2, <2>3, <4>1
      <4>3. (k * p + (j - 1)) % p = (j - 1) % p
        BY <1>1, <4>1, RemainderShifts
      <4> QED
        BY <4>1, <4>2, <4>3
    <3> QED
      BY <1>1, <3>1, <3>2
  <2>7. filled' = "none"
    BY <1>6 DEF WriteChunk
  <2> QED
    BY <1>1, <2>3, <2>4, <2>5, <2>6, <2>7 DEF FillInv, Patterns
<1> QED
  BY <1>5, <1>6 DEF WriteChunk

\* FillRepeats: mem_fill repeats the pattern over its chunks, writes nothing
\* past the end and, if it returns true, at least every whole pattern.
THEOREM FillsRepeatPattern == FillSpec => []FillRepeats
<1>1. FillInit => FillInv
  <2> SUFFICES ASSUME FillInit PROVE FillInv
    OBVIOUS
  <2>1. fill \in [size : Nat, pattern : Nat \ {0}, room : Nat]
    BY FillAssumption DEF FillInit
  <2>2. 0 = 0 * fill.pattern
    BY <2>1, SMTT(30)
  <2>3. Patterns(0)
    BY <2>2 DEF Patterns
  <2> QED
    BY <2>1, <2>3 DEF FillInit, FillInv
<1>2. FillInv /\ [FillNext]_fillVars => FillInv'
  <2> SUFFICES ASSUME FillInv, [FillNext]_fillVars PROVE FillInv'
    OBVIOUS
  <2>1. CASE FillReturn
    BY <2>1 DEF FillReturn, FillInv, Patterns
  <2>2. CASE UNCHANGED fillVars
    BY <2>2 DEF fillVars, FillInv, Patterns
  <2> QED
    BY <2>1, <2>2, GrowKeepsInv, WriteKeepsInv DEF FillNext
<1>3. FillInv => FillRepeats
  <2> SUFFICES ASSUME FillInv PROVE FillRepeats
    OBVIOUS
  <2> DEFINE p == fill.pattern
             n == Len(cells)
  <2>1. /\ p \in Nat \ {0} /\ n \in Nat /\ size \in Nat /\ fill.size \in Nat
        /\ n + size = fill.size
    BY DEF FillInv
  <2>2. ASSUME filled = "true"
        PROVE  n >= Whole(fill.size)
    <3>1. size < p
      BY <2>2 DEF FillInv
    <3>2. CASE size = 0
      <4>1. fill.size % p \in Nat
        BY <2>1, SMTT(30)
      <4> QED
        BY <2>1, <3>2, <4>1 DEF Whole
    <3>3. CASE size > 0
      <4>1. PICK k \in Nat : n = k * p
        BY <3>3 DEF FillInv, Patterns
      <4>2. size \in 0 .. p - 1
        BY <2>1, <3>1
      <4>3. (k * p + size) % p = size
        BY <2>1, <4>2, RemainderIsUnique
      <4>4. fill.size % p = size
        BY <2>1, <4>1, <4>3
      <4> QED
        BY <2>1, <4>4 DEF Whole
    <3> QED
      BY <2>1, <3>2, <3>3
  <2> QED
    BY <2>1, <2>2 DEF FillInv, FillRepeats
<1> QED
  BY <1>1, <1>2, <1>3, PTL DEF FillSpec

-----------------------------------------------------------------------------
(* Command buffers                                                         *)

Pair == Limb \X Limb
Chunk == Int \X Int \X Int \X Int
Argument == Int \cup (Int \X Int) \cup Chunk \cup Seq(Chunk)
CommandSet == [op : DOMAIN Opcodes, args : Seq(Argument)]

\* What each add function makes of its arguments.
Added(op, inline, data, args) ==
  \/ /\ op = "FINISH" /\ inline = <<0, 0>> /\ data = <<>> /\ args = <<>>
  \/ /\ op = "SYNC_CACHE" /\ data = <<>>
     /\ \E n \in 0 .. 3 : inline = <<n, 0>> /\ args = << <<n, 0>> >>
  \/ /\ op \in {"WRITE_REG64", "LOAD_REG64", "STORE_REG64"}
     /\ \E n \in Pair, w \in Chunk : inline = n /\ data = <<w>> /\ args = <<n, w>>
  \/ /\ op = "STORE_IMM64"
     /\ \E n \in Pair, w \in Chunk :
          inline = n /\ data = <<w>> /\ args = << <<n[1], n[2], 0, 0>>, w>>
  \/ /\ op = "COPY_MEM64"
     /\ \E n, unit \in Pair, src, dst \in Chunk :
          /\ inline = n /\ data = <<src, dst, <<unit[1], unit[2], 0, 0>> >>
          /\ args = <<n, src, dst, unit>>
  \/ /\ op = "RUN_KERNEL_SLICE"
     /\ \E n \in 0 .. 255, i, s \in Chunk :
          inline = <<n, 0>> /\ data = <<i, s>> /\ args = <<n, i, s>>
  \/ /\ op = "RUN_INSTANCES"
     /\ \E n \in 0 .. 255, i \in Chunk, extra \in Seq(Chunk) :
          /\ Len(extra) <= 7 /\ inline = <<n + Len(extra) * 2^8, 0>>
          /\ data = <<i>> \o extra /\ args = <<n, i, extra>>

\* The header keeps the command, the number of chunks and the inline number.
LEMMA HeaderDecodes ==
  ASSUME NEW op \in DOMAIN Opcodes, NEW k \in 0 .. 8, NEW inline
  PROVE  LET code == Encode(op, k, inline)
         IN  /\ IsHeader(code) /\ Opcode(code) = Opcodes[op] /\ Count(code) = k
             /\ Inline(code) = <<inline[1], inline[2]>>
<1>1. Opcodes[op] \in 1 .. 9
  BY DEF Opcodes
<1>2. ASSUME NEW o \in 1 .. 9
      PROVE  (o * 2^8) % 2^8 = 0 /\ (o * 2^8) \div 2^8 = o
  OBVIOUS
<1>3. /\ (3 * 2^14 + 2 * k) \div 2^14 = 3
      /\ ((3 * 2^14 + 2 * k) % 2^14) \div 2 = k
  OBVIOUS
<1> QED
  BY <1>1, <1>2, <1>3 DEF Encode, IsHeader, Opcode, Count, Inline

\* Commands are told apart by their code.
LEMMA OpcodesDiffer ==
  ASSUME NEW op \in DOMAIN Opcodes, NEW o \in DOMAIN Opcodes, Opcodes[op] = Opcodes[o]
  PROVE  op = o
BY DEF Opcodes

\* A number as a word.
LEMMA PairAsWord ==
  ASSUME NEW a \in Limb, NEW b \in Limb
  PROVE  <<a, b>> \o <<0, 0>> = <<a, b, 0, 0>>
<1> DEFINE s == <<a, b>>
           t == <<0, 0>>
           u == <<a, b, 0, 0>>
<1>1. s \in Seq(Int) /\ Len(s) = 2 /\ s[1] = a /\ s[2] = b
  BY DEF Limb
<1>2. t \in Seq(Int) /\ Len(t) = 2 /\ t[1] = 0 /\ t[2] = 0
  OBVIOUS
<1>3. u \in Seq(Int) /\ Len(u) = 4 /\ u[1] = a /\ u[2] = b /\ u[3] = 0 /\ u[4] = 0
  BY DEF Limb
<1> HIDE DEF s, t, u
<1>4. /\ s \o t \in Seq(Int) /\ Len(s \o t) = 4
      /\ \A i \in 1 .. 4 : (s \o t)[i] = IF i <= 2 THEN s[i] ELSE t[i - 2]
  <2>1. /\ s \o t \in Seq(Int) /\ Len(s \o t) = Len(s) + Len(t)
        /\ \A i \in 1 .. Len(s) + Len(t) :
             (s \o t)[i] = IF i <= Len(s) THEN s[i] ELSE t[i - Len(s)]
    BY <1>1, <1>2, ConcatProperties, Zenon
  <2> QED
    BY <1>1, <1>2, <2>1
<1>5. \A i \in 1 .. 4 : (s \o t)[i] = u[i]
  <2> TAKE i \in 1 .. 4
  <2>1. i = 1 \/ i = 2 \/ i = 3 \/ i = 4
    OBVIOUS
  <2> QED
    BY <1>1, <1>2, <1>3, <1>4, <2>1
<1>6. s \o t = u
  BY <1>3, <1>4, <1>5, SeqEqual
<1> QED
  BY <1>6 DEF s, t, u

\* An element in front of a sequence.
LEMMA InFront ==
  ASSUME NEW S, NEW e \in S, NEW t \in Seq(S)
  PROVE  /\ <<e>> \o t \in Seq(S) /\ Len(<<e>> \o t) = 1 + Len(t)
         /\ (<<e>> \o t)[1] = e
         /\ \A j \in 1 .. Len(t) : (<<e>> \o t)[1 + j] = t[j]
<1> DEFINE s == <<e>>
<1>1. s \in Seq(S) /\ Len(s) = 1 /\ s[1] = e /\ Len(t) \in Nat
  OBVIOUS
<1> HIDE DEF s
<1>2. /\ s \o t \in Seq(S) /\ Len(s \o t) = 1 + Len(t)
      /\ \A i \in 1 .. 1 + Len(t) : (s \o t)[i] = IF i <= 1 THEN s[i] ELSE t[i - 1]
  <2>1. /\ s \o t \in Seq(S) /\ Len(s \o t) = Len(s) + Len(t)
        /\ \A i \in 1 .. Len(s) + Len(t) :
             (s \o t)[i] = IF i <= Len(s) THEN s[i] ELSE t[i - Len(s)]
    BY <1>1, ConcatProperties, Zenon
  <2> QED
    BY <1>1, <2>1
<1>3. \A j \in 1 .. Len(t) : (s \o t)[1 + j] = t[j]
  <2> TAKE j \in 1 .. Len(t)
  <2>1. 1 + j \in 1 .. 1 + Len(t) /\ ~(1 + j <= 1) /\ (1 + j) - 1 = j
    BY <1>1
  <2> QED
    BY <1>2, <2>1
<1>4. (s \o t)[1] = e
  BY <1>1, <1>2
<1> QED
  BY <1>2, <1>3, <1>4 DEF s

\* A command that the CMP finds where an add function has put it is decoded:
\* it has as many chunks as it should, and the arguments it was given.
LEMMA CommandDecodes ==
  ASSUME NEW op, NEW inline, NEW data, NEW args, Added(op, inline, data, args),
         Header = Encode(op, Len(data), inline),
         \A i \in 1 .. Len(data) : Data(i) = data[i]
  PROVE  /\ op \in DOMAIN Opcodes /\ Len(data) \in 0 .. 8
         /\ op = "FINISH" \/ Len(data) = Expected(op)
         /\ Arguments(op) = args
<1> DEFINE Decoded == /\ op \in DOMAIN Opcodes /\ Len(data) \in 0 .. 8
                      /\ op = "FINISH" \/ Len(data) = Expected(op)
                      /\ Arguments(op) = args
<1>1. ASSUME op \in DOMAIN Opcodes, Len(data) \in 0 .. 8
      PROVE  Inline(Header) = <<inline[1], inline[2]>>
  BY <1>1, HeaderDecodes
<1>2. ASSUME op = "FINISH", inline = <<0, 0>>, data = <<>>, args = <<>>
      PROVE  Decoded
  BY <1>2 DEF Opcodes, Arguments
<1>3. ASSUME NEW n \in 0 .. 3, op = "SYNC_CACHE", data = <<>>, inline = <<n, 0>>,
             args = << <<n, 0>> >>
      PROVE  Decoded
  <2>1. op \in DOMAIN Opcodes /\ Len(data) = 0
    BY <1>3 DEF Opcodes
  <2>2. Inline(Header)[1] % 4 = n
    BY <1>1, <1>3, <2>1
  <2> QED
    BY <1>3, <2>1, <2>2 DEF Expected, Arguments
<1>4. ASSUME NEW n \in Pair, NEW w \in Chunk,
             op \in {"WRITE_REG64", "LOAD_REG64", "STORE_REG64"},
             inline = n, data = <<w>>, args = <<n, w>>
      PROVE  Decoded
  <2>1. op \in DOMAIN Opcodes /\ Len(data) = 1
    BY <1>4 DEF Opcodes
  <2>2. Inline(Header) = n
    BY <1>1, <1>4, <2>1 DEF Pair
  <2>3. Data(1) = w
    BY <1>4, <2>1
  <2> QED
    BY <1>4, <2>1, <2>2, <2>3 DEF Expected, Arguments
<1>5. ASSUME NEW n \in Pair, NEW w \in Chunk, op = "STORE_IMM64",
             inline = n, data = <<w>>, args = << <<n[1], n[2], 0, 0>>, w>>
      PROVE  Decoded
  <2>1. op \in DOMAIN Opcodes /\ Len(data) = 1
    BY <1>5 DEF Opcodes
  <2>2. Inline(Header) \o <<0, 0>> = <<n[1], n[2], 0, 0>>
    <3>1. Inline(Header) = <<n[1], n[2]>> /\ n[1] \in Limb /\ n[2] \in Limb
      BY <1>1, <1>5, <2>1 DEF Pair
    <3> QED
      BY <3>1, PairAsWord
  <2>3. Data(1) = w
    BY <1>5, <2>1
  <2>4. Len(data) = Expected(op)
    BY <1>5, <2>1 DEF Expected
  <2>5. Arguments(op) = << Inline(Header) \o <<0, 0>>, Data(1)>>
    BY <1>5 DEF Arguments
  <2>6. Arguments(op) = args
    BY <1>5, <2>2, <2>3, <2>5, Zenon
  <2> QED
    BY <2>1, <2>4, <2>6
<1>6. ASSUME NEW n \in Pair, NEW unit \in Pair, NEW src \in Chunk, NEW dst \in Chunk,
             op = "COPY_MEM64", inline = n,
             data = <<src, dst, <<unit[1], unit[2], 0, 0>> >>,
             args = <<n, src, dst, unit>>
      PROVE  Decoded
  <2>1. op \in DOMAIN Opcodes /\ Len(data) = 3
    BY <1>6 DEF Opcodes
  <2>2. Inline(Header) = n
    BY <1>1, <1>6, <2>1 DEF Pair
  <2>3. Data(1) = src /\ Data(2) = dst /\ Data(3) = <<unit[1], unit[2], 0, 0>>
    BY <1>6, <2>1
  <2>4. Low(Data(3)) = unit
    BY <2>3 DEF Low, Pair
  <2> QED
    BY <1>6, <2>1, <2>2, <2>3, <2>4 DEF Expected, Arguments
<1>7. ASSUME NEW n \in 0 .. 255, NEW i \in Chunk, NEW slice \in Chunk,
             op = "RUN_KERNEL_SLICE", inline = <<n, 0>>, data = <<i, slice>>,
             args = <<n, i, slice>>
      PROVE  Decoded
  <2>1. op \in DOMAIN Opcodes /\ Len(data) = 2
    BY <1>7 DEF Opcodes
  <2>2. Inline(Header)[1] % 2^8 = n
    BY <1>1, <1>7, <2>1
  <2>3. Data(1) = i /\ Data(2) = slice
    BY <1>7, <2>1
  <2> QED
    BY <1>7, <2>1, <2>2, <2>3 DEF Expected, Arguments
<1>8. ASSUME NEW n \in 0 .. 255, NEW i \in Chunk, NEW extra \in Seq(Chunk),
             op = "RUN_INSTANCES", Len(extra) <= 7,
             inline = <<n + Len(extra) * 2^8, 0>>, data = <<i>> \o extra,
             args = <<n, i, extra>>
      PROVE  Decoded
  <2>1. op \in DOMAIN Opcodes
    BY <1>8 DEF Opcodes
  <2>2. /\ Len(data) = 1 + Len(extra) /\ Len(extra) \in 0 .. 7
        /\ data[1] = i /\ \A j \in 1 .. Len(extra) : data[1 + j] = extra[j]
    <3>1. /\ Len(<<i>> \o extra) = 1 + Len(extra) /\ (<<i>> \o extra)[1] = i
          /\ \A j \in 1 .. Len(extra) : (<<i>> \o extra)[1 + j] = extra[j]
      <4>1. i \in Chunk /\ extra \in Seq(Chunk)
        OBVIOUS
      <4> HIDE DEF Chunk
      <4> QED
        BY <4>1, InFront
    <3>2. Len(extra) \in 0 .. 7
      <4>1. Len(extra) \in Nat
        BY LenProperties
      <4>2. Len(extra) <= 7
        BY <1>8, Zenon
      <4>3. ASSUME NEW k \in Nat, k <= 7  PROVE k \in 0 .. 7
        BY <4>3
      <4> QED
        BY <4>1, <4>2, <4>3, Zenon
    <3> QED
      BY <1>8, <3>1, <3>2, Zenon
  <2>3. ASSUME NEW k \in 0 .. 7
        PROVE  (n + k * 2^8) % 2^8 = n /\ (n + k * 2^8) \div 2^8 % 8 = k
    OBVIOUS
  <2>4. Inline(Header)[1] = n + Len(extra) * 2^8
    BY <1>1, <1>8, <2>1, <2>2
  <2>5. Inline(Header)[1] % 2^8 = n /\ Extra = Len(extra)
    BY <2>2, <2>3, <2>4 DEF Extra
  <2>6. Data(1) = i /\ \A j \in 1 .. Len(extra) : Data(1 + j) = extra[j]
    BY <2>2
  <2>7. [j \in 1 .. Extra |-> Data(1 + j)] = extra
    BY <1>8, <2>5, <2>6
  <2>8. Len(data) = Expected(op) /\ Len(data) \in 0 .. 8
    BY <1>8, <2>2, <2>5 DEF Expected
  <2>9. Arguments(op) = << Inline(Header)[1] % 2^8, Data(1), [j \in 1 .. Extra |-> Data(1 + j)] >>
    BY <1>8 DEF Arguments
  <2>10. Arguments(op) = args
    BY <1>8, <2>5, <2>6, <2>7, <2>9, Zenon
  <2> QED
    BY <2>1, <2>8, <2>10
<1>9. Decoded
  <2> HIDE DEF Decoded
  <2> QED
    BY <1>2, <1>3, <1>4, <1>5, <1>6, <1>7, <1>8, Zenon DEF Added
<1> QED
  BY <1>9

\* What an add function writes: a pair in the header, chunks after it.
LEMMA AddedTyped ==
  ASSUME NEW op, NEW inline, NEW data, NEW args, Added(op, inline, data, args)
  PROVE  /\ op \in DOMAIN Opcodes /\ inline[1] \in Int /\ inline[2] \in Int
         /\ data \in Seq(Chunk) /\ args \in Seq(Argument)
<1> DEFINE Typed == /\ op \in DOMAIN Opcodes /\ inline[1] \in Int /\ inline[2] \in Int
                    /\ data \in Seq(Chunk) /\ args \in Seq(Argument)
<1>1. Limb \subseteq Int
  BY DEF Limb
<1>2. \A n \in Pair :
         /\ n \in Argument /\ n[1] \in Int /\ n[2] \in Int
         /\ <<n[1], n[2], 0, 0>> \in Chunk
  <2> TAKE n \in Pair
  <2>1. n = <<n[1], n[2]>> /\ n[1] \in Int /\ n[2] \in Int
    <3>1. n = <<n[1], n[2]>> /\ n[1] \in Limb /\ n[2] \in Limb
      BY DEF Pair
    <3> QED
      BY <1>1, <3>1, Zenon
  <2>2. n \in Argument
    BY <2>1 DEF Argument
  <2>3. <<n[1], n[2], 0, 0>> \in Chunk
    BY <2>1 DEF Chunk
  <2> QED
    BY <2>1, <2>2, <2>3
<1>3. \A n \in Int : n \in Argument /\ <<n, 0>> \in Argument
  BY DEF Argument
<1>4. \A w \in Chunk : w \in Argument
  BY DEF Argument
<1>5. \A w \in Seq(Chunk) : w \in Argument
  BY Zenon DEF Argument
<1>6. ASSUME NEW S, NEW a \in S, NEW b \in S, NEW c \in S, NEW d \in S
      PROVE  /\ <<>> \in Seq(S) /\ <<a>> \in Seq(S) /\ <<a, b>> \in Seq(S)
             /\ <<a, b, c>> \in Seq(S) /\ <<a, b, c, d>> \in Seq(S)
  OBVIOUS
<1> HIDE DEF Pair, Chunk, Argument
<1>7. ASSUME op = "FINISH", inline = <<0, 0>>, data = <<>>, args = <<>>
      PROVE  Typed
  BY <1>6, <1>7 DEF Opcodes
<1>8. ASSUME NEW n \in 0 .. 3, op = "SYNC_CACHE", data = <<>>, inline = <<n, 0>>,
             args = << <<n, 0>> >>
      PROVE  Typed
  <2>1. data \in Seq(Chunk)
    BY <1>3, <1>6, <1>8
  <2>2. args \in Seq(Argument)
    BY <1>3, <1>6, <1>8
  <2>3. inline[1] \in Int /\ inline[2] \in Int
    BY <1>3, <1>6, <1>8
  <2> QED
    BY <1>8, <2>1, <2>2, <2>3 DEF Opcodes
<1>9. ASSUME NEW n \in Pair, NEW w \in Chunk,
             op \in {"WRITE_REG64", "LOAD_REG64", "STORE_REG64"},
             inline = n, data = <<w>>, args = <<n, w>>
      PROVE  Typed
  <2>1. data \in Seq(Chunk)
    BY <1>2, <1>4, <1>6, <1>9
  <2>2. args \in Seq(Argument)
    BY <1>2, <1>4, <1>6, <1>9
  <2>3. inline[1] \in Int /\ inline[2] \in Int
    BY <1>2, <1>4, <1>6, <1>9
  <2> QED
    BY <1>9, <2>1, <2>2, <2>3 DEF Opcodes
<1>10. ASSUME NEW n \in Pair, NEW w \in Chunk, op = "STORE_IMM64",
             inline = n, data = <<w>>, args = << <<n[1], n[2], 0, 0>>, w>>
      PROVE  Typed
  <2>1. data \in Seq(Chunk)
    BY <1>2, <1>4, <1>6, <1>10
  <2>2. args \in Seq(Argument)
    BY <1>2, <1>4, <1>6, <1>10
  <2>3. inline[1] \in Int /\ inline[2] \in Int
    BY <1>2, <1>4, <1>6, <1>10
  <2> QED
    BY <1>10, <2>1, <2>2, <2>3 DEF Opcodes
<1>11. ASSUME NEW n \in Pair, NEW unit \in Pair, NEW src \in Chunk, NEW dst \in Chunk,
             op = "COPY_MEM64", inline = n,
             data = <<src, dst, <<unit[1], unit[2], 0, 0>> >>,
             args = <<n, src, dst, unit>>
      PROVE  Typed
  <2>1. data \in Seq(Chunk)
    BY <1>2, <1>4, <1>6, <1>11
  <2>2. args \in Seq(Argument)
    BY <1>2, <1>4, <1>6, <1>11
  <2>3. inline[1] \in Int /\ inline[2] \in Int
    BY <1>2, <1>4, <1>6, <1>11
  <2> QED
    BY <1>11, <2>1, <2>2, <2>3 DEF Opcodes
<1>12. ASSUME NEW n \in 0 .. 255, NEW i \in Chunk, NEW slice \in Chunk,
             op = "RUN_KERNEL_SLICE", inline = <<n, 0>>, data = <<i, slice>>,
             args = <<n, i, slice>>
      PROVE  Typed
  <2>1. data \in Seq(Chunk)
    BY <1>3, <1>4, <1>6, <1>12
  <2>2. args \in Seq(Argument)
    BY <1>3, <1>4, <1>6, <1>12
  <2>3. inline[1] \in Int /\ inline[2] \in Int
    BY <1>3, <1>4, <1>6, <1>12
  <2> QED
    BY <1>12, <2>1, <2>2, <2>3 DEF Opcodes
<1>13. ASSUME NEW n \in 0 .. 255, NEW i \in Chunk, NEW extra \in Seq(Chunk),
              op = "RUN_INSTANCES", Len(extra) <= 7,
              inline = <<n + Len(extra) * 2^8, 0>>, data = <<i>> \o extra,
              args = <<n, i, extra>>
       PROVE  Typed
  <2>1. data \in Seq(Chunk)
    BY <1>13, InFront
  <2>2. Len(extra) \in Nat
    BY LenProperties
  <2>3. inline[1] \in Int /\ inline[2] \in Int
    BY <1>13, <2>2
  <2>4. args \in Seq(Argument)
    <3>1. n \in Argument
      <4>1. n \in Int
        OBVIOUS
      <4> QED
        BY <1>3, <4>1, Zenon
    <3>2. i \in Argument /\ extra \in Argument
      BY <1>4, <1>5, Zenon
    <3> QED
      BY <1>6, <1>13, <3>1, <3>2, Zenon
  <2> QED
    BY <1>13, <2>1, <2>3, <2>4 DEF Opcodes
<1>14. Typed
  <2> HIDE DEF Typed
  <2> QED
    BY <1>7, <1>8, <1>9, <1>10, <1>11, <1>12, <1>13, Zenon DEF Added
<1> QED
  BY <1>14

\* The commands stand one after another in the buffer, each at its start.
Written(buffer, command, start, next) ==
  \E inline, data :
    /\ Added(command.op, inline, data, command.args)
    /\ next = start + 1 + Len(data) /\ next <= Len(buffer) + 1
    /\ buffer[start] = Encode(command.op, Len(data), inline)
    /\ \A j \in 1 .. Len(data) : buffer[start + j] = data[j]

LaidOut(buffer, commands, starts) ==
  /\ starts \in [1 .. Len(commands) + 1 -> 1 .. Len(buffer) + 1]
  /\ starts[1] = 1 /\ starts[Len(commands) + 1] = Len(buffer) + 1
  /\ \A i \in 1 .. Len(commands) :
       Written(buffer, commands[i], starts[i], starts[i + 1])

\* The CMP has executed the commands up to the one it stands at.
Reading(starts) ==
  /\ pos \in Nat
  /\ pos = 0 => seen = <<>> /\ outcome = "none"
  /\ pos > 0 /\ outcome = "none" => pos = starts[Len(seen) + 1]

BufferInv ==
  /\ chunks \in Seq(Chunk) /\ asked \in Seq(CommandSet) /\ seen \in Seq(CommandSet)
  /\ BufferDecodes
  /\ \E starts : LaidOut(chunks, asked, starts) /\ Reading(starts)

\* An add function puts its command behind the others, which stay as they are.
LEMMA AddKeepsLayout ==
  ASSUME BufferInv, NEW op, NEW inline, NEW data, NEW args,
         Added(op, inline, data, args), Add(op, inline, data, args)
  PROVE  BufferInv'
<1> DEFINE code == Encode(op, Len(data), inline)
           command == [op |-> op, args |-> args]
           n == Len(asked)
           m == Len(chunks)
           k == Len(data)
<1>1. PICK starts : LaidOut(chunks, asked, starts) /\ Reading(starts)
  BY DEF BufferInv
<1>2. /\ op \in DOMAIN Opcodes /\ data \in Seq(Chunk) /\ args \in Seq(Argument)
      /\ inline[1] \in Int /\ inline[2] \in Int
  BY AddedTyped
<1>3. code \in Chunk
  <2>1. k \in Int /\ Opcodes[op] \in Int
    BY <1>2 DEF Opcodes
  <2>2. Opcodes[op] * 2^8 \in Int /\ 3 * 2^14 + 2 * k \in Int
    BY <2>1
  <2> QED
    BY <1>2, <2>2 DEF Encode, Chunk
<1>4. /\ pos = 0 /\ asked' = Append(asked, command)
      /\ pos' = pos /\ seen' = seen /\ outcome' = outcome
      /\ chunks' = (chunks \o <<code>>) \o data
  BY DEF Add
<1>5. /\ chunks \in Seq(Chunk) /\ asked \in Seq(CommandSet) /\ seen \in Seq(CommandSet)
      /\ BufferDecodes
  BY DEF BufferInv
<1>6. command \in CommandSet /\ command.op = op /\ command.args = args
  BY <1>2 DEF CommandSet
<1> HIDE DEF code, command
<1>7. n \in Nat /\ m \in Nat /\ k \in Nat
  BY <1>2, <1>5
<1>8. /\ chunks' \in Seq(Chunk) /\ Len(chunks') = m + 1 + k
      /\ \A i \in 1 .. m : chunks'[i] = chunks[i]
      /\ chunks'[m + 1] = code
      /\ \A j \in 1 .. k : chunks'[m + 1 + j] = data[j]
  <2> DEFINE s == chunks \o <<code>>
  <2>1. /\ s \in Seq(Chunk) /\ Len(s) = m + 1 /\ s[m + 1] = code
        /\ \A i \in 1 .. m : s[i] = chunks[i]
    <3>1. s = Append(chunks, code)
      BY <1>3, <1>5, AppendIsConcat
    <3>2. /\ Append(chunks, code) \in Seq(Chunk)
          /\ Len(Append(chunks, code)) = m + 1
          /\ Append(chunks, code)[m + 1] = code
          /\ \A i \in 1 .. m : Append(chunks, code)[i] = chunks[i]
      BY <1>3, <1>5, AppendProperties
    <3> HIDE DEF s
    <3> QED
      BY <3>1, <3>2, Zenon
  <2>2. chunks' = s \o data
    BY <1>4
  <2> HIDE DEF s
  <2>3. /\ s \o data \in Seq(Chunk) /\ Len(s \o data) = Len(s) + Len(data)
        /\ \A i \in 1 .. Len(s) + Len(data) :
             (s \o data)[i] = IF i <= Len(s) THEN s[i] ELSE data[i - Len(s)]
    BY <1>2, <2>1, ConcatProperties, Zenon
  <2>4. Len(chunks') = m + 1 + k
    BY <2>1, <2>2, <2>3
  <2>5. ASSUME NEW i \in 1 .. m + 1
        PROVE  chunks'[i] = s[i]
    <3>1. i \in 1 .. Len(s) + Len(data) /\ i <= Len(s)
      BY <1>7, <2>1
    <3> QED
      BY <2>2, <2>3, <3>1
  <2>6. ASSUME NEW j \in 1 .. k
        PROVE  chunks'[m + 1 + j] = data[j]
    <3>1. /\ m + 1 + j \in 1 .. Len(s) + Len(data) /\ ~(m + 1 + j <= Len(s))
          /\ (m + 1 + j) - Len(s) = j
      BY <1>7, <2>1
    <3> QED
      BY <2>2, <2>3, <3>1
  <2>7. m + 1 \in 1 .. m + 1 /\ \A i \in 1 .. m : i \in 1 .. m + 1
    BY <1>7
  <2> QED
    BY <2>1, <2>2, <2>3, <2>4, <2>5, <2>6, <2>7, Zenon
<1>9. /\ asked' \in Seq(CommandSet) /\ Len(asked') = n + 1
      /\ \A i \in 1 .. n : asked'[i] = asked[i]
      /\ asked'[n + 1] = command
  BY <1>4, <1>5, <1>6, AppendProperties, Zenon
<1> DEFINE new == [i \in 1 .. n + 2 |-> IF i <= n + 1 THEN starts[i] ELSE m + 2 + k]
<1>10. /\ new[n + 2] = m + 2 + k /\ \A i \in 1 .. n + 1 : new[i] = starts[i]
  BY <1>7
<1>11. /\ starts \in [1 .. n + 1 -> 1 .. m + 1] /\ starts[1] = 1 /\ starts[n + 1] = m + 1
       /\ \A i \in 1 .. n : Written(chunks, asked[i], starts[i], starts[i + 1])
  BY <1>1 DEF LaidOut
<1>12. new \in [1 .. n + 2 -> 1 .. m + 2 + k]
  BY <1>7, <1>11
<1> HIDE DEF new
<1>13. ASSUME NEW i \in 1 .. n
       PROVE  Written(chunks', asked'[i], new[i], new[i + 1])
  <2>1. PICK inl, dat :
          /\ Added(asked[i].op, inl, dat, asked[i].args)
          /\ starts[i + 1] = starts[i] + 1 + Len(dat) /\ starts[i + 1] <= m + 1
          /\ chunks[starts[i]] = Encode(asked[i].op, Len(dat), inl)
          /\ \A j \in 1 .. Len(dat) : chunks[starts[i] + j] = dat[j]
    BY <1>11, Zenon DEF Written
  <2>2. dat \in Seq(Chunk)
    BY <2>1, AddedTyped, Zenon
  <2>3. Len(dat) \in Nat
    BY <2>2, LenProperties, Zenon
  <2>4. starts[i] \in 1 .. m + 1 /\ i + 1 \in 1 .. n + 1 /\ i \in 1 .. n + 1
    BY <1>7, <1>11
  <2>5. starts[i] \in 1 .. m /\ \A j \in 1 .. Len(dat) : starts[i] + j \in 1 .. m
    BY <1>7, <2>1, <2>3, <2>4
  <2>6. /\ new[i] = starts[i] /\ new[i + 1] = starts[i + 1] /\ asked'[i] = asked[i]
        /\ new[i + 1] <= Len(chunks') + 1
    <3>1. new[i] = starts[i] /\ new[i + 1] = starts[i + 1] /\ asked'[i] = asked[i]
      BY <1>9, <1>10, <2>4, Zenon
    <3>2. starts[i + 1] \in Nat /\ starts[i + 1] <= m + 1 /\ Len(chunks') = m + 1 + k
      BY <1>8, <1>11, <2>1, <2>4
    <3> QED
      BY <1>7, <3>1, <3>2
  <2>7. /\ chunks'[new[i]] = Encode(asked'[i].op, Len(dat), inl)
        /\ \A j \in 1 .. Len(dat) : chunks'[new[i] + j] = dat[j]
    BY <1>8, <2>1, <2>5, <2>6
  <2> QED
    BY <2>1, <2>6, <2>7, Zenon DEF Written
<1>14. Written(chunks', asked'[n + 1], new[n + 1], new[n + 2])
  <2>1. /\ new[n + 1] = m + 1 /\ new[n + 2] = (m + 1) + 1 + k
        /\ new[n + 2] <= Len(chunks') + 1
    <3>1. n + 1 \in 1 .. n + 1
      BY <1>7
    <3>2. new[n + 1] = m + 1 /\ new[n + 2] = m + 2 + k /\ Len(chunks') = m + 1 + k
      BY <1>8, <1>10, <1>11, <3>1, Zenon
    <3> QED
      BY <1>7, <3>2
  <2>2. /\ asked'[n + 1].op = op /\ asked'[n + 1].args = args
        /\ chunks'[new[n + 1]] = Encode(asked'[n + 1].op, Len(data), inline)
        /\ \A j \in 1 .. Len(data) : chunks'[new[n + 1] + j] = data[j]
    BY <1>6, <1>8, <1>9, <2>1 DEF code
  <2>3. new[n + 2] = new[n + 1] + 1 + Len(data)
    BY <2>1
  <2> QED
    BY <2>1, <2>2, <2>3, Zenon DEF Written
<1>15. LaidOut(chunks', asked', new)
  <2>1. /\ Len(asked') + 1 = n + 2 /\ Len(chunks') + 1 = m + 2 + k
        /\ 1 \in 1 .. n + 1
    BY <1>7, <1>8, <1>9
  <2>2. new \in [1 .. Len(asked') + 1 -> 1 .. Len(chunks') + 1]
    BY <1>12, <2>1
  <2>3. new[1] = 1 /\ new[Len(asked') + 1] = Len(chunks') + 1
    BY <1>10, <1>11, <2>1
  <2>4. ASSUME NEW i \in 1 .. Len(asked')
        PROVE  Written(chunks', asked'[i], new[i], new[i + 1])
    <3>1. i \in 1 .. n \/ (i = n + 1 /\ i + 1 = n + 2)
      BY <1>7, <1>9
    <3> QED
      BY <1>13, <1>14, <3>1
  <2> QED
    BY <2>2, <2>3, <2>4 DEF LaidOut
<1>16. seen = <<>> /\ outcome = "none"
  BY <1>1, <1>4 DEF Reading
<1>17. \A f : Reading(f)'
  BY <1>4, <1>16 DEF Reading
<1>18. BufferDecodes'
  BY <1>4, <1>7, <1>9, <1>16 DEF BufferDecodes
<1>19. \E f : LaidOut(chunks', asked', f) /\ Reading(f)'
  BY <1>15, <1>17, Zenon
<1>20. chunks' \in Seq(Chunk) /\ asked' \in Seq(CommandSet) /\ seen' \in Seq(CommandSet)
  BY <1>4, <1>5, <1>8, <1>9, Zenon
<1> QED
  BY <1>18, <1>19, <1>20, Zenon DEF BufferInv

\* The CMP finds the next command where it stands, and executes it with the
\* arguments that the HAL gave.
LEMMA ExecuteKeepsLayout ==
  ASSUME BufferInv, ExecuteNext
  PROVE  BufferInv'
<1> DEFINE k == Len(seen) + 1
<1>1. PICK starts : LaidOut(chunks, asked, starts) /\ Reading(starts)
  BY DEF BufferInv
<1>2. /\ chunks \in Seq(Chunk) /\ asked \in Seq(CommandSet) /\ seen \in Seq(CommandSet)
      /\ BufferDecodes
  BY DEF BufferInv
<1>3. /\ Len(chunks) \in Nat /\ Len(asked) \in Nat /\ Len(seen) \in Nat
      /\ Len(seen) <= Len(asked) /\ \A i \in 1 .. Len(seen) : seen[i] = asked[i]
  BY <1>2, LenProperties DEF BufferDecodes
<1>4. /\ starts \in [1 .. Len(asked) + 1 -> 1 .. Len(chunks) + 1]
      /\ starts[Len(asked) + 1] = Len(chunks) + 1
      /\ \A i \in 1 .. Len(asked) :
           Written(chunks, asked[i], starts[i], starts[i + 1])
  BY <1>1 DEF LaidOut
<1>5. pos \in Nat /\ pos > 0 /\ outcome = "none" /\ pos <= Len(chunks) /\ pos = starts[k]
  BY <1>1 DEF ExecuteNext, Executing, Reading
<1>6. k \in 1 .. Len(asked)
  <2>1. k # Len(asked) + 1
    BY <1>3, <1>4, <1>5
  <2> QED
    BY <1>3, <2>1
<1>7. PICK inline, data :
        /\ Added(asked[k].op, inline, data, asked[k].args)
        /\ starts[k + 1] = starts[k] + 1 + Len(data)
        /\ chunks[starts[k]] = Encode(asked[k].op, Len(data), inline)
        /\ \A j \in 1 .. Len(data) : chunks[starts[k] + j] = data[j]
  <2>1. Written(chunks, asked[k], starts[k], starts[k + 1])
    BY <1>4, <1>6
  <2> QED
    BY <2>1, Zenon DEF Written
<1> DEFINE op == asked[k].op
<1>8. /\ Header = Encode(op, Len(data), inline)
      /\ \A j \in 1 .. Len(data) : Data(j) = data[j]
  BY <1>5, <1>7, Zenon DEF Header, Data
<1>9. /\ op \in DOMAIN Opcodes /\ Len(data) \in 0 .. 8
      /\ op = "FINISH" \/ Len(data) = Expected(op)
      /\ Arguments(op) = asked[k].args
  <2>1. Added(op, inline, data, asked[k].args)
    BY <1>7
  <2> HIDE DEF op
  <2> QED
    BY <1>8, <2>1, CommandDecodes
<1>10. IsHeader(Header) /\ Opcode(Header) = Opcodes[op] /\ Count(Header) = Len(data)
  BY <1>8, <1>9, HeaderDecodes
<1>11. /\ \E o \in DOMAIN Opcodes : Opcodes[o] = Opcode(Header)
       /\ (CHOOSE o \in DOMAIN Opcodes : Opcodes[o] = Opcode(Header)) = op
  <2>1. op \in DOMAIN Opcodes /\ Opcodes[op] = Opcode(Header)
    BY <1>9, <1>10
  <2>2. ASSUME NEW o \in DOMAIN Opcodes, Opcodes[o] = Opcode(Header)
        PROVE  o = op
    BY <1>9, <2>1, <2>2, OpcodesDiffer
  <2> HIDE DEF op
  <2> QED
    BY <2>1, <2>2
<1>12. asked[k] = [op |-> op, args |-> Arguments(op)] /\ asked[k] \in CommandSet
  <2>1. asked[k] \in CommandSet
    BY <1>2, <1>6, ElementOfSeq
  <2>2. asked[k] = [op |-> asked[k].op, args |-> asked[k].args]
    BY <2>1 DEF CommandSet
  <2> QED
    BY <1>9, <2>1, <2>2, Zenon
<1> HIDE DEF op
<1>13. /\ seen' = Append(seen, asked[k]) /\ pos' = pos + 1 + Len(data)
       /\ outcome' = IF op = "FINISH" THEN "success" ELSE outcome
       /\ chunks' = chunks /\ asked' = asked
  BY <1>9, <1>10, <1>11, <1>12 DEF ExecuteNext
<1>14. /\ seen' \in Seq(CommandSet) /\ seen' # <<>> /\ Len(seen') = k
       /\ \A i \in 1 .. Len(seen) : seen'[i] = seen[i]
       /\ seen'[k] = asked[k]
  BY <1>2, <1>12, <1>13, AppendProperties
<1>15. \A i \in 1 .. k : seen'[i] = asked[i]
  BY <1>3, <1>14
<1>16. pos' = starts[k + 1] /\ pos' \in Nat /\ pos' > 0
  <2>1. Len(data) \in Nat
    BY <1>9
  <2> QED
    BY <1>5, <1>7, <1>13, <2>1
<1>17. Reading(starts)'
  BY <1>13, <1>14, <1>16 DEF Reading
<1>18. BufferDecodes'
  <2>1. outcome' # "failure"
    BY <1>5, <1>13
  <2>2. Len(seen') <= Len(asked') /\ \A i \in 1 .. Len(seen') : seen'[i] = asked'[i]
    BY <1>6, <1>13, <1>14, <1>15
  <2>3. ASSUME outcome' = "success"
        PROVE  seen' # <<>> /\ seen'[Len(seen')].op = "FINISH"
    <3>1. op = "FINISH"
      BY <1>5, <1>13, <2>3
    <3> QED
      BY <1>14, <3>1 DEF op
  <2> QED
    BY <2>1, <2>2, <2>3 DEF BufferDecodes
<1>19. \E f : LaidOut(chunks', asked', f) /\ Reading(f)'
  BY <1>1, <1>13, <1>17, Zenon
<1>20. chunks' \in Seq(Chunk) /\ asked' \in Seq(CommandSet)
  BY <1>2, <1>13, Zenon
<1> QED
  BY <1>14, <1>18, <1>19, <1>20, Zenon DEF BufferInv

\* At the end of the buffer every command has been executed.
LEMMA EndKeepsLayout ==
  ASSUME BufferInv, EndOfBuffer
  PROVE  BufferInv'
<1>1. PICK starts : LaidOut(chunks, asked, starts) /\ Reading(starts)
  BY DEF BufferInv
<1>2. /\ chunks \in Seq(Chunk) /\ asked \in Seq(CommandSet) /\ seen \in Seq(CommandSet)
      /\ BufferDecodes
  BY DEF BufferInv
<1>3. /\ Len(chunks) \in Nat /\ Len(asked) \in Nat /\ Len(seen) \in Nat
      /\ Len(seen) <= Len(asked) /\ \A i \in 1 .. Len(seen) : seen[i] = asked[i]
  BY <1>2, LenProperties DEF BufferDecodes
<1>4. /\ pos > Len(chunks) /\ pos > 0 /\ outcome = "none" /\ outcome' = "success"
      /\ chunks' = chunks /\ asked' = asked /\ pos' = pos /\ seen' = seen
  BY DEF EndOfBuffer, Executing, Stop
<1>5. pos \in Nat /\ pos = starts[Len(seen) + 1]
  BY <1>1, <1>4 DEF Reading
<1>6. Len(seen) = Len(asked)
  <2> SUFFICES ASSUME Len(seen) + 1 \in 1 .. Len(asked)
               PROVE  FALSE
    BY <1>3
  <2>1. PICK data :
          /\ data \in Seq(Chunk)
          /\ starts[(Len(seen) + 1) + 1] = starts[Len(seen) + 1] + 1 + Len(data)
          /\ starts[(Len(seen) + 1) + 1] <= Len(chunks) + 1
    BY <1>1, AddedTyped, Zenon DEF LaidOut, Written
  <2>2. Len(data) \in Nat
    BY <2>1, LenProperties
  <2> QED
    BY <1>3, <1>4, <1>5, <2>1, <2>2
<1>7. Reading(starts)'
  BY <1>4, <1>5 DEF Reading
<1>8. BufferDecodes'
  BY <1>3, <1>4, <1>6 DEF BufferDecodes
<1>9. \E f : LaidOut(chunks', asked', f) /\ Reading(f)'
  BY <1>1, <1>4, <1>7, Zenon
<1> QED
  BY <1>2, <1>4, <1>8, <1>9, Zenon DEF BufferInv

\* An empty buffer has its one start.
LEMMA BufferStarts == BufferInit => BufferInv
<1> SUFFICES ASSUME BufferInit
             PROVE  BufferInv
  OBVIOUS
<1>1. chunks = <<>> /\ asked = <<>> /\ pos = 0 /\ seen = <<>> /\ outcome = "none"
  BY DEF BufferInit
<1>2. LaidOut(chunks, asked, [i \in {1} |-> 1])
  BY <1>1 DEF LaidOut
<1>3. Reading([i \in {1} |-> 1]) /\ BufferDecodes
  BY <1>1 DEF Reading, BufferDecodes
<1>4. chunks \in Seq(Chunk) /\ asked \in Seq(CommandSet) /\ seen \in Seq(CommandSet)
  BY <1>1
<1> QED
  BY <1>2, <1>3, <1>4, Zenon DEF BufferInv

LEMMA BufferInvariant == BufferSpec => []BufferInv
<1>1. BufferInv /\ [BufferNext]_bufferVars => BufferInv'
  <2> SUFFICES ASSUME BufferInv, [BufferNext]_bufferVars
               PROVE  BufferInv'
    OBVIOUS
  <2>1. Numbers \subseteq Pair
    BY BufferAssumption DEF Pair
  <2>2. Words \subseteq Chunk
    <3>1. Limb \subseteq Int
      BY DEF Limb
    <3> QED
      BY <3>1, BufferAssumption DEF Chunk
  <2>3. CASE AddFINISH
    <3>1. Added("FINISH", <<0, 0>>, <<>>, <<>>)
      BY DEF Added
    <3> QED
      BY <2>3, <3>1, AddKeepsLayout DEF AddFINISH
  <2>4. ASSUME NEW n \in 0 .. 3, AddSYNC_CACHE(<<n, 0>>)
        PROVE  BufferInv'
    <3>1. Added("SYNC_CACHE", <<n, 0>>, <<>>, << <<n, 0>> >>)
      BY DEF Added
    <3> QED
      BY <2>4, <3>1, AddKeepsLayout DEF AddSYNC_CACHE
  <2>5. ASSUME NEW op \in {"WRITE_REG64", "LOAD_REG64", "STORE_REG64"},
               NEW n \in Numbers, NEW w \in Words, Add(op, n, <<w>>, <<n, w>>)
        PROVE  BufferInv'
    <3>1. Added(op, n, <<w>>, <<n, w>>)
      BY <2>1, <2>2 DEF Added
    <3> QED
      BY <2>5, <3>1, AddKeepsLayout
  <2>6. ASSUME NEW n \in Numbers, NEW w \in Words, AddSTORE_IMM64(n \o <<0, 0>>, w)
        PROVE  BufferInv'
    <3>1. n \in Pair /\ w \in Chunk
      BY <2>1, <2>2
    <3>2. n = <<n[1], n[2]>> /\ n[1] \in Limb /\ n[2] \in Limb
      BY <3>1 DEF Pair
    <3>3. n \o <<0, 0>> = <<n[1], n[2], 0, 0>>
      BY <3>2, PairAsWord
    <3>4. Low(n \o <<0, 0>>) = n
      <4>1. Low(<<n[1], n[2], 0, 0>>) = <<n[1], n[2]>>
        BY DEF Low
      <4> QED
        BY <3>2, <3>3, <4>1, Zenon
    <3>5. Added("STORE_IMM64", n, <<w>>, << <<n[1], n[2], 0, 0>>, w>>)
      BY <3>1 DEF Added
    <3>6. Add("STORE_IMM64", n, <<w>>, << <<n[1], n[2], 0, 0>>, w>>)
      BY <2>6, <3>3, <3>4 DEF AddSTORE_IMM64
    <3> QED
      BY <3>5, <3>6, AddKeepsLayout
  <2>7. ASSUME NEW n \in Numbers, NEW unit \in Numbers, NEW src \in Words,
               NEW dst \in Words, AddCOPY_MEM64(src, dst, n, unit)
        PROVE  BufferInv'
    <3> DEFINE id == <<unit[1], unit[2], 0, 0>>
    <3>1. n \in Pair /\ unit \in Pair /\ src \in Chunk /\ dst \in Chunk
      BY <2>1, <2>2
    <3>2. unit = <<unit[1], unit[2]>> /\ unit[1] \in Limb /\ unit[2] \in Limb
      BY <3>1 DEF Pair
    <3>3. unit \o <<0, 0>> = id
      BY <3>2, PairAsWord
    <3>4. Added("COPY_MEM64", n, <<src, dst, id>>, <<n, src, dst, unit>>)
      BY <3>1 DEF Added
    <3>5. Add("COPY_MEM64", n, <<src, dst, id>>, <<n, src, dst, unit>>)
      BY <2>7, <3>3 DEF AddCOPY_MEM64
    <3> QED
      BY <3>4, <3>5, AddKeepsLayout
  <2>8. ASSUME NEW n \in Widths, NEW i \in Words, NEW s \in Words,
               AddRUN_KERNEL_SLICE(n, i, s)
        PROVE  BufferInv'
    <3>1. n \in 0 .. 255 /\ i \in Chunk /\ s \in Chunk
      BY <2>2, BufferAssumption
    <3>2. Added("RUN_KERNEL_SLICE", <<n, 0>>, <<i, s>>, <<n, i, s>>)
      BY <3>1 DEF Added
    <3> QED
      BY <2>8, <3>2, AddKeepsLayout DEF AddRUN_KERNEL_SLICE
  <2>9. ASSUME NEW n \in Widths, NEW i \in Words, NEW k \in ArgCounts,
               NEW extra \in [1 .. k -> Words], AddRUN_INSTANCES(n, i, extra)
        PROVE  BufferInv'
    <3>1. n \in 0 .. 255 /\ i \in Chunk /\ k \in 0 .. 7
      BY <2>2, BufferAssumption
    <3>2. extra \in Seq(Chunk) /\ Len(extra) <= 7
      <4>1. extra \in [1 .. k -> Chunk]
        BY <2>2
      <4>2. extra \in Seq(Chunk) /\ Len(extra) = k
        BY <3>1, <4>1
      <4> QED
        BY <3>1, <4>2
    <3>3. Added("RUN_INSTANCES", <<n + Len(extra) * 2^8, 0>>, <<i>> \o extra,
                <<n, i, extra>>)
      BY <3>1, <3>2 DEF Added
    <3> QED
      BY <2>9, <3>3, AddKeepsLayout DEF AddRUN_INSTANCES
  <2>10. CASE Submit
    <3>1. /\ chunks \in Seq(Chunk) /\ asked \in Seq(CommandSet) /\ seen \in Seq(CommandSet)
          /\ BufferDecodes
      BY DEF BufferInv
    <3>2. /\ pos = 0 /\ pos' = 1 /\ chunks' = chunks /\ asked' = asked
          /\ seen' = seen /\ outcome' = outcome
      BY <2>10 DEF Submit
    <3>3. PICK starts : LaidOut(chunks, asked, starts) /\ Reading(starts)
      BY DEF BufferInv
    <3>4. starts[1] = 1 /\ seen = <<>>
      BY <3>2, <3>3 DEF LaidOut, Reading
    <3>5. Reading(starts)'
      BY <3>2, <3>4 DEF Reading
    <3>6. BufferDecodes'
      BY <3>1, <3>2 DEF BufferDecodes
    <3>7. \E f : LaidOut(chunks', asked', f) /\ Reading(f)'
      BY <3>2, <3>3, <3>5, Zenon
    <3> QED
      BY <3>1, <3>2, <3>6, <3>7, Zenon DEF BufferInv
  <2>11. CASE UNCHANGED bufferVars
    <3>1. /\ chunks' = chunks /\ asked' = asked /\ pos' = pos /\ seen' = seen
          /\ outcome' = outcome
      BY <2>11 DEF bufferVars
    <3>2. \A f : Reading(f) => Reading(f)'
      BY <3>1 DEF Reading
    <3>3. BufferDecodes => BufferDecodes'
      BY <3>1 DEF BufferDecodes
    <3> QED
      BY <3>1, <3>2, <3>3, Zenon DEF BufferInv
  <2> QED
    BY <2>3, <2>4, <2>5, <2>6, <2>7, <2>8, <2>9, <2>10, <2>11, ExecuteKeepsLayout,
       EndKeepsLayout, Zenon
       DEF BufferNext, AddWRITE_REG64, AddLOAD_REG64, AddSTORE_REG64
<1> QED
  BY <1>1, BufferStarts, PTL DEF BufferSpec

\* Any number of commands with any arguments of their widths comes through the
\* buffer: what the CMP executes is what the HAL has added, in its order, up to
\* the first FINISH, and it never stops for a header or a length that it does not
\* understand (refsi_command_buffer, RefSiCommandProcessor::execute).
THEOREM BuffersDecode == BufferSpec => []BufferDecodes
<1>1. BufferInv => BufferDecodes
  BY DEF BufferInv
<1> QED
  BY <1>1, BufferInvariant, PTL

-----------------------------------------------------------------------------
(* Loading a program                                                       *)

SegmentSet == [load : BOOLEAN, address : Nat, offset : Nat, filesz : Nat, memsz : Nat]

Parsed(p) ==
  /\ p = [file |-> p.file, segments |-> p.segments, symbols |-> p.symbols,
          kernels |-> p.kernels]
  /\ p.segments \in Seq(SegmentSet)

Covered(s, a) == a >= s.address /\ (a < s.address + s.memsz \/ a < s.address + s.filesz)

Cell(p, s, a) ==
  IF a < s.address + s.filesz
  THEN [file |-> p.file.id, offset |-> s.offset + (a - s.address)]
  ELSE Zero

\* The cell a, once k segments of the program are loaded: it is that of the
\* last of them that has the address, or the one from before.
CellAfter(p, k, a, old, new) ==
  \/ new = old /\ \A i \in 1 .. k : ~Covered(p.segments[i], a)
  \/ \E i \in 1 .. k :
       /\ Covered(p.segments[i], a) /\ new = Cell(p, p.segments[i], a)
       /\ \A j \in i + 1 .. k : ~Covered(p.segments[j], a)

\* Loading has come to its segment, or to an address in it.
LoadReached(p, l, m, b) ==
  /\ l \in [slot : Slots, segment : Nat, data : BOOLEAN, at : Nat, left : Nat]
  /\ Parsed(p) /\ l.segment \in 1 .. Len(p.segments) + 1
  /\ l.data => \A a \in ElfWindow : CellAfter(p, l.segment - 1, a, b[a], m[a])
  /\ ~l.data =>
       LET s == p.segments[l.segment]
       IN  /\ l.segment <= Len(p.segments)
           /\ l.at >= s.address + s.filesz
           /\ l.at + l.left = s.address + IF s.memsz > s.filesz THEN s.memsz ELSE s.filesz
           /\ \A a \in ElfWindow :
                IF s.address <= a /\ a < l.at THEN m[a] = Cell(p, s, a)
                ELSE CellAfter(p, l.segment - 1, a, b[a], m[a])

ElfInv ==
  /\ DOMAIN programs = Slots
  /\ \A s \in Slots : programs[s] = NoProgram \/ Parsed(programs[s])
  /\ Loading => LoadReached(programs[load.slot], load, memory, before)

\* A segment decides on the cells that it has, and on no others.
LEMMA NextDecides ==
  ASSUME NEW p, NEW k \in Nat \ {0}, NEW a, NEW old, NEW new,
         \/ Covered(p.segments[k], a) /\ new = Cell(p, p.segments[k], a)
         \/ ~Covered(p.segments[k], a) /\ CellAfter(p, k - 1, a, old, new)
  PROVE  CellAfter(p, k, a, old, new)
<1>1. CASE Covered(p.segments[k], a) /\ new = Cell(p, p.segments[k], a)
  <2>1. k \in 1 .. k /\ k + 1 .. k = {}
    OBVIOUS
  <2> QED
    BY <1>1, <2>1 DEF CellAfter
<1>2. CASE ~Covered(p.segments[k], a) /\ CellAfter(p, k - 1, a, old, new)
  <2>1. CASE new = old /\ \A i \in 1 .. k - 1 : ~Covered(p.segments[i], a)
    <3>1. \A i \in 1 .. k : i = k \/ i \in 1 .. k - 1
      OBVIOUS
    <3> QED
      BY <1>2, <2>1, <3>1, Zenon DEF CellAfter
  <2>2. ASSUME NEW i \in 1 .. k - 1, Covered(p.segments[i], a),
               new = Cell(p, p.segments[i], a),
               \A j \in i + 1 .. k - 1 : ~Covered(p.segments[j], a)
        PROVE  CellAfter(p, k, a, old, new)
    <3>1. i \in 1 .. k /\ \A j \in i + 1 .. k : j = k \/ j \in i + 1 .. k - 1
      OBVIOUS
    <3> QED
      BY <1>2, <2>2, <3>1, Zenon DEF CellAfter
  <2> QED
    BY <1>2, <2>1, <2>2, Zenon DEF CellAfter
<1> QED
  BY <1>1, <1>2

\* Loading begins with the cells as they are.
LEMMA BeginReached ==
  ASSUME ElfInv, NEW slot \in Slots, LoadBegin(slot)
  PROVE  ElfInv'
<1>1. /\ programs' = programs /\ memory' = memory /\ before' = memory
      /\ load' = [slot |-> slot, segment |-> 1, data |-> TRUE, at |-> 0, left |-> 0]
  BY DEF LoadBegin
<1>2. Parsed(programs[slot])
  BY DEF LoadBegin, ElfInv
<1>3. load'.slot = slot
  BY <1>1
<1> DEFINE p == programs[slot]
<1>4. LoadReached(p, load', memory', before')
  <2>1. load' \in [slot : Slots, segment : Nat, data : BOOLEAN, at : Nat, left : Nat]
    BY <1>1
  <2>2. load'.data = TRUE /\ load'.segment = 1
    BY <1>1
  <2>3. 1 \in 1 .. Len(p.segments) + 1
    <3>1. Len(p.segments) \in Nat
      BY <1>2, LenProperties DEF Parsed
    <3> QED
      BY <3>1
  <2>4. \A a \in ElfWindow : CellAfter(p, 1 - 1, a, before'[a], memory'[a])
    <3>1. 1 .. 1 - 1 = {}
      OBVIOUS
    <3> QED
      BY <1>1, <3>1 DEF CellAfter
  <2> HIDE DEF p
  <2> QED
    BY <1>2, <2>1, <2>2, <2>3, <2>4 DEF LoadReached, p
<1> QED
  BY <1>1, <1>3, <1>4 DEF ElfInv

\* The data of a segment.
LEMMA DataReached ==
  ASSUME ElfInv, StoreData
  PROVE  ElfInv'
<1> DEFINE p == programs[load.slot]
           k == load.segment
           s == p.segments[k]
           l == load'
           end == s.address + IF s.memsz > s.filesz THEN s.memsz ELSE s.filesz
<1>1. /\ Loading /\ load.data /\ k <= Len(p.segments)
      /\ programs' = programs
      /\ \/ load' = NoLoad
         \/ /\ Store(s.address, DataOf(s)) /\ before' = before
            /\ load' = [load EXCEPT !.data = FALSE, !.at = s.address + s.filesz,
                          !.left = IF s.memsz > s.filesz THEN s.memsz - s.filesz ELSE 0]
  BY DEF StoreData, More, Current, LoadFails
<1>2. LoadReached(p, load, memory, before)
  BY <1>1 DEF ElfInv
<1>3. CASE load' = NoLoad
  BY <1>1, <1>3 DEF ElfInv, Loading, NoLoad
<1>4. CASE load' # NoLoad
  <2>1. /\ load \in [slot : Slots, segment : Nat, data : BOOLEAN, at : Nat, left : Nat]
        /\ Parsed(p) /\ k \in 1 .. Len(p.segments) + 1
        /\ \A a \in ElfWindow : CellAfter(p, k - 1, a, before[a], memory[a])
    BY <1>1, <1>2 DEF LoadReached
  <2>2. k \in 1 .. Len(p.segments)
    <3>1. Len(p.segments) \in Nat
      BY <2>1, LenProperties DEF Parsed
    <3> QED
      BY <1>1, <2>1, <3>1
  <2>3. s \in SegmentSet
    BY <2>1, <2>2, ElementOfSeq DEF Parsed
  <2>4. s.address \in Nat /\ s.filesz \in Nat /\ s.memsz \in Nat /\ s.offset \in Nat
    BY <2>3 DEF SegmentSet
  <2> HIDE DEF s
  <2>5. /\ l.slot = load.slot /\ l.segment = k /\ l.data = FALSE
        /\ l.at = s.address + s.filesz
        /\ l.left = IF s.memsz > s.filesz THEN s.memsz - s.filesz ELSE 0
        /\ l \in [slot : Slots, segment : Nat, data : BOOLEAN, at : Nat, left : Nat]
    <3> DEFINE behind == s.address + s.filesz
               left == IF s.memsz > s.filesz THEN s.memsz - s.filesz ELSE 0
    <3>1. load' = [load EXCEPT !.data = FALSE, !.at = behind, !.left = left]
      BY <1>1, <1>4, Zenon DEF s
    <3>2. behind \in Nat /\ left \in Nat
      BY <2>4
    <3> HIDE DEF behind, left
    <3>3. /\ l.slot = load.slot /\ l.segment = k /\ l.data = FALSE
          /\ l.at = behind /\ l.left = left
          /\ l \in [slot : Slots, segment : Nat, data : BOOLEAN, at : Nat, left : Nat]
      BY <2>1, <3>1, <3>2
    <3> QED
      BY <3>3 DEF behind, left
  <2>6. l.at + l.left = end
    BY <2>4, <2>5
  <2>7. ASSUME NEW a \in ElfWindow
        PROVE  IF s.address <= a /\ a < l.at THEN memory'[a] = Cell(p, s, a)
               ELSE CellAfter(p, k - 1, a, before'[a], memory'[a])
    <3>1. a \in Int
      BY ElfAssumption DEF ElfWindow
    <3>2. DOMAIN DataOf(s) = 0 .. s.filesz - 1
      BY DEF DataOf
    <3>3. /\ memory'[a] = IF a - s.address \in DOMAIN DataOf(s)
                          THEN DataOf(s)[a - s.address] ELSE memory[a]
          /\ before' = before
      BY <1>1, <1>4 DEF Store
    <3>4. CASE s.address <= a /\ a < l.at
      <4>1. a - s.address \in 0 .. s.filesz - 1 /\ a < s.address + s.filesz
        BY <2>4, <2>5, <3>1, <3>4
      <4>2. DataOf(s)[a - s.address] =
              [file |-> p.file.id, offset |-> s.offset + (a - s.address)]
        BY <4>1 DEF DataOf
      <4> QED
        BY <3>2, <3>3, <3>4, <4>1, <4>2 DEF Cell
    <3>5. CASE ~(s.address <= a /\ a < l.at)
      <4>1. a - s.address \notin 0 .. s.filesz - 1
        BY <2>4, <2>5, <3>1, <3>5
      <4> QED
        BY <2>1, <3>2, <3>3, <3>5, <4>1
    <3> QED
      BY <3>4, <3>5
  <2>8. /\ ~l.data /\ l.segment \in 1 .. Len(p.segments) + 1
        /\ l.segment <= Len(p.segments) /\ l.at >= s.address + s.filesz
    BY <2>1, <2>2, <2>4, <2>5
  <2>9. s = p.segments[l.segment]
    BY <2>5 DEF s
  <2> HIDE DEF p, k, l
  <2>10. LoadReached(p, l, memory', before')
    BY <2>1, <2>5, <2>6, <2>7, <2>8, <2>9, Zenon DEF LoadReached, l, k
  <2> QED
    BY <1>1, <2>5, <2>10 DEF ElfInv, p, l
<1> QED
  BY <1>3, <1>4

\* A chunk of zeros behind the data of a segment, not beyond its memory.
LEMMA ZerosReached ==
  ASSUME ElfInv, StoreZeros
  PROVE  ElfInv'
<1> DEFINE p == programs[load.slot]
           k == load.segment
           s == p.segments[k]
           l == load'
           end == s.address + IF s.memsz > s.filesz THEN s.memsz ELSE s.filesz
           length == IF ZeroChunk < load.left THEN ZeroChunk ELSE load.left
<1>1. /\ Loading /\ ~load.data /\ load.left > 0 /\ programs' = programs
      /\ \/ load' = NoLoad
         \/ /\ Store(load.at, [i \in 0 .. length - 1 |-> Zero]) /\ before' = before
            /\ load' = [load EXCEPT !.at = @ + length, !.left = @ - length]
  BY DEF StoreZeros, More, LoadFails
<1>2. LoadReached(p, load, memory, before)
  BY <1>1 DEF ElfInv
<1>3. CASE load' = NoLoad
  BY <1>1, <1>3 DEF ElfInv, Loading, NoLoad
<1>4. CASE load' # NoLoad
  <2>1. /\ load \in [slot : Slots, segment : Nat, data : BOOLEAN, at : Nat, left : Nat]
        /\ Parsed(p) /\ k \in 1 .. Len(p.segments) + 1 /\ k <= Len(p.segments)
        /\ load.at >= s.address + s.filesz /\ load.at + load.left = end
        /\ \A a \in ElfWindow :
             IF s.address <= a /\ a < load.at THEN memory[a] = Cell(p, s, a)
             ELSE CellAfter(p, k - 1, a, before[a], memory[a])
    BY <1>1, <1>2 DEF LoadReached
  <2>2. s \in SegmentSet
    <3>1. k \in 1 .. Len(p.segments)
      <4>1. Len(p.segments) \in Nat
        BY <2>1, LenProperties DEF Parsed
      <4> QED
        BY <2>1, <4>1
    <3> QED
      BY <2>1, <3>1, ElementOfSeq DEF Parsed
  <2>3. s.address \in Nat /\ s.filesz \in Nat /\ s.memsz \in Nat
    BY <2>2 DEF SegmentSet
  <2>4. load.at \in Nat /\ load.left \in Nat /\ ZeroChunk \in Nat \ {0}
    BY <2>1, ElfAssumption
  <2>5. length \in Nat \ {0} /\ length <= load.left
    BY <1>1, <2>4
  <2> HIDE DEF s, length
  <2>6. /\ l.slot = load.slot /\ l.segment = k /\ l.data = FALSE
        /\ l.at = load.at + length /\ l.left = load.left - length
        /\ l \in [slot : Slots, segment : Nat, data : BOOLEAN, at : Nat, left : Nat]
    <3>1. load' = [load EXCEPT !.at = load.at + length, !.left = load.left - length]
      BY <1>1, <1>4
    <3>2. load.at + length \in Nat /\ load.left - length \in Nat
      BY <2>4, <2>5
    <3> QED
      BY <1>1, <2>1, <3>1, <3>2
  <2>7. l.at + l.left = end /\ l.at >= s.address + s.filesz
    BY <2>1, <2>3, <2>4, <2>5, <2>6
  <2>8. ASSUME NEW a \in ElfWindow
        PROVE  IF s.address <= a /\ a < l.at THEN memory'[a] = Cell(p, s, a)
               ELSE CellAfter(p, k - 1, a, before'[a], memory'[a])
    <3>1. a \in Int
      BY ElfAssumption DEF ElfWindow
    <3>2. /\ memory'[a] = IF a - load.at \in 0 .. length - 1 THEN Zero ELSE memory[a]
          /\ before' = before
      BY <1>1, <1>4 DEF Store
    <3>3. CASE a - load.at \in 0 .. length - 1
      <4>1. s.address <= a /\ a < l.at /\ ~(a < s.address + s.filesz)
        <5>1. /\ load.at >= s.address + s.filesz /\ l.at = load.at + length
              /\ length \in Nat /\ load.at \in Nat
          BY <2>1, <2>4, <2>5, <2>6
        <5> HIDE DEF l
        <5> QED
          BY <2>3, <3>1, <3>3, <5>1
      <4> QED
        BY <3>2, <3>3, <4>1 DEF Cell
    <3>4. CASE a - load.at \notin 0 .. length - 1
      <4>1. a < l.at <=> a < load.at
        BY <2>4, <2>5, <2>6, <3>1, <3>4
      <4> QED
        BY <2>1, <3>2, <3>4, <4>1
    <3> QED
      BY <3>3, <3>4
  <2>9. /\ ~l.data /\ l.segment \in 1 .. Len(p.segments) + 1
        /\ l.segment <= Len(p.segments) /\ s = p.segments[l.segment]
    BY <2>1, <2>6 DEF s
  <2> HIDE DEF p, k, l
  <2>10. LoadReached(p, l, memory', before')
    BY <2>1, <2>6, <2>7, <2>8, <2>9, Zenon DEF LoadReached, l, k
  <2> QED
    BY <1>1, <2>6, <2>10 DEF ElfInv, p, l
<1> QED
  BY <1>3, <1>4

\* A segment that is loaded decides on its cells.
LEMMA SegmentReached ==
  ASSUME ElfInv, NextSegment
  PROVE  ElfInv'
<1> DEFINE p == programs[load.slot]
           k == load.segment
           s == p.segments[k]
           l == load'
<1>1. /\ Loading /\ ~load.data /\ load.left = 0 /\ programs' = programs
      /\ memory' = memory /\ before' = before
      /\ load' = [load EXCEPT !.segment = @ + 1, !.data = TRUE]
  BY DEF NextSegment, More
<1>2. LoadReached(p, load, memory, before)
  BY <1>1 DEF ElfInv
<1>3. /\ load \in [slot : Slots, segment : Nat, data : BOOLEAN, at : Nat, left : Nat]
      /\ Parsed(p) /\ k \in 1 .. Len(p.segments) + 1 /\ k <= Len(p.segments)
      /\ load.at + load.left = s.address + IF s.memsz > s.filesz THEN s.memsz ELSE s.filesz
      /\ \A a \in ElfWindow :
           IF s.address <= a /\ a < load.at THEN memory[a] = Cell(p, s, a)
           ELSE CellAfter(p, k - 1, a, before[a], memory[a])
  BY <1>1, <1>2 DEF LoadReached
<1>4. Len(p.segments) \in Nat /\ k \in Nat \ {0}
  <2>1. Len(p.segments) \in Nat
    BY <1>3, LenProperties DEF Parsed
  <2> QED
    BY <1>3, <2>1
<1>5. s \in SegmentSet
  <2>1. k \in 1 .. Len(p.segments)
    BY <1>3, <1>4
  <2> QED
    BY <1>3, <2>1, ElementOfSeq DEF Parsed
<1>6. s.address \in Nat /\ s.filesz \in Nat /\ s.memsz \in Nat /\ load.at \in Nat
  BY <1>3, <1>5 DEF SegmentSet
<1> HIDE DEF s
<1>7. /\ l.slot = load.slot /\ l.segment = k + 1 /\ l.data = TRUE
      /\ l \in [slot : Slots, segment : Nat, data : BOOLEAN, at : Nat, left : Nat]
  <2>1. load' = [load EXCEPT !.segment = k + 1, !.data = TRUE]
    BY <1>1
  <2>2. k + 1 \in Nat
    BY <1>4
  <2> DEFINE next == k + 1
  <2> HIDE DEF next
  <2>3. next \in Nat /\ load' = [load EXCEPT !.segment = next, !.data = TRUE]
    BY <2>1, <2>2 DEF next
  <2>4. load \in [slot : Slots, segment : Nat, data : BOOLEAN, at : Nat, left : Nat]
    BY <1>3
  <2>5. /\ l.slot = load.slot /\ l.segment = next /\ l.data = TRUE
        /\ l \in [slot : Slots, segment : Nat, data : BOOLEAN, at : Nat, left : Nat]
    BY <2>3, <2>4
  <2> QED
    BY <2>5 DEF next
<1>8. ASSUME NEW a \in ElfWindow
      PROVE  CellAfter(p, k, a, before[a], memory[a])
  <2>1. a \in Int
    BY ElfAssumption DEF ElfWindow
  <2>2. Covered(s, a) <=> s.address <= a /\ a < load.at
    BY <1>1, <1>3, <1>6, <2>1 DEF Covered
  <2>3. \/ Covered(s, a) /\ memory[a] = Cell(p, s, a)
        \/ ~Covered(s, a) /\ CellAfter(p, k - 1, a, before[a], memory[a])
    BY <1>3, <2>2
  <2> HIDE DEF p, k
  <2> QED
    BY <1>4, <2>3, NextDecides, Zenon DEF s
<1>9. l.segment \in 1 .. Len(p.segments) + 1 /\ l.segment - 1 = k
  BY <1>3, <1>4, <1>7
<1> HIDE DEF p, k, l
<1>10. LoadReached(p, l, memory', before')
  BY <1>1, <1>3, <1>7, <1>8, <1>9 DEF LoadReached
<1> QED
  BY <1>1, <1>7, <1>10 DEF ElfInv, p, l

\* The calls that load no program leave those under way alone.
LEMMA ElfInvariant == SegmentsAreNumbers => (ElfSpec => []ElfInv)
<1> SUFFICES ASSUME SegmentsAreNumbers
             PROVE  ElfSpec => []ElfInv
  OBVIOUS
<1>1. ElfInit => ElfInv
  BY DEF ElfInit, ElfInv, Loading, NoLoad
<1>2. ElfInv /\ [ElfNext]_elfVars => ElfInv'
  <2> SUFFICES ASSUME ElfInv, [ElfNext]_elfVars
               PROVE  ElfInv'
    OBVIOUS
  <2>1. ASSUME NEW slot \in Slots, NEW file \in ElfFiles, ProgramLoad(slot, file)
        PROVE  ElfInv'
    <3>1. PICK symbols :
            /\ ~Loading /\ load' = load
            /\ programs' = [programs EXCEPT ![slot] =
                 [file |-> file, segments |-> Loadable(file), symbols |-> symbols,
                  kernels |-> << >>]]
      BY <2>1 DEF ProgramLoad
    <3> DEFINE new == [file |-> file, segments |-> Loadable(file), symbols |-> symbols,
                       kernels |-> << >>]
    <3>2. Parsed(new)
      <4>1. Loadable(file) \in Seq(SegmentSet)
        BY DEF SegmentsAreNumbers, SegmentSet
      <4> QED
        BY <4>1 DEF Parsed
    <3> HIDE DEF new
    <3>3. programs' = [programs EXCEPT ![slot] = new]
      BY <3>1 DEF new
    <3>4. ~Loading'
      BY <3>1 DEF Loading
    <3> QED
      BY <3>2, <3>3, <3>4 DEF ElfInv
  <2>2. ASSUME NEW slot \in Slots, ProgramFree(slot)
        PROVE  ElfInv'
    <3>1. ~Loading' /\ programs' = [programs EXCEPT ![slot] = NoProgram]
      BY <2>2 DEF ProgramFree, Loading
    <3> QED
      BY <3>1 DEF ElfInv
  <2>3. ASSUME NEW slot \in Slots, NEW name \in Names, FindKernel(slot, name)
        PROVE  ElfInv'
    <3> DEFINE p == programs[slot]
    <3>1. ~Loading' /\ p # NoProgram
      BY <2>3 DEF FindKernel, Loading
    <3>2. \/ programs' = programs
          \/ \E kernels : programs' = [programs EXCEPT ![slot].kernels = kernels]
      BY <2>3 DEF FindKernel
    <3>3. ASSUME NEW kernels, programs' = [programs EXCEPT ![slot].kernels = kernels]
          PROVE  ElfInv'
      <4>1. Parsed(p)
        BY <3>1 DEF ElfInv
      <4>2. Parsed([p EXCEPT !.kernels = kernels])
        <5> DEFINE q == [p EXCEPT !.kernels = kernels]
        <5>1. p = [file |-> p.file, segments |-> p.segments, symbols |-> p.symbols,
                   kernels |-> p.kernels]
          BY <4>1 DEF Parsed
        <5>2. q = [file |-> p.file, segments |-> p.segments, symbols |-> p.symbols,
                   kernels |-> kernels]
          BY <5>1
        <5> HIDE DEF q, p
        <5>3. /\ q = [file |-> q.file, segments |-> q.segments, symbols |-> q.symbols,
                      kernels |-> q.kernels]
              /\ q.segments = p.segments
          BY <5>2
        <5> QED
          BY <4>1, <5>3 DEF Parsed, q
      <4> DEFINE q == [p EXCEPT !.kernels = kernels]
      <4>3. programs' = [programs EXCEPT ![slot] = q]
        BY <3>3
      <4> HIDE DEF q
      <4> QED
        BY <3>1, <4>2, <4>3 DEF ElfInv, q
    <3> QED
      BY <3>1, <3>2, <3>3 DEF ElfInv
  <2>4. CASE RunKernel
    <3>1. programs' = programs /\ ~Loading'
      BY <2>4 DEF RunKernel, Loading, NoLoad
    <3> QED
      BY <3>1 DEF ElfInv
  <2>5. CASE UNCHANGED elfVars
    BY <2>5 DEF elfVars, ElfInv, Loading
  <2> QED
    BY <2>1, <2>2, <2>3, <2>4, <2>5, BeginReached, DataReached, ZerosReached,
       SegmentReached, Zenon DEF ElfNext
<1> QED
  BY <1>1, <1>2, PTL DEF ElfSpec

\* Whatever the segments of a program are, in any order, overlapping, larger in
\* the file than in memory, and whatever the device's memory held before: when
\* the harts run, a cell is what the last segment with its address makes it, the
\* data of the file or a zero, and every other cell is as before
\* (ELFProgram::load, refsi_m1_hal_device::kernel_exec).
THEOREM LoadsAreExact == SegmentsAreNumbers => (ElfSpec => []LoadIsExact)
<1>1. ElfInv => LoadIsExact
  <2> SUFFICES ASSUME ElfInv, Loaded, NEW a \in ElfWindow
               PROVE  memory[a] = Image(a)
    BY DEF LoadIsExact
  <2> DEFINE p == programs[load.slot]
             n == Len(p.segments)
             Covering == {i \in DOMAIN p.segments : Covered(p.segments[i], a)}
  <2>1. LoadReached(p, load, memory, before) /\ ~(load.segment <= n)
    BY DEF ElfInv, Loaded, More
  <2>2. Parsed(p) /\ load.segment \in 1 .. n + 1
    BY <2>1 DEF LoadReached
  <2>3. n \in Nat /\ DOMAIN p.segments = 1 .. n /\ load.segment - 1 = n
    <3>1. n \in Nat /\ DOMAIN p.segments = 1 .. n
      BY <2>2, LenProperties DEF Parsed
    <3> QED
      BY <2>1, <2>2, <3>1
  <2>4. CellAfter(p, n, a, before[a], memory[a])
    BY <2>1, <2>3 DEF LoadReached
  <2>5. Image(a) = IF Covering = {} THEN before[a]
                   ELSE Cell(p, p.segments[Latest(Covering)], a)
    BY DEF Image, Cell, Covered
  <2>6. CASE memory[a] = before[a] /\ \A i \in 1 .. n : ~Covered(p.segments[i], a)
    BY <2>3, <2>5, <2>6
  <2>7. ASSUME NEW i \in 1 .. n, Covered(p.segments[i], a),
               memory[a] = Cell(p, p.segments[i], a),
               \A j \in i + 1 .. n : ~Covered(p.segments[j], a)
        PROVE  memory[a] = Image(a)
    <3>1. i \in Covering /\ Covering \subseteq 1 .. n
      BY <2>3, <2>7
    <3>2. \A j \in Covering : j <= i
      BY <2>3, <2>7
    <3> HIDE DEF Covering
    <3>3. Latest(Covering) = i
      <4>1. \A j \in Covering : j \in Int
        BY <3>1, <2>3
      <4>2. ASSUME NEW j \in Covering, \A m \in Covering : m <= j
            PROVE  j = i
        BY <3>1, <3>2, <4>1, <4>2
      <4> QED
        BY <3>1, <3>2, <4>2 DEF Latest
    <3> QED
      BY <2>5, <2>7, <3>1, <3>3
  <2> HIDE DEF p, n, Covering
  <2> QED
    BY <2>4, <2>6, <2>7, Zenon DEF CellAfter
<1> QED
  BY <1>1, ElfInvariant, PTL

-----------------------------------------------------------------------------
(* Finding a kernel                                                        *)

\* Induction with a set in the place of a predicate.
LEMMA SetInduction ==
  ASSUME NEW S, 0 \in S, \A n \in Nat : n \in S => n + 1 \in S
  PROVE  Nat \subseteq S
<1> DEFINE T == Nat \ S
           R == {ss \in Nat \X Nat : ss[1] < ss[2]}
<1> SUFFICES ASSUME T # {} PROVE FALSE
  OBVIOUS
<1>1. IsWellFoundedOn(R, Nat)
  BY NatLessThanWellFounded DEF OpToRel
<1>2. T \in SUBSET Nat
  OBVIOUS
<1> HIDE DEF R, T
<1>3. PICK t \in T : \A u \in T : ~(<<u, t>> \in R)
  BY <1>1, <1>2, WFMin
<1>4. t \in Nat /\ t \notin S /\ t # 0
  BY DEF T
<1>5. t - 1 \in Nat /\ (t - 1) + 1 = t /\ t - 1 < t
  BY <1>4
<1>6. t - 1 \in T
  BY <1>4, <1>5 DEF T
<1>7. <<t - 1, t>> \in R
  BY <1>4, <1>5 DEF R
<1> QED
  BY <1>3, <1>6, <1>7

\* The largest of numbers that are bounded.
LEMMA LatestExists ==
  ASSUME NEW n \in Nat, NEW S, S \subseteq 1 .. n, S # {}
  PROVE  Latest(S) \in S /\ \A j \in S : j <= Latest(S)
<1> DEFINE HasMax(T) == \E i \in T : \A j \in T : j <= i
           N == {k \in Nat : \A T \in SUBSET (1 .. k) : T # {} => HasMax(T)}
<1>1. 0 \in N
  <2>1. 1 .. 0 = {}
    OBVIOUS
  <2> QED
    BY <2>1
<1>2. ASSUME NEW k \in Nat, k \in N
      PROVE  k + 1 \in N
  <2> SUFFICES ASSUME NEW T \in SUBSET (1 .. k + 1), T # {}
               PROVE  HasMax(T)
    OBVIOUS
  <2>1. CASE k + 1 \in T
    BY <2>1
  <2>2. CASE k + 1 \notin T
    <3>1. T \in SUBSET (1 .. k)
      <4>1. ASSUME NEW i \in T PROVE i \in 1 .. k
        <5>1. i \in 1 .. k + 1 /\ i # k + 1
          BY <2>2
        <5> QED
          BY <5>1
      <4> QED
        BY <4>1
    <3> QED
      BY <1>2, <3>1
  <2> QED
    BY <2>1, <2>2
<1> HIDE DEF N
<1>3. n \in N
  BY <1>1, <1>2, SetInduction
<1>4. HasMax(S)
  BY <1>3 DEF N
<1> QED
  BY <1>4 DEF Latest

\* The map of the symbols whose numbers are in a set, added in their order:
\* the fold of ReadSymbols.
SymbolMaps(file, strings, domain) ==
  CHOOSE f : f = [s \in SUBSET domain |->
                    IF s = {} THEN << >>
                    ELSE AddSymbol(file, strings, f[s \ {SequenceOps!Max(s)}],
                                   file.symbols[SequenceOps!Max(s)])]

LEMMA FoldIs ==
  ASSUME NEW file, NEW strings
  PROVE  SequenceOps!FoldLeft(LAMBDA map, s : AddSymbol(file, strings, map, s), << >>,
                              file.symbols)
           = SymbolMaps(file, strings, DOMAIN file.symbols)[DOMAIN file.symbols]
BY DEF SequenceOps!FoldLeft, SequenceOps!MapThenFoldSet, SymbolMaps

\* f is such maps, for the sets of numbers up to k.
AreMaps(file, strings, k, f) ==
  f = [s \in SUBSET (1 .. k) |->
         IF s = {} THEN << >>
         ELSE AddSymbol(file, strings, f[s \ {SequenceOps!Max(s)}],
                        file.symbols[SequenceOps!Max(s)])]

LEMMA MaxOfAll ==
  ASSUME NEW k \in Nat, NEW s \in SUBSET (1 .. k + 1), k + 1 \in s
  PROVE  SequenceOps!Max(s) = k + 1
<1>1. \A y \in s : k + 1 >= y
  OBVIOUS
<1>2. \A x \in s : (\A y \in s : x >= y) => x = k + 1
  OBVIOUS
<1> QED
  BY <1>1, <1>2 DEF SequenceOps!Max

LEMMA MapsExist ==
  ASSUME NEW file, NEW strings
  PROVE  \A k \in Nat : \E f : AreMaps(file, strings, k, f)
<1> DEFINE N == {k \in Nat : \E f : AreMaps(file, strings, k, f)}
           WithSymbol(map, i) == AddSymbol(file, strings, map, file.symbols[i])
<1>1. 0 \in N
  <2>1. SUBSET (1 .. 0) = {{}}
    OBVIOUS
  <2>2. AreMaps(file, strings, 0, [s \in SUBSET (1 .. 0) |-> << >>])
    BY <2>1 DEF AreMaps
  <2> QED
    BY <2>2
<1>2. ASSUME NEW k \in Nat, k \in N
      PROVE  k + 1 \in N
  <2>1. PICK f : AreMaps(file, strings, k, f)
    BY <1>2
  <2> DEFINE g == [s \in SUBSET (1 .. k + 1) |->
                     IF k + 1 \in s THEN WithSymbol(f[s \ {k + 1}], k + 1) ELSE f[s]]
             h == [s \in SUBSET (1 .. k + 1) |->
                     IF s = {} THEN << >>
                     ELSE WithSymbol(g[s \ {SequenceOps!Max(s)}], SequenceOps!Max(s))]
  <2>2. \A s \in SUBSET (1 .. k) :
          f[s] = IF s = {} THEN << >>
                 ELSE WithSymbol(f[s \ {SequenceOps!Max(s)}], SequenceOps!Max(s))
    BY <2>1, Zenon DEF AreMaps
  <2> HIDE DEF WithSymbol
  <2>3. ASSUME NEW s \in SUBSET (1 .. k + 1)
        PROVE  g[s] = h[s]
    <3>1. CASE k + 1 \in s
      <4>1. SequenceOps!Max(s) = k + 1 /\ s # {}
        BY <3>1, MaxOfAll
      <4>2. s \ {k + 1} \in SUBSET (1 .. k + 1) /\ k + 1 \notin s \ {k + 1}
        OBVIOUS
      <4>3. g[s] = WithSymbol(f[s \ {k + 1}], k + 1) /\ g[s \ {k + 1}] = f[s \ {k + 1}]
        BY <3>1, <4>2
      <4>4. h[s] = WithSymbol(g[s \ {k + 1}], k + 1)
        BY <4>1
      <4> QED
        BY <4>3, <4>4
    <3>2. CASE k + 1 \notin s
      <4>1. s \in SUBSET (1 .. k)
        <5>1. ASSUME NEW i \in s PROVE i \in 1 .. k
          <6>1. i \in 1 .. k + 1 /\ i # k + 1
            BY <3>2
          <6> QED
            BY <6>1
        <5> QED
          BY <5>1
      <4> DEFINE t == s \ {SequenceOps!Max(s)}
      <4>2. t \in SUBSET (1 .. k + 1) /\ k + 1 \notin t
        BY <3>2
      <4>3. g[s] = f[s] /\ g[t] = f[t]
        BY <3>2, <4>2
      <4>4. f[s] = IF s = {} THEN << >> ELSE WithSymbol(f[t], SequenceOps!Max(s))
        BY <2>2, <4>1
      <4>5. h[s] = IF s = {} THEN << >> ELSE WithSymbol(g[t], SequenceOps!Max(s))
        OBVIOUS
      <4> QED
        BY <4>3, <4>4, <4>5
    <3> QED
      BY <3>1, <3>2
  <2>4. g = h
    BY <2>3
  <2>5. AreMaps(file, strings, k + 1, g)
    BY <2>4, Zenon DEF AreMaps, WithSymbol
  <2> HIDE DEF g
  <2> QED
    BY <2>5
<1> HIDE DEF N
<1> QED
  BY <1>1, <1>2, SetInduction DEF N

\* Symbol i of a file is a global one of the name.
HasName(file, i, name) ==
  LET s == file.symbols[i]
  IN  s.global /\ s.name = name /\ Readable(file, file.strings + s.at, s.length)

\* A map of names has the last of the first k symbols of each name.
HasLast(file, k, map) ==
  /\ \A n \in DOMAIN map : \E i \in 1 .. k :
       /\ HasName(file, i, n) /\ map[n] = file.symbols[i].value
       /\ \A j \in i + 1 .. k : ~HasName(file, j, n)
  /\ \A i \in 1 .. k : \A n : HasName(file, i, n) => n \in DOMAIN map

\* A symbol takes the place of those of its name.
LEMMA AddKeepsLast ==
  ASSUME NEW file, NEW k \in Nat, NEW map, HasLast(file, k, map)
  PROVE  HasLast(file, k + 1, AddSymbol(file, file.strings, map, file.symbols[k + 1]))
<1> DEFINE s == file.symbols[k + 1]
           new == AddSymbol(file, file.strings, map, s)
           taken == s.global /\ Readable(file, file.strings + s.at, s.length)
<1>1. \A n : HasName(file, k + 1, n) <=> taken /\ s.name = n
  BY DEF HasName
<1>2. /\ k + 1 \in 1 .. k + 1 /\ (k + 1) + 1 .. k + 1 = {}
      /\ \A i \in 1 .. k : /\ i \in 1 .. k + 1 /\ i # k + 1
                           /\ \A j \in i + 1 .. k + 1 : j = k + 1 \/ j \in i + 1 .. k
      /\ \A i \in 1 .. k + 1 : i = k + 1 \/ i \in 1 .. k
  OBVIOUS
<1>3. CASE taken
  <2>1. new = [n \in DOMAIN map \cup {s.name} |-> IF n = s.name THEN s.value ELSE map[n]]
    BY <1>3 DEF AddSymbol
  <2> HIDE DEF new
  <2>2. ASSUME NEW n \in DOMAIN new
        PROVE  \E i \in 1 .. k + 1 :
                 /\ HasName(file, i, n) /\ new[n] = file.symbols[i].value
                 /\ \A j \in i + 1 .. k + 1 : ~HasName(file, j, n)
    <3>1. CASE n = s.name
      <4>1. HasName(file, k + 1, n) /\ new[n] = s.value
        BY <1>1, <1>3, <2>1, <3>1
      <4> QED
        BY <1>2, <4>1
    <3>2. CASE n # s.name
      <4>1. n \in DOMAIN map /\ new[n] = map[n] /\ ~HasName(file, k + 1, n)
        BY <1>1, <2>1, <3>2
      <4>2. PICK i \in 1 .. k : /\ HasName(file, i, n) /\ map[n] = file.symbols[i].value
                                /\ \A j \in i + 1 .. k : ~HasName(file, j, n)
        BY <4>1 DEF HasLast
      <4>3. \A j \in i + 1 .. k + 1 : ~HasName(file, j, n)
        BY <1>2, <4>1, <4>2
      <4> QED
        BY <1>2, <4>1, <4>2, <4>3
    <3> QED
      BY <3>1, <3>2
  <2>3. ASSUME NEW i \in 1 .. k + 1, NEW n, HasName(file, i, n)
        PROVE  n \in DOMAIN new
    BY <1>1, <1>2, <2>1, <2>3 DEF HasLast
  <2> QED
    BY <2>2, <2>3, Zenon DEF HasLast, new
<1>4. CASE ~taken
  <2>1. new = map
    BY <1>4 DEF AddSymbol
  <2>2. \A n : ~HasName(file, k + 1, n)
    BY <1>1, <1>4
  <2> HIDE DEF new
  <2>3. ASSUME NEW n \in DOMAIN map
        PROVE  \E i \in 1 .. k + 1 :
                 /\ HasName(file, i, n) /\ map[n] = file.symbols[i].value
                 /\ \A j \in i + 1 .. k + 1 : ~HasName(file, j, n)
    <3>1. PICK i \in 1 .. k : /\ HasName(file, i, n) /\ map[n] = file.symbols[i].value
                              /\ \A j \in i + 1 .. k : ~HasName(file, j, n)
      BY DEF HasLast
    <3>2. \A j \in i + 1 .. k + 1 : ~HasName(file, j, n)
      BY <1>2, <2>2, <3>1
    <3> QED
      BY <1>2, <3>1, <3>2
  <2>4. ASSUME NEW i \in 1 .. k + 1, NEW n, HasName(file, i, n)
        PROVE  n \in DOMAIN map
    BY <1>2, <2>2, <2>4 DEF HasLast
  <2> QED
    BY <2>1, <2>3, <2>4, Zenon DEF HasLast, new
<1> QED
  BY <1>3, <1>4

\* The fold has the last symbol of each name.
LEMMA MapsHaveLast ==
  ASSUME NEW file, Len(file.symbols) \in Nat, DOMAIN file.symbols = 1 .. Len(file.symbols)
  PROVE  HasLast(file, Len(file.symbols),
                 SymbolMaps(file, file.strings, DOMAIN file.symbols)[DOMAIN file.symbols])
<1> DEFINE m == Len(file.symbols)
           f == SymbolMaps(file, file.strings, DOMAIN file.symbols)
           N == {k \in Nat : k <= m => HasLast(file, k, f[1 .. k])}
<1>1. AreMaps(file, file.strings, m, f)
  <2>1. \E g : AreMaps(file, file.strings, m, g)
    BY MapsExist
  <2> QED
    BY <2>1 DEF AreMaps, SymbolMaps
<1> HIDE DEF f, m
<1>2. \A s \in SUBSET (1 .. m) :
        f[s] = IF s = {} THEN << >>
               ELSE AddSymbol(file, file.strings, f[s \ {SequenceOps!Max(s)}],
                              file.symbols[SequenceOps!Max(s)])
  BY <1>1, Zenon DEF AreMaps
<1>3. 0 \in N
  <2>1. 1 .. 0 = {} /\ {} \in SUBSET (1 .. m)
    OBVIOUS
  <2>2. f[1 .. 0] = << >>
    BY <1>2, <2>1
  <2>3. HasLast(file, 0, << >>)
    BY <2>1 DEF HasLast
  <2> QED
    BY <2>2, <2>3
<1>4. ASSUME NEW k \in Nat, k \in N
      PROVE  k + 1 \in N
  <2> SUFFICES ASSUME k + 1 <= m
               PROVE  HasLast(file, k + 1, f[1 .. k + 1])
    OBVIOUS
  <2>1. m \in Nat
    BY DEF m
  <2>2. k <= m /\ HasLast(file, k, f[1 .. k])
    BY <1>4, <2>1
  <2> DEFINE s == 1 .. k + 1
  <2>3. s \in SUBSET (1 .. m) /\ s # {} /\ k + 1 \in s /\ s \ {k + 1} = 1 .. k
    <3>1. ASSUME NEW i \in s PROVE i \in 1 .. m
      BY <2>1
    <3>2. k + 1 \in s /\ \A i : i \in s \ {k + 1} <=> i \in 1 .. k
      OBVIOUS
    <3> HIDE DEF s
    <3> QED
      BY <3>1, <3>2
  <2>4. SequenceOps!Max(s) = k + 1
    BY <2>3, MaxOfAll
  <2> HIDE DEF s
  <2>5. f[s] = AddSymbol(file, file.strings, f[1 .. k], file.symbols[k + 1])
    BY <1>2, <2>3, <2>4
  <2> QED
    BY <2>2, <2>5, AddKeepsLast DEF s
<1> HIDE DEF N
<1>5. m \in N
  BY <1>3, <1>4, SetInduction DEF m
<1> QED
  BY <1>5 DEF N, m, f

\* What is read of a file has the last symbol of each name.
LEMMA ReadHasLast ==
  ASSUME StringsAreInTheirTable, NEW file \in ElfFiles, NEW map \in ReadSymbols(file)
  PROVE  HasLast(file, Len(file.symbols), map)
<1> DEFINE sections == file.sections.entries
           Fold(strtab) ==
             SequenceOps!FoldLeft(LAMBDA m, s : AddSymbol(file, sections[strtab].offset, m, s),
                                  << >>, file.symbols)
<1>1. PICK names, strtab : /\ strtab = Section(file, names, "strtab", ".strtab") /\ strtab # 0
                           /\ map = Fold(strtab)
  <2> DEFINE Good(symtab, strtab) ==
               /\ symtab # 0 /\ strtab # 0
               /\ sections[symtab].entsize >= SymbolSize(file)
               /\ ReadTable(file, [offset |-> sections[symtab].offset,
                                   entries |-> file.symbols,
                                   stride |-> sections[symtab].entsize], SymbolSize(file))
             Tables(names) == << Section(file, names, "symtab", ".symtab"),
                                 Section(file, names, "strtab", ".strtab") >>
  <2>1. map \in {Fold(t[2]) : t \in {u \in {Tables(n) : n \in NameTables(file)} : Good(u[1], u[2])}}
    BY DEF ReadSymbols
  <2> HIDE DEF Fold
  <2>2. PICK n : map = Fold(Tables(n)[2]) /\ Good(Tables(n)[1], Tables(n)[2])
    BY <2>1, Zenon
  <2>3. Tables(n)[2] = Section(file, n, "strtab", ".strtab") /\ Tables(n)[2] # 0
    BY <2>2
  <2> HIDE DEF Tables, Good
  <2> QED
    BY <2>2, <2>3
<1>2. /\ Len(file.symbols) \in Nat /\ DOMAIN file.symbols = 1 .. Len(file.symbols)
      /\ Len(sections) \in Nat /\ DOMAIN sections = 1 .. Len(sections)
      /\ \A i \in DOMAIN sections :
           sections[i].type = "strtab" /\ sections[i].name = ".strtab"
             => sections[i].offset = file.strings
  BY DEF StringsAreInTheirTable
<1>3. sections[strtab].offset = file.strings
  <2> DEFINE Matches == {i \in DOMAIN sections :
                           /\ sections[i].type = "strtab" /\ sections[i].name = ".strtab"
                           /\ names = file.shstrtab
                           /\ Readable(file, names + sections[i].at, 7)}
  <2>1. Matches # {} /\ strtab = Latest(Matches)
    BY <1>1 DEF Section, Latest
  <2>2. Matches \subseteq 1 .. Len(sections)
    BY <1>2
  <2>3. strtab \in Matches
    BY <1>2, <2>1, <2>2, LatestExists
  <2> QED
    BY <1>2, <2>3
<1>4. Fold(strtab) = SymbolMaps(file, sections[strtab].offset,
                                DOMAIN file.symbols)[DOMAIN file.symbols]
  BY FoldIs
<1> HIDE DEF Fold, sections
<1> QED
  BY <1>1, <1>2, <1>3, <1>4, MapsHaveLast

\* A program that is loaded knows the symbols of its file, and its kernels are
\* such symbols.
Known(p) ==
  /\ p = [file |-> p.file, segments |-> p.segments, symbols |-> p.symbols,
          kernels |-> p.kernels]
  /\ p.file \in ElfFiles /\ HasLast(p.file, Len(p.file.symbols), p.symbols)
  /\ \A n \in DOMAIN p.kernels : n \in DOMAIN p.symbols /\ p.kernels[n] = p.symbols[n]

SymbolOf(p, name) == IF name \in DOMAIN p.symbols THEN p.symbols[name] ELSE 0

SymbolsInv ==
  /\ programs = [s \in Slots |-> programs[s]]
  /\ \A s \in Slots : programs[s] = NoProgram \/ Known(programs[s])
  /\ handle # NoHandle =>
       /\ handle.slot \in Slots /\ Known(programs[handle.slot])
       /\ handle.symbol = SymbolOf(programs[handle.slot], handle.name)

LEMMA NoProgramIsUnknown == ~Known(NoProgram)
<1> SUFFICES ASSUME Known(NoProgram) PROVE FALSE
  OBVIOUS
<1> DEFINE p == NoProgram
<1>1. p = [file |-> p.file, segments |-> p.segments, symbols |-> p.symbols, kernels |-> p.kernels]
  BY DEF Known
<1>2. "kernels" \in DOMAIN p
  <2> HIDE DEF p
  <2> QED
    BY <1>1
<1> QED
  BY <1>2 DEF NoProgram

LEMMA SymbolsStep ==
  ASSUME StringsAreInTheirTable, SymbolsInv, [ElfNext]_elfVars
  PROVE  SymbolsInv'
<1> USE DEF SymbolsInv
<1>1. ASSUME NEW slot \in Slots, NEW file \in ElfFiles, ProgramLoad(slot, file)
      PROVE  SymbolsInv'
  <2>1. PICK symbols \in ReadSymbols(file) :
          programs' = [programs EXCEPT ![slot] =
            [file |-> file, segments |-> Loadable(file), symbols |-> symbols, kernels |-> << >>]]
    BY <1>1 DEF ProgramLoad
  <2>2. programs[slot] = NoProgram /\ handle' = handle
    BY <1>1 DEF ProgramLoad
  <2>3. HasLast(file, Len(file.symbols), symbols)
    BY ReadHasLast
  <2> DEFINE p == [file |-> file, segments |-> Loadable(file), symbols |-> symbols,
                   kernels |-> << >>]
  <2>4. Known(p)
    <3>1. DOMAIN << >> = {}
      OBVIOUS
    <3>2. /\ p.file = file /\ p.segments = Loadable(file) /\ p.symbols = symbols
          /\ p.kernels = << >>
      OBVIOUS
    <3>3. p = [file |-> p.file, segments |-> p.segments, symbols |-> p.symbols,
               kernels |-> p.kernels]
      OBVIOUS
    <3> HIDE DEF p
    <3> QED
      BY <2>3, <3>1, <3>2, <3>3 DEF Known
  <2> HIDE DEF p
  <2>5. programs' = [programs EXCEPT ![slot] = p]
    BY <2>1 DEF p
  <2>6. handle # NoHandle => handle.slot # slot
    BY <2>2, NoProgramIsUnknown
  <2> QED
    BY <2>2, <2>4, <2>5, <2>6
<1>2. ASSUME NEW slot \in Slots, ProgramFree(slot)
      PROVE  SymbolsInv'
  <2>1. /\ programs' = [programs EXCEPT ![slot] = NoProgram]
        /\ handle' = IF handle.slot = slot THEN NoHandle ELSE handle
    BY <1>2 DEF ProgramFree
  <2> QED
    BY <2>1
<1>3. ASSUME NEW slot \in Slots, NEW name \in Names, FindKernel(slot, name)
      PROVE  SymbolsInv'
  <2> DEFINE p == programs[slot]
             symbol == SymbolOf(p, name)
             kernels == [n \in DOMAIN p.kernels \cup {name} |->
                           IF n = name THEN symbol ELSE p.kernels[n]]
  <2>1. Known(p)
    BY <1>3 DEF FindKernel
  <2>2. symbol = IF name \in DOMAIN p.kernels THEN p.kernels[name]
                 ELSE IF name \in DOMAIN p.symbols THEN p.symbols[name] ELSE 0
    BY <2>1 DEF Known, SymbolOf
  <2>3. /\ handle' = [slot |-> slot, name |-> name, symbol |-> symbol]
        /\ programs' = IF symbol = 0 THEN programs
                       ELSE [programs EXCEPT ![slot].kernels = kernels]
    BY <1>3, <2>2 DEF FindKernel
  <2>4. handle'.slot = slot /\ handle'.name = name /\ handle'.symbol = symbol
    BY <2>3
  <2> HIDE DEF symbol
  <2>5. CASE symbol = 0
    <3>1. programs' = programs
      BY <2>3, <2>5
    <3> HIDE DEF p
    <3> QED
      BY <2>1, <2>4, <3>1 DEF symbol, p
  <2>6. CASE symbol # 0
    <3> DEFINE new == [p EXCEPT !.kernels = kernels]
    <3>1. programs' = [programs EXCEPT ![slot] = new]
      BY <2>3, <2>6
    <3>2. name \in DOMAIN p.symbols /\ symbol = p.symbols[name]
      BY <2>6 DEF symbol, SymbolOf
    <3>3. p = [file |-> p.file, segments |-> p.segments, symbols |-> p.symbols,
               kernels |-> p.kernels]
      BY <2>1 DEF Known
    <3> HIDE DEF kernels
    <3>4. new = [file |-> p.file, segments |-> p.segments, symbols |-> p.symbols,
                 kernels |-> kernels]
      BY <3>3
    <3> HIDE DEF new
    <3>5. /\ new.file = p.file /\ new.symbols = p.symbols /\ new.kernels = kernels
          /\ new = [file |-> new.file, segments |-> new.segments, symbols |-> new.symbols,
                    kernels |-> new.kernels]
      BY <3>4
    <3>6. \A n \in DOMAIN kernels : n \in DOMAIN p.symbols /\ kernels[n] = p.symbols[n]
      BY <2>1, <3>2 DEF kernels, Known
    <3>7. Known(new)
      BY <2>1, <3>5, <3>6 DEF Known
    <3>8. symbol = SymbolOf(new, name)
      BY <3>2, <3>5 DEF SymbolOf
    <3> HIDE DEF p
    <3> QED
      BY <2>4, <3>1, <3>7, <3>8
  <2> QED
    BY <2>5, <2>6
<1>4. ASSUME UNCHANGED <<programs, handle>>
      PROVE  SymbolsInv'
  BY <1>4
<1>5. ASSUME NEW slot \in Slots, LoadBegin(slot)
      PROVE  SymbolsInv'
  BY <1>4, <1>5 DEF LoadBegin
<1>6. CASE StoreData \/ StoreZeros \/ NextSegment \/ RunKernel \/ UNCHANGED elfVars
  BY <1>4, <1>6 DEF StoreData, StoreZeros, NextSegment, RunKernel, elfVars
<1> QED
  BY <1>1, <1>2, <1>3, <1>5, <1>6 DEF ElfNext

\* A kernel is found at the address of the last global symbol of its name in
\* its own program, or not at all, for any files whose names are in their
\* table of strings.
THEOREM SymbolsStayFound ==
  StringsAreInTheirTable => (ElfSpec => []SymbolsAreFound)
<1> SUFFICES ASSUME StringsAreInTheirTable PROVE ElfSpec => []SymbolsAreFound
  OBVIOUS
<1>1. ElfInit => SymbolsInv
  BY DEF ElfInit, SymbolsInv
<1>2. SymbolsInv /\ [ElfNext]_elfVars => SymbolsInv'
  BY SymbolsStep
<1>3. SymbolsInv => SymbolsAreFound
  <2> SUFFICES ASSUME SymbolsInv, handle # NoHandle
               PROVE  SymbolsAreFound
    BY DEF SymbolsAreFound
  <2> DEFINE p == programs[handle.slot]
             file == p.file
             name == handle.name
             m == Len(file.symbols)
             Named == {i \in DOMAIN file.symbols : HasName(file, i, name)}
  <2>1. Known(p) /\ handle.symbol = SymbolOf(p, name)
    BY DEF SymbolsInv
  <2>2. HasLast(file, m, p.symbols)
    BY <2>1 DEF Known
  <2>3. m \in Nat /\ DOMAIN file.symbols = 1 .. m
    BY <2>1 DEF Known, StringsAreInTheirTable
  <2> HIDE DEF p, file, name, m
  <2>4. handle.symbol = IF Named = {} THEN 0 ELSE file.symbols[Latest(Named)].value
    <3>1. CASE name \in DOMAIN p.symbols
      <4>1. PICK i \in 1 .. m : /\ HasName(file, i, name)
                                /\ p.symbols[name] = file.symbols[i].value
                                /\ \A j \in i + 1 .. m : ~HasName(file, j, name)
        BY <2>2, <3>1 DEF HasLast
      <4>2. i \in Named /\ Named \subseteq 1 .. m
        BY <2>3, <4>1
      <4>3. Latest(Named) \in Named /\ \A j \in Named : j <= Latest(Named)
        BY <2>3, <4>2, LatestExists
      <4>4. Latest(Named) = i
        <5>1. Latest(Named) \in 1 .. m /\ HasName(file, Latest(Named), name) /\ i <= Latest(Named)
          BY <4>2, <4>3
        <5> HIDE DEF Named
        <5>2. ~(Latest(Named) \in i + 1 .. m)
          BY <4>1, <5>1
        <5> QED
          BY <2>3, <5>1, <5>2
      <4> QED
        BY <2>1, <3>1, <4>1, <4>2, <4>4 DEF SymbolOf
    <3>2. CASE name \notin DOMAIN p.symbols
      <4>1. Named = {}
        BY <2>2, <2>3, <3>2 DEF HasLast
      <4> QED
        BY <2>1, <3>2, <4>1 DEF SymbolOf
    <3> QED
      BY <3>1, <3>2
  <2> QED
    BY <2>4 DEF SymbolsAreFound, HasName, p, file, name
<1> QED
  BY <1>1, <1>2, <1>3, PTL DEF ElfSpec

-----------------------------------------------------------------------------
(* The example programs                                                    *)

\* f is what a program counts on after its calls up to the n-th.
ArePlans(calls, n, f) ==
  f = [i \in 0 .. n |-> IF i = 0 THEN Start ELSE After(f[i - 1], calls[i])]

LEMMA PlansExist ==
  ASSUME NEW calls
  PROVE  \A n \in Nat : \E f : ArePlans(calls, n, f)
<1> DEFINE S == {n \in Nat : \E f : ArePlans(calls, n, f)}
<1>1. 0 \in S
  <2>1. ArePlans(calls, 0, [i \in 0 .. 0 |-> Start])
    BY DEF ArePlans
  <2> QED
    BY <2>1
<1>2. ASSUME NEW n \in Nat, n \in S
      PROVE  n + 1 \in S
  <2>1. PICK f : ArePlans(calls, n, f)
    BY <1>2
  <2> DEFINE g == [i \in 0 .. n + 1 |-> IF i = n + 1 THEN After(f[n], calls[n + 1]) ELSE f[i]]
             h == [i \in 0 .. n + 1 |-> IF i = 0 THEN Start ELSE After(g[i - 1], calls[i])]
  <2>2. \A i \in 0 .. n : f[i] = IF i = 0 THEN Start ELSE After(f[i - 1], calls[i])
    BY <2>1 DEF ArePlans
  <2>3. ASSUME NEW i \in 0 .. n + 1
        PROVE  g[i] = h[i]
    <3>1. CASE i = n + 1
      <4>1. n + 1 # 0 /\ (n + 1) - 1 = n /\ n \in 0 .. n + 1 /\ n # n + 1
        OBVIOUS
      <4> QED
        BY <3>1, <4>1
    <3>2. CASE i # n + 1 /\ i # 0
      <4>1. i \in 0 .. n /\ i - 1 \in 0 .. n + 1 /\ i - 1 # n + 1
        BY <3>2
      <4> QED
        BY <2>2, <3>2, <4>1
    <3>3. CASE i = 0
      <4>1. 0 \in 0 .. n /\ 0 # n + 1
        OBVIOUS
      <4> QED
        BY <2>2, <3>3, <4>1
    <3> QED
      BY <3>1, <3>2, <3>3
  <2>4. g = h
    BY <2>3
  <2>5. ArePlans(calls, n + 1, g)
    BY <2>4 DEF ArePlans
  <2> HIDE DEF g
  <2> QED
    BY <2>5
<1> HIDE DEF S
<1>3. Nat \subseteq S
  BY <1>1, <1>2, SetInduction
<1> QED
  BY <1>3 DEF S

\* What a program counts on follows from one call to the next.
LEMMA PlanAfterCall ==
  ASSUME NEW calls, Len(calls) \in Nat
  PROVE  /\ Plans(calls)[0] = Start
         /\ \A i \in 1 .. Len(calls) : Plans(calls)[i] = After(Plans(calls)[i - 1], calls[i])
<1> DEFINE n == Len(calls)
           f == CHOOSE g : ArePlans(calls, n, g)
<1>1. ArePlans(calls, n, f)
  <2>1. \E g : ArePlans(calls, n, g)
    BY PlansExist
  <2> QED
    BY <2>1
<1>2. Plans(calls) = f
  BY DEF Plans, ArePlans
<1> HIDE DEF f
<1>3. \A i \in 0 .. n : f[i] = IF i = 0 THEN Start ELSE After(f[i - 1], calls[i])
  BY <1>1 DEF ArePlans
<1>4. 0 \in 0 .. n /\ \A i \in 1 .. n : i \in 0 .. n /\ i # 0
  OBVIOUS
<1> QED
  BY <1>2, <1>3, <1>4

\* The memories once a queue has been executed, from what they hold now.
IsStore(store) == store = [m \in Memories |-> store[m]]

Leads(queue, store, goal) ==
  \E w : /\ w[1] = store /\ w[Len(queue) + 1] = goal
         /\ \A i \in 1 .. Len(queue) + 1 : IsStore(w[i])
         /\ \A i \in 1 .. Len(queue) : w[i + 1] = Executed(queue[i], w[i])

LEMMA ExecutedIsStore ==
  ASSUME NEW c, NEW store, IsStore(store)
  PROVE  IsStore(Executed(c, store))
BY DEF IsStore, Executed

LEMMA LeadsNowhere ==
  ASSUME NEW store, NEW goal
  PROVE  Leads(<< >>, store, goal) <=> IsStore(store) /\ goal = store
<1>1. ASSUME Leads(<< >>, store, goal)
      PROVE  IsStore(store) /\ goal = store
  BY <1>1 DEF Leads
<1>2. ASSUME IsStore(store), goal = store
      PROVE  Leads(<< >>, store, goal)
  <2> DEFINE w == << store >>
  <2>1. w[1] = store /\ w[Len(<< >>) + 1] = goal
    BY <1>2
  <2> HIDE DEF w
  <2>2. \A i \in 1 .. Len(<< >>) + 1 : IsStore(w[i])
    BY <1>2, <2>1
  <2> QED
    BY <2>1, <2>2 DEF Leads
<1> QED
  BY <1>1, <1>2

LEMMA GoalIsStore ==
  ASSUME NEW S, NEW queue \in Seq(S), NEW store, NEW goal, Leads(queue, store, goal)
  PROVE  IsStore(goal) /\ IsStore(store)
BY DEF Leads

LEMMA LeadsFurther ==
  ASSUME NEW S, NEW queue \in Seq(S), NEW c \in S, NEW store, NEW goal,
         Leads(queue, store, goal)
  PROVE  Leads(Append(queue, c), store, Executed(c, goal))
<1>1. PICK w : /\ w[1] = store /\ w[Len(queue) + 1] = goal
               /\ \A i \in 1 .. Len(queue) + 1 : IsStore(w[i])
               /\ \A i \in 1 .. Len(queue) : w[i + 1] = Executed(queue[i], w[i])
  BY DEF Leads
<1> DEFINE n == Len(queue)
           longer == Append(queue, c)
           v == [i \in 1 .. n + 2 |-> IF i = n + 2 THEN Executed(c, goal) ELSE w[i]]
<1>2. /\ n \in Nat /\ Len(longer) = n + 1 /\ longer[n + 1] = c
      /\ \A i \in 1 .. n : longer[i] = queue[i]
  OBVIOUS
<1>3. /\ v[1] = w[1] /\ v[n + 2] = Executed(c, goal)
      /\ \A i \in 1 .. n + 1 : v[i] = w[i]
  BY <1>2
<1> HIDE DEF v, longer, n
<1>4. v[1] = store /\ v[Len(longer) + 1] = Executed(c, goal)
  <2>1. Len(longer) + 1 = n + 2
    BY <1>2
  <2> QED
    BY <1>1, <1>3, <2>1
<1>5. ASSUME NEW i \in 1 .. Len(longer) + 1
      PROVE  IsStore(v[i])
  <2>1. CASE i = n + 2
    BY <1>1, <1>2, <1>3, <2>1, ExecutedIsStore DEF n
  <2>2. CASE i # n + 2
    <3>1. i \in 1 .. n + 1
      BY <1>2, <2>2
    <3> QED
      BY <1>1, <1>3, <3>1 DEF n
  <2> QED
    BY <2>1, <2>2
<1>6. ASSUME NEW i \in 1 .. Len(longer)
      PROVE  v[i + 1] = Executed(longer[i], v[i])
  <2>1. CASE i = n + 1
    <3>1. i + 1 = n + 2 /\ v[i] = goal /\ longer[i] = c
      BY <1>1, <1>2, <1>3, <2>1 DEF n
    <3> QED
      BY <1>3, <3>1
  <2>2. CASE i # n + 1
    <3>1. i \in 1 .. n /\ i \in 1 .. n + 1 /\ i + 1 \in 1 .. n + 1
      BY <1>2, <2>2
    <3>2. v[i + 1] = w[i + 1] /\ v[i] = w[i] /\ longer[i] = queue[i]
      BY <1>2, <1>3, <3>1
    <3> QED
      BY <1>1, <3>1, <3>2 DEF n
  <2> QED
    BY <2>1, <2>2
<1> QED
  BY <1>4, <1>5, <1>6 DEF Leads, longer

LEMMA LeadsOn ==
  ASSUME NEW S, NEW queue \in Seq(S), queue # << >>, NEW store, NEW goal,
         Leads(queue, store, goal)
  PROVE  Leads(Tail(queue), Executed(Head(queue), store), goal)
<1>1. PICK w : /\ w[1] = store /\ w[Len(queue) + 1] = goal
               /\ \A i \in 1 .. Len(queue) + 1 : IsStore(w[i])
               /\ \A i \in 1 .. Len(queue) : w[i + 1] = Executed(queue[i], w[i])
  BY DEF Leads
<1> DEFINE n == Len(queue)
           rest == Tail(queue)
           v == [i \in 1 .. n |-> w[i + 1]]
<1>2. /\ n \in Nat \ {0} /\ Len(rest) + 1 = n /\ Head(queue) = queue[1] /\ Len(rest) \in Nat
      /\ \A i \in 1 .. n - 1 : rest[i] = queue[i + 1]
  OBVIOUS
<1>3. \A i \in 1 .. n : v[i] = w[i + 1]
  OBVIOUS
<1> HIDE DEF v, rest, n
<1>4. v[1] = Executed(Head(queue), store) /\ v[Len(rest) + 1] = goal
  <2>1. 1 \in 1 .. n /\ n \in 1 .. n
    BY <1>2
  <2>2. v[1] = w[1 + 1] /\ v[n] = w[n + 1]
    BY <1>3, <2>1
  <2>3. w[1 + 1] = Executed(queue[1], w[1])
    BY <1>1, <2>1 DEF n
  <2> QED
    BY <1>1, <1>2, <2>2, <2>3 DEF n
<1>5. ASSUME NEW i \in 1 .. Len(rest) + 1
      PROVE  IsStore(v[i])
  <2>1. i \in 1 .. n /\ i + 1 \in 1 .. n + 1
    BY <1>2
  <2> QED
    BY <1>1, <1>3, <2>1 DEF n
<1>6. ASSUME NEW i \in 1 .. Len(rest)
      PROVE  v[i + 1] = Executed(rest[i], v[i])
  <2>1. i \in 1 .. n /\ i + 1 \in 1 .. n /\ i \in 1 .. n - 1
    BY <1>2
  <2>2. v[i] = w[i + 1] /\ v[i + 1] = w[(i + 1) + 1] /\ rest[i] = queue[i + 1]
    BY <1>2, <1>3, <2>1
  <2> QED
    BY <1>1, <2>1, <2>2 DEF n
<1> QED
  BY <1>4, <1>5, <1>6 DEF Leads, rest

\* What the program counts on now.
Plan == Plans(Calls)[at - 1]

ProgramTypes ==
  /\ host \in [names : [platform : PlatformNames, device : DeviceNames],
              wanted : [Kinds -> WantedNames], selected : [Kinds -> Nat]]
  /\ program \in DOMAIN Programs \cup {"multi_devices"}
  /\ Disciplined(Calls)
  /\ at \in 1 .. Len(Calls) + 1
  /\ ended \in {"no", "waits", "stopped", "success"}
  /\ pending \in Seq({Calls[i] : i \in DOMAIN Calls})

\* The selection of a platform or a device, as it was asked for.
SelectedAs(c) ==
  /\ host.selected[c.kind] \in DOMAIN host.names[c.kind]
  /\ c.how = "ask" /\ host.wanted[c.kind] # "" =>
       host.names[c.kind][host.selected[c.kind]] = host.wanted[c.kind]

\* The program is where its plan is, and the queue leads from what the memories
\* hold to what it counts on.
PlanInv ==
  /\ alive = Plan.alive
  /\ Leads(pending, content, Plan.store)
  /\ ended = "no" /\ Plan.waited => pending = << >>

\* Commands in the queue have their memories.
QueueInv == \A i \in DOMAIN pending : Created \cap Used(pending[i]) \subseteq alive

SelectionInv == \A i \in 1 .. at - 1 : Calls[i].call = "select" => SelectedAs(Calls[i])

EndInv == errors = FALSE /\ (ended = "success" => at = Len(Calls) + 1)

ProgramInv == ProgramTypes /\ PlanInv /\ QueueInv /\ SelectionInv /\ EndInv

\* What follows from the discipline for the next call.
LEMMA NextIsPlanned ==
  ASSUME ProgramTypes, at \in DOMAIN Calls
  PROVE  /\ Plans(Calls)[at] = After(Plan, Call)
         /\ Careful(Call, Plan, Created)
         /\ at \in Nat /\ at + 1 \in 1 .. Len(Calls) + 1 /\ (at + 1) - 1 = at
         /\ Call \in {Calls[i] : i \in DOMAIN Calls}
<1>1. Len(Calls) \in Nat /\ DOMAIN Calls = 1 .. Len(Calls)
  BY DEF ProgramTypes, Disciplined
<1>2. Plans(Calls)[at] = After(Plan, Call)
  BY <1>1, PlanAfterCall DEF Plan, Call
<1>3. \A i \in DOMAIN Calls : Careful(Calls[i], Plans(Calls)[i - 1], CreatedBy(Calls))
  BY DEF ProgramTypes, Disciplined
<1>4. Careful(Call, Plan, Created)
  BY <1>3 DEF Plan, Call, Created
<1> QED
  BY <1>1, <1>2, <1>4 DEF Call

\* Programs stay the same.
LEMMA CallsStay ==
  ASSUME UNCHANGED program, host'.names = host.names
  PROVE  Calls' = Calls /\ Created' = Created
BY DEF Calls, Created

\* What a step that makes a call has to show of the plan.
LEMMA PlanMoves ==
  ASSUME ProgramTypes, at \in DOMAIN Calls, NextCall, Calls' = Calls
  PROVE  Plan' = After(Plan, Call)
<1>1. Plan' = Plans(Calls)[(at + 1) - 1]
  BY DEF Plan, NextCall
<1> QED
  BY <1>1, NextIsPlanned

\* The initial state.
LEMMA ProgramStarts ==
  ASSUME ProgramsAreDisciplined, ProgramInit
  PROVE  ProgramInv
<1>1. Disciplined(Calls)
  <2>1. host.names.device \in DeviceNames
    BY DEF ProgramInit
  <2> QED
    BY <2>1 DEF ProgramInit, ProgramsAreDisciplined, Calls
<1>2. Len(Calls) \in Nat
  BY <1>1 DEF Disciplined
<1>3. at = 1 /\ at \in 1 .. Len(Calls) + 1 /\ at - 1 = 0
  BY <1>2 DEF ProgramInit
<1>4. pending = << >> /\ pending \in Seq({Calls[i] : i \in DOMAIN Calls})
  BY DEF ProgramInit
<1>5. host \in [names : [platform : PlatformNames, device : DeviceNames],
                wanted : [Kinds -> WantedNames], selected : [Kinds -> Nat]]
  BY DEF ProgramInit
<1>6. ProgramTypes
  BY <1>1, <1>3, <1>4, <1>5 DEF ProgramTypes, ProgramInit
<1>7. Plan = Start
  BY <1>2, <1>3, PlanAfterCall DEF Plan
<1>8. PlanInv
  <2>1. alive = Plan.alive /\ content = Plan.store
    BY <1>7 DEF Start, ProgramInit
  <2>2. IsStore(content)
    BY DEF ProgramInit, IsStore
  <2> QED
    BY <1>4, <2>1, <2>2, LeadsNowhere DEF PlanInv
<1>9. QueueInv /\ SelectionInv /\ EndInv
  BY <1>3, <1>4 DEF QueueInv, SelectionInv, EndInv, ProgramInit
<1> QED
  BY <1>6, <1>8, <1>9 DEF ProgramInv

\* A platform or a device that can be selected is one of those wanted.
LEMMA PossibleIsWanted ==
  ASSUME NamesAreFew, ProgramTypes, NEW s \in Possible,
         Call.kind \in Kinds, Call.how \in {"ask", "first", "search", "all"}
  PROVE  /\ s \in Nat /\ s \in DOMAIN host.names[Call.kind]
         /\ Call.how = "ask" /\ host.wanted[Call.kind] # ""
              => host.names[Call.kind][s] = host.wanted[Call.kind]
<1> DEFINE names == host.names[Call.kind]
           wanted == host.wanted[Call.kind]
<1>1. names \in PlatformNames \cup DeviceNames
  <2>1. Call.kind = "platform" \/ Call.kind = "device"
    BY DEF Kinds
  <2> QED
    BY <2>1 DEF ProgramTypes
<1>2. names \in Seq(STRING) /\ Len(names) <= 2^16
  BY <1>1, ProgramAssumption DEF NamesAreFew
<1> HIDE DEF names, wanted
<1>3. Len(names) \in Nat /\ DOMAIN names = 1 .. Len(names)
  BY <1>2
<1>4. CASE Call.how = "ask"
  <2> DEFINE chosen == Matching(names, wanted)
             answers == IF Len(names) = 1 THEN {1}
                        ELSE IF chosen # 0 THEN {chosen} ELSE Answers
  <2>1. s \in Chosen(names, wanted)
    BY <1>4 DEF Possible, names, wanted
  <2>2. ~(wanted # "" /\ chosen = 0)
    BY <2>1 DEF Chosen
  <2>3. PICK a \in answers : (a - 1) % 2^16 < Len(names) /\ s = ((a - 1) % 2^16) + 1
    BY <2>1, <2>2 DEF Chosen
  <2>4. chosen # 0 => chosen \in DOMAIN names /\ names[chosen] = wanted
    <3> DEFINE Matches == {i \in DOMAIN names : names[i] # "" /\ wanted # "" /\ names[i] = wanted}
    <3>1. chosen = IF Matches = {} THEN 0 ELSE Latest(Matches)
      BY DEF Matching, Latest
    <3>2. Matches # {} => Latest(Matches) \in Matches
      BY <1>3, LatestExists
    <3> QED
      BY <3>1, <3>2
  <2> HIDE DEF chosen
  <2>5. a \in Nat
    BY <1>3, <2>3, <2>4, ProgramAssumption
  <2>6. (a - 1) % 2^16 \in Nat
    BY <2>5
  <2>7. s \in Nat /\ s \in 1 .. Len(names)
    BY <1>3, <2>3, <2>6
  <2>8. ASSUME wanted # ""
        PROVE  names[s] = wanted
    <3>1. chosen \in 1 .. Len(names) /\ names[chosen] = wanted
      BY <1>3, <2>2, <2>4, <2>8
    <3>2. a = chosen
      BY <1>3, <2>3, <3>1
    <3>3. (a - 1) % 2^16 = a - 1
      BY <1>2, <1>3, <3>1, <3>2
    <3> QED
      BY <2>3, <2>5, <3>1, <3>2, <3>3
  <2> QED
    BY <1>3, <2>7, <2>8 DEF names, wanted
<1>5. CASE Call.how # "ask"
  <2>1. \/ Call.how = "first" /\ s \in IF names = << >> THEN {} ELSE {1}
        \/ Call.how = "search" /\ s \in Searched(names)
        \/ Call.how = "all" /\ s \in IF Len(names) < 2 THEN {} ELSE {1}
    BY <1>5 DEF Possible, names
  <2>2. s \in 1 .. Len(names)
    BY <1>2, <1>3, <2>1 DEF Searched
  <2>3. s \in Nat /\ s \in DOMAIN names
    BY <1>3, <2>2
  <2> QED
    BY <1>5, <2>3 DEF names
<1> QED
  BY <1>4, <1>5

LEMMA AppendIsSeq ==
  ASSUME NEW S, NEW queue \in Seq(S), NEW c \in S
  PROVE  Append(queue, c) \in Seq(S)
OBVIOUS

LEMMA AppendIndices ==
  ASSUME NEW S, NEW queue \in Seq(S), NEW c \in S, NEW i \in DOMAIN Append(queue, c)
  PROVE  \/ Append(queue, c)[i] = c
         \/ i \in DOMAIN queue /\ Append(queue, c)[i] = queue[i]
OBVIOUS

LEMMA TailIndices ==
  ASSUME NEW S, NEW queue \in Seq(S), queue # << >>
  PROVE  /\ Tail(queue) \in Seq(S)
         /\ \A i \in DOMAIN Tail(queue) : i + 1 \in DOMAIN queue /\ Tail(queue)[i] = queue[i + 1]
OBVIOUS

\* A call keeps the types.
LEMMA CallKeepsTypes ==
  ASSUME ProgramTypes, at \in DOMAIN Calls, NextCall, Calls' = Calls, UNCHANGED program,
         host' \in [names : [platform : PlatformNames, device : DeviceNames],
                    wanted : [Kinds -> WantedNames], selected : [Kinds -> Nat]],
         pending' = pending \/ pending' = Append(pending, Call),
         ended' \in {"no", "waits", "stopped", "success"}
  PROVE  ProgramTypes'
<1> DEFINE C == {Calls[i] : i \in DOMAIN Calls}
<1>1. pending \in Seq(C) /\ Call \in C
  BY NextIsPlanned DEF ProgramTypes
<1> HIDE DEF C
<1>2. pending' \in Seq(C)
  <2>1. Append(pending, Call) \in Seq(C)
    BY <1>1, AppendIsSeq
  <2> QED
    BY <1>1, <2>1, Zenon
<1>3. at' \in 1 .. Len(Calls) + 1
  BY NextIsPlanned DEF NextCall
<1> QED
  BY <1>2, <1>3 DEF ProgramTypes, C

\* What has been selected stays selected, when a call does not select.
LEMMA SelectionStays ==
  ASSUME ProgramTypes, SelectionInv, at \in DOMAIN Calls, NextCall, Calls' = Calls,
         UNCHANGED host, Call.call # "select"
  PROVE  SelectionInv'
<1>1. at' = at + 1 /\ at \in Nat
  BY NextIsPlanned DEF NextCall
<1> SUFFICES ASSUME NEW i \in 1 .. at' - 1, Calls[i].call = "select"
             PROVE  SelectedAs(Calls[i])'
  BY DEF SelectionInv
<1>2. i \in 1 .. at - 1
  BY <1>1 DEF Call
<1>3. SelectedAs(Calls[i])
  BY <1>2 DEF SelectionInv
<1> QED
  BY <1>3 DEF SelectedAs

\* When the program has waited, the memories are what it counts on.
LEMMA WaitedIsDone ==
  ASSUME ProgramInv, ended = "no", Plan.waited
  PROVE  pending = << >> /\ content = Plan.store /\ IsStore(content)
BY LeadsNowhere DEF ProgramInv, PlanInv

LEMMA SelectKeepsInv ==
  ASSUME NamesAreFew, ProgramInv, SelectOne
  PROVE  ProgramInv'
<1>1. /\ ProgramTypes /\ ended = "no" /\ at \in DOMAIN Calls /\ Call.call = "select"
      /\ UNCHANGED <<program, alive, pending, content, errors>>
  BY DEF SelectOne, Calling, ProgramInv
<1>2. Call.kind \in Kinds /\ Call.how \in {"ask", "first", "search", "all"}
  BY <1>1, NextIsPlanned DEF Careful
<1>3. CASE Possible = {}
  <2>1. ended' = "stopped" /\ UNCHANGED <<at, host>>
    BY <1>3 DEF SelectOne
  <2>2. Calls' = Calls /\ Created' = Created
    BY <1>1, <2>1, CallsStay
  <2>3. Plan' = Plan
    BY <2>1, <2>2 DEF Plan
  <2>4. ProgramTypes' /\ PlanInv' /\ QueueInv' /\ EndInv'
    BY <1>1, <2>1, <2>2, <2>3 DEF ProgramInv, ProgramTypes, PlanInv, QueueInv, EndInv
  <2>5. SelectionInv'
    BY <2>1, <2>2 DEF ProgramInv, SelectionInv, SelectedAs
  <2> QED
    BY <2>4, <2>5 DEF ProgramInv
<1>4. CASE Possible # {}
  <2>1. PICK s \in Possible : host' = [host EXCEPT !.selected[Call.kind] = s]
    BY <1>4 DEF SelectOne
  <2>2. NextCall /\ UNCHANGED ended
    BY <1>4 DEF SelectOne
  <2>3. /\ s \in Nat /\ s \in DOMAIN host.names[Call.kind]
        /\ Call.how = "ask" /\ host.wanted[Call.kind] # ""
             => host.names[Call.kind][s] = host.wanted[Call.kind]
    BY <1>1, <1>2, PossibleIsWanted
  <2>4. /\ host'.names = host.names /\ host'.wanted = host.wanted
        /\ host'.selected = [host.selected EXCEPT ![Call.kind] = s]
        /\ host.selected \in [Kinds -> Nat]
    BY <1>1, <2>1 DEF ProgramTypes
  <2>5. host' \in [names : [platform : PlatformNames, device : DeviceNames],
                   wanted : [Kinds -> WantedNames], selected : [Kinds -> Nat]]
    BY <1>1, <2>1, <2>3, <2>4 DEF ProgramTypes
  <2>6. Calls' = Calls /\ Created' = Created
    BY <1>1, <2>4, CallsStay
  <2>7. ProgramTypes'
    BY <1>1, <2>2, <2>5, <2>6, CallKeepsTypes
  <2>8. Plan' = After(Plan, Call)
    BY <1>1, <2>2, <2>6, PlanMoves
  <2>9. PlanInv' /\ QueueInv' /\ EndInv'
    BY <1>1, <2>2, <2>6, <2>8 DEF ProgramInv, PlanInv, QueueInv, EndInv, After
  <2>10. ASSUME NEW i \in 1 .. at' - 1, Calls[i].call = "select"
         PROVE  SelectedAs(Calls[i])'
    <3>1. at' = at + 1 /\ at \in Nat
      BY <1>1, <2>2, NextIsPlanned DEF NextCall
    <3>2. CASE i = at
      BY <1>2, <2>3, <2>4, <2>6, <3>2 DEF SelectedAs, Call
    <3>3. CASE i # at
      <4>1. i \in 1 .. at - 1 /\ i \in DOMAIN Calls
        BY <1>1, <3>1, <3>3 DEF ProgramTypes, Disciplined
      <4>2. Calls[i].kind # Call.kind /\ Calls[i].kind \in Kinds
        BY <1>1, <2>10, <3>3, <4>1 DEF ProgramTypes, Disciplined, Careful, Call
      <4>3. SelectedAs(Calls[i])
        BY <2>10, <4>1 DEF ProgramInv, SelectionInv
      <4> QED
        BY <2>4, <2>6, <4>2, <4>3 DEF SelectedAs
    <3> QED
      BY <3>2, <3>3
  <2> QED
    BY <2>6, <2>7, <2>9, <2>10 DEF ProgramInv, SelectionInv
<1> QED
  BY <1>3, <1>4

LEMMA CreateKeepsInv ==
  ASSUME ProgramInv, CreateObject
  PROVE  ProgramInv'
<1>1. /\ ProgramTypes /\ ended = "no" /\ at \in DOMAIN Calls /\ Call.call = "create"
      /\ NextCall /\ UNCHANGED <<program, pending, host, errors, ended>>
      /\ alive' = alive \cup {Call.object} /\ content' = Emptied(Call.object, content)
  BY DEF CreateObject, Calling, ProgramInv
<1>2. Calls' = Calls /\ Created' = Created
  BY <1>1, CallsStay
<1>3. ProgramTypes'
  BY <1>1, <1>2, CallKeepsTypes DEF ProgramTypes
<1>4. Plan' = After(Plan, Call)
  BY <1>1, <1>2, PlanMoves
<1>5. SelectionInv'
  BY <1>1, <1>2, SelectionStays DEF ProgramInv
<1>6. /\ Plan'.alive = Plan.alive \cup {Call.object}
      /\ Plan'.store = Emptied(Call.object, Plan.store) /\ Plan'.waited = Plan.waited
  BY <1>1, <1>4 DEF After
<1>7. Leads(pending, content', Plan'.store)
  <2>1. CASE Call.object \in Memories
    <3>1. pending = << >> /\ content = Plan.store
      BY <1>1, <2>1, NextIsPlanned, WaitedIsDone DEF Careful
    <3>2. IsStore(content')
      BY <1>1 DEF IsStore, Emptied
    <3> QED
      BY <1>1, <1>6, <3>1, <3>2, LeadsNowhere
  <2>2. CASE Call.object \notin Memories
    <3>1. IsStore(Plan.store) /\ IsStore(content)
      BY <1>1, GoalIsStore DEF ProgramInv, PlanInv, ProgramTypes
    <3>2. Emptied(Call.object, content) = content /\ Emptied(Call.object, Plan.store) = Plan.store
      BY <2>2, <3>1 DEF IsStore, Emptied
    <3> QED
      BY <1>1, <1>6, <3>2 DEF ProgramInv, PlanInv
  <2> QED
    BY <2>1, <2>2
<1>8. PlanInv'
  BY <1>1, <1>6, <1>7 DEF ProgramInv, PlanInv
<1>9. QueueInv' /\ EndInv'
  BY <1>1, <1>2 DEF ProgramInv, QueueInv, EndInv
<1> QED
  BY <1>3, <1>5, <1>8, <1>9 DEF ProgramInv

LEMMA ReleaseKeepsInv ==
  ASSUME ProgramInv, ReleaseObject
  PROVE  ProgramInv'
<1>1. /\ ProgramTypes /\ ended = "no" /\ at \in DOMAIN Calls /\ Call.call = "release"
      /\ NextCall /\ UNCHANGED <<program, pending, content, host, errors, ended>>
      /\ alive' = alive \ {Call.object}
  BY DEF ReleaseObject, Calling, ProgramInv
<1>2. Calls' = Calls /\ Created' = Created
  BY <1>1, CallsStay
<1>3. ProgramTypes'
  BY <1>1, <1>2, CallKeepsTypes DEF ProgramTypes
<1>4. Plan' = After(Plan, Call)
  BY <1>1, <1>2, PlanMoves
<1>5. SelectionInv'
  BY <1>1, <1>2, SelectionStays DEF ProgramInv
<1>6. /\ Plan'.alive = Plan.alive \ {Call.object}
      /\ Plan'.store = Plan.store /\ Plan'.waited = Plan.waited
  BY <1>1, <1>4 DEF After
<1>7. pending = << >>
  BY <1>1, NextIsPlanned, WaitedIsDone DEF Careful
<1>8. PlanInv'
  BY <1>1, <1>6 DEF ProgramInv, PlanInv
<1>9. QueueInv' /\ EndInv'
  BY <1>1, <1>2, <1>7 DEF ProgramInv, QueueInv, EndInv
<1> QED
  BY <1>3, <1>5, <1>8, <1>9 DEF ProgramInv

LEMMA FillKeepsInv ==
  ASSUME ProgramInv, FillMemory
  PROVE  ProgramInv'
<1>1. /\ ProgramTypes /\ ended = "no" /\ at \in DOMAIN Calls /\ Call.call = "fill"
      /\ NextCall /\ UNCHANGED <<program, alive, pending, host, errors, ended>>
      /\ content' = [content EXCEPT ![Call.object] = Call.value]
  BY DEF FillMemory, Calling, ProgramInv
<1>2. Calls' = Calls /\ Created' = Created
  BY <1>1, CallsStay
<1>3. ProgramTypes'
  BY <1>1, <1>2, CallKeepsTypes DEF ProgramTypes
<1>4. Plan' = After(Plan, Call)
  BY <1>1, <1>2, PlanMoves
<1>5. SelectionInv'
  BY <1>1, <1>2, SelectionStays DEF ProgramInv
<1>6. /\ Plan'.alive = Plan.alive /\ Plan'.waited = Plan.waited
      /\ Plan'.store = [Plan.store EXCEPT ![Call.object] = Call.value]
  BY <1>1, <1>4 DEF After
<1>7. pending = << >> /\ content = Plan.store /\ IsStore(content)
  BY <1>1, NextIsPlanned, WaitedIsDone DEF Careful
<1>8. content' = Plan'.store /\ IsStore(content')
  BY <1>1, <1>6, <1>7 DEF IsStore
<1>9. PlanInv'
  BY <1>1, <1>6, <1>7, <1>8, LeadsNowhere DEF ProgramInv, PlanInv
<1>10. QueueInv' /\ EndInv'
  BY <1>1, <1>2 DEF ProgramInv, QueueInv, EndInv
<1> QED
  BY <1>3, <1>5, <1>9, <1>10 DEF ProgramInv

LEMMA EnqueueKeepsInv ==
  ASSUME ProgramInv, Enqueue
  PROVE  ProgramInv'
<1>1. /\ ProgramTypes /\ ended = "no" /\ at \in DOMAIN Calls /\ Call.call = "enqueue"
      /\ NextCall /\ UNCHANGED <<program, alive, content, host, errors>>
      /\ pending' = Append(pending, Call)
      /\ ended' = IF Call.blocking THEN "waits" ELSE ended
  BY DEF Enqueue, Calling, ProgramInv
<1>2. Calls' = Calls /\ Created' = Created
  BY <1>1, CallsStay
<1>3. ProgramTypes'
  BY <1>1, <1>2, CallKeepsTypes DEF ProgramTypes
<1>4. Plan' = After(Plan, Call)
  BY <1>1, <1>2, PlanMoves
<1>5. SelectionInv'
  BY <1>1, <1>2, SelectionStays DEF ProgramInv
<1>6. /\ Plan'.alive = Plan.alive /\ Plan'.waited = Call.blocking
      /\ Plan'.store = Executed(Call, Plan.store)
  BY <1>1, <1>4 DEF After
<1>7. /\ Call \in {Calls[i] : i \in DOMAIN Calls} /\ Call.blocking \in BOOLEAN
      /\ Created \cap Used(Call) \subseteq Plan.alive
  BY <1>1, NextIsPlanned DEF Careful
<1>8. pending \in Seq({Calls[i] : i \in DOMAIN Calls})
  BY <1>1 DEF ProgramTypes
<1>9. Leads(pending', content', Plan'.store)
  BY <1>1, <1>6, <1>7, <1>8, LeadsFurther DEF ProgramInv, PlanInv
<1>10. PlanInv'
  BY <1>1, <1>6, <1>7, <1>9 DEF ProgramInv, PlanInv
<1>11. ASSUME NEW i \in DOMAIN pending'
       PROVE  Created \cap Used(pending'[i]) \subseteq alive
  <2>1. pending'[i] = Call \/ (i \in DOMAIN pending /\ pending'[i] = pending[i])
    BY <1>1, <1>7, <1>8, AppendIndices
  <2> QED
    BY <1>7, <2>1 DEF ProgramInv, PlanInv, QueueInv
<1>12. QueueInv'
  BY <1>1, <1>2, <1>11 DEF QueueInv
<1>13. EndInv'
  BY <1>1 DEF ProgramInv, EndInv
<1> QED
  BY <1>3, <1>5, <1>10, <1>12, <1>13 DEF ProgramInv

LEMMA WaitKeepsInv ==
  ASSUME ProgramInv, WaitForQueue
  PROVE  ProgramInv'
<1>1. /\ ProgramTypes /\ ended' = "waits" /\ at \in DOMAIN Calls /\ Call.call = "finish"
      /\ NextCall /\ UNCHANGED <<program, alive, pending, content, host, errors>>
  BY DEF WaitForQueue, Calling, ProgramInv
<1>2. Calls' = Calls /\ Created' = Created
  BY <1>1, CallsStay
<1>3. ProgramTypes'
  BY <1>1, <1>2, CallKeepsTypes DEF ProgramTypes
<1>4. Plan' = After(Plan, Call)
  BY <1>1, <1>2, PlanMoves
<1>5. SelectionInv'
  BY <1>1, <1>2, SelectionStays DEF ProgramInv
<1>6. Plan'.alive = Plan.alive /\ Plan'.store = Plan.store
  BY <1>1, <1>4 DEF After
<1>7. PlanInv' /\ QueueInv' /\ EndInv'
  BY <1>1, <1>2, <1>6 DEF ProgramInv, PlanInv, QueueInv, EndInv
<1> QED
  BY <1>3, <1>5, <1>7 DEF ProgramInv

LEMMA CheckKeepsInv ==
  ASSUME ProgramInv, CheckResult
  PROVE  ProgramInv'
<1>1. /\ ProgramTypes /\ ended = "no" /\ at \in DOMAIN Calls /\ Call.call = "check"
      /\ NextCall /\ UNCHANGED <<program, alive, pending, content, host>>
  BY DEF CheckResult, Calling, ProgramInv
<1>2. content[Call.object] = Call.expected
  BY <1>1, NextIsPlanned, WaitedIsDone DEF Careful
<1>3. errors' = FALSE /\ ended' = ended
  BY <1>2 DEF CheckResult
<1>4. Calls' = Calls /\ Created' = Created
  BY <1>1, CallsStay
<1>5. ProgramTypes'
  BY <1>1, <1>3, <1>4, CallKeepsTypes DEF ProgramTypes
<1>6. Plan' = After(Plan, Call)
  BY <1>1, <1>4, PlanMoves
<1>7. SelectionInv'
  BY <1>1, <1>4, SelectionStays DEF ProgramInv
<1>8. /\ Plan'.alive = Plan.alive /\ Plan'.store = Plan.store
      /\ Plan'.waited = Plan.waited
  BY <1>1, <1>6 DEF After
<1>9. PlanInv' /\ QueueInv' /\ EndInv'
  BY <1>1, <1>3, <1>4, <1>8 DEF ProgramInv, PlanInv, QueueInv, EndInv
<1> QED
  BY <1>5, <1>7, <1>9 DEF ProgramInv

LEMMA ExecuteKeepsInv ==
  ASSUME ProgramInv, ExecuteCommand
  PROVE  ProgramInv'
<1> DEFINE C == {Calls[i] : i \in DOMAIN Calls}
<1>1. /\ ProgramTypes /\ pending # << >> /\ pending \in Seq(C)
      /\ content' = Executed(Head(pending), content) /\ pending' = Tail(pending)
      /\ UNCHANGED <<program, at, alive, host, errors, ended>>
  BY DEF ExecuteCommand, ProgramInv, ProgramTypes
<1>2. Calls' = Calls /\ Created' = Created
  BY <1>1, CallsStay
<1>3. Plan' = Plan
  BY <1>1, <1>2 DEF Plan
<1> HIDE DEF C
<1>4. /\ Tail(pending) \in Seq(C)
      /\ \A i \in DOMAIN Tail(pending) : i + 1 \in DOMAIN pending /\ Tail(pending)[i] = pending[i + 1]
  BY <1>1, TailIndices
<1>5. ProgramTypes'
  BY <1>1, <1>2, <1>4 DEF ProgramTypes, C
<1>6. Leads(pending', content', Plan.store)
  BY <1>1, LeadsOn DEF ProgramInv, PlanInv
<1>7. PlanInv'
  BY <1>1, <1>3, <1>6 DEF ProgramInv, PlanInv
<1>8. QueueInv'
  BY <1>1, <1>2, <1>4 DEF ProgramInv, QueueInv
<1>9. SelectionInv' /\ EndInv'
  BY <1>1, <1>2 DEF ProgramInv, SelectionInv, SelectedAs, EndInv
<1> QED
  BY <1>5, <1>7, <1>8, <1>9 DEF ProgramInv

\* Every step of a program or of the runtime preserves the invariant.
LEMMA ProgramSteps ==
  ASSUME NamesAreFew, ProgramInv, [ProgramNext]_programVars
  PROVE  ProgramInv'
<1>1. CASE CallFails \/ Resume \/ Exit \/ UNCHANGED programVars
  <2>1. /\ UNCHANGED <<program, at, alive, pending, content, host, errors>>
        /\ \/ UNCHANGED ended
           \/ ended' = "stopped"
           \/ ended' = "no" /\ pending = << >>
           \/ ended' = "success" /\ at > Len(Calls)
    BY <1>1 DEF CallFails, Resume, Exit, programVars, ProgramInv, EndInv
  <2>2. Calls' = Calls /\ Created' = Created
    BY <2>1, CallsStay
  <2>3. Plan' = Plan
    BY <2>1, <2>2 DEF Plan
  <2>4. Len(Calls) \in Nat
    BY DEF ProgramInv, ProgramTypes, Disciplined
  <2>5. ProgramTypes' /\ PlanInv' /\ QueueInv'
    BY <2>1, <2>2, <2>3 DEF ProgramInv, ProgramTypes, PlanInv, QueueInv
  <2>6. SelectionInv'
    BY <2>1, <2>2 DEF ProgramInv, SelectionInv, SelectedAs
  <2>7. at \in 1 .. Len(Calls) + 1
    BY DEF ProgramInv, ProgramTypes
  <2>8. EndInv'
    BY <2>1, <2>2, <2>4, <2>7 DEF ProgramInv, EndInv
  <2> QED
    BY <2>5, <2>6, <2>8 DEF ProgramInv
<1> QED
  BY <1>1, SelectKeepsInv, CreateKeepsInv, ReleaseKeepsInv, FillKeepsInv, EnqueueKeepsInv,
     WaitKeepsInv, CheckKeepsInv, ExecuteKeepsInv DEF ProgramNext

\* ExamplesVerify, for any programs that keep the discipline.
THEOREM DisciplinedProgramsVerify ==
  ProgramsAreDisciplined /\ NamesAreFew => (ProgramSpec => []ExamplesVerify)
<1> SUFFICES ASSUME ProgramsAreDisciplined, NamesAreFew
             PROVE  ProgramSpec => []ExamplesVerify
  OBVIOUS
<1>1. ProgramInit => ProgramInv
  BY ProgramStarts
<1>2. ProgramInv /\ [ProgramNext]_programVars => ProgramInv'
  BY ProgramSteps
<1>3. ProgramInv => ExamplesVerify
  <2> SUFFICES ASSUME ProgramInv PROVE ExamplesVerify
    OBVIOUS
  <2>1. ASSUME ended = "success"
        PROVE  alive = {} /\ \A i \in DOMAIN Calls : Calls[i].call = "select" => SelectedAs(Calls[i])
    <3>1. at - 1 = Len(Calls) /\ DOMAIN Calls = 1 .. Len(Calls)
      BY <2>1 DEF ProgramInv, EndInv, ProgramTypes, Disciplined
    <3>2. alive = Plans(Calls)[Len(Calls)].alive
      BY <3>1 DEF ProgramInv, PlanInv, Plan
    <3> QED
      BY <3>1, <3>2 DEF ProgramInv, SelectionInv, ProgramTypes, Disciplined
  <2> QED
    BY <2>1 DEF ProgramInv, EndInv, QueueInv, ExamplesVerify, SelectedAs
<1> QED
  BY <1>1, <1>2, <1>3, PTL DEF ProgramSpec

=============================================================================
