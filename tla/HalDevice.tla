------------------------------ MODULE HalDevice -------------------------------
(***************************************************************************)
(* The entry points of the HAL, called by host threads: devices are        *)
(* created, used and deleted, all of it under the one hal_lock, which is   *)
(* not recursive.  Creating a device opens a device of the driver, loads   *)
(* its windows with a command buffer and writes its ROM.                   *)
(*                                                                         *)
(* A call that keeps the lock from beginning to end and that cannot block  *)
(* with it is one step.  KernelLaunch has kernel_exec; the driver executes *)
(* the command buffer of a call before the call goes on.                   *)
(***************************************************************************)
EXTENDS Integers, FiniteSets

CONSTANTS
  Threads,   \* host threads
  Devices,   \* devices of the driver, and those of the HAL that own them
  Probe,     \* the one that the HAL opens for itself
  Blocks,    \* blocks of the DRAM of a device
  Null,      \* hal_nullptr
  Nobody     \* hal_lock is free

\* A device has room for its ELF memory and for the ROM or a command buffer.
ASSUME HalAssumption ==
  /\ Probe \in Devices
  /\ IsFiniteSet(Devices)
  /\ IsFiniteSet(Blocks) /\ Cardinality(Blocks) >= 2
  /\ Null \notin Blocks /\ Nobody \notin Threads

VARIABLES
  lock,      \* owner of hal_lock
  call,      \* where each thread is
  target,    \* the device of its call
  open,      \* open devices of the driver
  dram,      \* use of the blocks of each device
  elf,       \* elf_mem_mapped_addr of each device
  rom,       \* rom_base of each device
  live,      \* devices that device_create has returned
  counting,  \* counters_enabled of each device
  counter,   \* host_counter_data: a value, or "absent"
  got        \* what the last counter_read returned, or "absent" if it failed

memVars == <<open, dram, elf, rom>>
counterVars == <<counting, counter, got>>
halVars == <<lock, call, target, memVars, live, counterVars>>

Counters == {"written", "read"}
Untouched == [b \in Blocks |-> "free"]
NoCounters == [c \in Counters |-> "absent"]

\* refsi_hal opens a device of the driver to ask for its properties.
HalInit ==
  /\ lock = Nobody
  /\ call = [t \in Threads |-> "idle"]
  /\ target = [t \in Threads |-> Null]
  /\ open = {Probe} /\ live = {}
  /\ dram = [d \in Devices |-> Untouched]
  /\ elf = [d \in Devices |-> Null]
  /\ rom = [d \in Devices |-> Null]
  /\ counting = [d \in Devices |-> FALSE]
  /\ counter = [d \in Devices |-> NoCounters]
  /\ got = "absent"

-----------------------------------------------------------------------------
(* The memory of a device                                                  *)

\* Faulty Dram: the devices share an allocator.
DramOfAll(d) == Probe

\* Each device of the driver has an allocator of its own.
Dram(d) == d

FreeBlocks(d) == {b \in Blocks : dram[Dram(d)][b] = "free"}
Marked(d, b, use) == [dram EXCEPT ![Dram(d)][b] = use]

Goto(t, location) == call' = [call EXCEPT ![t] = location]

\* A thread calls an entry point, for a device that nobody deletes; and it
\* deletes a device that no other thread uses.
Users(d) == {t \in Threads : call[t] # "idle" /\ target[t] = d}

\* Bound: as many devices as Devices has.
CallCreate(t) ==
  /\ call[t] = "idle"
  /\ Cardinality(open) + Cardinality({u \in Threads : call[u] = "create"}) < Cardinality(Devices)
  /\ Goto(t, "create")
  /\ target' = [target EXCEPT ![t] = Null]
  /\ UNCHANGED <<lock, memVars, live, counterVars>>

CallUse(t, d) ==
  /\ call[t] = "idle" /\ d \in live
  /\ Goto(t, "use")
  /\ target' = [target EXCEPT ![t] = d]
  /\ UNCHANGED <<lock, memVars, live, counterVars>>

CallDelete(t, d) ==
  /\ call[t] = "idle" /\ d \in live
  /\ Users(d) = {}
  /\ Goto(t, "destroy")
  /\ target' = [target EXCEPT ![t] = d]
  /\ live' = live \ {d}
  /\ UNCHANGED <<lock, memVars, counterVars>>

-----------------------------------------------------------------------------
(* device_create, with the lock                                            *)

\* refsiOpenDevice and the constructor of the HAL's device.
Open(t) ==
  /\ call[t] = "create" /\ lock = Nobody
  /\ \E d \in Devices \ open :
       /\ open' = open \cup {d}
       /\ target' = [target EXCEPT ![t] = d]
  /\ lock' = t
  /\ Goto(t, "windows")
  /\ UNCHANGED <<dram, elf, rom, live, counterVars>>

\* initialize returns false: the half-made device is deleted by unique_ptr,
\* while device_create still has the lock.
Fail(t) == Goto(t, "destroy") /\ UNCHANGED <<dram, elf, rom>>

\* Faulty CreateWindows: the ELF memory goes back when the windows are set.
CreateWindowsReturn(t) ==
  LET d == target[t]
  IN  /\ call[t] = "windows"
      /\ IF Cardinality(FreeBlocks(d)) >= 2
         THEN /\ \E b \in FreeBlocks(d) : elf' = [elf EXCEPT ![d] = b]
              /\ Goto(t, "rom")
              /\ UNCHANGED <<dram, rom>>
         ELSE Fail(t)
      /\ UNCHANGED <<lock, target, open, live, counterVars>>

\* createWindows: the ELF memory and a block for the command buffer, which is
\* freed when the buffer has been executed.
CreateWindows(t) ==
  LET d == target[t]
  IN  /\ call[t] = "windows"
      /\ IF Cardinality(FreeBlocks(d)) >= 2
         THEN /\ \E b \in FreeBlocks(d) :
                   elf' = [elf EXCEPT ![d] = b] /\ dram' = Marked(d, b, "elf")
              /\ Goto(t, "rom")
              /\ UNCHANGED rom
         ELSE Fail(t)
      /\ UNCHANGED <<lock, target, open, live, counterVars>>

\* createROM; the new device is the caller's.
CreateROM(t) ==
  LET d == target[t]
  IN  /\ call[t] = "rom"
      /\ IF FreeBlocks(d) # {}
         THEN /\ \E b \in FreeBlocks(d) :
                   rom' = [rom EXCEPT ![d] = b] /\ dram' = Marked(d, b, "rom")
              /\ live' = live \cup {d}
              /\ lock' = Nobody
              /\ Goto(t, "idle")
              /\ UNCHANGED elf
         ELSE Fail(t) /\ UNCHANGED <<lock, live>>
      /\ UNCHANGED <<target, open, counterVars>>

-----------------------------------------------------------------------------
(* device_delete                                                           *)

\* ~refsi_m1_hal_device takes the lock, whoever has it, and frees the memory;
\* the device of the driver is shut down, its allocator goes with it.
Destroy(t) ==
  LET d == target[t]
  IN  /\ call[t] = "destroy" /\ lock = Nobody
      /\ dram' = [dram EXCEPT ![Dram(d)] = Untouched]
      /\ elf' = [elf EXCEPT ![d] = Null]
      /\ rom' = [rom EXCEPT ![d] = Null]
      /\ open' = open \ {d}
      /\ counting' = [counting EXCEPT ![d] = FALSE]
      /\ counter' = [counter EXCEPT ![d] = NoCounters]
      /\ Goto(t, "idle")
      /\ UNCHANGED <<lock, target, live, got>>

-----------------------------------------------------------------------------
(* The use of a device: one entry point, from locking to unlocking         *)

Using(t) == call[t] = "use" /\ lock = Nobody /\ Goto(t, "idle")

Unchanged == UNCHANGED <<lock, target, open, elf, rom, live>>

\* A transfer is counted, if counters_enabled: with the size of a mem_read or a
\* mem_write ("bytes"), with what a mem_fill has not written ("rest"), or with
\* the size of a command buffer ("buffer").
Counted(d, c, value) ==
  /\ counter' = IF counting[d] THEN [counter EXCEPT ![d][c] = value] ELSE counter
  /\ UNCHANGED <<counting, got>>

\* mem_alloc: a block, or hal_nullptr.
MemAlloc(t) ==
  LET d == target[t]
  IN  /\ Using(t)
      /\ IF FreeBlocks(d) # {}
         THEN \E b \in FreeBlocks(d) : dram' = Marked(d, b, "user")
         ELSE UNCHANGED dram
      /\ Unchanged /\ UNCHANGED counterVars

\* mem_free of what mem_alloc has returned.
MemFree(t) ==
  LET d == target[t]
  IN  /\ Using(t)
      /\ \E b \in Blocks : dram[Dram(d)][b] = "user" /\ dram' = Marked(d, b, "free")
      /\ Unchanged /\ UNCHANGED counterVars

\* mem_read and mem_write: an address that is not mapped is refused.
MemTransfer(t, c) ==
  /\ Using(t)
  /\ Counted(target[t], c, "bytes") \/ UNCHANGED counterVars
  /\ Unchanged /\ UNCHANGED dram

\* mem_fill: mem_write counts each chunk.  At the end the counter is set to
\* size, which by then is what has not been written (module MemFill); when a
\* chunk after the first fails, the size of the last chunk stays.
MemFill(t) ==
  /\ Using(t)
  /\ Counted(target[t], "written", "rest") \/ Counted(target[t], "written", "bytes")
     \/ UNCHANGED counterVars
  /\ Unchanged /\ UNCHANGED dram

\* mem_copy: refsi_command_buffer::run writes the command buffer to memory with
\* mem_write, which counts it.
MemCopy(t) ==
  /\ Using(t)
  /\ IF FreeBlocks(target[t]) # {} THEN Counted(target[t], "written", "buffer")
                                   ELSE UNCHANGED counterVars
  /\ Unchanged /\ UNCHANGED dram

\* counter_read: a value is returned once; without one the call fails.
CounterRead(t, c) ==
  LET d == target[t]
  IN  /\ Using(t)
      /\ got' = counter[d][c]
      /\ counter' = [counter EXCEPT ![d][c] = "absent"]
      /\ Unchanged /\ UNCHANGED <<dram, counting>>

CounterSetEnabled(t, on) ==
  /\ Using(t)
  /\ counting' = [counting EXCEPT ![target[t]] = on]
  /\ Unchanged /\ UNCHANGED <<dram, counter, got>>

Use(t) ==
  \/ MemAlloc(t) \/ MemFree(t) \/ MemFill(t) \/ MemCopy(t)
  \/ \E c \in Counters : MemTransfer(t, c) \/ CounterRead(t, c)
  \/ \E on \in BOOLEAN : CounterSetEnabled(t, on)

-----------------------------------------------------------------------------
Proceed(t) ==
  \/ Open(t) \/ CreateWindows(t) \/ CreateROM(t)
  \/ Destroy(t) \/ Use(t)

HalNext ==
  \E t \in Threads :
    \/ Proceed(t)
    \/ CallCreate(t)
    \/ \E d \in Devices : CallUse(t, d) \/ CallDelete(t, d)

HalSpec == HalInit /\ [][HalNext]_halVars

-----------------------------------------------------------------------------
(* Properties                                                              *)

\* The memory that the HAL keeps for a device, which holds the program and
\* the ROM code that the harts run, is never handed out for anything else
\* while the device lives; and every open device of the driver is one that
\* the HAL has opened for itself, has returned, or is working on: none is
\* lost, none is shut down too early (device_create, createWindows,
\* createROM, ~refsi_m1_hal_device).
MemoryIsOwned ==
  /\ \A d \in live : /\ dram[Dram(d)][elf[d]] = "elf"
                     /\ dram[Dram(d)][rom[d]] = "rom"
  /\ open = {Probe} \cup live
              \cup {target[t] : t \in {u \in Threads : call[u] \in {"windows", "rom", "destroy"}}}

\* device_create never deletes a device with the lock in its hand: that would
\* lock hal_lock twice in a thread, and nobody could use the HAL any more.
\* The code has the path; a fresh device always has room, so it is not taken
\* (hal_main.cpp:97, refsi_hal_m1.cpp:46-47).
NoSelfDeadlock == \A t \in Threads : call[t] = "destroy" => lock # t

\* A counter_read never returns the size of a command buffer of mem_copy, whose
\* own comment says that the host counters are not updated since the data does
\* not leave the device.  The code counts the buffer (refsi_command_buffer::run).
CopiesAreNotCounted == got # "buffer"

=============================================================================
