# A verification development for the RefSi driver and HAL

RefSi is a simulated RISC-V accelerator: a driver library that simulates the
device (`src/driver`), a HAL that offers it to OpenCL runtimes
(`src/hal_refsi`), and a compiler back-end whose generated code programs the
device's DMA engine (`src/compiler_refsi`). This directory models, checks and
proves the parts that keep protocol state: the request queue of the command
processor, the memory map with its windows, the execution of command buffers,
the simulation of harts and its debugger, the DMA device, the launch of kernels
with the ROM code that starts them, and the host side: the HAL's devices and
their lock, the encoding of command buffers, fills, the loading of programs, and
the example programs.

Paths below are shortened: `cmp.cpp` is
`src/driver/source/refsidrv/refsi_command_processor.cpp`, `window.cpp` is
`refsi_memory_window.cpp`, `sim.cpp` is `slim_sim.cpp`, `acc.cpp` is
`refsi_accelerator.cpp` and `dma.cpp` is `kernel_dma.cpp` beside it, `hal.cpp`
and `hal_m1.cpp` are `refsi_hal.cpp` and `refsi_hal_m1.cpp` in
`src/hal_refsi/source`, `elf.cpp` is `src/driver/source/common/elf_loader.cpp`. `PROJECT.json` maps every definition to its lines.

## 1. Inventory of the system

| Component | State | Operations | Interaction |
| --- | --- | --- | --- |
| Command processor (CMP), queue | `requests`, `started`, `stopping`, the worker thread | `start`, `stop`, `enqueueRequest`, `waitEmptyQueue`, `workerMain` | any number of client threads and one worker; device mutex, two condition variables |
| CMP, command buffers | `registers` | `execute` and one function per command | runs in the worker with the mutex held; calls memory, windows, accelerator |
| Memory controller and windows | base address -> device map; per window `config`, `mapped_config`, `mapped_device`, `mapped_offset` | `add_device`, `remove_device`, `find_device`, `load`, `store`, `addr_to_mem`; `handleRegWrite`, `enableWindow`, `disableWindow` | written by CMP commands, read by every access of harts, CMP and host |
| Accelerator and hart simulator | `is_hart_running`, barrier addresses, `signal_exit`, `exit_code`, `current_hart_id`, CSRs of each hart | `runKernelSlice`, `run`, `step`, `handle_trap`, `handle_barrier`, `set_exited` | called by the CMP; kernels call back through traps |
| DMA device | a register file per unit, numbers of transfers | `store` and `load` of registers, `do_kernel_dma_1d/2d/3d` | written by harts (compiler built-ins) and by the CMP (`kernel_exec`) |
| HAL device | device memory it has allocated, ROM, ELF window, counter values | `kernel_exec`, `mem_alloc`, `mem_free`, `mem_fill`, `mem_copy`, `counter_read`, programs | host threads under one `hal_lock`; submits command buffers and waits |
| HAL command buffers | the chunks | one `add` function per command, `run` | built by the HAL device, decoded by the CMP |
| HAL entry points | the lock of all devices | `device_create`, `device_delete` | construct and destroy HAL devices, each with a device of the driver |
| ROM code, RISC-V encoder | words in the ROM of a device | `createROM`, `encodeLaunchKernel`, `encodeKernelExit` | written by the HAL, executed by the harts |
| ELF loader | segments and symbols of a program | `read`, `load`, `find_symbol` | the HAL's programs; `kernel_exec` loads before each launch |
| Debugger | the command that runs | stepping commands, conditions, displays | replaces the loop of the simulator when `SPIKE_SIM_DEBUG` is set |
| Performance counters | CSRs of harts, global counters | `load`, `store` of the counter device | read by `COPY_MEM64` |
| Device and driver interface | device table, allocator | open, shut down, query, allocate, read, write | thin wrappers around the device |
| Examples | OpenCL objects | select, create, enqueue, check, release | the OpenCL runtime, which executes queues in the background |
| Compiler passes, extension stub | - | generation of LLVM IR | no state |

What is hard, and what makes each part correct:

- **Queue.** Clients that wait for room, clients that wait for an empty queue
  and the worker sleep on two condition variables, and `dispatched.wait` has no
  predicate. `stop` unlocks the mutex in the middle. Correct: no lost wake-up,
  nobody stranded, FIFO and exactly once, nothing after `stop`, calls return.
- **Windows.** Four registers are written in any order, any number of times;
  the window keeps a snapshot of them, and the map a pointer to the window.
  Correct: the snapshot is never stale, the map and the windows agree, memories
  are not removed, accesses go where the registers say, harts are isolated.
- **Command buffers.** Any command may fail in the middle of a buffer, and its
  effects stay. Correct: the register file describes the mapped windows, and a
  copy that passed its checks is complete.
- **Harts.** Turns, barriers, exits and traps interleave as kernels please, and
  registers outlive a run. Correct: a run never loops over sleeping harts,
  barriers synchronise, failures are reported, all instances are executed.
- **DMA.** Harts are interrupted between two register writes, registers keep
  values of earlier transfers, numbers wrap. Correct: each transfer moves what
  was asked for, an event names a finished transfer and only one.
- **Launch.** A launch's parameters travel through memory that all launches
  share; memory runs out; command failures are dropped. Correct: work-groups
  run at most once and with their own parameters, all of them unless a failure has
  come before, blocks live as long as they
  are used, nothing runs after the call has returned. The ROM code is words that
  one side encodes and the other executes; it must compute the work-group that
  the launch means.
- **Host.** One lock, not recursive, protects all devices, and destructors take
  it themselves. Every write sets the same counter, whichever call it is for.
  Correct: a device keeps its memory until it is deleted, no thread waits for
  itself, a counter has the bytes of a transfer, what is encoded is what is decoded, memory is filled and
  programs are loaded exactly, and an example checks a result that has arrived.
- **Debugger.** Commands wait for conditions of harts that may never hold.
  Correct: every command returns to its prompt.

`PROJECT.json` lists the hazards with their lines.

## 2. Modules

The order in which they were written is also the order of importance.

| Module | Models | Extends / uses |
| --- | --- | --- |
| `CommandQueue` | queue, mutex, condition variables, worker, `stop` | |
| `CommandService` | abstract service: accept, serve in order, answer waits | |
| `CommandQueueHistory` | `CommandQueue` with the history of accepted and executed requests, and the refinement mapping to `CommandService` | `CommandQueue`, INSTANCE `CommandService` |
| `MemoryWindows` | memory map and memory windows | |
| `CommandProcessor` | register file and commands, on top of the windows | `MemoryWindows` |
| `HartSim` | `runKernelSlice`, the simulator's loop, traps, barriers; the refinement mapping to `BarrierService` | INSTANCE `BarrierService` |
| `BarrierService` | abstract barrier of a group of harts, without turns, sleep and traps | |
| `KernelDMA` | DMA register files, transfers, events | |
| `HartDebug` | the commands of the debugger around the simulator | `HartSim` |
| `KernelLaunch` | `kernel_exec`, the buffer it builds, its execution; the refinement mapping to `LaunchService` | INSTANCE `LaunchService` |
| `LaunchService` | abstract launch service: one launch at a time, each work-group at most once | |
| `RomCode` | the encoder, the ROM code, and a hart that executes its words | |
| `KernelRom` | launches together with their ROM code | `KernelLaunch`, `RomCode` |
| `HalDevice` | `device_create`, `device_delete`, the use of devices under `hal_lock` | |
| `CommandBuffer` | encoding by the HAL, decoding by the CMP | |
| `MemFill` | `mem_fill` | |
| `ElfLoader` | reading, symbols and loading of programs | |
| `HostPrograms` | the examples and the queue of the OpenCL runtime | |
| `MCHost` | the five modules above and `KernelDMA`, one of them in each behaviour | all six |
| `MC*` | symmetry and constant values for TLC | their module |
| `*Proofs` | inductive invariants and theorems | their module |

Each module starts with a note of what one step stands for. Operators whose
comment says *Faulty* are not part of the behaviour: each is a variant of the
operator that follows, with a mistake that a programmer could make, and shows
that the property named for it in `PROJECT.json` would notice.

### CommandQueue

`lock`, `requests`, `started`, `stopping` are the members of
`RefSiCommandProcessor` and the device mutex. `pc` and `worker` say where each
client and the worker thread are; a critical section is cut at every wait, test
and loop iteration, since other threads run in between only when the mutex is
given up. `Block`, `Await` and `Sleep` are `condition_variable::wait`;
`ClientsNotified` and `WorkerNotified` are the two `notify_all`, which send
sleepers to the mutex, where `Acquire` and `WorkerAcquire` let one in at a time.
`SpuriousWake` wakes any sleeper, the worker included. `Enqueue` is
the tail of `enqueueRequest` after the test of `Full`; `RequestStop`, `Join`
and `FinishStop` are the three parts of `stop`. Execution of a buffer is one
step: the worker does not release the mutex during it.

`CallStop` is the destructor of the device (`refsi_device_m.cpp:47-50`), so a
client stops when no other call is in progress. `Restart` says whether clients
may use the queue again after `stop`; nobody in the repository does.

### MemoryWindows and CommandProcessor

`devices` is the map of `MemoryController`; `Found` and `DeviceAt` are its
search for the nearest base below an address, which then has to be within the
device's size. `Disable` and `Enable` follow `handleRegWrite`: a write that changes
what is mapped, or clears ACTIVE, first unmaps the window, and an ACTIVE window
that is not mapped is then mapped, which can fail. `Reach` is the address at
which an access arrives, through windows and per-hart scales.

`CommandProcessor` adds the registers. A command is one step, and any command
may follow any other, which stands for every buffer: `Begin` finds the buffer,
`End` is FINISH or the end of its chunks, a command that fails ends the buffer
with `result = "failure"`. The contents of memory are not modelled, so a load
finds any value; an I/O device may refuse any access. The fields of MODE and
SCALE are those of `refsidrv.h:334-347`, narrower. `drifted` remembers the
registers that were last written in a way that does not reach the window.

### HartSim

The loop of `runKernelSlice` is `StartGroup`, `EndRun`, `EndSlice`; a turn of a
hart is one step that ends in at most one event: nothing (`Compute`), the
return of the kernel (a breakpoint at the return address), the exit call, the
print call, a barrier call, or a trap. `StaleFault` and `StaleEcall` are what
`step` does with a cause that an earlier run left in `mcause`. `doing`,
`done`, `arrived`, `site`, `failed`, `stale` and `abandoned` are history: a slice is
`Disturbed` when it has found a trap of an earlier one, or has left harts asleep at a
barrier. `TrapsComeFromFailures` says where such traps can come from.

`BarrierService` is what kernels may rely on: a group gathers, each hart of it
counts the barriers it has come to, and it may arrive at the next one or leave
only when all others have come as far as it has, at the same place. A group of
which no hart could go on does not last: it disperses. `HartSim` maps the active
harts of a run that is not over to the group, `arrived` and `site` to the rounds, and
the harts that are asleep without a barrier to those that have left.

### KernelDMA

A unit picks one of its `Jobs` and writes the registers in the order of the
compiler's built-ins (for harts) or of `kernel_exec` (for the CMP), other units
in between. Writing DMACTRL performs the transfer, row by row as in
`do_kernel_dma_1d/2d/3d`. `FetchEvent` and `Wait` are the built-ins that read
DMASTARTSEQ and write DMADONESEQ.

### KernelLaunch

`Begin` takes `hal_lock`; `Load`, `AllocKub`, `AllocCounters`, `AllocBuffer`,
`Submit`, `Wait`, `Finish` are the parts of `kernel_exec` and
`refsi_command_buffer::run`, with their early returns. Memory is a set of blocks
that hold a kernel uniform block, counters, a command buffer or data of a
client. `Commands` is the buffer as `kernel_exec` encodes it, a sequence of
abstract commands, which the CMP executes one per step from the memory the
buffer is in. `image`, `icache`, `exec`, `entry` are the places that launches
share; `GroupOf` is the arithmetic of the ROM code. The queue is the abstract one
of `CommandService`. A command may fail at any time. `NoLateWork` is the promise of
`kernel_exec` to its caller: when it has returned, nothing of its buffer is left
(`NothingRunsLate` proves it).

A slice runs some of its instances, succeeds or fails, and leaves a trap in a hart or
not; `SliceEnds` admits what `HartSim` shows to be possible. Only a slice that finds no
trap of an earlier one (`trapped`), and whose kernel is `orderly`, runs all instances
whenever it succeeds (`SliceExecutesAll`); one that succeeds and finds no trap leaves none
(`TrapsComeFromFailures`). Kernels are orderly when their work-groups come to the same
barriers, and end with codes that do not pass for success; of the others a slice may
abandon work-groups and succeed. So a launch after one that aborted may skip work-groups
and still return true, and only a launch without a failure before it is `Undisturbed`.

`LaunchService` is what a client of the HAL sees: a thread begins a launch when no
other is served, some of its work-groups run at a time, none twice, until all have
or a command fails; then the call returns, true with what the counters measured,
or false when nothing has run. Once a launch has broken, it and any later one may also
return true with work-groups missing, and so may a kernel that is not orderly.
`KernelLaunch` maps the owner of the lock to the caller, the kept calls to the launches, and the histories `ran` and `failed` to the work done
and the launches that broke; memory, commands, caches and slices are gone.

`RomCode` has the functions of `riscv_encoder.cpp` as arithmetic on words,
`EncodeLaunchKernel` as the HAL writes it, and `Execute`, a hart that decodes a
word again and knows the seven instructions the ROM uses (the instruction set is
external to the repository). The ROM moves 64-bit fields with `sw` and `lw`: a store
truncates and a load also extends the sign, at `Half`, which is 2^31 in the code. `KernelRom` puts the two together: for every slice
that runs in a launch, the hart that enters the ROM for an instance leaves it for
the kernel with the work-group that `GroupOf` says, when coordinates and numbers of
groups fit (`GroupsFit`).

### HartDebug

A command is read when the last one has returned. `RunCommands` are `run` and
`rs` with a count or without; `UntilCommands` are `until` and `while`, on the one
register that the model has, `mcause`; what only displays is a `run` of no turns.
A turn of a command is a turn of `HartSim`, so that a command composes with every
step of the simulator. The condition is looked at before each turn, and `Over`
also when the run has ended. In behaviours without `debug` the module is
`HartSim`.

### HalDevice

Threads call an entry point (`CallCreate`, `CallUse`, `CallDelete`), and proceed
when `hal_lock` is free. The creation of a device is cut into `Open`,
`CreateWindows` and `CreateROM`, all with the lock, since each can fail and then
deletes the half-made device; `Destroy` is the destructor, which locks. Other
entry points keep the lock from beginning to end and are one step each. Callers
do not delete a device that another thread uses. `dram` is the allocator of each
device of the driver, as blocks. `counter` says of what the value in a host counter is
the size: of the data of a call, of what a fill has not written, or of a command buffer;
`got` is what the last `counter_read` returned.

### CommandBuffer, MemFill, ElfLoader

A chunk is four 16-bit parts, so that the shifts and masks of the encoder and the
decoder are arithmetic on small numbers. `asked` is what the HAL has added, `seen`
what the CMP has made of the chunks.

`MemFill` follows both loops of `mem_fill`; a cell holds the index of the byte of
the pattern. `FillRepeats` is the reference definition.

In `ElfLoader` a file is a record of its header's fields and tables, with offsets
and sizes in bytes, so that truncated files, wrong entry sizes and wrong indices
are files. Names are abstract, but reading one needs all eight bytes that the
code reads at a time. `Image` is the reference definition of a loaded program.

### HostPrograms

A program is a sequence of calls, with those of its objects and memories that
the properties are about; calls of the runtime can fail at any time, and then the
program exits. The runtime (external) executes the queue in order, whenever it
likes; a blocking call and `clFinish` wait for it. The content of a memory is
the list of what it was computed from. `Asked` is `selectPlatform` and
`selectDevice` with what a user may answer.

Why the examples are right is their discipline, which needs no queue to state:
`Plans` says, after each call, what is alive and what the memories hold once all
commands have been executed, and whether the program has waited for them. A call is
`Careful` when it touches memory only after a wait, checks what is then there, and
gives commands memory that is alive; a program is `Disciplined` when all its calls are,
it releases everything, and it selects a platform or a device once. TLC evaluates
`ProgramsAreDisciplined` for the ten programs and the numbers of devices of `host`;
`DisciplinedProgramsVerify` proves that the discipline is enough, for any programs.

## 3. What is checked

| Run | Question | Bounds |
| --- | --- | --- |
| `queue` | Mutex, bound, wake-ups, FIFO, exactly once; `stop` is final; the queue implements `CommandService` | 4 clients of which one may stop, queue of 2, 3 accepted requests |
| `queue_live` | Requests are executed, `stop` returns, calls return once others are quiet | 3 clients, one may stop |
| `queue_starve` | violated: `waitForDeviceIdle` returns | 2 clients |
| `windows` | Snapshots, map, translation under any register writes | 2 windows, a memory, an I/O device |
| `windows_shared` | violated: physical devices stay mapped, when windows share addresses | 2 windows |
| `windows_last` | violated: every valid offset of a window is reached | 1 window |
| `cmp` | Windows follow the register file, copies are complete, under any commands | 1 window, copies of up to 2 registers |
| `harts` | No endless loop, barriers, failures, the abstract barrier, all instances of undisturbed slices, no trap left by success; slices and debugger commands end | 3 harts, 2 slices of up to 4 instances, 2 barriers each; with the debugger and without |
| `harts_stale` | violated: a slice executes all its instances, after one that was aborted | 3 harts, 2 slices |
| `launch` | Work-groups at most once and with their own parameters, all of them in undisturbed launches, also word by word through the ROM; lifetimes of memory, counters; the abstract launch service | 2 threads, 2 launches, 4 ranges, one of a kernel that is not orderly, 4 blocks; words of the ROM with `Half` = 3 |
| `copy_counted` | violated: a counter never has the size of the command buffer of `mem_copy` | 1 thread, 1 device |
| `host` | Devices keep their memory, the lock (2 threads, 2 devices besides the HAL's own, 3 blocks); decoding (2 commands); fills (sizes 0-12, patterns 1-5, chunk 4); programs (14 files, 2 slots, 2 loads); examples (all ten); transfers are exact, events are finished and fresh (2 harts and the CMP, 12 addresses, 2 transfers each) | as given |

Why the bounds are enough. Two clients that block on a full queue, one that
waits and one that enqueues are the smallest set in which a notification can
wake the wrong client; a queue of two (`max_requests = 1`) distinguishes "one
too many" from "as many as allowed" and has an order. Two windows with three
base addresses can collide in every way; the devices are smaller than the
greatest scale and larger than the smallest window, so that every inequality of
an access is met with equality and on both sides. Three harts are the least for
a barrier at which one hart waits, one has exited and one arrives; four
instances make a second, incomplete group; a second slice meets what the first
has left. Three dimensions with sizes of at most two meet every branch of the
transfers. The second launch meets everything that the first has left, in
particular memory that it kept, the instruction cache, the entry point and the traps of
a slice that aborted; the ranges of two and of three dimensions have different numbers of
groups per dimension, so that swapped dimensions show, and the range without groups has
no instance. Two is the largest number of groups that the loads of the run leave alone,
since `Half` is three. Four blocks are one
more than a launch takes, and clients may hold any of them. Three accepted
requests are one more than the queue holds.

On the host side, three blocks are the two that a device needs and one for its
users; a second device shows what is shared by mistake; with two threads one
can create a device while the other deletes or uses one. Two commands are enough for a buffer to go
wrong: the first one's length decides where the second begins. Fills have sizes
below, at and above the chunk, patterns that divide it, do not divide it and
exceed it, and memory that ends anywhere. The files have segments that overlap,
bss that is smaller and larger than a chunk of zeros, data that do not fit, and
one variation for each test of the loader; a second program in the same memory
shows what the first has left. The parts of `host` share no state in the code either, except
the lock, which `HalDevice` has, so that each is explored alone. The DMA device is in
this run for the same reason: what the runs of harts and of launches say does not
depend on it.

`windows` and `cmp` check for deadlock. The others may stop: devices are
destroyed, slices, launches, loads and buffers are bounded, programs exit.

Fairness. `queue_live` assumes that threads that can take a step do (weak
fairness of the worker and of a client inside a call), and that a mutex that is
released again and again is at last given to each thread waiting for it (strong
fairness of the acquisitions; the implementations of `std::mutex` in use do
this in practice, and without it nothing at all can be said about a shared
lock). Nothing forces clients to call or condition variables to wake.
`harts` assumes that the simulator keeps going, which is a loop in one thread,
and that a kernel does not compute for ever between two events (strong fairness
of `Progress`); with the round-robin turns this gives every slice an end. With
the debugger it also assumes that among the commands of the user there are always
again some that step: when its input has ended, every line it reads is empty, which
is `run 1` (`debugger.cpp:88-92`). A user who quits ends the process, which
`SlicesEnd` excepts.

### Disagreements found

1. `waitEmptyQueue` (`cmp.cpp:87-91`) waits until the queue is empty. Another
   client that keeps enqueuing keeps the caller waiting for ever, while
   `refsi_device_m.h:43` promises to wait for *previously enqueued* buffers.
2. `enableWindow` ignores that `add_device` refused a base address that is taken,
   and `disableWindow` then removes the other device (`window.cpp:104, 112`).
3. Accesses to an I/O device through a window refuse the last valid byte
   (`window.cpp:177, 191`: `addr + len >= size`).
4. A fatal trap leaves `mcause` set, and the next slice handles it again
   (`sim.cpp:99, 139`), so that it fails or skips instances, and succeeds. A launch
   after an aborted one may therefore return true with work-groups missing.
5. The comment of `mem_copy` says that it does not update the host's counters
   (`hal_m1.cpp:492-493`), but the command buffer that it runs is written with
   `mem_write`, which counts the buffer (`refsi_command_buffer.cpp:28`).

Smaller observations, without a run of their own:

- After `stop`, `started` stays true (`cmp.cpp:66`), so `start` does not start a
  worker again; requests would then wait for ever. Nobody uses a stopped queue.
- A MODE write with ACTIVE set that fails leaves `config.active` true without a
  mapping (`window.cpp:97`); one that changes a mapped window leaves it inactive
  although the comment at line 79 says it is enabled when the bit is set.
- `LOAD_REG64` of a window register changes the register and not the window
  (`cmp.cpp:367`); `drifted` excepts these registers.
- `COPY_MEM64` says that it ensures that all registers can be copied
  (`cmp.cpp:433-434`); through a window it can stop half-way, since the window
  checks sizes differently. `CopyIsComplete` is about memories.
- `addr_to_mem` of a window does not look at the window's size
  (`window.cpp:202`), so host accesses reach beyond it.
- When the last running hart exits while others sleep at a barrier, the run is a
  success and the sleepers are abandoned (`sim.cpp:285-287`); the launch returns true
  without their work-groups.
- An exit code that is a multiple of 2^32 counts as success (`sim.cpp:129`).
- Transfer numbers wrap after 2^32 transfers (`dma.cpp:145`).
- The comment at `hal_m1.cpp:217` divides by `num_groups[2]`; the code divides by
  `num_groups[1]`, which is right (`EveryGroupOnce`; the comment's version is its
  mutant).
- `kernel_exec` returns true when a command failed (the worker drops the result,
  `cmp.cpp:112`), and keeps blocks on some early returns
  (`hal_m1.cpp:350, 367, 441`).
- `addSTORE_IMM64` truncates the destination to 32 bits
  (`refsi_command_buffer.cpp:56`); DMA registers are below.
- `setScale` (`window.cpp:124`) shifts by a negative amount for odd scales; it has
  no caller.
- `mem_fill` sets the write counter to what it has not written (`hal.cpp:350`), usually
  zero, since its loop has decremented `size`; `refsi_hal.h:54` has the counter count
  the bytes written. `MemFill` in `HalDevice` does the same (`"rest"`).
- `mem_fill` with a size smaller than the pattern writes nothing and succeeds, a tail shorter than
  the pattern may be dropped, and an empty pattern never ends (`hal.cpp:337`).
- `device_create` would delete a half-made device with the lock in its hand and
  lock it again (`hal_main.cpp:96-98`). A new device always has the memory that its
  windows and its ROM need (`NoSelfDeadlock`), so that this is not reached. The
  device that the HAL opens for itself is never shut down.
- `refsiQueryDeviceMemoryMap` accepts an index one past the map
  (`refsidrv.cpp:73`); `allocDeviceMemory` returns `refsi_failure`, which is not zero, as
  an address for some kinds of memory (`refsi_device.cpp:71-75`), and freeing an address
  that was never allocated succeeds.
- `RUN_INSTANCES` has three bits for the number of arguments; `addRUN_INSTANCES`
  takes the first seven and drops the others without a word
  (`refsi_command_buffer.cpp:91-105`). A buffer that is cut off in a command makes
  `execute` read chunks behind its end.
- The ROM reads the number of groups in the second dimension with `lw` and writes
  coordinates with `sw` (`hal_m1.cpp:210-230`), 32 bits of 64: with 2^31 groups or more
  it runs other work-groups than the launch means.
- `createSim` tests the number of harts before it is assigned (`acc.cpp:97`); a
  slice that is wider than the device has harts uses a hart that does not exist
  (`acc.cpp:133`).
- `read_symbols` compares `e_shnum < e_shstrndx` (`elf.cpp:238`), so that an index
  one past the table is accepted and memory behind the table is read; names in the
  last eight bytes of a file are not found, since they are read eight bytes at a
  time (`elf.cpp:300-325`). `kernel_exec` checks segments by their size in memory,
  while loading writes their size in the file.
- `program_free` also frees the kernels of the program, whose handles callers may have.
- The debugger's `run [count]` counts the turns of sleeping harts, not
  instructions; `until` on a hart or a register that does not exist never stops
  before the kernel does, and CTRL+C, which `help` mentions, is not handled.
- The kernel of `cl_nupu_reduce.cpp` halves the number of sub-groups in each
  round, which is exact for powers of two only; without strides a three-dimensional
  transfer takes the number of rows for the distance of planes (`dma.cpp:327`),
  which no caller asks for.

## 4. What is proved

All theorems hold for every value of the constants that satisfies the modules'
assumptions. Each safety property rests on an inductive invariant, which is given with it.

| Theorem | Assumption | Argument |
| --- | --- | --- |
| `TypeCorrect`, `QueueIsBounded` (CommandQueueProofs) | | the type invariant; the bound is inductive with it, the test `Full` and the append are in one critical section |
| `MutexIsOwned`, `WorkerSeesEveryRequest`, `NobodyIsStranded`, `StartedWorkerIsLive`, `StopEndsExecution` | `~Restart` | `QInv`: ownership of the mutex, no lost wake-up, a sleeper has a request ahead of it, and what `started`, `stopping` and the worker can be in each phase of `stop` |
| `ExecutedExactlyOnce` | | `HInv`: accepted = executed followed by the queue |
| `QueueImplementsService` | `~Restart` | initial states map to initial states, every step to a step of `CommandService` or a stutter |
| `WindowsAreNeverStale` (MemoryWindowsProofs) | | `RegInv`: of a mapped window, configuration and snapshot agree |
| `PhysicalDevicesStay` | `OwnAddresses`: windows keep to addresses of their own | a window removes only what is at its own base |
| `WindowsAreInTheMap`, `WindowsTranslate` | `OwnRanges`: the ranges of windows, at any size, overlap neither each other nor physical devices | `MapInv`: the map as a function has exactly the physical devices and the mapped windows, each at the base of its configuration, and the offset of a mapped window is that of its configuration; so the largest base below an address is that of its window (`NearestBase`), and a window that is programmed finds its base free (`OwnBaseIsFree`) |
| `WindowsFollowRegisters` (CommandProcessorProofs) | | `CmpInv`: `RegInv`, registers are naturals, and registers that have not drifted are the configuration |
| `CopiesAreComplete` | | a COPY_MEM64 whose two devices are memories finds every access inside of them, because both sizes were checked (`MemoryAccessSucceeds`); no register write takes a device's kind away (`WindowWriteKeepsDevices`) |
| `SimTypeCorrect`, `RunNeverHangs`, `BarriersSynchronise` (HartSimProofs) | | `SimInv`: the shape of a run (`RunShape`), and that barriers are reached in rounds (`RoundsAgree`) |
| `AbortsAreReported` | `ExitCodesFit`: exit codes below 2^32 | a failure sets `exit_code` and nothing resets it before the slice returns (`FailureSticks`) |
| `SlicesExecuteAll` | | `ExecutesInv`: of a slice that is undisturbed and has not failed, the instances up to the next are executed but for those that active harts still run, each its own, and a hart that has exited its instance has executed it |
| `SuccessLeavesNoTrap` | | a trap is left only by a fault or a rejected call, which aborts the run with a failure; whatever else ends an instance returns from its trap, which clears `mcause` |
| `GroupsSynchronise` | | `SimInv`: by `RoundsAgree` a hart that is awake has nobody of its group behind it, so that whatever it does is a step the abstract barrier allows (`AwakeMayGoOn`); by `SomeHartRuns` after each step that does not end the run there is such a hart (`StillMayGoOn`); exits map to leaving, barrier calls to arriving, the end of a run to dispersing, and all other turns to stutters |
| `DebuggerOnlySchedules` | | every step of `HartDebug` is a step of `HartSim` or a stutter: the debugger chooses who runs and for how long, and nothing else |
| `EventsStayFinished`, `EventsStayFresh` (KernelDMAProofs) | `IdsLast`: identifiers do not wrap | `DMAInv`: no event is ahead of the number of the unit's last transfer, and a unit that is to start one has a number left |
| `TransfersStayExact` | `IdsLast`; `JobsKeepApart`: no byte of a job is read where another is written, or written twice | `RegistersInv`: the register file of a unit has the writes it has made for its job, because a job writes no register twice (`NamesDiffer`); all of them describe the job (`AllWritten`); and the loops copy the rows, and then the planes, one after the other, none of them disturbing another (`RowsCopy`, `PlanesCopy`), which is what the coordinates ask for (`CopiedIsAsked`) |
| `MemoryStaysOwned`, `CreateNeverDeadlocks` (HostProofs) | a device has at least two blocks (`HalAssumption`) | `HalInv`: a thread that works on a device which is not the caller's has it for itself, the lock is held between steps only by the maker of a device, and the memory of a device that is not open, or that is being made, is free but for what its maker has put there; so the failing path of `device_create`, which would lock twice, is never reached |
| `FillsRepeatPattern` | | `FillInv`: what has been written is the pattern, chunk after chunk, and a chunk begins with the pattern's first byte because each is a multiple of it long (`RemainderShifts`) |
| `BuffersDecode` | the widths of arguments (`BufferAssumption`) | `BufferInv`: there are starts, one for each command and one for the end, such that each command stands between its start and the next as its add function has written it, and the CMP stands at the start of the command after those it has executed; a command that is found at its start is decoded (`CommandDecodes`), because the fields of a header do not overlap (`HeaderDecodes`) |
| `LoadsAreExact` | `SegmentsAreNumbers`: the fields of segments are not negative, as unsigned ones are not | `ElfInv`: a cell is that of the last segment among those that are loaded that has its address (`CellAfter`); inside the segment under way, what is below the next address to write is already the segment's |
| `SymbolsStayFound` | `StringsAreInTheirTable`: symbols and sections are sequences, and a file has one table of strings | `SymbolsInv`: a program that is loaded knows the symbols of its file, and its kernels are among them; the fold over the symbols exists (`MapsExist`), and after k symbols it has the last of each name among the k (`MapsHaveLast`) |
| `DisciplinedProgramsVerify` | `ProgramsAreDisciplined`, `NamesAreFew`: a host has at most 2^16 platforms and devices | `ProgramInv`: the commands in the queue lead from what the memories hold to what the program counts on (`Leads`), what a program has waited for is done (`WaitedIsDone`), commands use memory that is alive, and what has been selected stays as asked; what a program counts on exists, by induction over its calls (`PlansExist`) |
| `LaunchRunsEveryGroupOnce` (KernelLaunchProofs) | what `HartSim` shows of slices is built into `SliceEnds` | `LaunchInv`, and arithmetic: the instances of a launch's slices and its work-groups correspond one to one, because a number has one quotient and one remainder (`GroupsAreInRange`, `EveryGroupIsCovered`, `NoGroupTwice`); the slices of a launch run in order, and none of them twice; a trap in a hart means that a launch has failed, so that the slices of an undisturbed one that succeed run all their instances |
| `BuffersStayAlive`, `GroupsRunOwnParameters`, `LaunchCountersExact`, `SuccessLeavesNoBlock`, `NothingRunsLate` | | `LaunchInv`: which blocks a call holds at each point of `kernel_exec`, that nobody else has them, that the buffer under way is that of the one call with the lock, and that the harts, the ELF memory and the registers of the CMP hold this call's values from the command that sets them on |
| `LaunchImplementsService` | | `LaunchInv` and `MeasuredInv`, that nothing is measured before a call returns: each step of the CMP maps to work on groups that have not run yet, or to nothing; `Finish` maps to a return of a launch whose groups have all run, or that may miss some because it or an earlier one has broken or its kernel is not orderly, and an early return to a refusal, before which nothing has run |
| `RomRunsKernel`, `RomExits` (KernelRomProofs) | | the fields of an instruction word do not overlap, so that each word that the HAL encodes is decoded as the instruction it meant; then one step of the hart after the other, for any arguments, and for addresses, coordinates and numbers of groups that survive the loads and stores of 32 bits (`Fits`, `WordsFit`) |
| `RomRunsEveryLaunch` | `GroupsFit`: coordinates below 2^32, fewer than 2^31 groups in the second dimension | `LaunchInv` gives what the entry point and the execution state hold when a slice runs; `RomRunsKernel` does the rest, and the coordinates fit because they are inside the range (`GroupsAreInRange`) |

The restrictions are where the code needs them: without `~Restart`, `OwnAddresses`,
`OwnRanges`, `ExitCodesFit`, `IdsLast` or `GroupsFit` the statements are false, as section 3 tells;
without `JobsKeepApart` a later row may read what an earlier one wrote, and `memcpy` of
a row onto itself is undefined.
The runs evaluate those on constants for their instances, as assumptions: `JobsKeepApart`,
`SegmentsAreNumbers`, `StringsAreInTheirTable`, `ProgramsAreDisciplined`
and `NamesAreFew` in MCHost, `OwnRanges` in MCMemoryWindows, `GroupsFit` in MCKernelLaunch; so none of these theorems is about no state at all.

The type invariants of the modules (`TypeOK` and the like) are parts of the
inductive invariants; no run repeats them.

Only model-checked: liveness (`QueueDrains`, `QuiescentCallsReturn`, `StopReturns`,
`SlicesEnd`, `CommandsReturn`), which is beyond the prover.
The library's induction theorems take an operator as a parameter, which the provers do
not instantiate. Where an argument needs only that a set of numbers has a least
element, `WFMin` gives it without an operator (`MaxOfBounded` in MemoryWindowsProofs); and
from `WFMin` follows induction over a set (`SetInduction`), which is enough for what the
recursive functions of the loops of the DMA device compute (`LoopIsDefined` in
KernelDMAProofs), for the fold over symbols and for what a program counts on (`MapsExist`
and `PlansExist` in HostProofs).

## 5. What is not modelled

- The contents of memory in `CommandProcessor`, among them the thread-specific
  data that `RUN_KERNEL_SLICE` copies; the DMA transfer and the counters of a
  launch are whole commands in `KernelLaunch`.
- What a hart runs that handles the `ecall` of an aborted launch again: `KernelLaunch`
  has the work-groups that are then missing, and not the call, which may exit, print or
  come to a barrier (`StaleEcall` in `HartSim`). Sums of addresses that overflow a
  register.
- A width above the number of harts (`cmp.cpp:576`), which is outside the
  assumptions of `HartSim`; buffers that are cut off in a command, which the HAL
  does not build.
- The packing of arguments: `kernel_exec` uses a packer from outside of the
  repository, and `pack_args` (`hal.cpp:186-278`) has no caller.
- The stores to performance counters, and the global counters.
- `createSim`, the encoding of SCALE, and the queries of device information and
  the memory map: configuration that is fixed when a device is created.
- The debugger's displays, its parsing of words and numbers.
- The kernels of the examples: which numbers they compute.
- The LLVM passes (`src/compiler_refsi`, except the DMA built-ins) generate code
  and keep no state; the extension stub is a name in a table.

## 6. What could follow

The modules and theorems above are complete in themselves. What would extend them,
by importance: the thread-specific data of `RUN_KERNEL_SLICE`, and the encoding of
SCALE by `createWindow`, checked against `getScale`.
