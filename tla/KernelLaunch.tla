----------------------------- MODULE KernelLaunch -----------------------------
(***************************************************************************)
(* The launch of kernels by the HAL: kernel_exec lays a launch out in      *)
(* device memory, encodes it as a command buffer, has the command          *)
(* processor (CMP) execute the buffer and waits for it, all of it with the *)
(* HAL lock held.  The parameters of a kernel reach its work-groups along  *)
(* three ways: the program, loaded into ELF memory and read through the    *)
(* simulator's instruction cache; the execution state, which a DMA         *)
(* transfer copies into the memory of the harts; and the arguments, at     *)
(* their address in the kernel uniform block (KUB).  The ROM code works    *)
(* out which work-group a hart runs.                                       *)
(*                                                                         *)
(* The queue is the one of CommandService; a block of memory fits any      *)
(* request; what is known of a slice when it ends, of one that aborts, of  *)
(* one that finds the traps of an earlier one and of one whose kernel is   *)
(* not orderly, is what HartSim shows of it.                               *)
(***************************************************************************)
EXTENDS Integers, Sequences, FiniteSets

CONSTANTS
  Threads,   \* host threads that use the HAL
  Ranges,    \* kernels with N-D ranges: [dim, groups, orderly], groups the
             \* number per dimension
  Blocks,    \* addresses of the blocks of device memory
  Null,      \* hal_nullptr
  Counting,  \* are the performance counters enabled?
  MaxCalls,  \* bound: calls of kernel_exec in a behaviour
  Nobody     \* the HAL lock is free

Dims == 1 .. 3

\* A dimension that the kernel does not use has one group.  A kernel is orderly
\* when its work-groups come to the same barriers before they end, and end with
\* codes that 32 bits can tell from success.
ASSUME LaunchAssumption ==
  /\ \A r \in Ranges :
       /\ r.dim \in Dims /\ r.groups \in [Dims -> Nat] /\ r.orderly \in BOOLEAN
       /\ \A d \in Dims : d > r.dim => r.groups[d] = 1
  /\ Null \notin Blocks
  /\ Counting \in BOOLEAN /\ MaxCalls \in Nat
  /\ Nobody \notin Threads

VARIABLES
  lock,       \* owner of hal_lock
  pc,         \* where each thread is
  call,       \* the number of its latest call
  launches,   \* what kernel_exec keeps for each call, and its outcome
  mem,        \* device memory: what each block holds
  queue,      \* addresses of the buffers that the CMP is to execute
  at,         \* position of the command it executes next
  image,      \* program in ELF memory, named by the call that loaded it
  icache,     \* program in the instruction cache, 0 when it is empty
  exec,       \* execution state in the memory of the harts
  entry,      \* ROM function in the entry point register, by its dimensions
  retired,    \* counters of the harts: work-groups that have been run
  trapped,    \* a hart keeps the mcause of a trap that has aborted a slice
  ran,        \* history: work-groups that have been run, and with what
  repeated,   \* history: a work-group has been run twice
  failed      \* history: calls whose command buffer failed

hostVars == <<lock, pc, call, launches>>
runVars == <<icache, exec, entry, retired, trapped, ran, repeated>>
vars == <<hostVars, mem, queue, at, image, runVars, failed>>

Locations == {"idle", "loading", "kub", "counters", "buffer",
              "submitting", "waiting", "finishing"}

Free == [type |-> "free"]
User == [type |-> "user"]
NoExec == [call |-> 0, groups |-> [d \in Dims |-> 0]]

Init ==
  /\ lock = Nobody
  /\ pc = [t \in Threads |-> "idle"]
  /\ call = [t \in Threads |-> 0]
  /\ launches = <<>>
  /\ mem = [b \in Blocks |-> Free]
  /\ queue = <<>> /\ at = 1
  /\ image = 0 /\ icache = 0 /\ exec = NoExec /\ entry = 0 /\ retired = 0
  /\ trapped = FALSE /\ ran = {} /\ repeated = FALSE /\ failed = {}

-----------------------------------------------------------------------------
(* The command buffer of a launch                                          *)

Slices(r) == CASE r.dim = 1 -> 1
               [] r.dim = 2 -> r.groups[2]
               [] r.dim = 3 -> r.groups[2] * r.groups[3]

Count(ctr, set) == IF Counting THEN << [op |-> "COUNT", addr |-> ctr, set |-> set] >>
                               ELSE <<>>

Runs(r, kub) ==
  [s \in 1 .. Slices(r) |->
     [op |-> "RUN", addr |-> kub, slice |-> s - 1, instances |-> r.groups[1]]]

\* Faulty Commands: the caches are synchronised after the kernel only.
CommandsSyncAfter(r, kub, ctr) ==
  << [op |-> "DMA", addr |-> kub], [op |-> "ENTRY", dim |-> r.dim] >>
  \o Count(ctr, "before") \o Runs(r, kub)
  \o << [op |-> "SYNC"] >> \o Count(ctr, "after") \o << [op |-> "FINISH"] >>

\* Faulty Commands: the counters are read for the first time after the kernel.
CommandsCountLate(r, kub, ctr) ==
  << [op |-> "DMA", addr |-> kub], [op |-> "SYNC"], [op |-> "ENTRY", dim |-> r.dim] >>
  \o Runs(r, kub)
  \o << [op |-> "SYNC"] >> \o Count(ctr, "before") \o Count(ctr, "after")
  \o << [op |-> "FINISH"] >>

Commands(r, kub, ctr) ==
  << [op |-> "DMA", addr |-> kub], [op |-> "SYNC"], [op |-> "ENTRY", dim |-> r.dim] >>
  \o Count(ctr, "before") \o Runs(r, kub)
  \o << [op |-> "SYNC"] >> \o Count(ctr, "after") \o << [op |-> "FINISH"] >>

-----------------------------------------------------------------------------
(* kernel_exec and refsi_command_buffer::run                               *)

Launch(t) == launches[call[t]]
Goto(t, location) == pc' = [pc EXCEPT ![t] = location]
Note(t, field, value) == launches' = [launches EXCEPT ![call[t]][field] = value]

\* kernel_exec returns; the locker releases the lock.
Return(t, outcome) ==
  /\ Goto(t, "idle")
  /\ lock' = Nobody
  /\ Note(t, "outcome", outcome)
  /\ UNCHANGED call

\* kernel_exec takes the lock before anything else.
Call(t, r) ==
  /\ pc[t] = "idle"
  /\ Len(launches) < MaxCalls
  /\ launches' = Append(launches, [range |-> r, kub |-> Null, counters |-> Null,
                                   buffer |-> Null, outcome |-> "none", measured |-> 0])
  /\ call' = [call EXCEPT ![t] = Len(launches) + 1]
  /\ lock' = t
  /\ Goto(t, "loading")
  /\ UNCHANGED <<mem, queue, at, image, runVars, failed>>

\* Faulty Begin: the lock is not looked at.
BeginAnyway(t, r) == Call(t, r)

Begin(t, r) ==
  /\ lock = Nobody
  /\ Call(t, r)

\* Check the range and the segments, load the program, pack the arguments;
\* any of them may be refused, some after the image has been replaced.
Load(t) ==
  /\ pc[t] = "loading"
  /\ \/ /\ image' = call[t]
        /\ Goto(t, "kub")
        /\ UNCHANGED <<lock, call, launches>>
     \/ /\ image' \in {image, call[t]}
        /\ Return(t, "false")
  /\ UNCHANGED <<mem, queue, at, runVars, failed>>

\* An allocation in kernel_exec: where it fits, or kernel_exec returns early,
\* and does not free what it has allocated before.
Allocate(t, field, content, next) ==
  /\ IF \E b \in Blocks : mem[b] = Free
     THEN \E b \in Blocks :
            /\ mem[b] = Free
            /\ mem' = [mem EXCEPT ![b] = content]
            /\ Note(t, field, b)
            /\ Goto(t, next)
            /\ UNCHANGED <<lock, call>>
     ELSE Return(t, "false") /\ UNCHANGED mem
  /\ UNCHANGED <<queue, at, image, runVars, failed>>

AllocKub(t) ==
  /\ pc[t] = "kub"
  /\ Allocate(t, "kub",
       [type |-> "kub", call |-> call[t], groups |-> Launch(t).range.groups],
       IF Counting THEN "counters" ELSE "buffer")

AllocCounters(t) ==
  /\ pc[t] = "counters"
  /\ Allocate(t, "counters",
       [type |-> "counters", call |-> call[t], before |-> 0, after |-> 0], "buffer")

AllocBuffer(t) ==
  /\ pc[t] = "buffer"
  /\ Allocate(t, "buffer",
       [type |-> "commands", call |-> call[t],
        commands |-> Commands(Launch(t).range, Launch(t).kub, Launch(t).counters)],
       "submitting")

Submit(t) ==
  /\ pc[t] = "submitting"
  /\ queue' = Append(queue, Launch(t).buffer)
  /\ Goto(t, "waiting")
  /\ UNCHANGED <<lock, call, launches, mem, at, image, runVars, failed>>

\* Faulty Wait: returns as soon as the buffer has been submitted.
WaitNot(t) ==
  /\ pc[t] = "waiting"
  /\ Goto(t, "finishing")
  /\ UNCHANGED <<lock, call, launches, mem, queue, at, image, runVars, failed>>

\* refsiWaitForDeviceIdle, then the buffer is freed.
Wait(t) ==
  /\ pc[t] = "waiting"
  /\ queue = <<>>
  /\ mem' = [mem EXCEPT ![Launch(t).buffer] = Free]
  /\ Goto(t, "finishing")
  /\ UNCHANGED <<lock, call, launches, queue, at, image, runVars, failed>>

\* Faulty Finish: the counters' block is not freed.
FinishKeepCounters(t) ==
  /\ pc[t] = "finishing"
  /\ launches' = [launches EXCEPT ![call[t]].outcome = "true",
                                  ![call[t]].measured = 0]
  /\ mem' = [mem EXCEPT ![Launch(t).kub] = Free]
  /\ lock' = Nobody
  /\ Goto(t, "idle")
  /\ UNCHANGED <<call, queue, at, image, runVars, failed>>

\* The difference of the two sets of counters, the other blocks, and success,
\* whatever became of the command buffer.
Finish(t) ==
  /\ pc[t] = "finishing"
  /\ launches' = [launches EXCEPT
       ![call[t]].outcome = "true",
       ![call[t]].measured =
         IF Counting THEN mem[Launch(t).counters].after - mem[Launch(t).counters].before
                     ELSE 0]
  /\ mem' = [b \in Blocks |->
               IF b \in {Launch(t).kub, Launch(t).counters} THEN Free ELSE mem[b]]
  /\ lock' = Nobody
  /\ Goto(t, "idle")
  /\ UNCHANGED <<call, queue, at, image, runVars, failed>>

\* The HAL's own mem_alloc and mem_free, for the buffers of its clients.
MemAlloc(b) ==
  /\ lock = Nobody
  /\ mem[b] = Free
  /\ mem' = [mem EXCEPT ![b] = User]
  /\ UNCHANGED <<hostVars, queue, at, image, runVars, failed>>

MemFree(b) ==
  /\ lock = Nobody
  /\ mem[b] = User
  /\ mem' = [mem EXCEPT ![b] = Free]
  /\ UNCHANGED <<hostVars, queue, at, image, runVars, failed>>

-----------------------------------------------------------------------------
(* The CMP executes the buffer at the head of the queue.                   *)

Buffer == mem[Head(queue)]
Executing(op) ==
  /\ queue # <<>>
  /\ Buffer.type = "commands"
  /\ Buffer.commands[at].op = op
Command == Buffer.commands[at]
Holds(addr, type) == addr \in Blocks /\ mem[addr].type = type

NextCommand == at' = at + 1 /\ UNCHANGED <<queue, failed>>
EndBuffer == at' = 1 /\ queue' = Tail(queue)

CopyExec ==
  /\ Executing("DMA")
  /\ exec' = IF Holds(Command.addr, "kub")
             THEN [call |-> mem[Command.addr].call, groups |-> mem[Command.addr].groups]
             ELSE NoExec
  /\ NextCommand
  /\ UNCHANGED <<hostVars, mem, image, icache, entry, retired, trapped, ran, repeated>>

SyncCache ==
  /\ Executing("SYNC")
  /\ icache' = 0
  /\ NextCommand
  /\ UNCHANGED <<hostVars, mem, image, exec, entry, retired, trapped, ran, repeated>>

SetEntry ==
  /\ Executing("ENTRY")
  /\ entry' = Command.dim
  /\ NextCommand
  /\ UNCHANGED <<hostVars, mem, image, icache, exec, retired, trapped, ran, repeated>>

ReadCounters ==
  /\ Executing("COUNT")
  /\ mem' = IF Holds(Command.addr, "counters")
            THEN [mem EXCEPT ![Command.addr][Command.set] = retired]
            ELSE mem
  /\ NextCommand
  /\ UNCHANGED <<hostVars, image, runVars>>

\* Faulty GroupOf: the division is by num_groups[2], as the comment has it.
GroupByComment(dim, groups, i, s) ==
  << i,
     IF dim > 1 THEN s % groups[2] ELSE 0,
     IF dim > 2 THEN s \div groups[3] ELSE 0 >>

\* encodeLaunchKernel: the work-group that instance i of slice s runs, as the
\* ROM function for so many dimensions finds it, when its loads and stores do not
\* truncate (KernelRom).  Unused dimensions keep the zero of the execution state.
GroupOf(dim, groups, i, s) ==
  << i,
     IF dim > 1 THEN s % groups[2] ELSE 0,
     IF dim > 2 THEN s \div groups[2] ELSE 0 >>

\* A work-group runs the program, execution state and arguments it finds.
Program == IF icache = 0 THEN image ELSE icache
Work(i) ==
  [by |-> Buffer.call, program |-> Program, exec |-> exec.call,
   args |-> IF Holds(Command.addr, "kub") THEN mem[Command.addr].call ELSE 0,
   group |-> GroupOf(entry, exec.groups, i, Command.slice)]

\* How the slice of a RUN_INSTANCES can end: with the work-groups of some of
\* its instances run, with success or not, with a trap left in a hart or not.
\* HartSim has it: a slice that succeeds has executed all instances, if it found
\* no trap of an earlier one and abandoned no hart at a barrier
\* (SliceExecutesAll) and exit codes fit 32 bits (AbortIsReported); if it found
\* none it leaves none (TrapsComeFromFailures).  The hart of a stale trap runs
\* something else than a work-group of the launch.  No instances, no hart runs.
SliceEnds(some, ok, left) ==
  LET orderly == Program # 0 /\ launches[Program].range.orderly
  IN  /\ ok /\ ~trapped /\ orderly => some = 0 .. Command.instances - 1
      /\ ok /\ ~trapped => ~left
      /\ Command.instances = 0 => ok /\ left = trapped

\* RUN_INSTANCES: the buffer goes on when the slice succeeds.
RunSlice ==
  /\ Executing("RUN")
  /\ \E some \in SUBSET (0 .. Command.instances - 1), ok, left \in BOOLEAN :
       LET new == {Work(i) : i \in some}
       IN  /\ SliceEnds(some, ok, left)
           /\ trapped' = left
           /\ ran' = ran \cup new
           /\ repeated' = (repeated \/ new \cap ran # {} \/ Cardinality(new) < Cardinality(some))
           /\ retired' = retired + Cardinality(some)
           /\ icache' = IF some = {} THEN icache ELSE Program
           /\ IF ok THEN NextCommand
                    ELSE EndBuffer /\ failed' = failed \cup {Buffer.call}
  /\ UNCHANGED <<hostVars, mem, image, exec, entry>>

FinishBuffer ==
  /\ Executing("FINISH")
  /\ EndBuffer
  /\ UNCHANGED <<hostVars, mem, image, runVars, failed>>

\* A command that fails ends the buffer, and so does memory that is no buffer.
\* The worker throws the result away.
FailBuffer ==
  /\ queue # <<>>
  /\ ~Executing("FINISH")
  /\ EndBuffer
  /\ failed' = IF Buffer.type = "commands" THEN failed \cup {Buffer.call} ELSE failed
  /\ UNCHANGED <<hostVars, mem, image, runVars>>

CmpStep ==
  \/ CopyExec \/ SyncCache \/ SetEntry \/ ReadCounters \/ RunSlice
  \/ FinishBuffer \/ FailBuffer

-----------------------------------------------------------------------------
ThreadStep(t) ==
  \/ Load(t) \/ AllocKub(t) \/ AllocCounters(t) \/ AllocBuffer(t)
  \/ Submit(t) \/ Wait(t) \/ Finish(t)

Next ==
  \/ CmpStep
  \/ \E t \in Threads : ThreadStep(t) \/ \E r \in Ranges : Begin(t, r)
  \/ \E b \in Blocks : MemAlloc(b) \/ MemFree(b)

Spec == Init /\ [][Next]_vars

-----------------------------------------------------------------------------
(* Properties                                                              *)

Calls == DOMAIN launches

LaunchType ==
  [range : Ranges, kub : Blocks \cup {Null}, counters : Blocks \cup {Null},
   buffer : Blocks \cup {Null}, outcome : {"none", "true", "false"}, measured : Int]

TypeOK ==
  /\ lock \in Threads \cup {Nobody}
  /\ pc \in [Threads -> Locations]
  /\ launches \in Seq(LaunchType)
  /\ \A t \in Threads : call[t] \in Calls \cup {0} /\ (pc[t] # "idle" => call[t] # 0)
  /\ DOMAIN mem = Blocks
  /\ \A b \in Blocks : mem[b].type \in {"free", "user", "kub", "counters", "commands"}
  /\ queue \in Seq(Blocks) /\ at \in Nat
  /\ {image, icache, exec.call} \subseteq Calls \cup {0}
  /\ entry \in Dims \cup {0}
  /\ retired \in Nat /\ {trapped, repeated} \subseteq BOOLEAN /\ failed \subseteq Calls

\* What the CMP is to execute stays in memory until it has been executed: the
\* buffer, and the blocks its commands refer to, are still those of the call,
\* whose thread waits for it with the lock.
BuffersAreLive ==
  \A n \in 1 .. Len(queue) :
    LET content == mem[queue[n]]
    IN  /\ content.type = "commands"
        /\ LET l == launches[content.call]
           IN  /\ Holds(l.kub, "kub") /\ mem[l.kub].call = content.call
               /\ Counting => /\ Holds(l.counters, "counters")
                              /\ mem[l.counters].call = content.call
        /\ \E t \in Threads : lock = t /\ pc[t] = "waiting" /\ call[t] = content.call

\* Work-groups run with the program, the execution state and the arguments of
\* their own launch, although launches share the ELF memory, the instruction
\* cache, the memory of the harts and the registers of the CMP.
OwnParameters ==
  \A work \in ran : work.program = work.by /\ work.exec = work.by /\ work.args = work.by

Groups(r) == {<<i, j, k>> : i \in 0 .. r.groups[1] - 1, j \in 0 .. r.groups[2] - 1,
                            k \in 0 .. r.groups[3] - 1}

RanBy(i) == {work.group : work \in {x \in ran : x.by = i}}

\* A launch of an orderly kernel, none of whose commands has failed, nor any of
\* an earlier launch: a slice that aborts leaves traps, which make a later slice
\* skip instances and succeed, as a kernel does that is not orderly.
Undisturbed(i) == launches[i].range.orderly /\ \A j \in 1 .. i : j \notin failed

\* The slices and the arithmetic in the ROM cover the range: when kernel_exec
\* returns true for an undisturbed launch, every work-group of the range has
\* run; and none ever runs twice, or outside the range, disturbed or not.
EveryGroupOnce ==
  /\ ~repeated
  /\ \A i \in Calls :
       /\ RanBy(i) \subseteq Groups(launches[i].range)
       /\ launches[i].outcome = "true" /\ Undisturbed(i)
            => RanBy(i) = Groups(launches[i].range)

\* The value reported for an undisturbed launch counts its own work and nothing
\* else.
CountersMeasureCall ==
  \A i \in Calls :
    Counting /\ launches[i].outcome = "true" /\ Undisturbed(i)
      => launches[i].measured = Cardinality(RanBy(i))

\* A call that returns true has freed the memory it took; one that returns
\* early may keep some.
SuccessReturnsMemory ==
  \A b \in Blocks :
    mem[b].type \in {"kub", "counters", "commands"}
      => launches[mem[b].call].outcome # "true"

\* Once kernel_exec has returned nothing of the launch runs any more, so that
\* the client may free its buffers; and a launch that returned false never ran.
NoLateWork ==
  [][\A work \in ran' \ ran : launches[work.by].outcome = "none"]_vars

\* The refinement mapping: the thread with the lock, the calls of kernel_exec
\* and the work-groups of each.  What is measured of a disturbed launch
\* stands for nothing.
Service == INSTANCE LaunchService
  WITH caller <- lock,
       jobs   <- [i \in Calls |-> [range |-> launches[i].range,
                                  outcome |-> launches[i].outcome,
                                  measured |-> IF Undisturbed(i)
                                               THEN launches[i].measured ELSE 0]],
       done   <- {<<work.by, work.group>> : work \in ran},
       broken <- failed

\* kernel_exec, its command buffer and the CMP that executes it implement the
\* service: one launch at a time, whose work-groups run at most once each, while
\* it is served and up to the first command that fails; all of them before
\* kernel_exec returns true, when the launch is undisturbed.
ImplementsLaunch == Service!Spec

=============================================================================
