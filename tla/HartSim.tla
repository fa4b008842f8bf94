------------------------------ MODULE HartSim --------------------------------
(***************************************************************************)
(* Running a kernel slice on the RefSi accelerator.  runKernelSlice hands  *)
(* the instances of the slice to the harts one group at a time; slim_sim_t *)
(* runs the harts of a group in turn, a quantum of instructions each,      *)
(* until every one of them has returned or one has failed.  Harts meet at  *)
(* barriers.  Harts keep their mcause register from one run to the next.   *)
(*                                                                         *)
(* A turn of a hart ends in at most one event: instructions between events *)
(* are abstracted.  A barrier is named by its link address.                *)
(***************************************************************************)
EXTENDS Integers, FiniteSets

CONSTANTS
  NumHarts,     \* harts of the simulator (four in the code)
  Widths,       \* values of the num_harts argument of runKernelSlice
  Counts,       \* values of its num_instances argument
  Addrs,        \* link addresses of the barriers in the kernels
  ExitCodes,    \* values kernels pass to the exit call
  Faults,       \* causes of the traps kernels raise, calls excepted
  Ecall,        \* CAUSE_MACHINE_ECALL
  BadCalls,     \* whether kernels make calls that the handler rejects
  TrapBit,      \* 2^31
  MaxBarriers,  \* bound: barriers that an instance reaches
  MaxSlices     \* bound: slices run

ASSUME HartSimAssumption ==
  /\ NumHarts \in Nat \ {0}
  /\ Widths \subseteq 1 .. NumHarts
  /\ Counts \subseteq Nat
  /\ Addrs \subseteq Nat \ {0}
  /\ ExitCodes \subseteq Nat
  /\ TrapBit \in Nat
  /\ Faults \subseteq 1 .. TrapBit - 1
  /\ Ecall \in (1 .. TrapBit - 1) \ Faults
  /\ BadCalls \in BOOLEAN
  /\ MaxBarriers \in Nat /\ MaxSlices \in Nat

Harts == 0 .. NumHarts - 1
Causes == Faults \cup {Ecall}
Stray == -1     \* a hart that does not execute an instance of the slice

VARIABLES
  phase,        \* idle; group: head of the loop over groups; run: in sim->run()
  result,       \* what the last slice returned
  num,          \* num_instances
  width,        \* num_harts
  next,         \* instance_id, the next instance to hand out
  active,       \* max_harts: the harts 0 .. active - 1 take part
  current,      \* current_hart_id
  running,      \* is_hart_running
  barrier,      \* hart_barrier_address
  mcause,       \* the mcause register of each hart
  signal_exit,  \* the run is over
  exit_code,    \* and this is how
  doing,        \* the instance each hart executes
  done,         \* history: instances of the slice executed to their end
  arrived,      \* history: barriers each hart has reached in this run
  site,         \* history: link address of the last of them
  failed,       \* history: an instance of the slice trapped or exited non-zero
  stale,        \* history: the slice found a trap of an earlier one
  abandoned,    \* history: one of its runs left harts asleep at a barrier
  slices        \* number of slices run

simVars == <<current, running, barrier, mcause, signal_exit, exit_code,
             doing, done, arrived, site, failed>>
sliceVars == <<phase, result, num, width, next, active, stale, abandoned, slices>>
vars == <<simVars, sliceVars>>

Init ==
  /\ phase = "idle" /\ result = "success"
  /\ num = 0 /\ width = 1 /\ next = 0 /\ active = 0 /\ slices = 0
  /\ current = 0 /\ signal_exit = FALSE /\ exit_code = 0
  /\ running = [h \in Harts |-> FALSE]
  /\ barrier = [h \in Harts |-> 0]
  /\ mcause = [h \in Harts |-> 0]
  /\ doing = [h \in Harts |-> Stray]
  /\ arrived = [h \in Harts |-> 0]
  /\ site = [h \in Harts |-> 0]
  /\ done = {} /\ failed = FALSE /\ stale = FALSE /\ abandoned = FALSE

Phases == {"idle", "group", "run"}

TypeOK ==
  /\ phase \in Phases /\ result \in {"success", "failure"}
  /\ num \in Nat /\ width \in 1 .. NumHarts /\ next \in 0 .. num
  /\ active \in 0 .. NumHarts /\ slices \in Nat
  /\ current \in Harts
  /\ running \in [Harts -> BOOLEAN]
  /\ barrier \in [Harts -> Addrs \cup {0}]
  /\ mcause \in [Harts -> Causes \cup {0}]
  /\ signal_exit \in BOOLEAN /\ exit_code \in Nat
  /\ doing \in [Harts -> Nat \cup {Stray}]
  /\ done \subseteq 0 .. num - 1
  /\ arrived \in [Harts -> Nat]
  /\ site \in [Harts -> Addrs \cup {0}]
  /\ failed \in BOOLEAN /\ stale \in BOOLEAN /\ abandoned \in BOOLEAN

-----------------------------------------------------------------------------
(* runKernelSlice                                                          *)

RunSlice(n, w) ==
  /\ phase = "idle" /\ slices < MaxSlices
  /\ phase' = "group" /\ slices' = slices + 1
  /\ num' = n /\ width' = w /\ next' = 0
  /\ active' = w
  /\ done' = {} /\ failed' = FALSE
  /\ stale' = (\E h \in Harts : mcause[h] # 0) /\ abandoned' = FALSE
  /\ doing' = [h \in Harts |-> Stray]
  /\ UNCHANGED <<result, current, running, barrier, mcause, signal_exit,
                 exit_code, arrived, site>>

GroupSize == IF num - next < width THEN num - next ELSE width

\* The state of the harts of a group, and the beginning of sim->run(), which
\* leaves mcause alone.
StartGroup ==
  /\ phase = "group" /\ next < num
  /\ phase' = "run"
  /\ active' = GroupSize
  /\ next' = next + GroupSize
  /\ doing' = [h \in Harts |-> IF h < GroupSize THEN next + h ELSE Stray]
  /\ running' = [h \in Harts |-> h < GroupSize]
  /\ barrier' = [h \in Harts |-> 0]
  /\ arrived' = [h \in Harts |-> 0]
  /\ site' = [h \in Harts |-> 0]
  /\ current' = 0 /\ signal_exit' = FALSE /\ exit_code' = 0
  /\ UNCHANGED <<result, num, width, stale, abandoned, slices, mcause, done, failed>>

\* Faulty RunFailed: only traps count.
RunTrapped == exit_code > TrapBit

\* run() returns its exit code as an int: a code of 2^32 is a success.
RunFailed == exit_code % (2 * TrapBit) # 0

\* The end of sim->run(), and of the slice when the run has failed.
EndRun ==
  /\ phase = "run" /\ signal_exit
  /\ IF RunFailed
     THEN phase' = "idle" /\ result' = "failure" /\ active' = width
     ELSE phase' = "group" /\ UNCHANGED <<result, active>>
  /\ abandoned' = (abandoned \/ \E h \in Harts : barrier[h] # 0)
  /\ UNCHANGED <<num, width, next, stale, slices, simVars>>

EndSlice ==
  /\ phase = "group" /\ next >= num
  /\ phase' = "idle" /\ result' = "success" /\ active' = width
  /\ UNCHANGED <<num, width, next, stale, abandoned, slices, simVars>>

-----------------------------------------------------------------------------
(* slim_sim_t::step: the turn of the current hart                          *)

Turn == phase = "run" /\ ~signal_exit /\ UNCHANGED sliceVars

\* Faulty PassTurn: the last hart never has its turn.
PassTurnEarly ==
  current' = IF current + 2 >= active THEN 0 ELSE current + 1

\* The turn then passes to the next hart.
PassTurn == current' = IF current + 1 = active THEN 0 ELSE current + 1

\* The hart whose turn it is sleeps.
SkipTurn ==
  /\ Turn /\ ~running[current] /\ PassTurn
  /\ UNCHANGED <<running, barrier, mcause, signal_exit, exit_code,
                 doing, done, arrived, site, failed>>

HartTurn == Turn /\ running[current] /\ PassTurn

SetMcause(cause) == mcause' = [mcause EXCEPT ![current] = cause]

OthersRun == \E h \in Harts \ {current} : running[h]

\* Faulty set_exited: a graceful exit never ends the run.
SetExitedAsleep(code) ==
  IF code = 0
  THEN /\ running' = [running EXCEPT ![current] = FALSE]
       /\ UNCHANGED <<signal_exit, exit_code>>
  ELSE /\ running' = [h \in Harts |-> FALSE]
       /\ signal_exit' = TRUE /\ exit_code' = code

\* Faulty set_exited: the first graceful exit ends the run.
SetExitedAtOnce(code) ==
  /\ running' = [h \in Harts |-> FALSE]
  /\ signal_exit' = TRUE /\ exit_code' = code

\* set_exited
SetExited(code) ==
  IF code = 0 /\ OthersRun
  THEN /\ running' = [running EXCEPT ![current] = FALSE]
       /\ UNCHANGED <<signal_exit, exit_code>>
  ELSE /\ running' = [h \in Harts |-> FALSE]
       /\ signal_exit' = TRUE /\ exit_code' = code

\* A trap that the trap handler does not handle; mcause keeps its cause.
Abort(cause) ==
  /\ SetExited(TrapBit + cause)
  /\ SetMcause(cause)
  /\ UNCHANGED barrier

\* Faulty ExitCall: a hart that has exited does not return from its trap.
ExitCallKeep(code) ==
  /\ SetExited(code)
  /\ SetMcause(Ecall)
  /\ UNCHANGED <<barrier, arrived, site>>

\* handle_ecall: HOST_IO_CMD_EXIT, HOST_IO_CMD_PUTSTRING and
\* HOST_IO_CMD_BARRIER.  return_from_trap clears mcause.
ExitCall(code) ==
  /\ SetExited(code)
  /\ SetMcause(0)
  /\ UNCHANGED <<barrier, arrived, site>>

PrintCall ==
  /\ SetMcause(0)
  /\ UNCHANGED <<running, signal_exit, exit_code, barrier, arrived, site>>

\* Faulty comparison: hart 0 speaks for all the others.
SameAsFirst(a) == current # 0 => barrier[0] = a

SameBarrier(a) ==
  \A h \in Harts \ {current} : h < active => barrier[h] = a

BarrierCall(a) ==
  /\ arrived[current] < MaxBarriers
  /\ arrived' = [arrived EXCEPT ![current] = @ + 1]
  /\ site' = [site EXCEPT ![current] = a]
  /\ \/ /\ OthersRun
        /\ running' = [running EXCEPT ![current] = FALSE]
        /\ barrier' = [barrier EXCEPT ![current] = a]
        /\ SetMcause(0)
        /\ UNCHANGED <<signal_exit, exit_code>>
     \/ /\ ~OthersRun /\ SameBarrier(a)
        /\ running' = [h \in Harts |-> h < active]
        /\ barrier' = [h \in Harts |-> 0]
        /\ SetMcause(0)
        /\ UNCHANGED <<signal_exit, exit_code>>
     \/ /\ ~OthersRun /\ ~SameBarrier(a)
        /\ running' = [h \in Harts |-> FALSE]
        /\ signal_exit' = TRUE /\ exit_code' = TrapBit + Ecall
        /\ SetMcause(Ecall)
        /\ barrier' = [barrier EXCEPT ![current] = a]

\* The instance of the current hart is executed to its end.
Finish == done' = done \cup ({doing[current]} \ {Stray})

\* A quantum that ends in the middle of the kernel.
Compute ==
  /\ HartTurn /\ mcause[current] = 0
  /\ UNCHANGED <<running, barrier, mcause, signal_exit, exit_code,
                 doing, done, arrived, site, failed>>

\* The kernel returns: a breakpoint at the return address, or a fetch fault.
Return ==
  /\ HartTurn
  /\ ExitCall(0)
  /\ Finish
  /\ UNCHANGED <<doing, failed>>

Exit(code) ==
  /\ HartTurn
  /\ ExitCall(code)
  /\ IF code = 0 THEN Finish /\ UNCHANGED failed
                 ELSE failed' = TRUE /\ UNCHANGED done
  /\ UNCHANGED doing

PutString == HartTurn /\ PrintCall /\ UNCHANGED <<doing, done, failed>>

Barrier(a) ==
  /\ HartTurn
  /\ BarrierCall(a)
  /\ failed' = (failed \/ signal_exit')
  /\ UNCHANGED <<doing, done>>

\* A fault, or a call that the handler rejects.
Trap(cause) ==
  /\ HartTurn
  /\ Abort(cause)
  /\ failed' = TRUE
  /\ UNCHANGED <<doing, done, arrived, site>>

\* A quantum without a trap, on a hart whose mcause is left from an earlier
\* run: the trap is handled again.
StaleFault ==
  /\ HartTurn /\ mcause[current] \in Faults
  /\ Abort(mcause[current])
  /\ UNCHANGED <<doing, done, arrived, site, failed>>

\* A stale call reads its arguments from registers that hold anything; when
\* it is handled the hart goes on after the earlier call, in the old kernel.
StaleEcall ==
  /\ HartTurn /\ mcause[current] = Ecall
  /\ \/ Abort(Ecall) /\ UNCHANGED <<arrived, site>>
     \/ PrintCall
     \/ \E code \in ExitCodes : ExitCall(code)
     \/ \E a \in Addrs : BarrierCall(a)
  /\ doing' = [doing EXCEPT ![current] = Stray]
  /\ UNCHANGED <<done, failed>>

HartEvent ==
  \/ Return \/ PutString
  \/ \E code \in ExitCodes : Exit(code)
  \/ \E a \in Addrs : Barrier(a)
  \/ \E cause \in Faults : Trap(cause)
  \/ BadCalls /\ Trap(Ecall)
  \/ StaleFault \/ StaleEcall

Next ==
  \/ \E n \in Counts, w \in Widths : RunSlice(n, w)
  \/ StartGroup \/ EndRun \/ EndSlice
  \/ SkipTurn \/ Compute \/ HartEvent

Spec == Init /\ [][Next]_vars

\* A kernel ends: it computes and prints for a finite time only (HartDebug has
\* the fairness that says so).
Progress ==
  \/ Return
  \/ \E code \in ExitCodes : Exit(code)
  \/ \E a \in Addrs : Barrier(a)
  \/ \E cause \in Faults : Trap(cause)
  \/ BadCalls /\ Trap(Ecall)
  \/ StaleFault \/ StaleEcall

-----------------------------------------------------------------------------
(* Properties                                                              *)

\* slim_sim_t::run never loops over sleeping harts: until the run is over
\* some hart of the group is awake, whatever mixture of barriers, exits,
\* traps and stale traps the kernels bring about.
SomeHartRuns ==
  phase = "run" /\ ~signal_exit => \E h \in Harts : h < active /\ running[h]

\* handle_barrier synchronises: a hart that runs has left no hart of its group
\* behind at an earlier barrier, and harts that have reached equally many
\* barriers have last reached the same one.
BarrierSynchronises ==
  phase = "run" =>
    \A h, g \in Harts :
      h < active /\ g < active /\ running[h] =>
        \/ arrived[g] > arrived[h]
        \/ arrived[g] = arrived[h] /\ site[g] = site[h]

\* A slice of which an instance trapped, exited with a non-zero code or missed
\* a barrier is reported as a failure (runKernelSlice, set_exited).
AbortIsReported == phase = "idle" /\ failed => result = "failure"

\* "The kernel's entry point function is executed num_instances times"
\* (refsi_accelerator.h:72-74): after a slice none of whose instances failed,
\* every instance has been executed to its end and the slice is a success.
EverySliceExecutesAll ==
  phase = "idle" /\ ~failed => result = "success" /\ done = 0 .. num - 1

Disturbed == stale \/ abandoned

\* The groups of a slice, the exits of harts one by one and the barriers
\* between them neither lose nor repeat an instance: a slice does what is
\* documented unless an earlier one has left a trap in a hart, or its
\* instances return without reaching the barriers of the others.
SliceExecutesAll == ~Disturbed => EverySliceExecutesAll

\* Only a failure leaves a trap behind: the slice after a successful one finds
\* none in any hart, unless the successful one found one itself.  So what can
\* disturb a launch has been set off by a failure before it (KernelLaunch).
TrapsComeFromFailures ==
  phase = "idle" /\ result = "success" /\ ~stale => \A h \in Harts : mcause[h] = 0

\* The refinement mapping: while a run lasts its group is the active harts.
Gathered == IF phase = "run" /\ ~signal_exit THEN 0 .. active - 1 ELSE {}

Service == INSTANCE BarrierService
  WITH rounds <- [h \in Gathered |-> [count |-> arrived[h], site |-> site[h]]],
       left   <- {h \in Gathered : ~running[h] /\ barrier[h] = 0}

\* Turns, sleep, exits and the comparison of barrier addresses implement the
\* barrier: no hart does anything, be it to return, before all of its group have
\* come to the barrier it was at, and a run ends when no hart could go on.
ImplementsBarrier == Service!Spec

=============================================================================
