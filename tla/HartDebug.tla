------------------------------ MODULE HartDebug ------------------------------
(***************************************************************************)
(* The interactive debugger.  With SPIKE_SIM_DEBUG set, slim_sim_t::run    *)
(* reads commands instead of stepping: a command takes turns of one        *)
(* instruction, and the simulator does nothing between two commands.       *)
(*                                                                         *)
(* Of the registers that until and while may wait for, the model has       *)
(* mcause.  Commands that only show something, and those that are not      *)
(* understood, are turns of no instruction, as run 0 is.                   *)
(***************************************************************************)
EXTENDS HartSim

CONSTANTS
  StepCounts,  \* values of the count of run and rs
  Cores,       \* harts that a condition names
  Values       \* values that it compares their mcause with

ASSUME HartDebugAssumption == 
  StepCounts \cup Cores \cup Values \subseteq Nat

Endless == -1  \* run without a count

VARIABLES
  debug,    \* the configuration of the simulator
  command   \* the command that runs

debugVars == <<vars, debug, command>>

None == [do |-> "none"]
Quit == [do |-> "quit"]
RunCommands == [do : {"run"}, left : StepCounts \cup {Endless}]
UntilCommands == [do : {"until"}, until : BOOLEAN, core : Cores, value : Values]

Running == command.do \in {"run", "until"}

-----------------------------------------------------------------------------
\* interactive_until stops before the first turn in which this holds.  A hart
\* that does not take part has no registers: the condition is never met.
Met == /\ command.do = "until" /\ command.core < active
       /\ command.until <=> mcause[command.core] = command.value

\* Faulty Over: run counts its turns and nothing else.
OverByCount == (command.do = "run" /\ command.left = 0) \/ Met

\* run_single_step and interactive_until do not outlive the run.
Over == signal_exit \/ (command.do = "run" /\ command.left = 0) \/ Met

DebugInit == Init /\ debug \in BOOLEAN /\ command = None

\* An empty line, also the one at the end of the input, is run 1.
ReadCommand(c) ==
  /\ debug /\ phase = "run" /\ ~signal_exit
  /\ command = None
  /\ command' = c
  /\ UNCHANGED <<vars, debug>>

ReturnCommand ==
  /\ Running /\ Over
  /\ command' = None
  /\ UNCHANGED <<vars, debug>>

\* A turn, which counts although its hart may sleep.
StepCommand ==
  /\ debug => Running /\ ~Over
  /\ command' = IF command.do = "run" /\ command.left > 0
                THEN [command EXCEPT !.left = @ - 1] ELSE command
  /\ UNCHANGED debug

SliceStep == StartGroup \/ EndRun \/ EndSlice
NoCommand == command = None /\ UNCHANGED <<debug, command>>

DebugNext ==
  \/ \E c \in RunCommands \cup UntilCommands \cup {Quit} : ReadCommand(c)
  \/ ReturnCommand
  \/ (SkipTurn \/ Compute \/ HartEvent) /\ StepCommand
  \/ ((\E n \in Counts, w \in Widths : RunSlice(n, w)) \/ SliceStep) /\ NoCommand

\* The simulator keeps stepping, kernels end, and the user keeps giving
\* commands that run: at the end of the input each one is run 1.
DebugFairness ==
  /\ WF_debugVars(SliceStep /\ NoCommand)
  /\ WF_debugVars((SkipTurn \/ Compute \/ HartEvent) /\ StepCommand)
  /\ WF_debugVars(ReturnCommand)
  /\ SF_debugVars(ReadCommand([do |-> "run", left |-> 1]))
  /\ \A h \in Harts : SF_debugVars(current = h /\ Progress /\ StepCommand)

DebugSpec == DebugInit /\ [][DebugNext]_debugVars /\ DebugFairness

-----------------------------------------------------------------------------
(* Properties                                                              *)

\* A command returns to its prompt: when its turns are used up, when its
\* condition is met, or else when the kernel ends, although a condition may
\* name a hart that has no registers and the turns may be those of sleepers.
CommandsReturn == Running ~> command = None

\* runKernelSlice returns, whatever the user does with the debugger, unless
\* it is to quit.
SlicesEnd == phase # "idle" ~> phase = "idle" \/ command = Quit

=============================================================================
