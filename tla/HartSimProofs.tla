---------------------------- MODULE HartSimProofs ----------------------------
(***************************************************************************)
(* Proofs about HartSim, for any number of harts, instances and barriers.  *)
(* The harts of a run are in rounds: all that are awake or have finished   *)
(* have reached the same barriers, and those asleep one barrier more.      *)
(***************************************************************************)
EXTENDS HartDebug, TLAPS

\* The shape of a run: only harts of the group take part in it, a hart at a
\* barrier sleeps, and nobody is awake once the run is over.
RunShape ==
  /\ \A h \in Harts : doing[h] < num
  /\ phase = "run" =>
       /\ active # 0 /\ current < active
       /\ \A h \in Harts :
            /\ h >= active => ~running[h] /\ barrier[h] = 0
            /\ barrier[h] # 0 => ~running[h] /\ barrier[h] = site[h]
            /\ signal_exit => ~running[h]

\* A hart that is awake, compared with another hart of its group.
RoundsAgree ==
  phase = "run" =>
    \A h, g \in Harts :
      h < active /\ g < active /\ running[h] =>
        IF barrier[g] = 0 THEN arrived[g] = arrived[h] /\ site[g] = site[h]
                          ELSE arrived[g] = arrived[h] + 1

SimInv ==
  /\ TypeOK
  /\ RunShape
  /\ RoundsAgree
  /\ SomeHartRuns

-----------------------------------------------------------------------------
\* The first state satisfies the invariant.
LEMMA InitSimInv == Init => SimInv
<1> SUFFICES ASSUME Init PROVE SimInv
  OBVIOUS
<1> USE DEF Init
<1>1. /\ width \in 1 .. NumHarts /\ active \in 0 .. NumHarts /\ current \in Harts
      /\ next \in 0 .. num /\ done \subseteq 0 .. num - 1
  BY HartSimAssumption DEF Harts
<1>2. TypeOK
  BY <1>1 DEF TypeOK, Phases, Stray
<1>3. RunShape /\ RoundsAgree /\ SomeHartRuns
  BY DEF RunShape, RoundsAgree, SomeHartRuns, Stray
<1> QED
  BY <1>2, <1>3 DEF SimInv

\* A turn passes to a hart of the group.
LEMMA TurnStaysInGroup ==
  ASSUME SimInv, Turn, PassTurn
  PROVE  /\ current' \in Harts /\ current' < active
         /\ current \in Harts /\ current < active
         /\ phase = "run" /\ ~signal_exit /\ active \in Nat
  BY HartSimAssumption
  DEF SimInv, TypeOK, RunShape, Turn, PassTurn, Harts, sliceVars

\* set_exited preserves the invariant, whatever becomes of the parts of the
\* state it does not touch.
LEMMA SetExitedKeepsInv ==
  ASSUME SimInv, HartTurn, NEW code \in Nat, SetExited(code),
         UNCHANGED <<barrier, arrived, site>>,
         mcause' \in [Harts -> Causes \cup {0}],
         doing' \in [Harts -> Nat \cup {Stray}], \A h \in Harts : doing'[h] < num,
         done' \subseteq 0 .. num - 1, failed' \in BOOLEAN
  PROVE  SimInv'
<1> USE DEF HartTurn
<1>1. /\ current' \in Harts /\ current' < active
      /\ current \in Harts /\ current < active
      /\ phase = "run" /\ ~signal_exit /\ active \in Nat
  BY TurnStaysInGroup
<1>2. UNCHANGED sliceVars
  BY DEF Turn
<1>3. CASE code = 0 /\ OthersRun
  <2>1. running' = [running EXCEPT ![current] = FALSE]
        /\ UNCHANGED <<signal_exit, exit_code>>
    BY <1>3 DEF SetExited
  <2>2. PICK g \in Harts \ {current} : running[g]
    BY <1>3 DEF OthersRun
  <2>3. g < active /\ running'[g]
    BY <1>1, <2>1, <2>2 DEF SimInv, TypeOK, RunShape, Harts
  <2>4. SomeHartRuns'
    BY <1>2, <2>2, <2>3 DEF SomeHartRuns, sliceVars
  <2>5. TypeOK'
    BY <1>1, <1>2, <2>1 DEF SimInv, TypeOK, sliceVars
  <2>6. RunShape'
    BY <1>1, <1>2, <2>1 DEF SimInv, TypeOK, RunShape, sliceVars
  <2>7. RoundsAgree'
    BY <1>1, <1>2, <2>1 DEF SimInv, TypeOK, RoundsAgree, sliceVars
  <2> QED
    BY <2>4, <2>5, <2>6, <2>7 DEF SimInv
<1>4. CASE ~(code = 0 /\ OthersRun)
  <2>1. /\ running' = [h \in Harts |-> FALSE]
        /\ signal_exit' = TRUE /\ exit_code' = code
    BY <1>4 DEF SetExited
  <2>2. TypeOK'
    BY <1>1, <1>2, <2>1 DEF SimInv, TypeOK, sliceVars
  <2>3. RunShape'
    BY <1>1, <1>2, <2>1 DEF SimInv, TypeOK, RunShape, sliceVars
  <2>4. RoundsAgree' /\ SomeHartRuns'
    BY <2>1 DEF RoundsAgree, SomeHartRuns
  <2> QED
    BY <2>2, <2>3, <2>4 DEF SimInv
<1> QED
  BY <1>3, <1>4

\* A turn after which every hart sleeps or runs as before.
LEMMA IdleTurnKeepsInv ==
  ASSUME SimInv, Turn, PassTurn,
         UNCHANGED <<running, signal_exit, exit_code, barrier, arrived, site,
                     done, failed>>,
         mcause' \in [Harts -> Causes \cup {0}],
         doing' \in [Harts -> Nat \cup {Stray}], \A h \in Harts : doing'[h] < num
  PROVE  SimInv'
<1>1. current' \in Harts /\ current' < active /\ UNCHANGED sliceVars
  BY TurnStaysInGroup DEF Turn
<1>2. TypeOK'
  BY <1>1 DEF SimInv, TypeOK, sliceVars
<1>3. RunShape'
  BY <1>1 DEF SimInv, RunShape, sliceVars
<1>4. RoundsAgree' /\ SomeHartRuns'
  BY <1>1 DEF SimInv, RoundsAgree, SomeHartRuns, sliceVars
<1> QED
  BY <1>2, <1>3, <1>4 DEF SimInv

\* handle_barrier: whether the hart sleeps, releases the others or fails.
LEMMA BarrierCallKeepsInv ==
  ASSUME SimInv, HartTurn, NEW a \in Addrs, BarrierCall(a), UNCHANGED done,
         doing' \in [Harts -> Nat \cup {Stray}], \A h \in Harts : doing'[h] < num,
         failed' \in BOOLEAN
  PROVE  SimInv'
<1> USE DEF HartTurn
<1>1. /\ current' \in Harts /\ current' < active
      /\ current \in Harts /\ current < active
      /\ phase = "run" /\ ~signal_exit /\ active \in Nat
  BY TurnStaysInGroup
<1>2. UNCHANGED sliceVars
  BY DEF Turn
<1>3. /\ arrived' = [arrived EXCEPT ![current] = arrived[current] + 1]
      /\ site' = [site EXCEPT ![current] = a]
  BY DEF BarrierCall
<1>4. a \in Nat /\ a # 0 /\ Ecall \in Nat /\ TrapBit \in Nat
  BY HartSimAssumption
<1>5. CASE /\ OthersRun
           /\ running' = [running EXCEPT ![current] = FALSE]
           /\ barrier' = [barrier EXCEPT ![current] = a]
           /\ SetMcause(0)
           /\ UNCHANGED <<signal_exit, exit_code>>
  <2>1. PICK g \in Harts \ {current} : running[g]
    BY <1>5 DEF OthersRun
  <2>2. g < active /\ running'[g]
    BY <1>1, <1>5, <2>1 DEF SimInv, TypeOK, RunShape, Harts
  <2>3. SomeHartRuns'
    BY <1>2, <2>1, <2>2 DEF SomeHartRuns, sliceVars
  <2>4. TypeOK'
    BY <1>1, <1>2, <1>3, <1>5 DEF SimInv, TypeOK, sliceVars, SetMcause
  <2>5. RunShape'
    BY <1>1, <1>2, <1>3, <1>4, <1>5 DEF SimInv, TypeOK, RunShape, sliceVars
  <2>6. RoundsAgree'
    BY <1>1, <1>2, <1>3, <1>4, <1>5
    DEF SimInv, TypeOK, RunShape, RoundsAgree, sliceVars
  <2> QED
    BY <2>3, <2>4, <2>5, <2>6 DEF SimInv
<1>6. CASE /\ ~OthersRun /\ SameBarrier(a)
           /\ running' = [h \in Harts |-> h < active]
           /\ barrier' = [h \in Harts |-> 0]
           /\ SetMcause(0)
           /\ UNCHANGED <<signal_exit, exit_code>>
  <2>1. \A h \in Harts : h < active =>
          arrived'[h] = arrived[current] + 1 /\ site'[h] = a
    BY <1>1, <1>3, <1>4, <1>6
    DEF SimInv, TypeOK, RunShape, RoundsAgree, SameBarrier
  <2>2. TypeOK'
    BY <1>1, <1>2, <1>3, <1>6 DEF SimInv, TypeOK, sliceVars, SetMcause
  <2>3. RunShape'
    BY <1>1, <1>2, <1>6 DEF SimInv, TypeOK, RunShape, sliceVars, Harts
  <2>4. RoundsAgree'
    BY <1>2, <1>6, <2>1 DEF RoundsAgree, sliceVars
  <2>5. SomeHartRuns'
    BY <1>1, <1>2, <1>6 DEF SomeHartRuns, sliceVars
  <2> QED
    BY <2>2, <2>3, <2>4, <2>5 DEF SimInv
<1>7. CASE /\ running' = [h \in Harts |-> FALSE]
           /\ signal_exit' = TRUE /\ exit_code' = TrapBit + Ecall
           /\ SetMcause(Ecall)
           /\ barrier' = [barrier EXCEPT ![current] = a]
  <2>1. TypeOK'
    BY <1>1, <1>2, <1>3, <1>4, <1>7
    DEF SimInv, TypeOK, sliceVars, SetMcause, Causes
  <2>2. RunShape'
    BY <1>1, <1>2, <1>3, <1>4, <1>7 DEF SimInv, TypeOK, RunShape, sliceVars
  <2>3. RoundsAgree' /\ SomeHartRuns'
    BY <1>7 DEF RoundsAgree, SomeHartRuns
  <2> QED
    BY <2>1, <2>2, <2>3 DEF SimInv
<1> QED
  BY <1>5, <1>6, <1>7 DEF BarrierCall

\* Every step preserves the invariant.
LEMMA SimInvStep == SimInv /\ [Next]_vars => SimInv'
<1> SUFFICES ASSUME SimInv, [Next]_vars
             PROVE  SimInv'
  OBVIOUS
<1> USE HartSimAssumption
<1>1. ASSUME NEW n \in Counts, NEW w \in Widths, RunSlice(n, w)
      PROVE  SimInv'
  <2>1. TypeOK'
    <3>0. stale' \in BOOLEAN /\ abandoned' \in BOOLEAN
      BY <1>1 DEF RunSlice
    <3>1. num' \in Nat /\ width' \in 1 .. NumHarts /\ next' \in 0 .. num'
      BY <1>1 DEF RunSlice
    <3>2. active' \in 0 .. NumHarts /\ slices' \in Nat /\ done' \subseteq 0 .. num' - 1
      BY <1>1 DEF RunSlice, SimInv, TypeOK
    <3> QED
      BY <1>1, <3>0, <3>1, <3>2 DEF RunSlice, SimInv, TypeOK, Phases
  <2>2. RunShape' /\ RoundsAgree' /\ SomeHartRuns'
    BY <1>1 DEF RunSlice, RunShape, RoundsAgree, SomeHartRuns, Stray
  <2> QED
    BY <2>1, <2>2 DEF SimInv
<1>2. CASE StartGroup
  <2>1. /\ GroupSize \in 1 .. NumHarts
        /\ next \in Nat /\ num \in Nat /\ next + GroupSize <= num
    BY <1>2 DEF StartGroup, SimInv, TypeOK, GroupSize
  <2> HIDE DEF GroupSize
  <2>2. TypeOK'
    <3>1. /\ doing' \in [Harts -> Nat \cup {Stray}]
          /\ running' \in [Harts -> BOOLEAN]
          /\ 0 \in Harts
      BY <1>2, <2>1 DEF StartGroup, Harts
    <3>2. active' \in 0 .. NumHarts /\ next' \in 0 .. num
      BY <1>2, <2>1 DEF StartGroup
    <3> QED
      BY <1>2, <3>1, <3>2 DEF StartGroup, SimInv, TypeOK, Phases
  <2>3. RunShape'
    <3>1. ASSUME NEW h \in Harts
          PROVE  /\ doing'[h] < num
                 /\ h >= active' => ~running'[h]
                 /\ barrier'[h] = 0
      <4>1. h \in Nat
        BY DEF Harts
      <4>2. /\ doing'[h] = (IF h < GroupSize THEN next + h ELSE Stray)
            /\ (running'[h] <=> h < GroupSize) /\ barrier'[h] = 0
            /\ active' = GroupSize
        BY <1>2 DEF StartGroup
      <4>3. doing'[h] < num
        BY <2>1, <4>1, <4>2 DEF Stray
      <4> QED
        BY <2>1, <4>1, <4>2, <4>3
    <3>2. active' # 0 /\ current' < active' /\ ~signal_exit' /\ UNCHANGED num
      BY <1>2, <2>1 DEF StartGroup
    <3> QED
      BY <3>1, <3>2 DEF RunShape
  <2>4. RoundsAgree'
    BY <1>2 DEF StartGroup, RoundsAgree
  <2>5. SomeHartRuns'
    <3>1. 0 \in Harts
      BY DEF Harts
    <3>2. \A h \in Harts : running'[h] <=> h < GroupSize
      BY <1>2 DEF StartGroup
    <3>3. active' = GroupSize /\ 0 < GroupSize
      BY <1>2, <2>1 DEF StartGroup
    <3> QED
      BY <3>1, <3>2, <3>3 DEF SomeHartRuns
  <2> QED
    BY <2>2, <2>3, <2>4, <2>5 DEF SimInv
<1>3. CASE EndRun \/ EndSlice
  <2>1. TypeOK'
    <3>1. /\ phase' \in Phases /\ result' \in {"success", "failure"}
          /\ active' \in 0 .. NumHarts
          /\ stale' \in BOOLEAN /\ abandoned' \in BOOLEAN
      BY <1>3 DEF EndRun, EndSlice, SimInv, TypeOK, Phases
    <3>2. UNCHANGED <<num, width, next, slices>> /\ UNCHANGED simVars
      BY <1>3 DEF EndRun, EndSlice
    <3> QED
      BY <3>1, <3>2 DEF SimInv, TypeOK, simVars
  <2>2. RunShape' /\ RoundsAgree' /\ SomeHartRuns'
    BY <1>3 DEF EndRun, EndSlice, SimInv, RunShape, RoundsAgree, SomeHartRuns,
                simVars
  <2> QED
    BY <2>1, <2>2 DEF SimInv
<1>4. CASE SkipTurn \/ Compute
  BY <1>4, IdleTurnKeepsInv DEF SkipTurn, Compute, HartTurn, SimInv, TypeOK, RunShape
<1>5. CASE PutString
  BY <1>5, IdleTurnKeepsInv
  DEF PutString, PrintCall, SetMcause, HartTurn, SimInv, TypeOK, RunShape
<1>6. ASSUME HartTurn
      PROVE  /\ current \in Harts /\ doing[current] < num
             /\ {doing[current]} \ {Stray} \subseteq 0 .. num - 1
             /\ UNCHANGED num
             /\ \A c \in Causes \cup {0} :
                  [mcause EXCEPT ![current] = c] \in [Harts -> Causes \cup {0}]
  BY <1>6 DEF HartTurn, Turn, sliceVars, SimInv, TypeOK, RunShape, Stray
<1>7. CASE Return \/ \E code \in ExitCodes : Exit(code)
  <2>1. PICK code \in Nat : ExitCall(code)
    BY <1>7 DEF Return, Exit
  <2>2. /\ HartTurn /\ done' \subseteq 0 .. num - 1 /\ failed' \in BOOLEAN
        /\ UNCHANGED doing
    BY <1>6, <1>7 DEF Return, Exit, Finish, SimInv, TypeOK
  <2> QED
    BY <1>6, <2>1, <2>2, SetExitedKeepsInv
    DEF ExitCall, SetMcause, SimInv, TypeOK, RunShape
<1>8. ASSUME NEW a \in Addrs, Barrier(a)
      PROVE  SimInv'
  <2>1. failed' \in BOOLEAN
    BY <1>8 DEF Barrier, BarrierCall, SimInv, TypeOK
  <2> QED
    BY <1>8, <2>1, BarrierCallKeepsInv DEF Barrier, SimInv, TypeOK, RunShape
<1>9. ASSUME NEW cause \in Causes, Trap(cause)
      PROVE  SimInv'
  BY <1>6, <1>9, SetExitedKeepsInv
  DEF Trap, Abort, SetMcause, Causes, SimInv, TypeOK, RunShape
<1>10. CASE StaleFault
  <2>0. mcause[current] \in Faults
    BY <1>10 DEF StaleFault
  <2>1. mcause[current] \in Causes /\ TrapBit + mcause[current] \in Nat
    <3>1. mcause[current] \in 1 .. TrapBit - 1 /\ TrapBit \in Nat
      BY <2>0
    <3> QED
      BY <2>0, <3>1 DEF Causes
  <2>2. /\ HartTurn /\ SetExited(TrapBit + mcause[current])
        /\ mcause' = [mcause EXCEPT ![current] = mcause[current]]
        /\ UNCHANGED <<barrier, doing, done, arrived, site, failed>>
    BY <1>10 DEF StaleFault, Abort, SetMcause
  <2> QED
    BY <1>6, <2>1, <2>2, SetExitedKeepsInv DEF SimInv, TypeOK, RunShape
<1>11. CASE StaleEcall
  <2>1. /\ HartTurn /\ UNCHANGED <<done, failed>>
        /\ doing' \in [Harts -> Nat \cup {Stray}] /\ \A h \in Harts : doing'[h] < num
    BY <1>11 DEF StaleEcall, SimInv, TypeOK, RunShape, Stray
  <2>2. done' \subseteq 0 .. num - 1 /\ failed' \in BOOLEAN
    BY <2>1 DEF SimInv, TypeOK
  <2>3. CASE Abort(Ecall) /\ UNCHANGED <<arrived, site>>
    BY <1>6, <2>1, <2>2, <2>3, SetExitedKeepsInv DEF Abort, SetMcause, Causes
  <2>4. CASE PrintCall
    BY <1>6, <2>1, <2>4, IdleTurnKeepsInv DEF PrintCall, SetMcause, HartTurn
  <2>5. ASSUME NEW code \in ExitCodes, ExitCall(code)
        PROVE  SimInv'
    BY <1>6, <2>1, <2>2, <2>5, SetExitedKeepsInv DEF ExitCall, SetMcause
  <2>6. ASSUME NEW a \in Addrs, BarrierCall(a)
        PROVE  SimInv'
    BY <2>1, <2>2, <2>6, BarrierCallKeepsInv
  <2> QED
    BY <1>11, <2>3, <2>4, <2>5, <2>6 DEF StaleEcall
<1>12. CASE UNCHANGED vars
  BY <1>12
  DEF vars, simVars, sliceVars, SimInv, TypeOK, RunShape, RoundsAgree, SomeHartRuns
<1> QED
  BY <1>1, <1>2, <1>3, <1>4, <1>5, <1>7, <1>8, <1>9, <1>10, <1>11, <1>12
  DEF Next, HartEvent, Causes

\* The invariant holds throughout.
LEMMA SimInvHolds == Spec => []SimInv
  BY InitSimInv, SimInvStep, PTL DEF Spec

\* TypeOK: in particular no instance outside the slice is ever handed out.
THEOREM SimTypeCorrect == Spec => []TypeOK
<1>1. SimInv => TypeOK
  BY DEF SimInv
<1> QED
  BY <1>1, SimInvHolds, PTL

\* SomeHartRuns: run() never loops over sleeping harts, although harts that
\* have returned will never reach the barrier the others sleep at.
THEOREM RunNeverHangs == Spec => []SomeHartRuns
<1>1. SimInv => SomeHartRuns
  BY DEF SimInv
<1> QED
  BY <1>1, SimInvHolds, PTL

\* BarrierSynchronises, for any number of harts and whatever the kernels do.
THEOREM BarriersSynchronise == Spec => []BarrierSynchronises
<1>1. SimInv => BarrierSynchronises
  BY DEF SimInv, TypeOK, RoundsAgree, BarrierSynchronises
<1> QED
  BY <1>1, SimInvHolds, PTL

-----------------------------------------------------------------------------
(* Failures are reported, when the codes kernels exit with survive run()'s  *)
(* conversion to int.                                                       *)
ExitCodesFit ==
  \A code \in ExitCodes : code # 0 => code % (2 * TrapBit) # 0

\* After an instance has failed nothing runs until the failure is reported.
FailureSticks ==
  failed => \/ phase = "run" /\ signal_exit /\ RunFailed
            \/ phase = "idle" /\ result = "failure"

\* The exit code of a trap is not a multiple of 2^32.
LEMMA TrapCodeFits ==
  ASSUME NEW cause \in Causes
  PROVE  (TrapBit + cause) % (2 * TrapBit) # 0
<1>1. cause \in 1 .. TrapBit - 1 /\ TrapBit \in Nat
  BY HartSimAssumption DEF Causes
<1>2. ASSUME NEW m \in Nat, NEW x \in Nat, 0 < x, x < m
      PROVE  x % m = x
  BY <1>2
<1>3. TrapBit + cause < 2 * TrapBit /\ 0 < TrapBit + cause
  BY <1>1
<1> QED
  BY <1>1, <1>2, <1>3

\* AbortIsReported.  The assumption is needed: run() returns the exit code
\* as an int, so that a kernel that exits with 2^32 fails unnoticed.
THEOREM AbortsAreReported == ExitCodesFit => (Spec => []AbortIsReported)
<1> SUFFICES ASSUME ExitCodesFit PROVE Spec => []AbortIsReported
  OBVIOUS
<1>1. Init => FailureSticks
  BY DEF Init, FailureSticks
<1>2. FailureSticks /\ [Next]_vars => FailureSticks'
  <2> SUFFICES ASSUME FailureSticks, [Next]_vars PROVE FailureSticks'
    OBVIOUS
  <2>1. ASSUME NEW n \in Counts, NEW w \in Widths, RunSlice(n, w)
        PROVE  FailureSticks'
    BY <2>1 DEF RunSlice, FailureSticks
  <2>2. CASE StartGroup \/ EndRun \/ EndSlice
    BY <2>2 DEF StartGroup, EndRun, EndSlice, FailureSticks, simVars, RunFailed
  <2>3. ASSUME Turn PROVE ~failed /\ phase' = "run"
    BY <2>3 DEF Turn, FailureSticks, sliceVars
  <2>4. CASE SkipTurn \/ Compute \/ PutString \/ Return \/ StaleFault \/ StaleEcall
    BY <2>3, <2>4 DEF SkipTurn, Compute, PutString, Return, StaleFault, StaleEcall,
                      HartTurn, FailureSticks
  <2>5. ASSUME NEW code \in ExitCodes, Exit(code)
        PROVE  FailureSticks'
    <3>1. CASE code = 0
      BY <2>3, <2>5, <3>1 DEF Exit, HartTurn, FailureSticks
    <3>2. CASE code # 0
      <4>1. code % (2 * TrapBit) # 0
        BY <3>2 DEF ExitCodesFit
      <4>2. signal_exit' /\ exit_code' = code
        BY <2>5, <3>2 DEF Exit, ExitCall, SetExited
      <4> QED
        BY <2>3, <2>5, <4>1, <4>2 DEF Exit, HartTurn, FailureSticks, RunFailed
    <3> QED
      BY <3>1, <3>2
  <2>6. ASSUME NEW a \in Addrs, Barrier(a)
        PROVE  FailureSticks'
    <3>1. ~failed /\ ~signal_exit /\ phase' = "run"
      BY <2>3, <2>6 DEF Barrier, HartTurn, Turn
    <3>2. signal_exit' => exit_code' = TrapBit + Ecall
      BY <2>6, <3>1 DEF Barrier, BarrierCall
    <3>3. (TrapBit + Ecall) % (2 * TrapBit) # 0
      BY TrapCodeFits DEF Causes
    <3>4. failed' => signal_exit'
      BY <2>6, <3>1 DEF Barrier
    <3> QED
      BY <3>1, <3>2, <3>3, <3>4 DEF FailureSticks, RunFailed
  <2>7. ASSUME NEW cause \in Causes, Trap(cause)
        PROVE  FailureSticks'
    <3>1. TrapBit + cause # 0
      BY HartSimAssumption DEF Causes
    <3>2. signal_exit' /\ exit_code' = TrapBit + cause
      BY <2>7, <3>1 DEF Trap, Abort, SetExited
    <3>3. (TrapBit + cause) % (2 * TrapBit) # 0
      BY TrapCodeFits
    <3> QED
      BY <2>3, <2>7, <3>2, <3>3 DEF Trap, HartTurn, FailureSticks, RunFailed
  <2>8. CASE UNCHANGED vars
    BY <2>8 DEF vars, simVars, sliceVars, FailureSticks, RunFailed
  <2> QED
    BY <2>1, <2>2, <2>4, <2>5, <2>6, <2>7, <2>8 DEF Next, HartEvent, Causes
<1>3. FailureSticks => AbortIsReported
  BY DEF FailureSticks, AbortIsReported
<1> QED
  BY <1>1, <1>2, <1>3, PTL DEF Spec

-----------------------------------------------------------------------------
(* Every instance is executed.                                             *)

\* The harts of the group whose instance has come to its end.
Ended == {h \in Harts : h < active /\ ~running[h] /\ barrier[h] = 0}

\* Unless a trap is left in a hart, a run abandons harts at a barrier or an
\* instance fails, the instances up to the group have been executed, and those
\* of the group whose harts are neither awake nor at a barrier.
ExecutesInv ==
  ~Disturbed /\ ~failed =>
    /\ \A h \in Harts : mcause[h] = 0
    /\ phase = "idle" => result = "success" /\ done = 0 .. num - 1
    /\ phase = "group" => done = 0 .. next - 1
    /\ phase = "run" =>
         /\ active <= next
         /\ \A h \in Harts : h < active => doing[h] = next - active + h
         /\ signal_exit => exit_code = 0
         /\ done = (0 .. next - active - 1) \cup {doing[h] : h \in Ended}

\* A turn that neither ends an instance nor fails.
LEMMA TurnKeepsExecutes ==
  ASSUME SimInv, ExecutesInv, Turn, UNCHANGED <<doing, done, failed>>,
         mcause' = mcause \/ (\E h \in Harts : mcause' = [mcause EXCEPT ![h] = 0]),
         UNCHANGED <<signal_exit, exit_code>>, ~failed => Ended' = Ended
  PROVE  ExecutesInv'
<1>1. UNCHANGED <<phase, result, num, next, active, Disturbed>>
  BY DEF Turn, sliceVars, Disturbed
<1>2. (\A h \in Harts : mcause[h] = 0) => \A h \in Harts : mcause'[h] = 0
  BY DEF SimInv, TypeOK
<1> QED
  BY <1>1, <1>2 DEF ExecutesInv

\* An instance comes to its end: only its own hart has ended, be the run over
\* with it or not.
LEMMA ExitKeepsExecutes ==
  ASSUME SimInv, ExecutesInv, HartTurn, ExitCall(0), Finish, UNCHANGED <<doing, failed>>
  PROVE  ExecutesInv'
<1>1. /\ current \in Harts /\ current < active /\ current \in Nat
      /\ phase = "run" /\ ~signal_exit /\ active \in Nat
  BY TurnStaysInGroup DEF HartTurn, Harts
<1>2. UNCHANGED <<phase, result, num, next, active, Disturbed>> /\ running[current]
  BY DEF HartTurn, Turn, sliceVars, Disturbed
<1>3. UNCHANGED barrier /\ mcause' = [mcause EXCEPT ![current] = 0] /\ SetExited(0)
  BY DEF ExitCall, SetMcause
<1>4. barrier[current] = 0
  BY <1>1, <1>2 DEF SimInv, RunShape
<1>5. \/ OthersRun /\ running' = [running EXCEPT ![current] = FALSE]
                   /\ UNCHANGED <<signal_exit, exit_code>>
      \/ ~OthersRun /\ running' = [h \in Harts |-> FALSE] /\ exit_code' = 0
  BY <1>3 DEF SetExited
<1>6. Ended' = Ended \cup {current}
  <2>1. CASE OthersRun
    <3>1. \A h \in Harts : running'[h] <=> running[h] /\ h # current
      BY <1>1, <1>5, <2>1 DEF SimInv, TypeOK
    <3> QED
      BY <1>1, <1>2, <1>3, <1>4, <3>1 DEF Ended
  <2>2. CASE ~OthersRun
    <3>1. \A h \in Harts : ~running'[h] /\ (h # current => ~running[h])
      BY <1>5, <2>2 DEF OthersRun
    <3> QED
      BY <1>1, <1>2, <1>3, <1>4, <3>1 DEF Ended
  <2> QED
    BY <2>1, <2>2
<1> SUFFICES ASSUME ~Disturbed, ~failed PROVE ExecutesInv'
  BY <1>2 DEF ExecutesInv
<1>7. /\ \A h \in Harts : mcause[h] = 0
      /\ active <= next /\ next \in Nat
      /\ \A h \in Harts : h < active => doing[h] = next - active + h
      /\ done = (0 .. next - active - 1) \cup {doing[h] : h \in Ended}
  <2>1. active <= next /\ next \in Nat
    BY <1>1 DEF ExecutesInv, SimInv, TypeOK
  <2> QED
    BY <1>1, <2>1 DEF ExecutesInv
<1>8. doing[current] # Stray
  BY <1>1, <1>7 DEF Stray
<1>9. done' = (0 .. next - active - 1) \cup {doing[h] : h \in Ended \cup {current}}
  BY <1>7, <1>8 DEF Finish
<1>10. \A h \in Harts : mcause'[h] = 0
  BY <1>3, <1>7 DEF SimInv, TypeOK
<1>11. signal_exit' => exit_code' = 0
  BY <1>1, <1>5
<1> QED
  BY <1>1, <1>2, <1>6, <1>7, <1>9, <1>10, <1>11 DEF ExecutesInv

\* A barrier: nobody ends, neither when its hart goes to sleep nor when it
\* wakes the others, all of which slept at the same barrier.
LEMMA BarrierKeepsExecutes ==
  ASSUME SimInv, ExecutesInv, NEW a \in Addrs, Barrier(a)
  PROVE  ExecutesInv'
<1>1. /\ current \in Harts /\ current < active
      /\ phase = "run" /\ ~signal_exit /\ Turn
  BY TurnStaysInGroup DEF Barrier, HartTurn
<1>2. UNCHANGED <<active, Disturbed, doing, done>> /\ running[current]
  BY DEF Barrier, HartTurn, Turn, sliceVars, Disturbed
<1>3. a # 0
  BY HartSimAssumption
<1>4. CASE signal_exit'
  BY <1>4 DEF Barrier, ExecutesInv
<1>5. CASE ~signal_exit'
  <2>1. UNCHANGED <<signal_exit, exit_code, failed>> /\ SetMcause(0)
    BY <1>1, <1>5 DEF Barrier, BarrierCall, SimInv, TypeOK
  <2>2. Ended' = Ended
    <3>1. CASE running' = [running EXCEPT ![current] = FALSE]
               /\ barrier' = [barrier EXCEPT ![current] = a]
      <4>1. \A h \in Harts : /\ h # current => running'[h] = running[h] /\ barrier'[h] = barrier[h]
                             /\ h = current => running[h] /\ barrier'[h] # 0
        BY <1>2, <1>3, <3>1 DEF SimInv, TypeOK
      <4> QED
        BY <1>2, <4>1 DEF Ended
    <3>2. CASE SameBarrier(a) /\ running' = [h \in Harts |-> h < active]
      <4>1. Ended = {}
        BY <1>2, <1>3, <3>2 DEF SameBarrier, Ended
      <4>2. Ended' = {}
        BY <1>2, <3>2 DEF Ended
      <4> QED
        BY <4>1, <4>2
    <3> QED
      BY <1>5, <3>1, <3>2 DEF Barrier, BarrierCall
  <2> QED
    BY <1>1, <1>2, <2>1, <2>2, TurnKeepsExecutes DEF SetMcause
<1> QED
  BY <1>4, <1>5

LEMMA ExecutesInvStep == SimInv /\ ExecutesInv /\ [Next]_vars => ExecutesInv'
<1> SUFFICES ASSUME SimInv, ExecutesInv, [Next]_vars
             PROVE  ExecutesInv'
  OBVIOUS
<1>1. ASSUME NEW n \in Counts, NEW w \in Widths, RunSlice(n, w)
      PROVE  ExecutesInv'
  <2>1. /\ phase' = "group" /\ next' = 0 /\ done' = {} /\ mcause' = mcause
        /\ Disturbed' = (\E h \in Harts : mcause[h] # 0)
    BY <1>1 DEF RunSlice, Disturbed
  <2> QED
    BY <2>1 DEF ExecutesInv
<1>2. CASE StartGroup
  <2>1. /\ GroupSize \in 1 .. NumHarts
        /\ next \in Nat /\ num \in Nat /\ next + GroupSize <= num
    BY <1>2, HartSimAssumption DEF StartGroup, SimInv, TypeOK, GroupSize
  <2> HIDE DEF GroupSize
  <2>2. /\ phase = "group" /\ phase' = "run"
        /\ active' = GroupSize /\ next' = next + GroupSize
        /\ doing' = [h \in Harts |-> IF h < GroupSize THEN next + h ELSE Stray]
        /\ running' = [h \in Harts |-> h < GroupSize]
        /\ ~signal_exit' /\ UNCHANGED <<mcause, done, failed, Disturbed>>
    BY <1>2 DEF StartGroup, Disturbed
  <2>3. Ended' = {}
    BY <2>2 DEF Ended
  <2>4. next' - active' = next /\ active' <= next'
    BY <2>1, <2>2
  <2>5. \A h \in Harts : h < active' => doing'[h] = next + h
    BY <2>2
  <2> QED
    BY <2>2, <2>3, <2>4, <2>5 DEF ExecutesInv
<1>3. CASE EndRun
  <2>1. /\ phase = "run" /\ signal_exit
        /\ UNCHANGED <<num, next, barrier, mcause, exit_code, done, failed>>
    BY <1>3 DEF EndRun, simVars
  <2> SUFFICES ASSUME ~Disturbed', ~failed' PROVE ExecutesInv'
    BY DEF ExecutesInv
  <2>2. ~Disturbed /\ ~failed /\ \A h \in Harts : barrier[h] = 0
    BY <1>3, <2>1 DEF EndRun, Disturbed, SimInv, TypeOK
  <2>3. /\ \A h \in Harts : mcause[h] = 0
        /\ active <= next /\ next \in Nat /\ active \in 0 .. NumHarts
        /\ \A h \in Harts : h < active => doing[h] = next - active + h
        /\ exit_code = 0
        /\ done = (0 .. next - active - 1) \cup {doing[h] : h \in Ended}
    BY <2>1, <2>2 DEF ExecutesInv, SimInv, TypeOK
  <2>4. ~RunFailed
    <3>1. TrapBit \in Nat /\ TrapBit > 0
      BY HartSimAssumption
    <3> QED
      BY <2>3, <3>1 DEF RunFailed
  <2>5. phase' = "group"
    BY <1>3, <2>4 DEF EndRun
  <2>6. Ended = 0 .. active - 1
    BY <2>1, <2>2, <2>3, HartSimAssumption DEF Ended, SimInv, RunShape, Harts
  <2>7. {doing[h] : h \in Ended} = next - active .. next - 1
    <3>1. \A h \in Ended : doing[h] = next - active + h
      BY <2>3 DEF Ended
    <3>2. \A n \in next - active .. next - 1 :
            n - (next - active) \in Ended /\ n = next - active + (n - (next - active))
      BY <2>3, <2>6
    <3>3. \A n \in next - active .. next - 1 : doing[n - (next - active)] = n
      BY <3>1, <3>2
    <3>4. \A h \in Ended : doing[h] \in next - active .. next - 1
      BY <2>3, <2>6, <3>1
    <3> QED
      BY <3>2, <3>3, <3>4
  <2>8. done = 0 .. next - 1
    <3>1. done = (0 .. next - active - 1) \cup (next - active .. next - 1)
      BY <2>3, <2>7
    <3>2. ASSUME NEW f \in Nat, NEW n \in Nat, f <= n
          PROVE  (0 .. f - 1) \cup (f .. n - 1) = 0 .. n - 1
      BY <3>2, SMTT(30)
    <3>3. next - active \in Nat /\ next - active <= next /\ next \in Nat
      BY <2>3
    <3>4. (0 .. next - active - 1) \cup (next - active .. next - 1) = 0 .. next - 1
      BY <3>2, <3>3
    <3> QED
      BY <3>1, <3>4
  <2> QED
    BY <2>1, <2>3, <2>5, <2>8 DEF ExecutesInv
<1>4. CASE EndSlice
  <2>1. /\ phase = "group" /\ phase' = "idle" /\ result' = "success" /\ next = num
        /\ UNCHANGED <<num, mcause, done, failed, Disturbed>>
    BY <1>4 DEF EndSlice, Disturbed, simVars, SimInv, TypeOK
  <2> QED
    BY <2>1 DEF ExecutesInv
<1>5. ASSUME Turn PROVE current \in Harts /\ phase = "run" /\ UNCHANGED <<active, Disturbed>>
  BY <1>5 DEF Turn, sliceVars, Disturbed, SimInv, TypeOK
<1>6. CASE SkipTurn \/ Compute
  <2>1. Turn /\ UNCHANGED <<running, barrier, mcause, signal_exit, exit_code, doing, done, failed>>
    BY <1>6 DEF SkipTurn, Compute, HartTurn
  <2>2. Ended' = Ended
    BY <1>5, <2>1 DEF Ended
  <2> QED
    BY <2>1, <2>2, TurnKeepsExecutes
<1>7. CASE PutString
  <2>1. /\ Turn /\ UNCHANGED <<running, barrier, signal_exit, exit_code, doing, done, failed>>
        /\ mcause' = [mcause EXCEPT ![current] = 0]
    BY <1>7 DEF PutString, PrintCall, HartTurn, SetMcause
  <2>2. Ended' = Ended
    BY <1>5, <2>1 DEF Ended
  <2> QED
    BY <1>5, <2>1, <2>2, TurnKeepsExecutes
<1>8. CASE Return
  BY <1>8, ExitKeepsExecutes DEF Return
<1>9. ASSUME NEW code \in ExitCodes, Exit(code)
      PROVE  ExecutesInv'
  <2>1. CASE code = 0
    BY <1>9, <2>1, ExitKeepsExecutes DEF Exit
  <2>2. CASE code # 0
    BY <1>9, <2>2 DEF Exit, ExecutesInv
  <2> QED
    BY <2>1, <2>2
<1>10. ASSUME NEW a \in Addrs, Barrier(a)
       PROVE  ExecutesInv'
  BY <1>10, BarrierKeepsExecutes
<1>11. ASSUME NEW cause \in Causes, Trap(cause)
       PROVE  ExecutesInv'
  BY <1>11 DEF Trap, ExecutesInv
<1>12. CASE StaleFault \/ StaleEcall
  <2>1. Turn /\ mcause[current] \in Causes /\ UNCHANGED failed
    BY <1>12 DEF StaleFault, StaleEcall, HartTurn, Causes
  <2>2. mcause[current] # 0
    BY <2>1, HartSimAssumption DEF Causes
  <2>3. Disturbed \/ failed
    BY <1>5, <2>1, <2>2 DEF ExecutesInv
  <2> QED
    BY <1>5, <2>1, <2>3 DEF ExecutesInv
<1>13. CASE UNCHANGED vars
  <2>1. UNCHANGED <<phase, result, num, next, active, Disturbed, mcause, signal_exit,
                    exit_code, doing, done, failed>> /\ Ended' = Ended
    BY <1>13 DEF vars, simVars, sliceVars, Disturbed, Ended
  <2> QED
    BY <2>1 DEF ExecutesInv
<1> QED
  BY <1>1, <1>2, <1>3, <1>4, <1>6, <1>7, <1>8, <1>9, <1>10, <1>11, <1>12, <1>13
  DEF Next, HartEvent, Causes

\* SliceExecutesAll: the groups of a slice, for any number of harts and of
\* instances, neither lose nor invent an instance, however its harts take
\* their turns, meet at barriers and exit.
THEOREM SlicesExecuteAll == Spec => []SliceExecutesAll
<1>1. Init => ExecutesInv
  BY DEF Init, ExecutesInv
<1>2. ExecutesInv => SliceExecutesAll
  BY DEF ExecutesInv, SliceExecutesAll, EverySliceExecutesAll
<1> QED
  BY <1>1, <1>2, ExecutesInvStep, SimInvHolds, PTL DEF Spec

\* A trap in a hart is that of the run that has just failed, or of the slice
\* that has, unless the slice has found one.
TrapsFail ==
  ~stale /\ (\E h \in Harts : mcause[h] # 0) =>
    \/ phase = "run" /\ signal_exit /\ RunFailed
    \/ phase = "idle" /\ result = "failure"

\* A turn in which no trap is left.
LEMMA TurnKeepsTrapsFail ==
  ASSUME SimInv, TrapsFail, Turn,
         mcause' = mcause \/ (\E h \in Harts : mcause' = [mcause EXCEPT ![h] = 0])
  PROVE  TrapsFail'
<1>1. phase = "run" /\ ~signal_exit /\ UNCHANGED stale
  BY DEF Turn, sliceVars
<1>2. stale \/ \A h \in Harts : mcause[h] = 0
  BY <1>1 DEF TrapsFail
<1>3. (\A h \in Harts : mcause[h] = 0) => \A h \in Harts : mcause'[h] = 0
  BY DEF SimInv, TypeOK
<1> QED
  BY <1>1, <1>2, <1>3 DEF TrapsFail

\* TrapsComeFromFailures: what a slice that succeeds leaves in the harts does
\* not disturb the next one, for any kernels.
THEOREM SuccessLeavesNoTrap == Spec => []TrapsComeFromFailures
<1>1. Init => TrapsFail
  BY DEF Init, TrapsFail
<1>2. SimInv /\ TrapsFail /\ [Next]_vars => TrapsFail'
  <2> SUFFICES ASSUME SimInv, TrapsFail, [Next]_vars PROVE TrapsFail'
    OBVIOUS
  <2>1. ASSUME NEW n \in Counts, NEW w \in Widths, RunSlice(n, w)
        PROVE  TrapsFail'
    BY <2>1 DEF RunSlice, TrapsFail
  <2>2. CASE StartGroup \/ EndRun \/ EndSlice
    BY <2>2 DEF StartGroup, EndRun, EndSlice, TrapsFail, simVars, RunFailed
  <2>3. ASSUME Turn PROVE current \in Harts /\ phase' = "run"
    BY <2>3 DEF Turn, sliceVars, SimInv, TypeOK
  <2>4. ASSUME NEW cause \in Causes, Turn, Abort(cause)
        PROVE  TrapsFail'
    <3>1. TrapBit + cause # 0
      BY HartSimAssumption DEF Causes
    <3>2. signal_exit' /\ exit_code' = TrapBit + cause
      BY <2>4, <3>1 DEF Abort, SetExited
    <3> QED
      BY <2>3, <2>4, <3>2, TrapCodeFits DEF TrapsFail, RunFailed
  <2>5. ASSUME Turn, NEW code, ExitCall(code)
        PROVE  TrapsFail'
    BY <2>3, <2>5, TurnKeepsTrapsFail DEF ExitCall, SetMcause
  <2>6. ASSUME Turn, NEW a, BarrierCall(a)
        PROVE  TrapsFail'
    <3>1. CASE SetMcause(0)
      BY <2>3, <2>6, <3>1, TurnKeepsTrapsFail DEF SetMcause
    <3>2. CASE signal_exit' /\ exit_code' = TrapBit + Ecall
      BY <2>3, <2>6, <3>2, TrapCodeFits DEF TrapsFail, RunFailed, Causes
    <3> QED
      BY <2>6, <3>1, <3>2 DEF BarrierCall
  <2>7. ASSUME Turn, PrintCall
        PROVE  TrapsFail'
    BY <2>3, <2>7, TurnKeepsTrapsFail DEF PrintCall, SetMcause
  <2>8. CASE SkipTurn \/ Compute
    BY <2>8, TurnKeepsTrapsFail DEF SkipTurn, Compute, HartTurn
  <2>9. CASE HartEvent
    <3>1. Turn
      BY <2>9 DEF HartEvent, Return, PutString, Exit, Barrier, Trap, StaleFault, StaleEcall, HartTurn
    <3>2. \/ PrintCall
          \/ \E code : ExitCall(code)
          \/ \E a : BarrierCall(a)
          \/ \E cause \in Causes : Abort(cause)
      BY <2>9 DEF HartEvent, Return, PutString, Exit, Barrier, Trap, StaleFault, StaleEcall, Causes
    <3> QED
      BY <2>4, <2>5, <2>6, <2>7, <3>1, <3>2
  <2>10. CASE UNCHANGED vars
    BY <2>10 DEF vars, simVars, sliceVars, TrapsFail, RunFailed
  <2> QED
    BY <2>1, <2>2, <2>8, <2>9, <2>10 DEF Next
<1>3. TrapsFail => TrapsComeFromFailures
  BY DEF TrapsFail, TrapsComeFromFailures
<1> QED
  BY <1>1, <1>2, <1>3, SimInvHolds, PTL DEF Spec

-----------------------------------------------------------------------------
(* The barrier                                                             *)

\* The two variables of the service, as the mapping gives them.
Rounds == [h \in Gathered |-> [count |-> arrived[h], site |-> site[h]]]
Finished == {h \in Gathered : ~running[h] /\ barrier[h] = 0}

\* The group while a run lasts, and a hart of it.
LEMMA GroupIs ==
  ASSUME SimInv, phase = "run", ~signal_exit
  PROVE  /\ Gathered = 0 .. active - 1 /\ Gathered # {} /\ Gathered \subseteq Harts
         /\ \A h \in Harts : h \in Gathered <=> h < active
         /\ current \in Gathered
<1>1. /\ active \in 0 .. NumHarts /\ active # 0 /\ NumHarts \in Nat
      /\ current \in 0 .. NumHarts - 1 /\ current < active
  BY HartSimAssumption DEF SimInv, TypeOK, RunShape, Harts
<1>2. Gathered = 0 .. active - 1
  BY DEF Gathered
<1>3. current \in 0 .. active - 1
  BY <1>1
<1>4. Gathered \subseteq Harts
  BY <1>1, <1>2 DEF Harts
<1>5. \A h \in Harts : h \in Gathered <=> h < active
  BY <1>1, <1>2 DEF Harts
<1> QED
  BY <1>2, <1>3, <1>4, <1>5

\* A hart that is awake may go on.
LEMMA AwakeMayGoOn ==
  ASSUME SimInv, phase = "run", ~signal_exit, NEW h \in Gathered, running[h]
  PROVE  Service!MayGoOn(h)
<1>1. Gathered \subseteq Harts /\ \A g \in Harts : g \in Gathered <=> g < active
  BY GroupIs
<1>2. \A g \in Gathered : arrived[g] > arrived[h] \/ (arrived[g] = arrived[h] /\ site[g] = site[h])
  BY <1>1 DEF SimInv, TypeOK, RoundsAgree
<1>3. \A g \in Gathered : Rounds[g].count > Rounds[h].count \/ Rounds[g] = Rounds[h]
  BY <1>2 DEF Rounds
<1>4. h \in Gathered \ Finished /\ DOMAIN Rounds = Gathered
  BY DEF Finished, Rounds
<1> QED
  BY <1>3, <1>4 DEF Service!MayGoOn, Service!Members, Rounds, Finished

\* While a run lasts.
RunLasts == phase = "run" /\ ~signal_exit

\* After a step that does not end the run some hart may go on.
LEMMA RunMayGoOn == SimInv /\ RunLasts => Service!SomeHartMayGoOn
<1> SUFFICES ASSUME SimInv, phase = "run", ~signal_exit PROVE Service!SomeHartMayGoOn
  BY DEF RunLasts
<1>1. PICK h \in Harts : h < active /\ running[h]
  BY DEF SimInv, SomeHartRuns
<1>2. h \in Gathered
  BY <1>1, GroupIs
<1>3. Service!MayGoOn(h)
  BY <1>1, <1>2, AwakeMayGoOn
<1>4. h \in Service!Members
  BY <1>2 DEF Service!Members
<1> QED
  BY <1>3, <1>4 DEF Service!SomeHartMayGoOn

\* The same of the state after a step.
LEMMA StillMayGoOn == SimInv' /\ RunLasts' => Service!SomeHartMayGoOn'
BY RunMayGoOn, PTL

\* A step that ends the run disperses the group.
LEMMA EndDisperses ==
  ASSUME SimInv, Turn, signal_exit'
  PROVE  Service!Disperse
<1>1. phase = "run" /\ ~signal_exit
  BY DEF Turn
<1>2. Gathered # {} /\ Gathered' = {}
  BY <1>1, GroupIs DEF Gathered
<1>3. Rounds' = Service!NoGroup /\ Finished' = {}
  BY <1>2 DEF Rounds, Service!NoGroup, Finished
<1>4. DOMAIN Rounds = Gathered
  BY DEF Rounds
<1> QED
  BY <1>2, <1>3, <1>4 DEF Service!Disperse, Service!Members, Rounds, Finished

\* A turn that leaves sleep and barriers alone is no step of the group.
LEMMA QuietTurnStutters ==
  ASSUME UNCHANGED <<phase, active, running, barrier, signal_exit, arrived, site>>
  PROVE  UNCHANGED Service!groupVars
<1>1. Gathered' = Gathered
  BY DEF Gathered
<1>2. Rounds' = Rounds /\ Finished' = Finished
  BY <1>1 DEF Rounds, Finished
<1> QED
  BY <1>2 DEF Service!groupVars, Rounds, Finished

\* A turn that does not end the run: the group stays.
LEMMA GroupStays ==
  ASSUME SimInv, SimInv', HartTurn, ~signal_exit'
  PROVE  /\ Gathered' = Gathered /\ Gathered \subseteq Harts
         /\ \A h \in Harts : h \in Gathered <=> h < active
         /\ current \in Gathered /\ DOMAIN Rounds = Gathered
         /\ barrier[current] = 0 /\ running[current]
         /\ Service!MayGoOn(current) /\ Service!SomeHartMayGoOn'
<1>1. /\ phase = "run" /\ ~signal_exit /\ running[current]
      /\ UNCHANGED <<phase, active>>
  BY DEF HartTurn, Turn, sliceVars
<1>2. Gathered' = Gathered
  BY <1>1 DEF Gathered
<1>3. /\ current \in Gathered /\ Gathered \subseteq Harts
      /\ \A h \in Harts : h \in Gathered <=> h < active
  BY <1>1, GroupIs
<1>4. barrier[current] = 0
  BY <1>1, <1>3 DEF SimInv, RunShape
<1>5. Service!MayGoOn(current)
  BY <1>1, <1>3, AwakeMayGoOn
<1>6. RunLasts'
  BY <1>1 DEF RunLasts
<1>7. Service!SomeHartMayGoOn'
  BY <1>6, StillMayGoOn
<1>8. DOMAIN Rounds = Gathered
  BY DEF Rounds
<1> QED
  BY <1>1, <1>2, <1>3, <1>4, <1>5, <1>7, <1>8

\* set_exited: the hart leaves the group, or the run is over.
LEMMA ExitServes ==
  ASSUME SimInv, SimInv', HartTurn, NEW code \in Nat, SetExited(code),
         UNCHANGED <<barrier, arrived, site>>
  PROVE  Service!Next
<1>1. CASE signal_exit'
  BY <1>1, EndDisperses DEF HartTurn, Service!Next
<1>2. CASE ~signal_exit'
  <2>1. running' = [running EXCEPT ![current] = FALSE] /\ running \in [Harts -> BOOLEAN]
    BY <1>2 DEF SetExited, SimInv, TypeOK
  <2>2. Rounds' = Rounds
    BY <1>2, GroupStays DEF Rounds
  <2>3. Finished' = Finished \cup {current}
    BY <1>2, <2>1, GroupStays DEF Finished
  <2>4. PICK h \in Service!Members : h = current
    BY <1>2, GroupStays DEF Service!Members, Rounds
  <2>5. Service!Leave(h)
    BY <1>2, <2>2, <2>3, <2>4, GroupStays DEF Service!Leave, Rounds, Finished
  <2> QED
    BY <2>5 DEF Service!Next
<1> QED
  BY <1>1, <1>2

\* handle_barrier: the hart arrives, or the run is over.
LEMMA BarrierServes ==
  ASSUME SimInv, SimInv', HartTurn, NEW a \in Addrs, BarrierCall(a)
  PROVE  Service!Next
<1>1. CASE signal_exit'
  BY <1>1, EndDisperses DEF HartTurn, Service!Next
<1>2. CASE ~signal_exit'
  <2>1. /\ arrived \in [Harts -> Nat] /\ site \in [Harts -> Addrs \cup {0}]
        /\ running \in [Harts -> BOOLEAN] /\ barrier \in [Harts -> Addrs \cup {0}]
        /\ a # 0
    BY HartSimAssumption DEF SimInv, TypeOK
  <2>2. /\ arrived' = [arrived EXCEPT ![current] = arrived[current] + 1]
        /\ site' = [site EXCEPT ![current] = a]
    BY DEF BarrierCall
  <2>3. Rounds' = [Rounds EXCEPT ![current] = [count |-> Rounds[current].count + 1,
                                               site |-> a]]
    <3>1. Gathered' = Gathered /\ current \in Gathered /\ Gathered \subseteq Harts
      BY <1>2, GroupStays
    <3>2. \A h \in Gathered : /\ arrived'[h] = IF h = current THEN arrived[h] + 1 ELSE arrived[h]
                              /\ site'[h] = IF h = current THEN a ELSE site[h]
      BY <2>1, <2>2, <3>1
    <3>3. Rounds' = [h \in Gathered |-> [count |-> arrived'[h], site |-> site'[h]]]
      BY <3>1 DEF Rounds
    <3> QED
      BY <3>1, <3>2, <3>3 DEF Rounds
  <2>4. Finished' = Finished
    <3>1. CASE /\ running' = [running EXCEPT ![current] = FALSE]
               /\ barrier' = [barrier EXCEPT ![current] = a]
      BY <1>2, <2>1, <3>1, GroupStays DEF Finished
    <3>2. CASE /\ ~OthersRun /\ SameBarrier(a)
               /\ running' = [h \in Harts |-> h < active]
               /\ barrier' = [h \in Harts |-> 0]
      BY <1>2, <2>1, <3>2, GroupStays DEF Finished, SameBarrier
    <3> QED
      BY <1>2, <3>1, <3>2 DEF BarrierCall
  <2>5. Service!Arrive(current, a)
    BY <1>2, <2>3, <2>4, GroupStays DEF Service!Arrive, Rounds, Finished
  <2>6. current \in Service!Members
    BY <1>2, GroupStays DEF Service!Members, Rounds
  <2> QED
    BY <2>5, <2>6 DEF Service!Next
<1> QED
  BY <1>1, <1>2

\* A trap that is not handled: its cause is never zero, so the run is over.
LEMMA AbortServes ==
  ASSUME SimInv, HartTurn, NEW cause \in Causes, Abort(cause)
  PROVE  Service!Next
<1>1. TrapBit + cause # 0
  BY HartSimAssumption DEF Causes
<1>2. signal_exit'
  BY <1>1 DEF Abort, SetExited
<1> QED
  BY <1>2, EndDisperses DEF HartTurn, Service!Next

\* A call that is handled.
LEMMA CallServes ==
  ASSUME SimInv, SimInv', HartTurn,
         \/ PrintCall
         \/ \E code \in Nat : ExitCall(code)
         \/ \E a \in Addrs : BarrierCall(a)
  PROVE  Service!Next \/ UNCHANGED Service!groupVars
<1>1. CASE PrintCall
  BY <1>1, QuietTurnStutters DEF PrintCall, HartTurn, Turn, sliceVars
<1>2. ASSUME NEW code \in Nat, ExitCall(code)
      PROVE  Service!Next
  BY <1>2, ExitServes DEF ExitCall
<1>3. ASSUME NEW a \in Addrs, BarrierCall(a)
      PROVE  Service!Next
  BY <1>3, BarrierServes
<1> QED
  BY <1>1, <1>2, <1>3

\* Every step of the simulator is a step of the barrier, or none.
LEMMA StepServes ==
  ASSUME SimInv, SimInv', [Next]_vars
  PROVE  Service!Next \/ UNCHANGED Service!groupVars
<1>1. CASE \E n \in Counts, w \in Widths : RunSlice(n, w)
  <2>1. Gathered = {} /\ Gathered' = {}
    BY <1>1 DEF RunSlice, Gathered
  <2> QED
    BY <2>1 DEF Service!groupVars
<1>2. CASE StartGroup
  <2>1. GroupSize \in 1 .. NumHarts
    BY <1>2, HartSimAssumption DEF StartGroup, GroupSize, SimInv, TypeOK
  <2>2. Gathered = {} /\ Gathered' = 0 .. GroupSize - 1
    BY <1>2 DEF StartGroup, Gathered
  <2>3. 0 .. GroupSize - 1 \subseteq Harts
    BY <2>1, HartSimAssumption DEF Harts
  <2>4. Rounds' = [h \in 0 .. GroupSize - 1 |-> [count |-> 0, site |-> 0]]
    BY <1>2, <2>2, <2>3 DEF StartGroup, Rounds
  <2>5. \A h \in 0 .. GroupSize - 1 : h < GroupSize
    BY <2>1
  <2>6. Finished' = {}
    BY <1>2, <2>2, <2>3, <2>5 DEF StartGroup, Finished
  <2>7. DOMAIN Rounds = {}
    BY <2>2 DEF Rounds
  <2>8. PICK n \in 1 .. NumHarts : n = GroupSize
    BY <2>1
  <2>9. Service!Gather(n)
    BY <2>4, <2>6, <2>7, <2>8 DEF Service!Gather, Service!Members, Rounds, Finished
  <2> QED
    BY <2>9 DEF Service!Next
<1>3. CASE EndRun \/ EndSlice
  <2>1. Gathered = {} /\ Gathered' = {}
    BY <1>3 DEF EndRun, EndSlice, Gathered, simVars
  <2> QED
    BY <2>1 DEF Service!groupVars
<1>4. CASE SkipTurn \/ Compute
  BY <1>4, QuietTurnStutters DEF SkipTurn, Compute, HartTurn, Turn, sliceVars
<1>5. CASE Return \/ PutString
  BY <1>5, CallServes DEF Return, PutString
<1>6. ASSUME NEW code \in ExitCodes, Exit(code)
      PROVE  Service!Next \/ UNCHANGED Service!groupVars
  BY <1>6, CallServes, HartSimAssumption DEF Exit
<1>7. ASSUME NEW a \in Addrs, Barrier(a)
      PROVE  Service!Next \/ UNCHANGED Service!groupVars
  BY <1>7, CallServes DEF Barrier
<1>8. ASSUME NEW cause \in Causes, Trap(cause)
      PROVE  Service!Next
  BY <1>8, AbortServes DEF Trap
<1>9. CASE StaleFault
  BY <1>9, AbortServes DEF StaleFault, Causes
<1>10. CASE StaleEcall
  <2>1. HartTurn /\ Ecall \in Causes
    BY <1>10 DEF StaleEcall, Causes
  <2>2. CASE Abort(Ecall)
    BY <2>1, <2>2, AbortServes
  <2>3. CASE \/ PrintCall
             \/ \E code \in ExitCodes : ExitCall(code)
             \/ \E a \in Addrs : BarrierCall(a)
    BY <2>1, <2>3, CallServes, HartSimAssumption
  <2> QED
    BY <1>10, <2>2, <2>3 DEF StaleEcall
<1>11. CASE UNCHANGED vars
  BY <1>11, QuietTurnStutters DEF vars, simVars, sliceVars
<1> QED
  BY <1>1, <1>2, <1>3, <1>4, <1>5, <1>6, <1>7, <1>8, <1>9, <1>10, <1>11
  DEF Next, HartEvent, Causes

\* ImplementsBarrier: the simulator implements the barrier for any number of
\* harts and of barriers, whatever traps, exits and stale calls befall them.
THEOREM GroupsSynchronise == Spec => ImplementsBarrier
<1>1. Init => Service!Init
  <2> SUFFICES ASSUME Init PROVE Service!Init
    OBVIOUS
  <2>1. Gathered = {}
    BY DEF Init, Gathered
  <2> QED
    BY <2>1 DEF Service!Init, Service!NoGroup
<1>2. SimInv /\ SimInv' /\ [Next]_vars => [Service!Next]_(Service!groupVars)
  BY StepServes
<1>3. Service!Spec <=> Service!Init /\ [][Service!Next]_(Service!groupVars)
  BY DEF Service!Spec
<1> QED
  BY <1>1, <1>2, <1>3, SimInvHolds, PTL DEF Spec, ImplementsBarrier

-----------------------------------------------------------------------------
\* The debugger only decides when the harts take their turns: with it the
\* simulator does nothing that it may not do without, so that what is proved
\* of the one holds of the other.
THEOREM DebuggerOnlySchedules == DebugSpec => Spec
<1>1. DebugInit => Init
  BY DEF DebugInit
<1>2. [DebugNext]_debugVars => [Next]_vars
  BY DEF DebugNext, debugVars, ReadCommand, ReturnCommand, SliceStep, Next
<1> QED
  BY <1>1, <1>2, PTL DEF DebugSpec, Spec

=============================================================================
