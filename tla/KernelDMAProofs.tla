--------------------------- MODULE KernelDMAProofs ----------------------------
(***************************************************************************)
(* Proofs about KernelDMA.  As long as the transfer identifiers of a unit  *)
(* do not wrap around, the events of every kernel are those of finished    *)
(* transfers, transfers that copy something have events of their own, and  *)
(* a transfer whose bytes do not disturb each other moves what its unit    *)
(* asked for.                                                              *)
(*                                                                         *)
(* The loops over rows and planes are recursive functions.  That they      *)
(* exist, and what they copy, is by induction (SetInduction); then the     *)
(* bytes of the loops are matched with the cells of a job, and the         *)
(* registers of a unit with its job.                                       *)
(***************************************************************************)
EXTENDS KernelDMA, WellFoundedInduction, TLAPS

\* The identifiers last: MaxStart bounds the transfers of a unit.
IdsLast == MaxStart < IdLimit

\* What the steps need to know of the shape of the state.
Shape ==
  /\ start \in [Units -> 0 .. IdLimit - 1]
  /\ finished = start
  /\ regs = [u \in Units |-> regs[u]]
  /\ job = [u \in Units |-> job[u]]
  /\ step \in [Units -> Nat]
  /\ events \in [Units -> SUBSET Nat]

\* A unit that has still to start its transfer has an identifier left for it.
Spare == \A u \in Units : step[u] > 0 => start[u] < MaxStart

\* No event is ahead of the identifiers given out.
Given == \A h \in Units : \A e \in events[h] : e <= start[h]

DMAInv == Shape /\ Spare /\ Given /\ EventsAreFresh

\* The next identifier is the successor: no wrap-around.
LEMMA NextIdIsSuccessor ==
  ASSUME IdsLast, NEW id \in 0 .. IdLimit - 1, id < MaxStart
  PROVE  NextId(id) = id + 1 /\ NextId(id) \in 0 .. IdLimit - 1
<1>1. IdLimit \in Nat /\ MaxStart \in Nat
  BY DMAAssumption
<1>2. id + 1 \in 0 .. IdLimit - 1
  BY <1>1 DEF IdsLast
<1>3. (id + 1) % IdLimit = id + 1
  BY <1>1, <1>2
<1> QED
  BY <1>2, <1>3 DEF NextId

\* The register files start at zero.
LEMMA DMAInit ==
  Init => DMAInv
<1> SUFFICES ASSUME Init PROVE DMAInv
  OBVIOUS
<1>1. Shape
  BY DMAAssumption DEF Init, Shape, Units
<1>2. Spare
  BY DEF Init, Spare
<1>3. Given
  BY DEF Init, Given
<1>4. EventsAreFresh
  BY DEF Init, EventsAreFresh, Units
<1> QED
  BY <1>1, <1>2, <1>3, <1>4 DEF DMAInv

\* A unit begins to program a transfer.
LEMMA ProgramKeepsInv ==
  ASSUME DMAInv, NEW u \in Units, NEW j \in Jobs[u], Program(u, j)
  PROVE  DMAInv'
<1> USE DEF DMAInv
<1>1. Shape'
  BY DEF Shape, Program
<1>2. Spare'
  BY DEF Shape, Spare, Program
<1>3. Given'
  BY DEF Given, Program
<1>5. EventsAreFresh'
  <2> SUFFICES ASSUME NEW h \in Units, job'[h] # NoJob, step'[h] = 0,
                      ~Empty(regs'[h])
               PROVE  start'[h] \notin events'[h]
    BY DEF EventsAreFresh, Empty, Dim, Size
  <2>1. h # u
    BY DEF Shape, Program, Units
  <2>2. job[h] # NoJob /\ step[h] = 0 /\ regs' = regs
    BY <2>1 DEF Shape, Program, Units
  <2> QED
    BY <2>2 DEF EventsAreFresh, Program
<1> QED
  BY <1>1, <1>2, <1>3, <1>5

\* A unit writes no register file but its own.
LEMMA OwnFile ==
  ASSUME Shape, NEW u \in Units, regs' = Written(u)
  PROVE  /\ regs' = [v \in Units |-> regs'[v]]
         /\ \A v \in Units \ {u} : regs'[v] = regs[v]
BY DEF Shape, Written, RegFile

\* A unit writes a register other than DMACTRL.
LEMMA WriteRegisterKeepsInv ==
  ASSUME DMAInv, NEW u \in Units, WriteRegister(u)
  PROVE  DMAInv'
<1> USE DEF DMAInv
<1>1. step[u] \in Nat /\ step[u] > 0
  BY DEF Shape, WriteRegister
<1>2. Shape'
  BY <1>1, OwnFile DEF Shape, WriteRegister
<1>3. Spare'
  BY <1>1 DEF Shape, Spare, WriteRegister
<1>4. Given'
  BY DEF Given, WriteRegister
<1>5. EventsAreFresh'
  <2> SUFFICES ASSUME NEW h \in Units, job'[h] # NoJob, step'[h] = 0,
                      ~Empty(regs'[h])
               PROVE  start'[h] \notin events'[h]
    BY DEF EventsAreFresh, Empty, Dim, Size
  <2>1. h # u /\ step[h] = 0
    BY <1>1 DEF Shape, WriteRegister, Units
  <2>2. regs'[h] = regs[h]
    BY <2>1, OwnFile DEF WriteRegister, Units
  <2> QED
    BY <2>1, <2>2 DEF EventsAreFresh, WriteRegister
<1> QED
  BY <1>2, <1>3, <1>4, <1>5

\* A unit writes DMACTRL: the transfer is refused, empty, or made.
LEMMA StartTransferKeepsInv ==
  ASSUME IdsLast, DMAInv, NEW u \in Units, StartTransfer(u)
  PROVE  DMAInv'
<1> USE DEF DMAInv
<1>0. u \in Units /\ step[u] > 0 /\ step' = [step EXCEPT ![u] = 0]
  BY DEF StartTransfer
<1>1. start[u] \in 0 .. IdLimit - 1 /\ start[u] < MaxStart
  BY <1>0 DEF Shape, Spare
<1>2. NextId(start[u]) = start[u] + 1 /\ NextId(start[u]) \in 0 .. IdLimit - 1
  BY <1>1, NextIdIsSuccessor
<1>3. \/ UNCHANGED <<start, finished>>
      \/ /\ ~Empty(regs'[u])
         /\ start' = [start EXCEPT ![u] = NextId(@)]
         /\ finished' = [finished EXCEPT ![u] = NextId(start[u])]
  BY DEF StartTransfer, Transfer, RegFile
<1>A. job'[u] = NoJob \/ Empty(regs'[u]) \/ start' = [start EXCEPT ![u] = NextId(@)]
  BY DEF StartTransfer, Abort, Transfer, RegFile, Shape
<1>4. \/ /\ job' = [job EXCEPT ![u] = NoJob]
         /\ events' = [events EXCEPT ![u] = {}]
      \/ events' = events /\ job' = job
  BY DEF StartTransfer, Abort
<1>5. Shape'
  <2>1. regs' = [v \in Units |-> regs'[v]]
    BY OwnFile DEF StartTransfer
  <2>2. start' \in [Units -> 0 .. IdLimit - 1] /\ finished' = start'
    BY <1>2, <1>3 DEF Shape
  <2>3. job' = [v \in Units |-> job'[v]] /\ events' \in [Units -> SUBSET Nat]
    BY <1>4 DEF Shape
  <2>4. step' \in [Units -> Nat]
    BY <1>0 DEF Shape
  <2> QED
    BY <2>1, <2>2, <2>3, <2>4 DEF Shape
<1>6. Spare'
  BY <1>0, <1>3 DEF Shape, Spare
<1>7. \A h \in Units : events'[h] \subseteq events[h] /\ start'[h] >= start[h]
  BY <1>2, <1>3, <1>4 DEF Shape, Units
<1>8. Given'
  <2> SUFFICES ASSUME NEW h \in Units, NEW e \in events'[h]
               PROVE  e <= start'[h]
    BY DEF Given
  <2>1. e \in Nat /\ e <= start[h] /\ start[h] \in Nat /\ start'[h] \in Nat
    BY <1>5, <1>7 DEF Given, Shape, Units
  <2> QED
    BY <1>7, <2>1
<1>9. EventsAreFresh'
  <2> SUFFICES ASSUME NEW h \in Units, job'[h] # NoJob, step'[h] = 0,
                      ~Empty(regs'[h])
               PROVE  start'[h] \notin events'[h]
    BY DEF EventsAreFresh, Empty, Dim, Size
  <2>1. CASE h # u
    <3>1. job[h] # NoJob /\ step[h] = 0 /\ start'[h] = start[h]
      <4>1. h \in Units
        BY DEF Units
      <4>2. job[h] # NoJob
        BY <1>4, <2>1, <4>1 DEF Shape
      <4>3. step[h] = 0
        BY <1>0, <2>1, <4>1 DEF Shape
      <4>4. start'[h] = start[h]
        BY <1>3, <2>1, <4>1 DEF Shape
      <4> QED
        BY <4>2, <4>3, <4>4
    <3>2. regs'[h] = regs[h]
      BY <2>1, OwnFile DEF StartTransfer, Units
    <3> QED
      BY <1>7, <3>1, <3>2 DEF EventsAreFresh
  <2>2. CASE h = u
    <3>1. start'[h] = start[h] + 1
      <4>1. start' = [start EXCEPT ![u] = NextId(@)]
        BY <1>A, <2>2 DEF Empty, Dim, Size
      <4> QED
        BY <1>2, <2>2, <4>1 DEF Shape
    <3>2. \A e \in events'[h] : e \in Nat /\ e <= start[h]
      BY <1>7 DEF Given, Shape
    <3>3. start[h] \in Nat
      BY DEF Shape, Units
    <3> QED
      BY <3>1, <3>2, <3>3
  <2> QED
    BY <2>1, <2>2
<1> QED
  BY <1>5, <1>6, <1>8, <1>9


\* A kernel reads the event of its transfer.
LEMMA FetchEventKeepsInv ==
  ASSUME DMAInv, NEW h \in Units, FetchEvent(h)
  PROVE  DMAInv'
<1> USE DEF DMAInv
<1>1. h \in Units /\ start[h] \in Nat
  BY DEF Shape, Units
<1>2. \A g \in Units : events'[g] = IF g = h THEN events[g] \cup {start[g]}
                                             ELSE events[g]
  BY DEF Shape, FetchEvent, RegFile
<1>3. Shape'
  BY <1>1 DEF Shape, FetchEvent, RegFile
<1>4. Spare'
  BY DEF Spare, FetchEvent
<1>5. Given'
  <2> SUFFICES ASSUME NEW g \in Units, NEW e \in events'[g]
               PROVE  e <= start[g]
    BY DEF Given, FetchEvent
  <2>1. e \in events[g] \/ (g = h /\ e = start[h])
    BY <1>2
  <2> QED
    BY <1>1, <2>1 DEF Given
<1>6. EventsAreFresh'
  <2> SUFFICES ASSUME NEW g \in Units, job'[g] # NoJob, step'[g] = 0,
                      ~Empty(regs'[g])
               PROVE  start'[g] \notin events'[g]
    BY DEF EventsAreFresh, Empty, Dim, Size
  <2>1. g # h /\ job[g] # NoJob
    BY <1>1 DEF Shape, FetchEvent, Units
  <2> QED
    BY <1>2, <2>1 DEF EventsAreFresh, FetchEvent, Empty, Dim, Size
<1> QED
  BY <1>3, <1>4, <1>5, <1>6

\* A wait or the end of a kernel forgets events, and ends a job at most.
LEMMA FewerEventsKeepInv ==
  ASSUME DMAInv, UNCHANGED <<start, finished, regs, step>>,
         events' \in [Units -> SUBSET Nat],
         \A h \in Units : events'[h] \subseteq events[h],
         job' = [u \in Units |-> job'[u]],
         \A u \in Units : job'[u] \in {job[u], NoJob}
  PROVE  DMAInv'
<1> USE DEF DMAInv
<1>1. Shape' /\ Spare' /\ Given'
  BY DEF Shape, Spare, Given
<1>2. EventsAreFresh'
  <2> SUFFICES ASSUME NEW g \in Units, job'[g] # NoJob, step'[g] = 0,
                      ~Empty(regs'[g])
               PROVE  start'[g] \notin events'[g]
    BY DEF EventsAreFresh, Empty, Dim, Size
  <2>1. job[g] # NoJob
    BY DEF Units
  <2> QED
    BY <2>1 DEF EventsAreFresh
<1> QED
  BY <1>1, <1>2

\* Every step keeps the invariant.
LEMMA DMANext ==
  ASSUME IdsLast, DMAInv, [Next]_vars
  PROVE  DMAInv'
<1>1. ASSUME NEW u \in Units,
             (\E j \in Jobs[u] : Program(u, j)) \/ WriteRegister(u) \/ StartTransfer(u)
      PROVE  DMAInv'
  BY <1>1, ProgramKeepsInv, WriteRegisterKeepsInv, StartTransferKeepsInv
<1>2. ASSUME NEW h \in Units, FetchEvent(h)
      PROVE  DMAInv'
  BY <1>2, FetchEventKeepsInv
<1>3. ASSUME NEW h \in Units, NEW list \in SUBSET events[h], Wait(h, list)
      PROVE  DMAInv'
  <2>1. /\ UNCHANGED <<start, finished, regs, step>>
        /\ \/ /\ events' = [events EXCEPT ![h] = @ \ list]
              /\ job' = job
           \/ /\ events' = [events EXCEPT ![h] = {}]
              /\ job' = [job EXCEPT ![h] = NoJob]
    BY <1>3 DEF Wait, Abort
  <2>2. /\ events' \in [Units -> SUBSET Nat]
        /\ \A g \in Units : events'[g] \subseteq events[g]
    BY <2>1 DEF DMAInv, Shape
  <2>3. /\ job' = [u \in Units |-> job'[u]]
        /\ \A u \in Units : job'[u] \in {job[u], NoJob}
    BY <2>1 DEF DMAInv, Shape
  <2> QED
    BY <2>1, <2>2, <2>3, FewerEventsKeepInv
<1>4. ASSUME NEW h \in Units, EndKernel(h)
      PROVE  DMAInv'
  <2>1. /\ UNCHANGED <<start, finished, regs, step, job>>
        /\ events' = [events EXCEPT ![h] = {}]
    BY <1>4 DEF EndKernel
  <2>2. /\ events' \in [Units -> SUBSET Nat]
        /\ \A g \in Units : events'[g] \subseteq events[g]
    BY <2>1 DEF DMAInv, Shape
  <2>3. /\ job' = [u \in Units |-> job'[u]]
        /\ \A u \in Units : job'[u] \in {job[u], NoJob}
    BY <2>1 DEF DMAInv, Shape
  <2> QED
    BY <2>1, <2>2, <2>3, FewerEventsKeepInv
<1>5. CASE UNCHANGED vars
  <2>1. EventsAreFresh'
    BY <1>5 DEF DMAInv, EventsAreFresh, Empty, Dim, Size, vars
  <2> QED
    BY <1>5, <2>1 DEF DMAInv, Shape, Spare, Given, vars
<1> QED
  BY <1>1, <1>2, <1>3, <1>4, <1>5 DEF Next, UnitStep

\* The invariant always holds.
LEMMA DMAInvHolds ==
  IdsLast => (Spec => []DMAInv)
<1> SUFFICES ASSUME IdsLast PROVE Spec => []DMAInv
  OBVIOUS
<1>1. DMAInv /\ [Next]_vars => DMAInv'
  BY DMANext
<1> QED
  BY <1>1, DMAInit, PTL DEF Spec

\* While its identifiers last, every event of a kernel is that of a finished
\* transfer, so defineRefSiDmaWait's write to DMADONESEQ is never refused.
THEOREM EventsStayFinished ==
  IdsLast => (Spec => []EventsAreFinished)
<1> SUFFICES ASSUME IdsLast PROVE Spec => []EventsAreFinished
  OBVIOUS
<1>1. DMAInv => EventsAreFinished
  BY DEF DMAInv, Shape, Given, EventsAreFinished
<1>2. Spec => []DMAInv
  BY DMAInvHolds
<1> QED
  BY <1>1, <1>2, PTL

\* While its identifiers last, a transfer that copies something has an event
\* that differs from those the kernel holds.
THEOREM EventsStayFresh ==
  IdsLast => (Spec => []EventsAreFresh)
<1> SUFFICES ASSUME IdsLast PROVE Spec => []EventsAreFresh
  OBVIOUS
<1>1. DMAInv => EventsAreFresh
  BY DEF DMAInv
<1>2. Spec => []DMAInv
  BY DMAInvHolds
<1> QED
  BY <1>1, <1>2, PTL

-----------------------------------------------------------------------------
(* Loops                                                                   *)

\* Induction with a set in the place of a predicate.
LEMMA SetInduction ==
  ASSUME NEW S, 0 \in S, \A n \in Nat : n \in S => n + 1 \in S
  PROVE  Nat \subseteq S
<1> DEFINE T == Nat \ S
           R == {ss \in Nat \X Nat : ss[1] < ss[2]}
<1> SUFFICES ASSUME T # {} PROVE FALSE
  OBVIOUS
<1>1. IsWellFoundedOn(R, Nat)
  BY NatLessThanWellFounded DEF OpToRel
<1>2. T \in SUBSET Nat
  OBVIOUS
<1> HIDE DEF R, T
<1>3. PICK t \in T : \A u \in T : ~(<<u, t>> \in R)
  BY <1>1, <1>2, WFMin
<1>4. t \in Nat /\ t \notin S /\ t # 0
  BY DEF T
<1>5. t - 1 \in Nat /\ (t - 1) + 1 = t /\ t - 1 < t
  BY <1>4
<1>6. t - 1 \in T
  BY <1>4, <1>5 DEF T
<1>7. <<t - 1, t>> \in R
  BY <1>4, <1>5 DEF R
<1> QED
  BY <1>3, <1>6, <1>7

\* The body of each loop.
Step(loop, r, at) ==
  IF loop = "rows" THEN NextRow(r, at) ELSE NextPlane(r, CopyRows(r, at))

\* f is what the loop does in its first n rounds.
Rounds(loop, r, at, n, f) ==
  f = [i \in 0 .. n |-> IF i = 0 THEN at ELSE Step(loop, r, f[i - 1])]

LEMMA RoundsAgree ==
  ASSUME NEW loop, NEW r, NEW at, NEW n \in Nat, NEW m \in Nat, n <= m,
         NEW f, Rounds(loop, r, at, n, f), NEW g, Rounds(loop, r, at, m, g)
  PROVE  \A i \in 0 .. n : f[i] = g[i]
<1> DEFINE S == {i \in Nat : i <= n => f[i] = g[i]}
<1>1. /\ \A i \in 0 .. n : f[i] = IF i = 0 THEN at ELSE Step(loop, r, f[i - 1])
      /\ \A i \in 0 .. m : g[i] = IF i = 0 THEN at ELSE Step(loop, r, g[i - 1])
  BY DEF Rounds
<1>2. 0 \in S
  BY <1>1
<1>3. ASSUME NEW i \in Nat, i \in S
      PROVE  i + 1 \in S
  <2> SUFFICES ASSUME i + 1 <= n PROVE f[i + 1] = g[i + 1]
    OBVIOUS
  <2>1. /\ i + 1 \in 0 .. n /\ i + 1 \in 0 .. m /\ i + 1 # 0 /\ (i + 1) - 1 = i
        /\ f[i] = g[i]
    BY <1>3
  <2> QED
    BY <1>1, <2>1
<1> HIDE DEF S
<1>4. Nat \subseteq S
  BY <1>2, <1>3, SetInduction
<1> QED
  BY <1>4 DEF S

LEMMA RoundsExist ==
  ASSUME NEW loop, NEW r, NEW at
  PROVE  \A n \in Nat : \E f : Rounds(loop, r, at, n, f)
<1> DEFINE S == {n \in Nat : \E f : Rounds(loop, r, at, n, f)}
<1>1. 0 \in S
  <2>1. Rounds(loop, r, at, 0, [i \in 0 .. 0 |-> at])
    BY DEF Rounds
  <2> QED
    BY <2>1
<1>2. ASSUME NEW n \in Nat, n \in S
      PROVE  n + 1 \in S
  <2>1. PICK f : Rounds(loop, r, at, n, f)
    BY <1>2
  <2> DEFINE g == [i \in 0 .. n + 1 |-> IF i = n + 1 THEN Step(loop, r, f[n]) ELSE f[i]]
             h == [i \in 0 .. n + 1 |-> IF i = 0 THEN at ELSE Step(loop, r, g[i - 1])]
  <2>2. \A i \in 0 .. n : f[i] = IF i = 0 THEN at ELSE Step(loop, r, f[i - 1])
    BY <2>1 DEF Rounds
  <2>3. ASSUME NEW i \in 0 .. n + 1
        PROVE  g[i] = h[i]
    <3>1. CASE i = n + 1
      <4>1. n + 1 # 0 /\ (n + 1) - 1 = n /\ n \in 0 .. n + 1 /\ n # n + 1
        OBVIOUS
      <4> QED
        BY <3>1, <4>1
    <3>2. CASE i # n + 1 /\ i # 0
      <4>1. i \in 0 .. n /\ i - 1 \in 0 .. n + 1 /\ i - 1 # n + 1
        BY <3>2
      <4> QED
        BY <2>2, <3>2, <4>1
    <3>3. CASE i = 0
      <4>1. 0 \in 0 .. n /\ 0 # n + 1
        OBVIOUS
      <4> QED
        BY <2>2, <3>3, <4>1
    <3> QED
      BY <3>1, <3>2, <3>3
  <2>4. g = h
    BY <2>3
  <2>5. Rounds(loop, r, at, n + 1, g)
    BY <2>4 DEF Rounds
  <2> HIDE DEF g
  <2> QED
    BY <2>5
<1> HIDE DEF S
<1>3. Nat \subseteq S
  BY <1>1, <1>2, SetInduction
<1> QED
  BY <1>3 DEF S

Loop(loop, r, at) ==
  CHOOSE f : f = [n \in Nat |-> IF n = 0 THEN at ELSE Step(loop, r, f[n - 1])]

\* f is what the loop does in its rounds.
IsLoop(loop, r, at, f) ==
  f[0] = at /\ \A n \in Nat : f[n + 1] = Step(loop, r, f[n])

LEMMA LoopIsDefined ==
  ASSUME NEW loop, NEW r, NEW at
  PROVE  IsLoop(loop, r, at, Loop(loop, r, at))
<1> DEFINE F(n) == CHOOSE f : Rounds(loop, r, at, n, f)
           g == [n \in Nat |-> F(n)[n]]
           h == [n \in Nat |-> IF n = 0 THEN at ELSE Step(loop, r, g[n - 1])]
<1>1. \A n \in Nat : Rounds(loop, r, at, n, F(n))
  BY RoundsExist
<1> HIDE DEF F
<1>2. ASSUME NEW n \in Nat
      PROVE  g[n] = h[n]
  <2>1. F(n)[n] = IF n = 0 THEN at ELSE Step(loop, r, F(n)[n - 1])
    <3>1. n \in 0 .. n
      OBVIOUS
    <3> QED
      BY <1>1, <3>1 DEF Rounds
  <2>2. CASE n = 0
    BY <2>1, <2>2
  <2>3. CASE n # 0
    <3>1. n - 1 \in Nat /\ n - 1 <= n /\ n - 1 \in 0 .. n - 1
      BY <2>3
    <3>2. F(n - 1)[n - 1] = F(n)[n - 1]
      BY <1>1, <3>1, RoundsAgree
    <3> QED
      BY <2>1, <2>3, <3>1, <3>2
  <2> QED
    BY <2>2, <2>3
<1>3. g = h
  BY <1>2
<1>4. g = [n \in Nat |-> IF n = 0 THEN at ELSE Step(loop, r, g[n - 1])]
  BY <1>3
<1> HIDE DEF g, h
<1> DEFINE f == Loop(loop, r, at)
<1>5. f = [n \in Nat |-> IF n = 0 THEN at ELSE Step(loop, r, f[n - 1])]
  BY <1>4, Zenon DEF Loop
<1> HIDE DEF f
<1>6. f[0] = at
  BY <1>5
<1>7. ASSUME NEW n \in Nat
      PROVE  f[n + 1] = Step(loop, r, f[n])
  <2>1. n + 1 \in Nat /\ n + 1 # 0 /\ (n + 1) - 1 = n
    OBVIOUS
  <2> QED
    BY <1>5, <2>1
<1> QED
  BY <1>6, <1>7 DEF f, IsLoop

LEMMA LoopsAre ==
  ASSUME NEW r, NEW at
  PROVE  /\ CopyRows(r, at) = Loop("rows", r, at)[Size(r, 2)]
         /\ CopyPlanes(r, at) = Loop("planes", r, at)[Size(r, 3)]
<1>1. CopyRows(r, at) = Loop("rows", r, at)[Size(r, 2)]
  BY DEF CopyRows, Loop, Step
<1>2. CopyPlanes(r, at) = Loop("planes", r, at)[Size(r, 3)]
  BY DEF CopyPlanes, Loop, Step
<1> QED
  BY <1>1, <1>2

-----------------------------------------------------------------------------
(* What the loops copy                                                     *)

IsMemory(m) == m = [a \in Memory |-> m[a]]

\* The memory m, into which the n bytes at src have been copied, as it was before,
\* in old.
RowCopied(n, src, dst, old, m) ==
  /\ IsMemory(m)
  /\ \A x \in 0 .. n - 1 : dst + x \in Memory => m[dst + x] = old[src + x]
  /\ \A a \in Memory : (\A x \in 0 .. n - 1 : dst + x # a) => m[a] = old[a]

\* memcpy copies a row.
LEMMA RowCopies ==
  ASSUME NEW m, NEW dst \in Int, NEW src \in Int, NEW n \in Int
  PROVE  RowCopied(n, src, dst, m, CopyRow(m, dst, src, n))
<1>1. ASSUME NEW x \in 0 .. n - 1, dst + x \in Memory
      PROVE  CopyRow(m, dst, src, n)[dst + x] = m[src + x]
  <2>1. dst + x \in dst .. dst + n - 1 /\ src + ((dst + x) - dst) = src + x
    OBVIOUS
  <2> QED
    BY <1>1, <2>1 DEF CopyRow
<1>2. ASSUME NEW a \in Memory, \A x \in 0 .. n - 1 : dst + x # a
      PROVE  CopyRow(m, dst, src, n)[a] = m[a]
  <2>1. a \notin dst .. dst + n - 1
    <3> SUFFICES ASSUME a \in dst .. dst + n - 1 PROVE FALSE
      OBVIOUS
    <3>1. a \in Int /\ a - dst \in 0 .. n - 1 /\ dst + (a - dst) = a
      BY DMAAssumption
    <3> QED
      BY <1>2, <3>1
  <2> QED
    BY <2>1 DEF CopyRow
<1>3. IsMemory(CopyRow(m, dst, src, n))
  BY DEF IsMemory, CopyRow
<1> QED
  BY <1>1, <1>2, <1>3 DEF RowCopied

\* Byte x of row y, from a base with a distance between the rows.
Byte(base, x, y, stride) == (base + y * stride) + x

\* The rows from src to dst do not disturb each other.
RowsApart(n, k, src, dst, from, to) ==
  \A x \in 0 .. n - 1, y \in 0 .. k - 1 :
    /\ Byte(src, x, y, from) \in Memory
    /\ \A v \in 0 .. n - 1, w \in 0 .. k - 1 :
         /\ Byte(dst, v, w, to) # Byte(src, x, y, from)
         /\ Byte(dst, v, w, to) = Byte(dst, x, y, to) => v = x /\ w = y

\* The memory m, into which k rows have been copied, as it was before, in old.
RowsCopied(n, k, src, dst, from, to, old, m) ==
  /\ IsMemory(m)
  /\ \A x \in 0 .. n - 1, y \in 0 .. k - 1 :
       Byte(dst, x, y, to) \in Memory => m[Byte(dst, x, y, to)] = old[Byte(src, x, y, from)]
  /\ \A a \in Memory :
       (\A x \in 0 .. n - 1, y \in 0 .. k - 1 : Byte(dst, x, y, to) # a) => m[a] = old[a]

LEMMA RowsCopy ==
  ASSUME NEW r, NEW old, IsMemory(old), NEW src \in Int, NEW dst \in Int,
         Size(r, 1) \in Nat, Size(r, 2) \in Nat,
         SrcStride(r, 1) \in Nat, DstStride(r, 1) \in Nat,
         RowsApart(Size(r, 1), Size(r, 2), src, dst, SrcStride(r, 1), DstStride(r, 1))
  PROVE  LET at == CopyRows(r, [mem |-> old, dst |-> dst, src |-> src])
         IN  /\ at = [mem |-> at.mem, dst |-> dst + Size(r, 2) * DstStride(r, 1),
                      src |-> src + Size(r, 2) * SrcStride(r, 1)]
             /\ RowsCopied(Size(r, 1), Size(r, 2), src, dst, SrcStride(r, 1),
                           DstStride(r, 1), old, at.mem)
<1> DEFINE n == Size(r, 1)
           k == Size(r, 2)
           from == SrcStride(r, 1)
           to == DstStride(r, 1)
           start0 == [mem |-> old, dst |-> dst, src |-> src]
           rows == Loop("rows", r, start0)
           S == {y \in Nat : y <= k =>
                   /\ rows[y] = [mem |-> rows[y].mem, dst |-> dst + y * to,
                                 src |-> src + y * from]
                   /\ RowsCopied(n, y, src, dst, from, to, old, rows[y].mem)}
<1>1. rows[0] = start0 /\ \A y \in Nat : rows[y + 1] = NextRow(r, rows[y])
  <2>1. IsLoop("rows", r, start0, rows)
    BY LoopIsDefined
  <2> HIDE DEF rows, start0
  <2> QED
    BY <2>1 DEF IsLoop, Step
<1>2. CopyRows(r, start0) = rows[k]
  BY LoopsAre
<1>3. /\ n \in Nat /\ k \in Nat /\ from \in Nat /\ to \in Nat
      /\ RowsApart(n, k, src, dst, from, to)
  OBVIOUS
<1> HIDE DEF n, k, from, to, rows
<1>4. 0 \in S
  <2>1. rows[0] = [mem |-> rows[0].mem, dst |-> dst, src |-> src] /\ rows[0].mem = old
    BY <1>1
  <2>2. dst + 0 * to = dst /\ src + 0 * from = src /\ 0 .. 0 - 1 = {}
    BY <1>3
  <2> QED
    BY <2>1, <2>2 DEF RowsCopied
<1>5. ASSUME NEW y \in Nat, y \in S
      PROVE  y + 1 \in S
  <2> SUFFICES ASSUME y + 1 <= k
               PROVE  /\ rows[y + 1] = [mem |-> rows[y + 1].mem, dst |-> dst + (y + 1) * to,
                                         src |-> src + (y + 1) * from]
                      /\ RowsCopied(n, y + 1, src, dst, from, to, old, rows[y + 1].mem)
    OBVIOUS
  <2> DEFINE m == rows[y].mem
             m1 == rows[y + 1].mem
             d == dst + y * to
             s == src + y * from
  <2>1. rows[y].dst = d /\ rows[y].src = s /\ RowsCopied(n, y, src, dst, from, to, old, m)
    <3>1. y <= k
      BY <1>3
    <3> QED
      BY <1>5, <3>1
  <2>2. /\ m1 = CopyRow(m, d, s, n)
        /\ rows[y + 1] = [mem |-> m1, dst |-> d + to, src |-> s + from]
    <3>1. rows[y + 1] = [mem |-> CopyRow(rows[y].mem, rows[y].dst, rows[y].src, n),
                         dst |-> rows[y].dst + to, src |-> rows[y].src + from]
      BY <1>1 DEF NextRow, n, from, to
    <3> HIDE DEF d, s
    <3> QED
      BY <2>1, <3>1
  <2>3. d \in Int /\ s \in Int /\ d + to = dst + (y + 1) * to /\ s + from = src + (y + 1) * from
    BY <1>3
  <2>4. \A x \in 0 .. n - 1 : Byte(dst, x, y, to) = d + x /\ Byte(src, x, y, from) = s + x
    BY DEF Byte
  <2> HIDE DEF m, m1, d, s
  <2>5. /\ IsMemory(m1)
        /\ \A x \in 0 .. n - 1 : d + x \in Memory => m1[d + x] = m[s + x]
        /\ \A a \in Memory : (\A x \in 0 .. n - 1 : d + x # a) => m1[a] = m[a]
    <3>1. m1 = CopyRow(m, d, s, n)
      BY <2>2
    <3>2. n \in Int /\ d \in Int /\ s \in Int
      BY <1>3, <2>3
    <3>3. RowCopied(n, s, d, m, CopyRow(m, d, s, n))
      BY <3>2, RowCopies
    <3> QED
      BY <3>1, <3>3 DEF RowCopied
  <2>6. \A w \in 0 .. (y + 1) - 1 : w \in 0 .. k - 1 /\ (w = y \/ w \in 0 .. y - 1)
    BY <1>3
  <2>7. y \in 0 .. (y + 1) - 1 /\ \A w \in 0 .. y - 1 : w \in 0 .. (y + 1) - 1 /\ w # y
    OBVIOUS
  <2>8. ASSUME NEW x \in 0 .. n - 1, NEW w \in 0 .. (y + 1) - 1, Byte(dst, x, w, to) \in Memory
        PROVE  m1[Byte(dst, x, w, to)] = old[Byte(src, x, w, from)]
    <3>1. CASE w = y
      <4>1. m1[Byte(dst, x, w, to)] = m[Byte(src, x, w, from)]
        BY <2>4, <2>5, <2>8, <3>1
      <4>2. Byte(src, x, y, from) \in Memory
        BY <1>3, <2>6, <2>7 DEF RowsApart
      <4>3. \A v \in 0 .. n - 1, u \in 0 .. y - 1 : Byte(dst, v, u, to) # Byte(src, x, y, from)
        BY <1>3, <2>6, <2>7 DEF RowsApart
      <4>4. m[Byte(src, x, y, from)] = old[Byte(src, x, y, from)]
        BY <2>1, <4>2, <4>3 DEF RowsCopied
      <4> QED
        BY <3>1, <4>1, <4>4
    <3>2. CASE w # y
      <4>1. w \in 0 .. y - 1
        BY <2>6, <3>2
      <4>2. \A v \in 0 .. n - 1 : d + v # Byte(dst, x, w, to)
        <5> TAKE v \in 0 .. n - 1
        <5>1. Byte(dst, v, y, to) = Byte(dst, x, w, to) => v = x /\ y = w
          BY <1>3, <2>6, <2>7 DEF RowsApart
        <5> QED
          BY <2>4, <3>2, <5>1
      <4>3. m1[Byte(dst, x, w, to)] = m[Byte(dst, x, w, to)]
        BY <2>5, <2>8, <4>2
      <4>4. m[Byte(dst, x, w, to)] = old[Byte(src, x, w, from)]
        BY <2>1, <2>8, <4>1 DEF RowsCopied
      <4> QED
        BY <4>3, <4>4
    <3> QED
      BY <3>1, <3>2
  <2>9. ASSUME NEW a \in Memory,
               \A x \in 0 .. n - 1, w \in 0 .. (y + 1) - 1 : Byte(dst, x, w, to) # a
        PROVE  m1[a] = old[a]
    <3>1. \A x \in 0 .. n - 1 : d + x # a
      BY <2>4, <2>7, <2>9
    <3>2. m1[a] = m[a]
      BY <2>5, <3>1
    <3>3. m[a] = old[a]
      BY <2>1, <2>7, <2>9 DEF RowsCopied
    <3> QED
      BY <3>2, <3>3
  <2>10. RowsCopied(n, y + 1, src, dst, from, to, old, m1)
    BY <2>5, <2>8, <2>9 DEF RowsCopied
  <2> QED
    BY <2>2, <2>3, <2>10 DEF m1
<1> HIDE DEF S
<1>6. k \in S
  BY <1>3, <1>4, <1>5, SetInduction
<1>7. /\ rows[k] = [mem |-> rows[k].mem, dst |-> dst + k * to, src |-> src + k * from]
      /\ RowsCopied(n, k, src, dst, from, to, old, rows[k].mem)
  BY <1>3, <1>6 DEF S
<1> QED
  BY <1>2, <1>7 DEF n, k, from, to

\* The same for planes, of k rows each.
CubeApart(n, k, p, src, dst, from, to, fromPlane, toPlane) ==
  \A x \in 0 .. n - 1, y \in 0 .. k - 1, z \in 0 .. p - 1 :
    /\ Byte(src + z * fromPlane, x, y, from) \in Memory
    /\ \A v \in 0 .. n - 1, w \in 0 .. k - 1, u \in 0 .. p - 1 :
         /\ Byte(dst + u * toPlane, v, w, to) # Byte(src + z * fromPlane, x, y, from)
         /\ Byte(dst + u * toPlane, v, w, to) = Byte(dst + z * toPlane, x, y, to)
              => v = x /\ w = y /\ u = z

CubeCopied(n, k, p, src, dst, from, to, fromPlane, toPlane, old, m) ==
  /\ IsMemory(m)
  /\ \A x \in 0 .. n - 1, y \in 0 .. k - 1, z \in 0 .. p - 1 :
       Byte(dst + z * toPlane, x, y, to) \in Memory
         => m[Byte(dst + z * toPlane, x, y, to)] = old[Byte(src + z * fromPlane, x, y, from)]
  /\ \A a \in Memory :
       (\A x \in 0 .. n - 1, y \in 0 .. k - 1, z \in 0 .. p - 1 :
          Byte(dst + z * toPlane, x, y, to) # a) => m[a] = old[a]

LEMMA PlanesCopy ==
  ASSUME NEW r, NEW old, IsMemory(old), NEW src \in Int, NEW dst \in Int,
         Size(r, 1) \in Nat, Size(r, 2) \in Nat, Size(r, 3) \in Nat,
         SrcStride(r, 1) \in Nat, DstStride(r, 1) \in Nat,
         SrcStride(r, 2) \in Nat, DstStride(r, 2) \in Nat,
         CubeApart(Size(r, 1), Size(r, 2), Size(r, 3), src, dst, SrcStride(r, 1),
                   DstStride(r, 1), SrcStride(r, 2), DstStride(r, 2))
  PROVE  CubeCopied(Size(r, 1), Size(r, 2), Size(r, 3), src, dst, SrcStride(r, 1),
                    DstStride(r, 1), SrcStride(r, 2), DstStride(r, 2), old,
                    CopyPlanes(r, [mem |-> old, dst |-> dst, src |-> src]).mem)
<1> DEFINE n == Size(r, 1)
           k == Size(r, 2)
           p == Size(r, 3)
           from == SrcStride(r, 1)
           to == DstStride(r, 1)
           from2 == SrcStride(r, 2)
           to2 == DstStride(r, 2)
           start0 == [mem |-> old, dst |-> dst, src |-> src]
           planes == Loop("planes", r, start0)
           S == {z \in Nat : z <= p =>
                   /\ planes[z] = [mem |-> planes[z].mem, dst |-> dst + z * to2,
                                   src |-> src + z * from2]
                   /\ CubeCopied(n, k, z, src, dst, from, to, from2, to2, old,
                                 planes[z].mem)}
<1>1. /\ planes[0] = start0
      /\ \A z \in Nat : planes[z + 1] = NextPlane(r, CopyRows(r, planes[z]))
  <2>1. IsLoop("planes", r, start0, planes)
    BY LoopIsDefined
  <2> HIDE DEF planes, start0
  <2> QED
    BY <2>1 DEF IsLoop, Step
<1>2. CopyPlanes(r, start0) = planes[p]
  BY LoopsAre
<1>3. /\ n \in Nat /\ k \in Nat /\ p \in Nat /\ from \in Nat /\ to \in Nat
      /\ from2 \in Nat /\ to2 \in Nat
      /\ CubeApart(n, k, p, src, dst, from, to, from2, to2)
  OBVIOUS
<1> HIDE DEF n, k, p, from, to, from2, to2, planes
<1> DEFINE FromByte(x, y, z) == Byte(src + z * from2, x, y, from)
           ToByte(x, y, z) == Byte(dst + z * to2, x, y, to)
<1>8. ASSUME NEW x \in 0 .. n - 1, NEW y \in 0 .. k - 1, NEW z \in 0 .. p - 1
      PROVE  FromByte(x, y, z) \in Memory
  BY <1>3, Zenon DEF CubeApart
<1>9. ASSUME NEW x \in 0 .. n - 1, NEW y \in 0 .. k - 1, NEW z \in 0 .. p - 1,
             NEW v \in 0 .. n - 1, NEW w \in 0 .. k - 1, NEW u \in 0 .. p - 1
      PROVE  /\ ToByte(v, w, u) # FromByte(x, y, z)
             /\ ToByte(v, w, u) = ToByte(x, y, z) => v = x /\ w = y /\ u = z
  <2>1. CubeApart(n, k, p, src, dst, from, to, from2, to2)
    BY <1>3
  <2> HIDE DEF start0, S
  <2> QED
    BY <2>1 DEF CubeApart
<1>4. 0 \in S
  <2>1. planes[0] = [mem |-> planes[0].mem, dst |-> dst, src |-> src] /\ planes[0].mem = old
    BY <1>1
  <2>2. dst + 0 * to2 = dst /\ src + 0 * from2 = src /\ 0 .. 0 - 1 = {}
    BY <1>3
  <2> QED
    BY <2>1, <2>2 DEF CubeCopied
<1>5. ASSUME NEW z \in Nat, z \in S
      PROVE  z + 1 \in S
  <2> SUFFICES ASSUME z + 1 <= p
               PROVE  /\ planes[z + 1] = [mem |-> planes[z + 1].mem,
                                          dst |-> dst + (z + 1) * to2,
                                          src |-> src + (z + 1) * from2]
                      /\ CubeCopied(n, k, z + 1, src, dst, from, to, from2, to2, old,
                                    planes[z + 1].mem)
    OBVIOUS
  <2> DEFINE m == planes[z].mem
             m1 == planes[z + 1].mem
             d == dst + z * to2
             s == src + z * from2
             at == CopyRows(r, [mem |-> m, dst |-> d, src |-> s])
  <2>1. /\ planes[z] = [mem |-> m, dst |-> d, src |-> s]
        /\ CubeCopied(n, k, z, src, dst, from, to, from2, to2, old, m)
    <3>1. z <= p
      BY <1>3
    <3> QED
      BY <1>5, <3>1
  <2>2. d \in Int /\ s \in Int /\ d + to2 = dst + (z + 1) * to2 /\ s + from2 = src + (z + 1) * from2
    BY <1>3
  <2>3. \A u \in 0 .. (z + 1) - 1 : u \in 0 .. p - 1 /\ (u = z \/ u \in 0 .. z - 1)
    BY <1>3
  <2>4. z \in 0 .. (z + 1) - 1 /\ \A u \in 0 .. z - 1 : u \in 0 .. (z + 1) - 1 /\ u # z
    OBVIOUS
  <2>5. RowsApart(n, k, s, d, from, to)
    <3>1. z \in 0 .. p - 1
      BY <2>3, <2>4
    <3>2. ASSUME NEW x \in 0 .. n - 1, NEW y \in 0 .. k - 1
          PROVE  Byte(s, x, y, from) \in Memory
      BY <1>8, <3>1
    <3>3. ASSUME NEW x \in 0 .. n - 1, NEW y \in 0 .. k - 1,
                 NEW v \in 0 .. n - 1, NEW w \in 0 .. k - 1
          PROVE  /\ Byte(d, v, w, to) # Byte(s, x, y, from)
                 /\ Byte(d, v, w, to) = Byte(d, x, y, to) => v = x /\ w = y
      BY <1>9, <3>1
    <3> HIDE DEF s, d
    <3> QED
      BY <3>2, <3>3, Zenon DEF RowsApart
  <2>6. /\ at = [mem |-> at.mem, dst |-> d + k * to, src |-> s + k * from]
        /\ RowsCopied(n, k, s, d, from, to, m, at.mem)
    <3> HIDE DEF m, d, s
    <3>1. IsMemory(m)
      BY <2>1 DEF CubeCopied
    <3> QED
      BY <1>3, <2>2, <2>5, <3>1, RowsCopy DEF n, k, from, to
  <2>7. planes[z + 1] = [mem |-> at.mem, dst |-> dst + (z + 1) * to2, src |-> src + (z + 1) * from2]
    <3>1. planes[z + 1] = [at EXCEPT !.dst = @ + to2 - k * to, !.src = @ + from2 - k * from]
      BY <1>1, <2>1 DEF NextPlane, to2, k, to, from2, from
    <3> HIDE DEF at, d, s
    <3>2. planes[z + 1] = [mem |-> at.mem, dst |-> (d + k * to) + to2 - k * to,
                           src |-> (s + k * from) + from2 - k * from]
      <4>1. at.dst = d + k * to /\ at.src = s + k * from
        BY <2>6
      <4>2. planes[z + 1] = [[mem |-> at.mem, dst |-> d + k * to, src |-> s + k * from]
              EXCEPT !.dst = (d + k * to) + to2 - k * to, !.src = (s + k * from) + from2 - k * from]
        BY <2>6, <3>1, <4>1
      <4> QED
        BY <4>2
    <3>3. k * to \in Int /\ k * from \in Int
      BY <1>3
    <3>4. (d + k * to) + to2 - k * to = d + to2 /\ (s + k * from) + from2 - k * from = s + from2
      BY <1>3, <2>2, <3>3
    <3> QED
      BY <2>2, <3>2, <3>4
  <2>8. m1 = at.mem
    BY <2>7
  <2> HIDE DEF m, m1, d, s, at
  <2>9. ASSUME NEW x \in 0 .. n - 1, NEW y \in 0 .. k - 1, NEW u \in 0 .. (z + 1) - 1,
               Byte(dst + u * to2, x, y, to) \in Memory
        PROVE  m1[Byte(dst + u * to2, x, y, to)] = old[Byte(src + u * from2, x, y, from)]
    <3>1. CASE u = z
      <4>1. Byte(d, x, y, to) \in Memory
        BY <2>9, <3>1 DEF d
      <4>2. m1[Byte(d, x, y, to)] = m[Byte(s, x, y, from)]
        BY <2>6, <2>8, <4>1 DEF RowsCopied
      <4>3. Byte(s, x, y, from) \in Memory
        BY <2>5 DEF RowsApart
      <4>4. \A v \in 0 .. n - 1, w \in 0 .. k - 1, i \in 0 .. z - 1 :
              Byte(dst + i * to2, v, w, to) # Byte(s, x, y, from)
        <5> TAKE v \in 0 .. n - 1, w \in 0 .. k - 1, i \in 0 .. z - 1
        <5>1. i \in 0 .. p - 1 /\ z \in 0 .. p - 1
          BY <2>3, <2>4
        <5> QED
          BY <1>9, <5>1 DEF s
      <4>5. m[Byte(s, x, y, from)] = old[Byte(s, x, y, from)]
        BY <2>1, <4>3, <4>4, Zenon DEF CubeCopied
      <4> QED
        BY <3>1, <4>2, <4>5 DEF d, s
    <3>2. CASE u # z
      <4> DEFINE a == Byte(dst + u * to2, x, y, to)
      <4>1. u \in 0 .. z - 1
        BY <2>3, <3>2
      <4>2. \A v \in 0 .. n - 1, w \in 0 .. k - 1 : Byte(d, v, w, to) # a
        <5> TAKE v \in 0 .. n - 1, w \in 0 .. k - 1
        <5>1. Byte(d, v, w, to) = a => z = u
          <6>1. u \in 0 .. p - 1 /\ z \in 0 .. p - 1
            BY <2>3, <2>4
          <6> QED
            BY <1>9, <6>1 DEF d
        <5> QED
          BY <3>2, <5>1
      <4>3. m1[a] = m[a]
        BY <2>6, <2>8, <2>9, <4>2, Zenon DEF RowsCopied
      <4>4. m[a] = old[Byte(src + u * from2, x, y, from)]
        BY <2>1, <2>9, <4>1, Zenon DEF CubeCopied
      <4> QED
        BY <4>3, <4>4
    <3> QED
      BY <3>1, <3>2
  <2>10. ASSUME NEW a \in Memory,
                \A x \in 0 .. n - 1, y \in 0 .. k - 1, u \in 0 .. (z + 1) - 1 :
                  Byte(dst + u * to2, x, y, to) # a
         PROVE  m1[a] = old[a]
    <3>1. \A x \in 0 .. n - 1, y \in 0 .. k - 1 : Byte(d, x, y, to) # a
      BY <2>4, <2>10, Zenon DEF d
    <3>2. m1[a] = m[a]
      BY <2>6, <2>8, <3>1, Zenon DEF RowsCopied
    <3>3. m[a] = old[a]
      BY <2>1, <2>4, <2>10, Zenon DEF CubeCopied
    <3> QED
      BY <3>2, <3>3
  <2>11. CubeCopied(n, k, z + 1, src, dst, from, to, from2, to2, old, m1)
    <3>1. IsMemory(m1)
      BY <2>6, <2>8 DEF RowsCopied
    <3> QED
      BY <2>9, <2>10, <3>1, Zenon DEF CubeCopied
  <2> QED
    BY <2>7, <2>8, <2>11 DEF m1
<1> HIDE DEF S
<1>6. p \in S
  BY <1>3, <1>4, <1>5, SetInduction
<1>7. CubeCopied(n, k, p, src, dst, from, to, from2, to2, old, planes[p].mem)
  BY <1>3, <1>6 DEF S
<1> QED
  BY <1>2, <1>7 DEF n, k, p, from, to, from2, to2

-----------------------------------------------------------------------------
(* A transfer copies what is asked for                                     *)

\* The memory m has what the job asks for, copied from old.
LEMMA IsAsked ==
  ASSUME NEW j, KeepsApart(j), NEW old, NEW m, IsMemory(m),
         \A c \in Cells(j) : To(j, c) \in Memory => m[To(j, c)] = old[From(j, c)],
         \A a \in Memory : (\A c \in Cells(j) : To(j, c) # a) => m[a] = old[a]
  PROVE  m = Asked(j, old)
<1>1. ASSUME NEW a \in Memory
      PROVE  m[a] = Asked(j, old)[a]
  <2> DEFINE C == CHOOSE c \in Cells(j) : To(j, c) = a
  <2>1. CASE \E c \in Cells(j) : To(j, c) = a
    <3>1. C \in Cells(j) /\ To(j, C) = a
      BY <2>1
    <3> HIDE DEF C
    <3>2. m[a] = old[From(j, C)]
      BY <3>1
    <3>3. Asked(j, old)[a] = old[From(j, C)]
      BY <2>1 DEF Asked, C
    <3> QED
      BY <3>2, <3>3
  <2>2. CASE ~\E c \in Cells(j) : To(j, c) = a
    BY <2>2 DEF Asked
  <2> QED
    BY <2>1, <2>2
<1>2. Asked(j, old) = [a \in Memory |-> Asked(j, old)[a]]
  BY DEF Asked
<1> HIDE DEF Asked
<1> QED
  BY <1>1, <1>2 DEF IsMemory, Asked

\* The register file r describes the job.
Describes(r, j) ==
  /\ Dim(r) = j.dim /\ r["SRCADDR"] = j.src /\ r["DSTADDR"] = j.dst
  /\ \A i \in 1 .. j.dim : Size(r, i) = j.size[i]
  /\ \A i \in 1 .. j.dim - 1 : /\ SrcStride(r, i) = j.srcStride[i]
                               /\ DstStride(r, i) = j.dstStride[i]

\* The cells of a job, by their coordinates.
LEMMA JobCells ==
  ASSUME NEW j \in Job
  PROVE  /\ \A c \in Cells(j) :
              \E x \in Extent(j, 1), y \in Extent(j, 2), z \in Extent(j, 3) : c = <<x, y, z>>
         /\ \A x \in Extent(j, 1), y \in Extent(j, 2), z \in Extent(j, 3) :
              <<x, y, z>> \in Cells(j)
         /\ j.src \in Int /\ j.dst \in Int /\ j.dim \in 1 .. 3
         /\ \A i \in 1 .. 3 : j.size[i] \in Nat
         /\ \A i \in 1 .. 2 : j.srcStride[i] \in Nat /\ j.dstStride[i] \in Nat
BY DEF Cells, Job

\* A transfer of one row.
LEMMA LineIsAsked ==
  ASSUME NEW j \in Job, KeepsApart(j), NEW r, Describes(r, j), NEW m, IsMemory(m), j.dim = 1
  PROVE  Copied(r, m) = Asked(j, m)
<1> DEFINE n == j.size[1]
           new == CopyRow(m, j.dst, j.src, n)
<1>1. n \in Nat /\ j.src \in Int /\ j.dst \in Int
  BY JobCells
<1>2. Copied(r, m) = new
  BY DEF Copied, Describes
<1>3. RowCopied(n, j.src, j.dst, m, new)
  BY <1>1, RowCopies
<1>4. Extent(j, 1) = 0 .. n - 1 /\ Extent(j, 2) = {0} /\ Extent(j, 3) = {0}
  BY <1>1 DEF Extent
<1> HIDE DEF n, new
<1>5. ASSUME NEW x \in 0 .. n - 1
      PROVE  /\ <<x, 0, 0>> \in Cells(j)
             /\ To(j, <<x, 0, 0>>) = j.dst + x /\ From(j, <<x, 0, 0>>) = j.src + x
  <2>1. <<x, 0, 0>> \in Cells(j)
    BY <1>4, JobCells
  <2>2. \A s \in Nat : 0 * s = 0
    OBVIOUS
  <2>3. j.dst \in Int /\ j.src \in Int /\ x \in Int
    BY <1>1
  <2>4. /\ j.dst + x + 0 * j.dstStride[1] + 0 * j.dstStride[2] = j.dst + x
        /\ j.src + x + 0 * j.srcStride[1] + 0 * j.srcStride[2] = j.src + x
    BY <2>2, <2>3, JobCells
  <2> QED
    BY <2>1, <2>4 DEF To, From
<1>6. \A c \in Cells(j) : \E x \in 0 .. n - 1 : c = <<x, 0, 0>>
  <2> TAKE c \in Cells(j)
  <2>1. PICK x \in Extent(j, 1), y \in Extent(j, 2), z \in Extent(j, 3) : c = <<x, y, z>>
    BY JobCells, Zenon
  <2> QED
    BY <1>4, <2>1
<1>7. \A c \in Cells(j) : To(j, c) \in Memory => new[To(j, c)] = m[From(j, c)]
  BY <1>3, <1>5, <1>6 DEF RowCopied
<1>8. \A a \in Memory : (\A c \in Cells(j) : To(j, c) # a) => new[a] = m[a]
  BY <1>3, <1>5 DEF RowCopied
<1>9. IsMemory(new)
  BY <1>3 DEF RowCopied
<1> QED
  BY <1>2, <1>7, <1>8, <1>9, IsAsked

\* A transfer of rows.
LEMMA RectIsAsked ==
  ASSUME NEW j \in Job, KeepsApart(j), NEW r, Describes(r, j), NEW m, IsMemory(m), j.dim = 2
  PROVE  Copied(r, m) = Asked(j, m)
<1> DEFINE n == j.size[1]
           k == j.size[2]
           from == j.srcStride[1]
           to == j.dstStride[1]
           new == CopyRows(r, [mem |-> m, dst |-> j.dst, src |-> j.src]).mem
<1>1. /\ n \in Nat /\ k \in Nat /\ from \in Nat /\ to \in Nat
      /\ j.src \in Int /\ j.dst \in Int
  BY JobCells
<1>2. Copied(r, m) = new
  BY DEF Copied, Describes
<1>3. Size(r, 1) = n /\ Size(r, 2) = k /\ SrcStride(r, 1) = from /\ DstStride(r, 1) = to
  BY DEF Describes
<1>4. Extent(j, 1) = 0 .. n - 1 /\ Extent(j, 2) = 0 .. k - 1 /\ Extent(j, 3) = {0}
  BY <1>1 DEF Extent
<1> HIDE DEF n, k
<1>5. ASSUME NEW x \in 0 .. n - 1, NEW y \in 0 .. k - 1
      PROVE  /\ <<x, y, 0>> \in Cells(j)
             /\ To(j, <<x, y, 0>>) = Byte(j.dst, x, y, to)
             /\ From(j, <<x, y, 0>>) = Byte(j.src, x, y, from)
  <2>1. <<x, y, 0>> \in Cells(j)
    BY <1>4, JobCells
  <2>2. \A s \in Nat : 0 * s = 0
    OBVIOUS
  <2>3. j.dst \in Int /\ j.src \in Int /\ x \in Int /\ y \in Int
    BY <1>1
  <2>4. y * to \in Int /\ y * from \in Int
    BY <1>1, <2>3
  <2> HIDE DEF to, from
  <2>5. /\ j.dst + x + y * to + 0 * j.dstStride[2] = (j.dst + y * to) + x
        /\ j.src + x + y * from + 0 * j.srcStride[2] = (j.src + y * from) + x
    BY <2>2, <2>3, <2>4, JobCells
  <2> QED
    BY <2>1, <2>5 DEF To, From, Byte, to, from
<1> HIDE DEF from, to
<1>6. \A c \in Cells(j) : \E x \in 0 .. n - 1, y \in 0 .. k - 1 : c = <<x, y, 0>>
  <2> TAKE c \in Cells(j)
  <2>1. PICK x \in Extent(j, 1), y \in Extent(j, 2), z \in Extent(j, 3) : c = <<x, y, z>>
    BY JobCells, Zenon
  <2> QED
    BY <1>4, <2>1
<1>7. RowsApart(n, k, j.src, j.dst, from, to)
  <2>1. ASSUME NEW x \in 0 .. n - 1, NEW y \in 0 .. k - 1
        PROVE  Byte(j.src, x, y, from) \in Memory
    BY <1>5 DEF KeepsApart
  <2>2. ASSUME NEW x \in 0 .. n - 1, NEW y \in 0 .. k - 1,
               NEW v \in 0 .. n - 1, NEW w \in 0 .. k - 1
        PROVE  /\ Byte(j.dst, v, w, to) # Byte(j.src, x, y, from)
               /\ Byte(j.dst, v, w, to) = Byte(j.dst, x, y, to) => v = x /\ w = y
    <3> DEFINE c == <<x, y, 0>>
               d == <<v, w, 0>>
    <3>1. d = c => v = x /\ w = y
      OBVIOUS
    <3>2. c \in Cells(j) /\ d \in Cells(j) /\ From(j, c) = Byte(j.src, x, y, from)
          /\ To(j, c) = Byte(j.dst, x, y, to) /\ To(j, d) = Byte(j.dst, v, w, to)
      BY <1>5
    <3> HIDE DEF c, d
    <3>3. To(j, d) # From(j, c) /\ (To(j, d) = To(j, c) => d = c)
      BY <3>2 DEF KeepsApart
    <3> QED
      BY <3>1, <3>2, <3>3
  <2> QED
    BY <2>1, <2>2 DEF RowsApart
<1>8. RowsCopied(n, k, j.src, j.dst, from, to, m, new)
  BY <1>1, <1>3, <1>7, RowsCopy
<1> HIDE DEF new
<1>9. \A c \in Cells(j) : To(j, c) \in Memory => new[To(j, c)] = m[From(j, c)]
  BY <1>5, <1>6, <1>8 DEF RowsCopied
<1>10. \A a \in Memory : (\A c \in Cells(j) : To(j, c) # a) => new[a] = m[a]
  BY <1>5, <1>8 DEF RowsCopied
<1>11. IsMemory(new)
  BY <1>8 DEF RowsCopied
<1> QED
  BY <1>2, <1>9, <1>10, <1>11, IsAsked

\* A transfer of planes.
LEMMA BoxIsAsked ==
  ASSUME NEW j \in Job, KeepsApart(j), NEW r, Describes(r, j), NEW m, IsMemory(m), j.dim = 3
  PROVE  Copied(r, m) = Asked(j, m)
<1> DEFINE n == j.size[1]
           k == j.size[2]
           p == j.size[3]
           from == j.srcStride[1]
           to == j.dstStride[1]
           from2 == j.srcStride[2]
           to2 == j.dstStride[2]
           new == CopyPlanes(r, [mem |-> m, dst |-> j.dst, src |-> j.src]).mem
<1>1. /\ n \in Nat /\ k \in Nat /\ p \in Nat /\ from \in Nat /\ to \in Nat
      /\ from2 \in Nat /\ to2 \in Nat /\ j.src \in Int /\ j.dst \in Int
  BY JobCells
<1>2. Copied(r, m) = new
  BY DEF Copied, Describes
<1>3. /\ Size(r, 1) = n /\ Size(r, 2) = k /\ Size(r, 3) = p
      /\ SrcStride(r, 1) = from /\ DstStride(r, 1) = to
      /\ SrcStride(r, 2) = from2 /\ DstStride(r, 2) = to2
  BY DEF Describes
<1>4. Extent(j, 1) = 0 .. n - 1 /\ Extent(j, 2) = 0 .. k - 1 /\ Extent(j, 3) = 0 .. p - 1
  BY DEF Extent
<1> HIDE DEF n, k, p, from, to, from2, to2
<1>5. ASSUME NEW x \in 0 .. n - 1, NEW y \in 0 .. k - 1, NEW z \in 0 .. p - 1
      PROVE  /\ <<x, y, z>> \in Cells(j)
             /\ To(j, <<x, y, z>>) = Byte(j.dst + z * to2, x, y, to)
             /\ From(j, <<x, y, z>>) = Byte(j.src + z * from2, x, y, from)
  <2>1. <<x, y, z>> \in Cells(j)
    BY <1>4, JobCells
  <2>2. ASSUME NEW b \in Int, NEW c \in Int, NEW d \in Int
        PROVE  b + x + c + d = ((b + d) + c) + x
    BY <1>1
  <2>3. j.dst \in Int /\ j.src \in Int
    BY <1>1
  <2>4. y * to \in Int /\ y * from \in Int /\ z * to2 \in Int /\ z * from2 \in Int
    BY <1>1
  <2>5. /\ j.dst + x + y * to + z * to2 = ((j.dst + z * to2) + y * to) + x
        /\ j.src + x + y * from + z * from2 = ((j.src + z * from2) + y * from) + x
    BY <2>2, <2>3, <2>4
  <2> QED
    BY <2>1, <2>5 DEF To, From, Byte, to, from, to2, from2
<1>6. \A c \in Cells(j) : \E x \in 0 .. n - 1, y \in 0 .. k - 1, z \in 0 .. p - 1 : c = <<x, y, z>>
  <2> TAKE c \in Cells(j)
  <2>1. PICK x \in Extent(j, 1), y \in Extent(j, 2), z \in Extent(j, 3) : c = <<x, y, z>>
    BY JobCells, Zenon
  <2> QED
    BY <1>4, <2>1
<1>7. CubeApart(n, k, p, j.src, j.dst, from, to, from2, to2)
  <2>1. ASSUME NEW x \in 0 .. n - 1, NEW y \in 0 .. k - 1, NEW z \in 0 .. p - 1
        PROVE  Byte(j.src + z * from2, x, y, from) \in Memory
    BY <1>5 DEF KeepsApart
  <2>2. ASSUME NEW x \in 0 .. n - 1, NEW y \in 0 .. k - 1, NEW z \in 0 .. p - 1,
               NEW v \in 0 .. n - 1, NEW w \in 0 .. k - 1, NEW u \in 0 .. p - 1
        PROVE  /\ Byte(j.dst + u * to2, v, w, to) # Byte(j.src + z * from2, x, y, from)
               /\ Byte(j.dst + u * to2, v, w, to) = Byte(j.dst + z * to2, x, y, to)
                    => v = x /\ w = y /\ u = z
    <3> DEFINE c == <<x, y, z>>
               d == <<v, w, u>>
    <3>1. d = c => v = x /\ w = y /\ u = z
      OBVIOUS
    <3>2. /\ c \in Cells(j) /\ d \in Cells(j)
          /\ From(j, c) = Byte(j.src + z * from2, x, y, from)
          /\ To(j, c) = Byte(j.dst + z * to2, x, y, to)
          /\ To(j, d) = Byte(j.dst + u * to2, v, w, to)
      BY <1>5
    <3> HIDE DEF c, d
    <3>3. To(j, d) # From(j, c) /\ (To(j, d) = To(j, c) => d = c)
      BY <3>2 DEF KeepsApart
    <3> QED
      BY <3>1, <3>2, <3>3
  <2> QED
    BY <2>1, <2>2 DEF CubeApart
<1>8. CubeCopied(n, k, p, j.src, j.dst, from, to, from2, to2, m, new)
  BY <1>1, <1>3, <1>7, PlanesCopy
<1> HIDE DEF new
<1>9. \A c \in Cells(j) : To(j, c) \in Memory => new[To(j, c)] = m[From(j, c)]
  BY <1>5, <1>6, <1>8 DEF CubeCopied
<1>10. \A a \in Memory : (\A c \in Cells(j) : To(j, c) # a) => new[a] = m[a]
  <2> SUFFICES ASSUME NEW a \in Memory, \A c \in Cells(j) : To(j, c) # a
               PROVE  new[a] = m[a]
    OBVIOUS
  <2>1. ASSUME NEW x \in 0 .. n - 1, NEW y \in 0 .. k - 1, NEW z \in 0 .. p - 1
        PROVE  Byte(j.dst + z * to2, x, y, to) # a
    BY <1>5
  <2> QED
    BY <1>8, <2>1 DEF CubeCopied
<1>11. IsMemory(new)
  BY <1>8 DEF CubeCopied
<1> QED
  BY <1>2, <1>9, <1>10, <1>11, IsAsked

\* What the device copies is what the job asks for.
LEMMA CopiedIsAsked ==
  ASSUME NEW j \in Job, KeepsApart(j), NEW r, Describes(r, j), NEW m, IsMemory(m)
  PROVE  Copied(r, m) = Asked(j, m) /\ IsMemory(Asked(j, m))
<1>1. j.dim \in {1, 2, 3}
  BY DEF Job
<1>2. Copied(r, m) = Asked(j, m)
  BY <1>1, LineIsAsked, RectIsAsked, BoxIsAsked
<1>3. IsMemory(Asked(j, m))
  BY DEF IsMemory, Asked
<1> QED
  BY <1>2, <1>3

-----------------------------------------------------------------------------
(* The registers                                                           *)

\* s has the n elements of e.
IsList(S, s, n) == s \in Seq(S) /\ Len(s) = n

\* st is the n elements of s and then the k elements of t.
IsJoined(S, s, n, t, k, st) ==
  /\ IsList(S, st, n + k)
  /\ \A i \in 1 .. n : st[i] = s[i]
  /\ \A i \in 1 .. k : st[n + i] = t[i]

LEMMA Joined ==
  ASSUME NEW S, NEW s, NEW t, NEW n \in Nat, NEW k \in Nat,
         IsList(S, s, n), IsList(S, t, k)
  PROVE  IsJoined(S, s, n, t, k, s \o t)
<1>1. s \in Seq(S) /\ t \in Seq(S) /\ Len(s) = n /\ Len(t) = k
  BY DEF IsList
<1>2. /\ s \o t \in Seq(S) /\ Len(s \o t) = Len(s) + Len(t)
      /\ \A i \in 1 .. Len(s) : (s \o t)[i] = s[i]
      /\ \A i \in 1 .. Len(t) : (s \o t)[Len(s) + i] = t[i]
  BY <1>1
<1> QED
  BY <1>1, <1>2 DEF IsList, IsJoined

\* The writes of the strides or sizes of a job.
ArePairs(S, names, values, n, list) ==
  /\ IsList(S, list, n)
  /\ \A i \in 1 .. n : list[i] = <<names[i], values[i]>>

LEMMA StridesAt ==
  ASSUME NEW S, NEW names, NEW values, NEW n \in Nat,
         \A i \in 1 .. n : <<names[i], values[i]>> \in S
  PROVE  ArePairs(S, names, values, n, Strides(names, values, n))
<1>1. Strides(names, values, n) \in [1 .. n -> S]
  BY DEF Strides
<1>2. Strides(names, values, n) \in Seq(S) /\ Len(Strides(names, values, n)) = n
  BY <1>1
<1> QED
  BY <1>2 DEF IsList, ArePairs, Strides

\* The value of DMACTRL for the job.
Control(j) == <<j.dim, IF j.dim = 1 THEN {} ELSE {"src", "dst"}>>

\* The writes of a job, by their number.
WritesOf(u, j, w, d) ==
  /\ Len(w) = 3 * d + 1
  /\ w[1] = IF u = Cmp THEN <<"SRCADDR", j.src>> ELSE <<"DSTADDR", j.dst>>
  /\ w[2] = IF u = Cmp THEN <<"DSTADDR", j.dst>> ELSE <<"SRCADDR", j.src>>
  /\ \A i \in 1 .. d : w[2 + i] = <<Sizes[i], j.size[i]>>
  /\ \A i \in 1 .. d - 1 : w[2 + d + i] = <<SrcStrides[i], j.srcStride[i]>>
  /\ \A i \in 1 .. d - 1 : w[2 * d + 1 + i] = <<DstStrides[i], j.dstStride[i]>>
  /\ w[3 * d + 1] = <<"CTRL", Control(j)>>

LEMMA WritesAt ==
  ASSUME NEW u, NEW j \in Job
  PROVE  WritesOf(u, j, Writes(u, j), j.dim)
<1> DEFINE S == Registers \X (Nat \cup {Control(j)})
           d == j.dim
           s1 == IF u = Cmp THEN << <<"SRCADDR", j.src>>, <<"DSTADDR", j.dst>> >>
                            ELSE << <<"DSTADDR", j.dst>>, <<"SRCADDR", j.src>> >>
           s2 == Strides(Sizes, j.size, d)
           s3 == Strides(SrcStrides, j.srcStride, d - 1)
           s4 == Strides(DstStrides, j.dstStride, d - 1)
           s5 == << <<"CTRL", Control(j)>> >>
           t2 == s1 \o s2   t3 == t2 \o s3   t4 == t3 \o s4   t5 == t4 \o s5
<1>1. /\ j.src \in Nat /\ j.dst \in Nat /\ d \in 1 .. 3
      /\ \A i \in 1 .. 3 : j.size[i] \in Nat
      /\ \A i \in 1 .. 2 : j.srcStride[i] \in Nat /\ j.dstStride[i] \in Nat
  BY DEF Job
<1>2. /\ "SRCADDR" \in Registers /\ "DSTADDR" \in Registers /\ "CTRL" \in Registers
      /\ \A i \in 1 .. 3 : Sizes[i] \in Registers
      /\ \A i \in 1 .. 2 : SrcStrides[i] \in Registers /\ DstStrides[i] \in Registers
  BY DEF Registers
<1>3. IsList(S, s1, 2)
  <2>1. <<"SRCADDR", j.src>> \in S /\ <<"DSTADDR", j.dst>> \in S
    BY <1>1, <1>2
  <2> HIDE DEF S
  <2>2. CASE u = Cmp
    BY <2>1, <2>2 DEF IsList
  <2>3. CASE u # Cmp
    BY <2>1, <2>3 DEF IsList
  <2> QED
    BY <2>2, <2>3
<1>4. IsList(S, s5, 1)
  <2>1. <<"CTRL", Control(j)>> \in S
    BY <1>2
  <2> HIDE DEF S
  <2> QED
    BY <2>1 DEF IsList
<1>5. /\ s1[1] = IF u = Cmp THEN <<"SRCADDR", j.src>> ELSE <<"DSTADDR", j.dst>>
      /\ s1[2] = IF u = Cmp THEN <<"DSTADDR", j.dst>> ELSE <<"SRCADDR", j.src>>
      /\ s5[1] = <<"CTRL", Control(j)>>
  OBVIOUS
<1>6. Writes(u, j) = t5
  BY DEF Writes, Control
<1> HIDE DEF S, d, t2, t3, t4, t5
<1>7. d \in Nat /\ d - 1 \in Nat
  BY <1>1
<1>8. /\ \A i \in 1 .. d : <<Sizes[i], j.size[i]>> \in S
      /\ \A i \in 1 .. d - 1 : /\ <<SrcStrides[i], j.srcStride[i]>> \in S
                               /\ <<DstStrides[i], j.dstStride[i]>> \in S
  BY <1>1, <1>2 DEF S
<1>9. ArePairs(S, Sizes, j.size, d, s2)
  BY <1>7, <1>8, StridesAt
<1>10. ArePairs(S, SrcStrides, j.srcStride, d - 1, s3)
  BY <1>7, <1>8, StridesAt
<1>11. ArePairs(S, DstStrides, j.dstStride, d - 1, s4)
  BY <1>7, <1>8, StridesAt
<1> HIDE DEF s1, s2, s3, s4, s5
<1>12. IsJoined(S, s1, 2, s2, d, t2)
  BY <1>3, <1>7, <1>9, Joined DEF t2, ArePairs
<1>13. IsJoined(S, t2, 2 + d, s3, d - 1, t3)
  <2>1. 2 + d \in Nat /\ IsList(S, t2, 2 + d)
    BY <1>7, <1>12 DEF IsJoined
  <2> QED
    BY <1>7, <1>10, <2>1, Joined DEF t3, ArePairs
<1>14. IsJoined(S, t3, 1 + 2 * d, s4, d - 1, t4)
  <2>1. 1 + 2 * d \in Nat /\ (2 + d) + (d - 1) = 1 + 2 * d
    BY <1>7
  <2>2. IsList(S, t3, 1 + 2 * d)
    BY <1>13, <2>1 DEF IsJoined
  <2> QED
    BY <1>7, <1>11, <2>1, <2>2, Joined DEF t4, ArePairs
<1>15. IsJoined(S, t4, 3 * d, s5, 1, t5)
  <2>1. 3 * d \in Nat /\ (1 + 2 * d) + (d - 1) = 3 * d
    BY <1>7
  <2>2. IsList(S, t4, 3 * d)
    BY <1>14, <2>1 DEF IsJoined
  <2> QED
    BY <1>4, <2>1, <2>2, Joined DEF t5
<1>16. Len(t5) = 3 * d + 1
  BY <1>15 DEF IsJoined, IsList
<1>17. \A i \in 1 .. 2 : t5[i] = s1[i]
  BY <1>7, <1>12, <1>13, <1>14, <1>15 DEF IsJoined
<1>18. \A i \in 1 .. d : t5[2 + i] = s2[i]
  <2> TAKE i \in 1 .. d
  <2>1. 2 + i \in 1 .. 2 + d /\ 2 + i \in 1 .. 1 + 2 * d /\ 2 + i \in 1 .. 3 * d
    BY <1>7
  <2> QED
    BY <2>1, <1>12, <1>13, <1>14, <1>15 DEF IsJoined
<1>19. \A i \in 1 .. d - 1 : t5[2 + d + i] = s3[i]
  <2> TAKE i \in 1 .. d - 1
  <2>1. 2 + d + i \in 1 .. 1 + 2 * d /\ 2 + d + i \in 1 .. 3 * d
    BY <1>7
  <2> QED
    BY <2>1, <1>13, <1>14, <1>15 DEF IsJoined
<1>20. \A i \in 1 .. d - 1 : t5[2 * d + 1 + i] = s4[i]
  <2> TAKE i \in 1 .. d - 1
  <2>1. 2 * d + 1 + i = (1 + 2 * d) + i /\ (1 + 2 * d) + i \in 1 .. 3 * d
    BY <1>7
  <2> QED
    BY <2>1, <1>14, <1>15 DEF IsJoined
<1>21. t5[3 * d + 1] = s5[1]
  BY <1>15 DEF IsJoined
<1>22. 1 \in 1 .. 2 /\ 2 \in 1 .. 2
  OBVIOUS
<1> HIDE DEF Writes
<1>23. WritesOf(u, j, t5, d)
  BY <1>5, <1>9, <1>10, <1>11, <1>16, <1>17, <1>18, <1>19, <1>20, <1>21, <1>22
     DEF WritesOf, ArePairs
<1> QED
  BY <1>6, <1>23 DEF d

\* The number of the write of a register.
Number(u, d, name) ==
  CASE name = "SRCADDR" -> IF u = Cmp THEN 1 ELSE 2
    [] name = "DSTADDR" -> IF u = Cmp THEN 2 ELSE 1
    [] name = "SIZE0" -> 3
    [] name = "SIZE1" -> 4
    [] name = "SIZE2" -> 5
    [] name = "SRCSTRIDE0" -> 3 + d
    [] name = "SRCSTRIDE1" -> 4 + d
    [] name = "DSTSTRIDE0" -> 2 + 2 * d
    [] name = "DSTSTRIDE1" -> 3 + 2 * d
    [] name = "CTRL" -> 3 * d + 1

\* A job writes no register twice.
LEMMA NamesDiffer ==
  ASSUME NEW u, NEW j \in Job, NEW i \in 1 .. Len(Writes(u, j))
  PROVE  /\ Writes(u, j)[i][1] \in Registers
         /\ Number(u, j.dim, Writes(u, j)[i][1]) = i
<1> DEFINE d == j.dim
           w == Writes(u, j)
<1>1. d \in {1, 2, 3}
  BY DEF Job
<1>2. WritesOf(u, j, w, d)
  BY WritesAt
<1> HIDE DEF d, w
<1>3. /\ Sizes[1] = "SIZE0" /\ Sizes[2] = "SIZE1" /\ Sizes[3] = "SIZE2"
      /\ SrcStrides[1] = "SRCSTRIDE0" /\ SrcStrides[2] = "SRCSTRIDE1"
      /\ DstStrides[1] = "DSTSTRIDE0" /\ DstStrides[2] = "DSTSTRIDE1"
  BY DEF Sizes, SrcStrides, DstStrides
<1>4. /\ "SRCADDR" \in Registers /\ "DSTADDR" \in Registers /\ "CTRL" \in Registers
      /\ \A k \in 1 .. 3 : Sizes[k] \in Registers
      /\ \A k \in 1 .. 2 : SrcStrides[k] \in Registers /\ DstStrides[k] \in Registers
  BY DEF Registers
<1>5. i \in 1 .. 3 * d + 1
  BY <1>2 DEF WritesOf, w
<1>6. CASE i \in {1, 2}
  <2>1. w[i][1] = IF (u = Cmp) = (i = 1) THEN "SRCADDR" ELSE "DSTADDR"
    BY <1>2, <1>6 DEF WritesOf
  <2>2. Number(u, d, w[i][1]) = i
    BY <1>6, <2>1 DEF Number
  <2> QED
    BY <1>4, <2>1, <2>2 DEF w, d
<1>7. CASE i \in 3 .. 2 + d
  <2>1. i - 2 \in 1 .. d /\ i - 2 \in {1, 2, 3} /\ 2 + (i - 2) = i
    BY <1>1, <1>7
  <2>2. w[i][1] = Sizes[i - 2]
    BY <1>2, <2>1 DEF WritesOf
  <2>3. Number(u, d, w[i][1]) = i
    BY <1>3, <2>1, <2>2 DEF Number
  <2> QED
    BY <1>4, <2>1, <2>2, <2>3 DEF w, d
<1>8. CASE i \in 3 + d .. 2 * d + 1
  <2>1. i - 2 - d \in 1 .. d - 1 /\ i - 2 - d \in {1, 2} /\ 2 + d + (i - 2 - d) = i
    BY <1>1, <1>8
  <2>2. w[i][1] = SrcStrides[i - 2 - d]
    BY <1>2, <2>1 DEF WritesOf
  <2>3. Number(u, d, w[i][1]) = i
    BY <1>1, <1>3, <2>1, <2>2 DEF Number
  <2> QED
    BY <1>4, <2>1, <2>2, <2>3 DEF w, d
<1>9. CASE i \in 2 + 2 * d .. 3 * d
  <2> DEFINE k == i - 2 * d - 1
  <2>1. k \in 1 .. d - 1 /\ k \in {1, 2} /\ 2 * d + 1 + k = i
    BY <1>1, <1>9
  <2> HIDE DEF k
  <2>2. w[i][1] = DstStrides[k]
    BY <1>2, <2>1 DEF WritesOf
  <2>3. Number(u, d, w[i][1]) = i
    BY <1>1, <1>3, <2>1, <2>2 DEF Number
  <2> QED
    BY <1>4, <2>1, <2>2, <2>3 DEF w, d
<1>10. CASE i = 3 * d + 1
  <2>1. w[i][1] = "CTRL"
    BY <1>2, <1>10 DEF WritesOf
  <2>2. Number(u, d, w[i][1]) = i
    BY <1>10, <2>1 DEF Number
  <2> QED
    BY <1>4, <2>1, <2>2 DEF w, d
<1> QED
  BY <1>1, <1>5, <1>6, <1>7, <1>8, <1>9, <1>10

\* The first n writes of j are in the register file r.
Contains(u, j, r, n) ==
  \A i \in 1 .. n : r[Writes(u, j)[i][1]] = Writes(u, j)[i][2]

\* A register file that has all the writes of a job describes it.
LEMMA AllWritten ==
  ASSUME NEW u, NEW j \in Job, NEW r, Contains(u, j, r, Len(Writes(u, j)))
  PROVE  Describes(r, j)
<1> DEFINE d == j.dim
           w == Writes(u, j)
<1>1. d \in {1, 2, 3}
  BY DEF Job
<1>2. WritesOf(u, j, w, d)
  BY WritesAt
<1>3. \A i \in 1 .. Len(w) : r[w[i][1]] = w[i][2]
  BY DEF Contains
<1> HIDE DEF d, w
<1>4. /\ Len(w) = 3 * d + 1 /\ 1 \in 1 .. Len(w) /\ 2 \in 1 .. Len(w)
      /\ 3 * d + 1 \in 1 .. Len(w)
  BY <1>1, <1>2 DEF WritesOf
<1>5. r["CTRL"] = Control(j)
  BY <1>2, <1>3, <1>4 DEF WritesOf
<1>6. r["SRCADDR"] = j.src /\ r["DSTADDR"] = j.dst
  BY <1>2, <1>3, <1>4 DEF WritesOf
<1>7. \A i \in 1 .. d : r[Sizes[i]] = j.size[i]
  <2> TAKE i \in 1 .. d
  <2>1. 2 + i \in 1 .. Len(w)
    BY <1>1, <1>4
  <2> QED
    BY <1>2, <1>3, <2>1 DEF WritesOf
<1>8. \A i \in 1 .. d - 1 : r[SrcStrides[i]] = j.srcStride[i] /\ r[DstStrides[i]] = j.dstStride[i]
  <2> TAKE i \in 1 .. d - 1
  <2>1. 2 + d + i \in 1 .. Len(w) /\ 2 * d + 1 + i \in 1 .. Len(w)
    BY <1>1, <1>4
  <2> QED
    BY <1>2, <1>3, <2>1 DEF WritesOf
<1>9. Dim(r) = d
  BY <1>5 DEF Dim, Control, d
<1>10. d # 1 => Strided(r, "src") /\ Strided(r, "dst")
  BY <1>5 DEF Strided, Control, d
<1>11. \A i \in 1 .. d - 1 : SrcStride(r, i) = j.srcStride[i] /\ DstStride(r, i) = j.dstStride[i]
  BY <1>1, <1>8, <1>10 DEF SrcStride, DstStride
<1> QED
  BY <1>6, <1>7, <1>9, <1>11 DEF Describes, Size, d

\* The registers of a unit have the writes it has made for its job.
Programmed(u, j, r, n) ==
  n > 0 => /\ j \in Jobs[u] /\ n <= Len(Writes(u, j))
           /\ Contains(u, j, r, n - 1)

RegistersInv ==
  /\ IsMemory(mem)
  /\ regs = [u \in Units |-> [q \in Registers |-> regs[u][q]]]
  /\ \A u \in Units : Programmed(u, job[u], regs[u], step[u])

LEMMA RegistersInit ==
  Init => RegistersInv
<1> SUFFICES ASSUME Init PROVE RegistersInv
  OBVIOUS
<1>1. IsMemory(mem)
  BY DEF Init, IsMemory
<1>2. regs = [u \in Units |-> [q \in Registers |-> regs[u][q]]]
  BY DEF Init
<1>3. \A u \in Units : step[u] = 0
  BY DEF Init
<1> QED
  BY <1>1, <1>2, <1>3 DEF RegistersInv, Programmed

\* A write goes to the register file of its unit, and to one register.
LEMMA OneMoreWritten ==
  ASSUME RegistersInv, NEW u \in Units, step[u] \in Nat, step[u] > 0, regs' = Written(u)
  PROVE  /\ regs' = [v \in Units |-> [q \in Registers |-> regs'[v][q]]]
         /\ \A v \in Units : v # u => regs'[v] = regs[v]
         /\ job[u] \in Job /\ Contains(u, job[u], regs'[u], step[u])
<1> DEFINE j == job[u]
           w == Writes(u, j)
           k == step[u]
<1>1. j \in Job /\ k \in 1 .. Len(w) /\ Contains(u, j, regs[u], k - 1)
  <2>1. Programmed(u, j, regs[u], k)
    BY DEF RegistersInv
  <2>2. j \in Jobs[u] /\ k <= Len(w) /\ Contains(u, j, regs[u], k - 1)
    BY <2>1 DEF Programmed
  <2>3. Len(w) \in Nat
    <3>1. WritesOf(u, j, w, j.dim) /\ j.dim \in Nat
      BY <2>2, DMAAssumption, WritesAt DEF Job
    <3> QED
      BY <3>1 DEF WritesOf
  <2> QED
    BY <2>2, <2>3, DMAAssumption
<1>2. regs' = [regs EXCEPT ![u] = [regs[u] EXCEPT ![w[k][1]] = w[k][2]]]
  BY DEF Written, RegFile
<1> HIDE DEF w, k
<1>3. /\ \A v \in Units : v # u => regs'[v] = regs[v]
      /\ regs'[u] = [q \in Registers |-> IF q = w[k][1] THEN w[k][2] ELSE regs[u][q]]
  BY <1>2 DEF RegistersInv
<1>4. regs' = [v \in Units |-> [q \in Registers |-> regs'[v][q]]]
  <2>1. regs' = [v \in Units |-> regs'[v]]
    BY <1>2 DEF RegistersInv
  <2>2. \A v \in Units : regs'[v] = [q \in Registers |-> regs'[v][q]]
    BY <1>3 DEF RegistersInv
  <2> QED
    BY <2>1, <2>2
<1>5. \A i \in 1 .. k : regs'[u][w[i][1]] = w[i][2]
  <2> TAKE i \in 1 .. k
  <2>1. i \in 1 .. Len(w) /\ k \in 1 .. Len(w) /\ (i = k \/ i \in 1 .. k - 1)
    BY <1>1 DEF k
  <2>2. w[i][1] \in Registers /\ (w[i][1] = w[k][1] => i = k)
    <3>1. /\ w[i][1] \in Registers /\ Number(u, j.dim, w[i][1]) = i
          /\ Number(u, j.dim, w[k][1]) = k
      BY <1>1, <2>1, NamesDiffer DEF w
    <3> QED
      BY <3>1
  <2>3. i # k => regs[u][w[i][1]] = w[i][2]
    BY <1>1, <2>1 DEF Contains, w
  <2> QED
    BY <1>3, <2>2, <2>3
<1>6. Contains(u, j, regs'[u], k)
  BY <1>5 DEF Contains, w
<1> QED
  BY <1>1, <1>3, <1>4, <1>6 DEF k

\* A transfer that is made copies what the job of its unit asks for.
LEMMA TransferIsAsked ==
  ASSUME JobsKeepApart, DMAInv, RegistersInv, NEW u \in Units, StartTransfer(u)
  PROVE  \/ UNCHANGED <<start, finished, mem>>
         \/ /\ finished' = [finished EXCEPT ![u] = NextId(start[u])]
            /\ mem' = Asked(job[u], mem) /\ IsMemory(mem')
<1> DEFINE r == regs'[u]
           j == job[u]
<1>1. step[u] \in Nat /\ step[u] > 0 /\ step[u] = Len(Writes(u, j)) /\ regs' = Written(u)
  BY DEF StartTransfer, DMAInv, Shape
<1>2. j \in Job /\ Contains(u, j, r, Len(Writes(u, j)))
  BY <1>1, OneMoreWritten
<1>3. Describes(r, j)
  BY <1>2, AllWritten
<1>4. j \in Jobs[u]
  BY <1>1 DEF RegistersInv, Programmed
<1>5. IsMemory(mem)
  BY DEF RegistersInv
<1>6. \/ UNCHANGED <<start, finished, mem>>
      \/ Reachable(r) /\ Transfer(u, r)
  BY DEF StartTransfer, RegFile
<1>7. ASSUME Reachable(r), Transfer(u, r)
      PROVE  /\ finished' = [finished EXCEPT ![u] = NextId(start[u])]
             /\ mem' = Asked(j, mem) /\ IsMemory(mem')
  <2>1. {j.src, j.dst} \subseteq Memory
    BY <1>3, <1>7 DEF Reachable, Describes
  <2>2. KeepsApart(j)
    BY <1>4, <2>1 DEF JobsKeepApart
  <2>3. mem' = Copied(r, mem) /\ finished' = [finished EXCEPT ![u] = NextId(start[u])]
    BY <1>7 DEF Transfer, RegFile
  <2> HIDE DEF r, j
  <2>4. Copied(r, mem) = Asked(j, mem) /\ IsMemory(Asked(j, mem))
    BY <1>2, <1>3, <1>5, <2>2, CopiedIsAsked
  <2> QED
    BY <2>3, <2>4
<1> HIDE DEF r
<1> QED
  BY <1>6, <1>7

\* Every step keeps them so.
LEMMA RegistersNext ==
  ASSUME JobsKeepApart, DMAInv, RegistersInv, [Next]_vars
  PROVE  RegistersInv'
<1> USE DEF RegistersInv
<1>1. /\ DOMAIN job = Units /\ step \in [Units -> Nat]
      /\ \A u \in Units : step[u] > 0 => job[u] # NoJob
  <2>1. ASSUME NEW u \in Units, step[u] > 0
        PROVE  job[u] # NoJob
    <3>1. job[u] \in Jobs[u]
      BY <2>1 DEF Programmed
    <3> QED
      BY <3>1, DMAAssumption
  <2> QED
    BY <2>1 DEF DMAInv, Shape
<1>2. ASSUME NEW u \in Units, UNCHANGED <<regs, mem>>, step'[u] \in {0, 1},
             \A v \in Units : v # u => job'[v] = job[v] /\ step'[v] = step[v],
             step'[u] = 1 => job'[u] \in Jobs[u]
      PROVE  RegistersInv'
  <2>1. Programmed(u, job'[u], regs'[u], step'[u])
    <3>1. CASE step'[u] = 0
      BY <3>1 DEF Programmed
    <3>2. CASE step'[u] = 1
      <4>1. job'[u] \in Job
        BY <1>2, <3>2, DMAAssumption
      <4>2. 1 <= Len(Writes(u, job'[u]))
        <5>1. /\ WritesOf(u, job'[u], Writes(u, job'[u]), job'[u].dim)
              /\ job'[u].dim \in 1 .. 3
          BY <4>1, WritesAt DEF Job
        <5> QED
          BY <5>1 DEF WritesOf
      <4>3. 1 .. 1 - 1 = {}
        OBVIOUS
      <4> QED
        BY <1>2, <3>2, <4>2, <4>3 DEF Programmed, Contains
    <3> QED
      BY <1>2, <3>1, <3>2
  <2>2. \A v \in Units : Programmed(v, job'[v], regs'[v], step'[v])
    BY <1>2, <2>1
  <2>3. IsMemory(mem')
    BY <1>2
  <2> QED
    BY <1>2, <2>2, <2>3 DEF IsMemory, Programmed, Contains
<1>3. ASSUME NEW u \in Units, NEW j \in Jobs[u], Program(u, j)
      PROVE  RegistersInv'
  BY <1>1, <1>2, <1>3 DEF Program, DMAInv, Shape
<1>4. ASSUME NEW u \in Units, WriteRegister(u) \/ StartTransfer(u)
      PROVE  RegistersInv'
  <2>1. step[u] \in Nat /\ step[u] > 0 /\ regs' = Written(u)
    BY <1>1, <1>4 DEF WriteRegister, StartTransfer
  <2>2. /\ regs' = [v \in Units |-> [q \in Registers |-> regs'[v][q]]]
        /\ \A v \in Units : v # u => regs'[v] = regs[v]
        /\ job[u] \in Job /\ Contains(u, job[u], regs'[u], step[u])
    BY <2>1, OneMoreWritten
  <2>3. IsMemory(mem')
    <3>1. CASE WriteRegister(u)
      BY <3>1 DEF WriteRegister, IsMemory
    <3>2. CASE StartTransfer(u)
      BY <3>2, TransferIsAsked DEF IsMemory
    <3> QED
      BY <1>4, <3>1, <3>2
  <2>4. Programmed(u, job'[u], regs'[u], step'[u])
    <3>1. CASE WriteRegister(u)
      <4>1. job' = job /\ step'[u] = step[u] + 1 /\ step[u] < Len(Writes(u, job[u]))
        BY <1>1, <3>1 DEF WriteRegister
      <4>2. job[u] \in Jobs[u]
        BY <2>1 DEF Programmed
      <4>3. /\ WritesOf(u, job[u], Writes(u, job[u]), job[u].dim)
            /\ job[u].dim \in Nat
        BY <2>2, WritesAt DEF Job
      <4>4. Len(Writes(u, job[u])) \in Nat
        BY <4>3 DEF WritesOf
      <4>5. (step[u] + 1) - 1 = step[u] /\ step[u] + 1 <= Len(Writes(u, job[u]))
        BY <2>1, <4>1, <4>4
      <4> QED
        BY <2>2, <4>1, <4>2, <4>5 DEF Programmed
    <3>2. CASE StartTransfer(u)
      BY <1>1, <3>2 DEF StartTransfer, Programmed
    <3> QED
      BY <1>4, <3>1, <3>2
  <2>5. ASSUME NEW v \in Units, v # u
        PROVE  Programmed(v, job'[v], regs'[v], step'[v])
    <3>1. job'[v] = job[v] /\ step'[v] = step[v]
      BY <1>1, <1>4, <2>5 DEF WriteRegister, StartTransfer, Abort
    <3> QED
      BY <2>2, <2>5, <3>1
  <2>6. \A v \in Units : Programmed(v, job'[v], regs'[v], step'[v])
    BY <2>4, <2>5
  <2> QED
    BY <2>2, <2>3, <2>6 DEF IsMemory, Programmed, Contains
<1>5. ASSUME NEW u \in Units, FetchEvent(u) \/ EndKernel(u)
                                \/ \E list \in SUBSET events[u] : Wait(u, list)
      PROVE  RegistersInv'
  <2>1. step[u] = 0
    BY <1>1, <1>5 DEF FetchEvent, EndKernel, Wait
  <2>2. /\ UNCHANGED <<regs, mem, step>>
        /\ \A v \in Units : v # u => job'[v] = job[v]
    BY <1>1, <1>5 DEF FetchEvent, EndKernel, Wait, Abort
  <2> QED
    BY <1>2, <2>1, <2>2
<1>6. CASE UNCHANGED vars
  BY <1>6 DEF vars, IsMemory, Programmed, Contains
<1> QED
  BY <1>3, <1>4, <1>5, <1>6 DEF Next, UnitStep

\* The step that ends the writes of a job is the write to DMACTRL.
LEMMA TransfersStep ==
  ASSUME IdsLast, JobsKeepApart, DMAInv, RegistersInv, [Next]_vars,
         NEW u \in Units, step[u] > 0, step'[u] = 0
  PROVE  IF finished'[u] = finished[u]
         THEN mem' = mem /\ start' = start
         ELSE mem' = Asked(job[u], mem)
<1>1. job[u] \in Jobs[u] /\ job[u] # NoJob
  BY DMAAssumption DEF RegistersInv, Programmed
<1>2. StartTransfer(u)
  <2>1. ASSUME NEW v \in Units, v # u \/ ~StartTransfer(u), UnitStep(v)
        PROVE  step'[u] # 0
    <3>1. step[u] \in Nat /\ step \in [Units -> Nat]
      BY DEF DMAInv, Shape
    <3>2. CASE v # u
      BY <2>1, <3>1, <3>2 DEF UnitStep, Program, WriteRegister, StartTransfer, FetchEvent,
                              Wait, EndKernel
    <3>3. CASE v = u
      BY <1>1, <2>1, <3>1, <3>3 DEF UnitStep, Program, WriteRegister, FetchEvent, Wait, EndKernel
    <3> QED
      BY <3>2, <3>3
  <2>2. ~UNCHANGED vars
    BY DEF vars
  <2> QED
    BY <2>1, <2>2 DEF Next
<1>3. CASE UNCHANGED <<start, finished, mem>>
  BY <1>3
<1>4. CASE /\ finished' = [finished EXCEPT ![u] = NextId(start[u])]
           /\ mem' = Asked(job[u], mem)
  <2>1. start[u] \in 0 .. IdLimit - 1 /\ start[u] < MaxStart
    BY DEF DMAInv, Shape, Spare
  <2>2. NextId(start[u]) = start[u] + 1
    BY <2>1, NextIdIsSuccessor
  <2>3. finished'[u] = start[u] + 1 /\ finished[u] = start[u]
    BY <1>4, <2>2 DEF DMAInv, Shape
  <2> QED
    BY <1>4, <2>1, <2>3
<1> QED
  BY <1>2, <1>3, <1>4, TransferIsAsked

\* A transfer moves what its unit asked for, and nothing else, whatever the
\* other units write in between and whatever the registers held before, as long
\* as the bytes of the jobs do not disturb each other.
THEOREM TransfersStayExact ==
  IdsLast /\ JobsKeepApart => (Spec => TransfersAreExact)
<1> SUFFICES ASSUME IdsLast, JobsKeepApart PROVE Spec => TransfersAreExact
  OBVIOUS
<1> DEFINE Inv == DMAInv /\ RegistersInv
           Exact == \A u \in Units :
                      step[u] > 0 /\ step'[u] = 0 =>
                        IF finished'[u] = finished[u]
                        THEN mem' = mem /\ start' = start
                        ELSE mem' = Asked(job[u], mem)
<1>1. Init => Inv
  BY DMAInit, RegistersInit
<1>2. Inv /\ [Next]_vars => Inv'
  BY DMANext, RegistersNext
<1>3. Inv /\ [Next]_vars => [Exact]_vars
  BY TransfersStep
<1> QED
  BY <1>1, <1>2, <1>3, PTL DEF Spec, TransfersAreExact

=============================================================================
