-------------------------- MODULE KernelLaunchProofs --------------------------
(***************************************************************************)
(* Proofs about KernelLaunch, for N-D ranges of any size and any number of *)
(* threads, calls and blocks.  The slices and instances of a launch and    *)
(* the work-groups of its range correspond one to one: the arithmetic that *)
(* EveryGroupOnce rests on.  The invariant LaunchInv tells what each call  *)
(* holds at each point of kernel_exec, and what the CMP and the harts hold *)
(* of the call that has the lock.  With it, launches implement the service *)
(* of LaunchService.                                                       *)
(***************************************************************************)
EXTENDS KernelLaunch, FiniteSetTheorems, TLAPS

Instances(r) == 0 .. r.groups[1] - 1
SliceIds(r) == 0 .. Slices(r) - 1

\* Division with remainder is unique.
LEMMA DivModUnique ==
  ASSUME NEW n \in Nat, NEW j \in 0 .. n - 1, NEW k \in Nat
  PROVE  (k * n + j) \div n = k /\ (k * n + j) % n = j
<1> DEFINE s == k * n + j
           q == s \div n
           m == s % n
<1>1. n > 0 /\ s \in Nat /\ q \in Int /\ m \in 0 .. n - 1 /\ s = n * q + m
  OBVIOUS
<1>2. q = k
  OBVIOUS
<1> QED
  BY <1>1, <1>2

\* Splitting a number below the product of two.
LEMMA DivModRange ==
  ASSUME NEW n \in Nat, NEW d \in Nat, NEW s \in 0 .. n * d - 1
  PROVE  s % n \in 0 .. n - 1 /\ s \div n \in 0 .. d - 1 /\ s = (s \div n) * n + (s % n)
<1>1. n > 0
  OBVIOUS
<1>2. s % n \in 0 .. n - 1 /\ s \div n \in Nat /\ s = (s \div n) * n + (s % n)
  BY <1>1
<1>3. s \div n < d
  <2> SUFFICES ASSUME s \div n >= d PROVE FALSE
    BY <1>2
  <2>1. (s \div n) * n >= d * n
    BY <1>2
  <2> QED
    BY <1>2, <2>1
<1> QED
  BY <1>2, <1>3

\* The ranges of the dimensions that a kernel uses.
LEMMA RangeShape ==
  ASSUME NEW r \in Ranges
  PROVE  /\ r.dim \in {1, 2, 3}
         /\ r.groups[1] \in Nat /\ r.groups[2] \in Nat /\ r.groups[3] \in Nat
         /\ r.dim = 1 => r.groups[2] = 1
         /\ r.dim # 3 => r.groups[3] = 1
         /\ Slices(r) = r.groups[2] * r.groups[3]
BY LaunchAssumption DEF Dims, Slices

\* The ROM stays inside the range: no slice or instance of a launch runs a
\* work-group that the range does not have.
THEOREM GroupsAreInRange ==
  ASSUME NEW r \in Ranges, NEW i \in Instances(r), NEW s \in SliceIds(r)
  PROVE  GroupOf(r.dim, r.groups, i, s) \in Groups(r)
<1>1. s \in 0 .. r.groups[2] * r.groups[3] - 1
  BY RangeShape DEF SliceIds
<1>2. /\ s % r.groups[2] \in 0 .. r.groups[2] - 1
      /\ s \div r.groups[2] \in 0 .. r.groups[3] - 1
  BY <1>1, RangeShape, DivModRange
<1>3. CASE r.dim = 1
  BY <1>3, RangeShape DEF GroupOf, Groups, Instances
<1>4. CASE r.dim = 2
  BY <1>2, <1>4, RangeShape DEF GroupOf, Groups, Instances
<1>5. CASE r.dim = 3
  BY <1>2, <1>5, RangeShape DEF GroupOf, Groups, Instances
<1> QED
  BY <1>3, <1>4, <1>5, RangeShape

\* Every work-group of the range is run by an instance of a slice.
THEOREM EveryGroupIsCovered ==
  ASSUME NEW r \in Ranges, NEW g \in Groups(r)
  PROVE  \E i \in Instances(r), s \in SliceIds(r) : GroupOf(r.dim, r.groups, i, s) = g
<1>1. PICK i \in Instances(r), j \in 0 .. r.groups[2] - 1, k \in 0 .. r.groups[3] - 1 :
        g = <<i, j, k>>
  BY DEF Groups, Instances
<1> DEFINE s == k * r.groups[2] + j
<1>2. s \div r.groups[2] = k /\ s % r.groups[2] = j
  <2>1. r.groups[2] \in Nat /\ k \in Nat
    BY RangeShape
  <2> QED
    BY <2>1, DivModUnique
<1>3. s \in SliceIds(r)
  <2>1. k * r.groups[2] + r.groups[2] <= r.groups[3] * r.groups[2]
    BY RangeShape
  <2> QED
    BY <2>1, RangeShape DEF SliceIds
<1>4. GroupOf(r.dim, r.groups, i, s) = << i, j, k >>
  <2> HIDE DEF s
  <2>1. r.dim \in {1, 2} => k = 0
    BY RangeShape
  <2>2. r.dim = 1 => j = 0
    BY RangeShape
  <2>3. (IF r.dim > 1 THEN s % r.groups[2] ELSE 0) = j
    BY <1>2, <2>2, RangeShape
  <2>4. (IF r.dim > 2 THEN s \div r.groups[2] ELSE 0) = k
    BY <1>2, <2>1, RangeShape
  <2> QED
    BY <2>3, <2>4 DEF GroupOf
<1> HIDE DEF s
<1> QED
  BY <1>1, <1>3, <1>4

\* No two instances of a launch run the same work-group.
THEOREM NoGroupTwice ==
  ASSUME NEW r \in Ranges,
         NEW i1 \in Instances(r), NEW s1 \in SliceIds(r),
         NEW i2 \in Instances(r), NEW s2 \in SliceIds(r),
         GroupOf(r.dim, r.groups, i1, s1) = GroupOf(r.dim, r.groups, i2, s2)
  PROVE  i1 = i2 /\ s1 = s2
<1> DEFINE n == r.groups[2]
           d == r.groups[3]
<1>1. s1 \in 0 .. n * d - 1 /\ s2 \in 0 .. n * d - 1
  BY RangeShape DEF SliceIds
<1>2. /\ s1 = (s1 \div n) * n + (s1 % n) /\ s1 \div n \in 0 .. d - 1 /\ s1 % n \in 0 .. n - 1
      /\ s2 = (s2 \div n) * n + (s2 % n) /\ s2 \div n \in 0 .. d - 1 /\ s2 % n \in 0 .. n - 1
  BY <1>1, RangeShape, DivModRange
<1>3. s1 % n = s2 % n /\ s1 \div n = s2 \div n
  <2> DEFINE j(s) == IF r.dim > 1 THEN s % n ELSE 0
             k(s) == IF r.dim > 2 THEN s \div n ELSE 0
  <2>1. << i1, j(s1), k(s1) >> = << i2, j(s2), k(s2) >>
    BY DEF GroupOf
  <2>2. j(s1) = j(s2) /\ k(s1) = k(s2)
    <3> HIDE DEF j, k
    <3> QED
      BY <2>1
  <2>3. CASE r.dim = 1
    <3>1. n = 1 /\ d = 1
      BY <2>3, RangeShape
    <3> QED
      BY <3>1, <1>2
  <2>4. CASE r.dim = 2
    <3>1. d = 1
      BY <2>4, RangeShape
    <3>2. s1 \div n = s2 \div n
      BY <3>1, <1>2
    <3> QED
      BY <2>2, <2>4, <3>2
  <2>5. CASE r.dim = 3
    BY <2>2, <2>5
  <2> QED
    BY <2>3, <2>4, <2>5, RangeShape
<1>4. i1 = i2
  BY DEF GroupOf
<1> QED
  BY <1>2, <1>3, <1>4

-----------------------------------------------------------------------------
(* The inductive invariant                                                 *)

\* kernel_exec keeps the lock, so that the call that runs is the latest one.
Cur == Len(launches)
Latest == launches[Cur]
Stage == IF lock = Nobody THEN "idle" ELSE pc[lock]

\* Positions in a command buffer: the first RUN, the SYNC that follows the
\* last one, and FINISH.
Reads == IF Counting THEN 1 ELSE 0
FirstRun == 4 + Reads
LastSync(r) == FirstRun + Slices(r)
FinishAt(r) == LastSync(r) + 1 + Reads

\* The slices that have been run before a position.
SlicesBefore(r, n) == IF n < FirstRun THEN 0
                      ELSE IF n > LastSync(r) THEN Slices(r) ELSE n - FirstRun
GroupsUpTo(r, n) == {GroupOf(r.dim, r.groups, i, s) : i \in Instances(r), s \in 0 .. n - 1}

Types ==
  /\ lock \in Threads \cup {Nobody}
  /\ pc \in [Threads -> Locations]
  /\ call \in [Threads -> Nat]
  /\ launches \in Seq(LaunchType)
  /\ mem = [b \in Blocks |-> mem[b]]
  /\ retired \in Nat
  /\ failed \subseteq Calls
  /\ \A work \in ran : work.by \in Calls

\* One thread at a time is in kernel_exec, with the latest call, which is the
\* only one that has not returned.
LockInv ==
  /\ \A t \in Threads : pc[t] # "idle" <=> lock = t
  /\ lock # Nobody => call[lock] = Cur /\ Cur > 0
  /\ \A i \in Calls : launches[i].outcome = "none" <=> lock # Nobody /\ i = Cur

WithKub == {"counters", "buffer", "submitting", "waiting", "finishing"}
WithCounters == {"buffer", "submitting", "waiting", "finishing"}
WithBuffer == {"submitting", "waiting"}

\* The blocks of the launch that runs.
BlocksInv ==
  /\ Stage \in WithKub =>
       /\ Latest.kub \in Blocks
       /\ mem[Latest.kub] = [type |-> "kub", call |-> Cur, groups |-> Latest.range.groups]
  /\ Stage \in WithCounters /\ Counting =>
       /\ Latest.counters \in Blocks
       /\ mem[Latest.counters] \in [type : {"counters"}, call : {Cur}, before : Nat, after : Nat]
  /\ Stage \in WithBuffer =>
       /\ Latest.buffer \in Blocks
       /\ mem[Latest.buffer] =
            [type |-> "commands", call |-> Cur,
             commands |-> Commands(Latest.range, Latest.kub, Latest.counters)]

\* A block of a launch is one that it has in use, or that it has leaked.
OwnersInv ==
  \A b \in Blocks : mem[b].type \in {"kub", "counters", "commands"} =>
    /\ mem[b].call \in Calls
    /\ \/ launches[mem[b].call].outcome = "false"
       \/ /\ mem[b].call = Cur
          /\ \/ mem[b].type = "kub" /\ Stage \in WithKub /\ b = Latest.kub
             \/ mem[b].type = "counters" /\ Stage \in WithCounters /\ b = Latest.counters
             \/ mem[b].type = "commands" /\ Stage \in WithBuffer /\ b = Latest.buffer

\* The CMP is idle, or it executes the buffer of the launch that runs.
QueueInv ==
  /\ queue = <<>> => at = 1
  /\ queue # <<>> =>
       /\ queue = << Latest.buffer >> /\ Stage = "waiting"
       /\ at \in 1 .. FinishAt(Latest.range) /\ Cur \notin failed

\* What is in place before which command.
ParametersInv ==
  /\ Stage \in {"kub"} \cup WithKub => image = Cur
  /\ queue # <<>> =>
       /\ at > 1 => exec = [call |-> Cur, groups |-> Latest.range.groups]
       /\ at > 2 => icache \in {0, Cur}
       /\ at > 3 => entry = Latest.range.dim
  /\ OwnParameters

Early == {"loading", "kub", "counters", "buffer", "submitting"}
Over == queue = <<>> /\ Stage \in {"waiting", "finishing"} /\ Undisturbed(Cur)

\* The work-groups that have been run.  A trap that is left is that of a launch
\* that has failed, so that it does not reach the slices of an undisturbed one.
GroupsInv ==
  /\ ~repeated
  /\ trapped => failed # {}
  /\ \A i \in Calls : RanBy(i) \subseteq Groups(launches[i].range)
  /\ \A i \in Calls : launches[i].outcome = "true" /\ Undisturbed(i)
       => RanBy(i) = Groups(launches[i].range)
  /\ Stage # "idle" => IsFiniteSet(RanBy(Cur))
  /\ Stage \in Early => RanBy(Cur) = {} /\ Cur \notin failed
  /\ queue # <<>> =>
       /\ RanBy(Cur) \subseteq GroupsUpTo(Latest.range, SlicesBefore(Latest.range, at))
       /\ Undisturbed(Cur) =>
            RanBy(Cur) = GroupsUpTo(Latest.range, SlicesBefore(Latest.range, at))
  /\ Over => RanBy(Cur) = Groups(Latest.range)

\* What the counters have counted, and what is reported of undisturbed launches.
CountersInv ==
  Counting =>
    /\ queue # <<>> /\ at >= FirstRun =>
         retired - mem[Latest.counters].before = Cardinality(RanBy(Cur))
    /\ (queue # <<>> /\ at = FinishAt(Latest.range)) \/ Over =>
         mem[Latest.counters].after - mem[Latest.counters].before = Cardinality(RanBy(Cur))
    /\ \A i \in Calls : launches[i].outcome = "true" /\ Undisturbed(i)
         => launches[i].measured = Cardinality(RanBy(i))

LaunchInv ==
  /\ Types /\ LockInv
  /\ BlocksInv /\ OwnersInv /\ QueueInv
  /\ ParametersInv /\ GroupsInv /\ CountersInv

-----------------------------------------------------------------------------
\* The elements of a concatenation.
LEMMA CatAt ==
  ASSUME NEW s, NEW t, NEW S, s \in Seq(S), t \in Seq(S)
  PROVE  /\ s \o t \in Seq(S) /\ Len(s \o t) = Len(s) + Len(t)
         /\ \A i \in 1 .. Len(s) : (s \o t)[i] = s[i]
         /\ \A i \in 1 .. Len(t) : (s \o t)[Len(s) + i] = t[i]
OBVIOUS

\* The commands of a launch, by their position.
LEMMA CommandAt ==
  ASSUME NEW r \in Ranges, NEW kub, NEW ctr
  PROVE  LET c == Commands(r, kub, ctr)
         IN  /\ c[1] = [op |-> "DMA", addr |-> kub]
             /\ c[2] = [op |-> "SYNC"]
             /\ c[3] = [op |-> "ENTRY", dim |-> r.dim]
             /\ Counting => c[4] = [op |-> "COUNT", addr |-> ctr, set |-> "before"]
             /\ \A s \in SliceIds(r) :
                  c[FirstRun + s] = [op |-> "RUN", addr |-> kub, slice |-> s,
                                     instances |-> r.groups[1]]
             /\ c[LastSync(r)] = [op |-> "SYNC"]
             /\ Counting => c[LastSync(r) + 1] = [op |-> "COUNT", addr |-> ctr, set |-> "after"]
             /\ c[FinishAt(r)] = [op |-> "FINISH"]
<1> DEFINE All == {[op |-> "DMA", addr |-> kub], [op |-> "SYNC"], [op |-> "ENTRY", dim |-> r.dim],
                   [op |-> "COUNT", addr |-> ctr, set |-> "before"],
                   [op |-> "COUNT", addr |-> ctr, set |-> "after"], [op |-> "FINISH"]}
                  \cup {[op |-> "RUN", addr |-> kub, slice |-> s, instances |-> r.groups[1]]
                          : s \in SliceIds(r)}
           s1 == << [op |-> "DMA", addr |-> kub], [op |-> "SYNC"], [op |-> "ENTRY", dim |-> r.dim] >>
           s2 == Count(ctr, "before")
           s3 == Runs(r, kub)
           s4 == << [op |-> "SYNC"] >>
           s5 == Count(ctr, "after")
           s6 == << [op |-> "FINISH"] >>
<1>0. Slices(r) \in Nat
  BY RangeShape
<1>1. /\ s1 \in Seq(All) /\ Len(s1) = 3
      /\ s4 \in Seq(All) /\ Len(s4) = 1 /\ s4[1] = [op |-> "SYNC"]
      /\ s6 \in Seq(All) /\ Len(s6) = 1 /\ s6[1] = [op |-> "FINISH"]
  OBVIOUS
<1>2. /\ s2 \in Seq(All) /\ Len(s2) = Reads
      /\ s5 \in Seq(All) /\ Len(s5) = Reads
  <2>1. CASE Counting
    BY <2>1 DEF Count, Reads
  <2>2. CASE ~Counting
    <3>1. s2 = <<>> /\ s5 = <<>> /\ Reads = 0
      BY <2>2 DEF Count, Reads
    <3>2. <<>> \in Seq(All) /\ Len(<<>>) = 0
      OBVIOUS
    <3> HIDE DEF All, s2, s5
    <3> QED
      BY <3>1, <3>2
  <2> QED
    BY <2>1, <2>2
<1>3. s3 \in Seq(All) /\ Len(s3) = Slices(r)
  <2>1. \A s \in 1 .. Slices(r) : s - 1 \in SliceIds(r)
    BY <1>0 DEF SliceIds
  <2>2. s3 \in [1 .. Slices(r) -> All]
    BY <2>1 DEF Runs
  <2> QED
    BY <1>0, <2>2
<1>4. \A s \in SliceIds(r) :
        /\ s + 1 \in 1 .. Len(s3)
        /\ s3[s + 1] = [op |-> "RUN", addr |-> kub, slice |-> s, instances |-> r.groups[1]]
  BY <1>0, <1>3 DEF Runs, SliceIds
<1>5. Counting => /\ s2[1] = [op |-> "COUNT", addr |-> ctr, set |-> "before"]
                  /\ s5[1] = [op |-> "COUNT", addr |-> ctr, set |-> "after"]
  BY DEF Count
<1>6. /\ s1[1] = [op |-> "DMA", addr |-> kub]
      /\ s1[2] = [op |-> "SYNC"]
      /\ s1[3] = [op |-> "ENTRY", dim |-> r.dim]
  OBVIOUS
<1> DEFINE t2 == s1 \o s2   t3 == t2 \o s3   t4 == t3 \o s4
           t5 == t4 \o s5   t6 == t5 \o s6
<1>7. Commands(r, kub, ctr) = t6
  BY DEF Commands
<1> HIDE DEF All, s1, s2, s3, s4, s5, s6
<1>8. Reads \in {0, 1} /\ (Counting => Reads = 1)
  BY DEF Reads
<1>9. /\ t2 \in Seq(All) /\ Len(t2) = 3 + Reads
      /\ \A i \in 1 .. 3 : t2[i] = s1[i]
      /\ \A i \in 1 .. Reads : t2[3 + i] = s2[i]
  <2>1. s1 \in Seq(All) /\ s2 \in Seq(All) /\ Len(s1) = 3 /\ Len(s2) = Reads
    BY <1>1, <1>2
  <2>2. /\ s1 \o s2 \in Seq(All) /\ Len(s1 \o s2) = Len(s1) + Len(s2)
        /\ \A i \in 1 .. Len(s1) : (s1 \o s2)[i] = s1[i]
        /\ \A i \in 1 .. Len(s2) : (s1 \o s2)[Len(s1) + i] = s2[i]
    <3> HIDE DEF t2, t3, t4, t5, t6
    <3> QED
      BY <2>1, CatAt
  <2> QED
    BY <2>1, <2>2
<1>10. t3 \in Seq(All) /\ Len(t3) = 3 + Reads + Slices(r)
  <2> HIDE DEF t2
  <2> QED
    BY <1>3, <1>9, CatAt
<1>11. t4 \in Seq(All) /\ Len(t4) = 4 + Reads + Slices(r)
  <2> HIDE DEF t3
  <2> QED
    BY <1>0, <1>1, <1>8, <1>10, CatAt
<1>12. t5 \in Seq(All) /\ Len(t5) = 4 + 2 * Reads + Slices(r)
  <2> HIDE DEF t4
  <2> QED
    BY <1>0, <1>2, <1>8, <1>11, CatAt
<1>15. /\ \A i \in 1 .. 3 + Reads : t3[i] = t2[i]
       /\ \A i \in 1 .. Len(s3) : t3[3 + Reads + i] = s3[i]
  <2> HIDE DEF t2
  <2> QED
    BY <1>3, <1>9, CatAt
<1>16. /\ \A i \in 1 .. 3 + Reads + Slices(r) : t4[i] = t3[i]
       /\ t4[4 + Reads + Slices(r)] = s4[1]
  <2> HIDE DEF t3
  <2>1. /\ \A i \in 1 .. Len(t3) : t4[i] = t3[i]
        /\ \A i \in 1 .. Len(s4) : t4[Len(t3) + i] = s4[i]
    BY <1>1, <1>10, CatAt
  <2>2. 1 \in 1 .. Len(s4) /\ Len(t3) + 1 = 4 + Reads + Slices(r)
    BY <1>0, <1>1, <1>8, <1>10
  <2> HIDE DEF t4
  <2> QED
    BY <1>10, <2>1, <2>2
<1>17. /\ \A i \in 1 .. 4 + Reads + Slices(r) : t5[i] = t4[i]
       /\ Counting => t5[5 + Reads + Slices(r)] = s5[1]
  <2> HIDE DEF t4
  <2>1. /\ \A i \in 1 .. Len(t4) : t5[i] = t4[i]
        /\ \A i \in 1 .. Len(s5) : t5[Len(t4) + i] = s5[i]
    BY <1>2, <1>11, CatAt
  <2>2. Counting => 1 \in 1 .. Len(s5) /\ Len(t4) + 1 = 5 + Reads + Slices(r)
    BY <1>0, <1>2, <1>8, <1>11
  <2> HIDE DEF t5
  <2> QED
    BY <1>11, <2>1, <2>2
<1>18. /\ \A i \in 1 .. 4 + 2 * Reads + Slices(r) : t6[i] = t5[i]
       /\ t6[5 + 2 * Reads + Slices(r)] = s6[1]
  <2> HIDE DEF t5
  <2>1. /\ \A i \in 1 .. Len(t5) : t6[i] = t5[i]
        /\ \A i \in 1 .. Len(s6) : t6[Len(t5) + i] = s6[i]
    BY <1>1, <1>12, CatAt
  <2>2. 1 \in 1 .. Len(s6) /\ Len(t5) + 1 = 5 + 2 * Reads + Slices(r)
    BY <1>0, <1>1, <1>8, <1>12
  <2> HIDE DEF t6
  <2> QED
    BY <1>12, <2>1, <2>2
<1> HIDE DEF t2, t3, t4, t5, t6
<1>19. \A i \in 1 .. 3 : t6[i] = s1[i]
  BY <1>0, <1>8, <1>9, <1>15, <1>16, <1>17, <1>18
<1>20. Counting => t6[4] = s2[1]
  BY <1>0, <1>8, <1>9, <1>15, <1>16, <1>17, <1>18
<1>21. \A s \in SliceIds(r) : t6[FirstRun + s] = s3[s + 1]
  <2> SUFFICES ASSUME NEW s \in SliceIds(r) PROVE t6[FirstRun + s] = s3[s + 1]
    OBVIOUS
  <2>1. s + 1 \in 1 .. Len(s3) /\ FirstRun + s = 3 + Reads + (s + 1)
    <3>1. s \in Nat /\ Reads \in Nat
      BY <1>0, <1>8 DEF SliceIds
    <3>2. FirstRun + s = 3 + Reads + (s + 1)
      BY <3>1 DEF FirstRun
    <3> QED
      BY <1>4, <3>2
  <2>2. t3[FirstRun + s] = s3[s + 1]
    BY <1>15, <2>1
  <2>3. FirstRun + s \in 1 .. 3 + Reads + Slices(r)
    BY <1>0, <1>8 DEF FirstRun, SliceIds
  <2> QED
    BY <1>0, <1>8, <1>16, <1>17, <1>18, <2>2, <2>3
<1>22. t6[LastSync(r)] = s4[1]
  BY <1>0, <1>8, <1>16, <1>17, <1>18 DEF LastSync, FirstRun
<1>23. Counting => t6[LastSync(r) + 1] = s5[1]
  BY <1>0, <1>8, <1>17, <1>18 DEF LastSync, FirstRun
<1>24. t6[FinishAt(r)] = s6[1]
  BY <1>0, <1>8, <1>18 DEF FinishAt, LastSync, FirstRun
<1> QED
  BY <1>1, <1>4, <1>5, <1>6, <1>7, <1>19, <1>20, <1>21, <1>22, <1>23, <1>24

-----------------------------------------------------------------------------
(* The invariant holds at first, and the steps of the HAL preserve it.     *)

LEMMA InitLaunchInv == Init => LaunchInv
<1> SUFFICES ASSUME Init PROVE LaunchInv
  OBVIOUS
<1> USE LaunchAssumption DEF Init
<1>1. Cur = 0 /\ Calls = {} /\ Stage = "idle"
  BY DEF Cur, Calls, Stage
<1>2. Types
  BY <1>1 DEF Types, Locations
<1>3. LockInv /\ BlocksInv /\ OwnersInv /\ QueueInv
  BY <1>1 DEF LockInv, BlocksInv, OwnersInv, QueueInv, WithKub, WithCounters, WithBuffer, Free
<1>4. ParametersInv /\ GroupsInv /\ CountersInv
  BY <1>1 DEF ParametersInv, OwnParameters, GroupsInv, CountersInv, WithKub, Early, Over
<1> QED
  BY <1>2, <1>3, <1>4 DEF LaunchInv

\* A thread in kernel_exec has the lock and the latest call.
LEMMA HolderOfLock ==
  ASSUME LaunchInv, NEW t \in Threads, pc[t] # "idle"
  PROVE  /\ lock = t /\ lock # Nobody /\ Stage = pc[t]
         /\ call[t] = Cur /\ Cur \in Nat /\ Cur \in Calls /\ Calls = 1 .. Cur
         /\ Launch(t) = Latest /\ Latest \in LaunchType /\ Latest.outcome = "none"
<1>1. lock = t /\ lock # Nobody /\ Stage = pc[t] /\ call[t] = Cur /\ Cur > 0
  BY LaunchAssumption DEF LaunchInv, LockInv, Stage
<1>2. Cur \in Nat /\ Calls = 1 .. Cur
  BY DEF LaunchInv, Types, Cur, Calls
<1>3. Cur \in Calls
  BY <1>1, <1>2
<1>4. Latest \in LaunchType
  BY <1>3 DEF LaunchInv, Types, Latest, Calls
<1>5. Latest.outcome = "none"
  BY <1>1, <1>3 DEF LaunchInv, LockInv, Latest
<1> QED
  BY <1>1, <1>2, <1>3, <1>4, <1>5 DEF Launch, Latest

\* A launch stays undisturbed while no command fails.
LEMMA UndisturbedStays ==
  ASSUME failed' = failed, NEW i, launches'[i].range = launches[i].range
  PROVE  Undisturbed(i)' <=> Undisturbed(i)
BY DEF Undisturbed

LEMMA CallsAre ==
  ASSUME LaunchInv
  PROVE  Calls = 1 .. Cur /\ Cur \in Nat
BY DEF LaunchInv, Types, Cur, Calls

\* Any failure so far disturbs the latest launch.
LEMMA FailuresDisturb ==
  ASSUME LaunchInv, failed # {}
  PROVE  ~Undisturbed(Cur)
<1>1. failed \subseteq 1 .. Cur
  BY CallsAre DEF LaunchInv, Types
<1> QED
  BY <1>1 DEF Undisturbed

LEMMA BeginKeepsInv ==
  ASSUME LaunchInv, NEW t \in Threads, NEW r \in Ranges, Begin(t, r)
  PROVE  LaunchInv'
<1> DEFINE new == [range |-> r, kub |-> Null, counters |-> Null,
                   buffer |-> Null, outcome |-> "none", measured |-> 0]
<1>1. /\ lock = Nobody /\ pc[t] = "idle" /\ lock' = t
      /\ launches' = Append(launches, new)
      /\ call' = [call EXCEPT ![t] = Len(launches) + 1]
      /\ pc' = [pc EXCEPT ![t] = "loading"]
      /\ UNCHANGED <<mem, queue, at, image, runVars, failed>>
  BY DEF Begin, Call, Goto
<1>2. new \in LaunchType /\ new.outcome = "none"
  BY DEF LaunchType
<1> HIDE DEF new
<1>3. launches \in Seq(LaunchType) /\ Cur \in Nat /\ Calls = 1 .. Cur
  BY DEF LaunchInv, Types, Cur, Calls
<1>4. /\ Cur' = Cur + 1 /\ Calls' = 1 .. Cur + 1 /\ launches' \in Seq(LaunchType)
      /\ \A i \in Calls : launches'[i] = launches[i]
      /\ launches'[Cur + 1] = new
  BY <1>1, <1>2, <1>3 DEF Cur, Calls
<1>5. Stage = "idle" /\ Stage' = "loading" /\ t # Nobody
  BY <1>1, LaunchAssumption DEF Stage, LaunchInv, Types
<1>6. queue = <<>> /\ queue' = <<>>
  BY <1>1, <1>5 DEF LaunchInv, QueueInv
<1>7. Types'
  BY <1>1, <1>3, <1>4 DEF LaunchInv, Types, Locations, runVars, Cur
<1>8. LockInv'
  <2>1. \A u \in Threads : pc'[u] # "idle" <=> lock' = u
    BY <1>1, <1>5, LaunchAssumption DEF LaunchInv, LockInv, Types
  <2>2. call'[lock'] = Cur' /\ Cur' > 0
    <3>1. call'[t] = Cur + 1
      BY <1>1 DEF LaunchInv, Types, Cur
    <3> QED
      BY <1>1, <1>3, <1>4, <3>1
  <2>3. \A i \in Calls' : launches'[i].outcome = "none" <=> i = Cur'
    BY <1>1, <1>2, <1>3, <1>4 DEF LaunchInv, LockInv
  <2> QED
    BY <1>1, <1>5, <2>1, <2>2, <2>3 DEF LockInv
<1>9. BlocksInv'
  BY <1>5 DEF BlocksInv, WithKub, WithCounters, WithBuffer
<1>10. OwnersInv'
  <2>1. \A b \in Blocks : mem[b].type \in {"kub", "counters", "commands"} =>
          mem[b].call \in Calls /\ launches[mem[b].call].outcome = "false"
    BY <1>5 DEF LaunchInv, OwnersInv, WithKub, WithCounters, WithBuffer
  <2>2. \A i \in Calls : i \in Calls' /\ launches'[i] = launches[i]
    BY <1>3, <1>4
  <2>3. mem' = mem
    BY <1>1
  <2> QED
    BY <2>1, <2>2, <2>3 DEF OwnersInv
<1>11. QueueInv'
  BY <1>1, <1>6 DEF LaunchInv, QueueInv
<1>12. ParametersInv'
  BY <1>1, <1>5, <1>6 DEF LaunchInv, ParametersInv, OwnParameters, WithKub, runVars
<1>13. \A i : RanBy(i)' = RanBy(i)
  BY <1>1 DEF RanBy, runVars
<1>14. GroupsInv'
  <2>1. Cur + 1 \notin Calls
    BY <1>3
  <2>2. RanBy(Cur + 1) = {} /\ Cur + 1 \notin failed
    BY <2>1 DEF LaunchInv, Types, RanBy
  <2>3. IsFiniteSet(RanBy(Cur + 1))
    BY <2>2, FS_EmptySet
  <2>4. \A i \in Calls' : i \in Calls \/ i = Cur + 1
    BY <1>3, <1>4
  <2> QED
    BY <1>1, <1>2, <1>4, <1>5, <1>6, <1>13, <2>2, <2>3, <2>4
    DEF LaunchInv, GroupsInv, Early, Over, Undisturbed, runVars
<1>15. CountersInv'
  <2>1. \A i \in Calls' : launches'[i].outcome = "true" => i \in Calls
    BY <1>2, <1>3, <1>4
  <2> QED
    BY <1>1, <1>4, <1>5, <1>6, <1>13, <2>1 DEF LaunchInv, CountersInv, Over, Undisturbed
<1> QED
  BY <1>7, <1>8, <1>9, <1>10, <1>11, <1>12, <1>14, <1>15 DEF LaunchInv

\* The record of the latest launch is changed.
LEMMA NoteFacts ==
  ASSUME LaunchInv, NEW t \in Threads, pc[t] # "idle", NEW new \in LaunchType,
         launches' = [launches EXCEPT ![Cur] = new]
  PROVE  /\ Cur' = Cur /\ Calls' = Calls /\ launches' \in Seq(LaunchType)
         /\ \A i \in Calls \ {Cur} : launches'[i] = launches[i]
         /\ Latest' = new /\ launches'[Cur] = new /\ launches[Cur] = Latest
<1>1. Cur \in Calls /\ launches \in Seq(LaunchType)
  BY HolderOfLock DEF LaunchInv, Types
<1>3. launches' \in Seq(LaunchType) /\ Len(launches') = Len(launches)
  BY <1>1 DEF Calls
<1>4. Cur' = Cur /\ Calls' = Calls
  BY <1>1, <1>3 DEF Cur, Calls
<1>5. \A i \in Calls \ {Cur} : launches'[i] = launches[i]
  BY <1>1 DEF Calls
<1>6. launches'[Cur] = new
  BY <1>1 DEF Calls
<1> QED
  BY <1>3, <1>4, <1>5, <1>6 DEF Latest

\* kernel_exec returns false: what it has allocated it keeps.
LEMMA ReturnFalseKeepsInv ==
  ASSUME LaunchInv, NEW t \in Threads, pc[t] \in {"loading", "kub", "counters", "buffer"},
         Return(t, "false"), UNCHANGED <<mem, queue, at, runVars, failed>>
  PROVE  LaunchInv'
<1>1. /\ lock = t /\ lock # Nobody /\ Stage = pc[t] /\ pc[t] # "idle"
      /\ call[t] = Cur /\ Cur \in Calls /\ Latest \in LaunchType
      /\ Latest.outcome = "none"
  BY HolderOfLock
<1>2. /\ lock' = Nobody /\ pc' = [pc EXCEPT ![t] = "idle"] /\ call' = call
      /\ Note(t, "outcome", "false")
  BY DEF Return, Goto
<1>3. /\ [Latest EXCEPT !.outcome = "false"] \in LaunchType
      /\ launches' = [launches EXCEPT ![Cur] = [Latest EXCEPT !.outcome = "false"]]
  BY <1>1, <1>2 DEF LaunchType, Note, Latest
<1>4. /\ Cur' = Cur /\ Calls' = Calls /\ launches' \in Seq(LaunchType)
      /\ \A i \in Calls \ {Cur} : launches'[i] = launches[i]
      /\ Latest' = [Latest EXCEPT !.outcome = "false"]
  BY <1>1, <1>2, <1>3, NoteFacts
<1>5. /\ Latest'.outcome = "false" /\ Latest'.range = Latest.range
      /\ launches'[Cur] = Latest' /\ launches[Cur] = Latest
  BY <1>1, <1>4 DEF LaunchType, Latest
<1>6. \A i \in Calls : /\ launches'[i].range = launches[i].range
                       /\ launches'[i].outcome = "true" =>
                            launches[i].outcome = "true" /\ launches'[i] = launches[i]
                       /\ launches[i].outcome = "false" => launches'[i].outcome = "false"
                       /\ launches'[i].outcome # "none"
  BY <1>1, <1>4, <1>5 DEF LaunchInv, LockInv
<1>7. Stage' = "idle" /\ queue = <<>>
  BY <1>1, <1>2 DEF Stage, LaunchInv, QueueInv
<1>8. Types'
  BY <1>2, <1>4 DEF LaunchInv, Types, Locations, runVars
<1>9. LockInv'
  <2>1. \A u \in Threads : pc'[u] = "idle"
    BY <1>1, <1>2 DEF LaunchInv, LockInv, Types
  <2> QED
    BY <1>2, <1>4, <1>6, <2>1, LaunchAssumption DEF LockInv
<1>10. BlocksInv' /\ QueueInv'
  BY <1>7 DEF BlocksInv, LaunchInv, QueueInv, WithKub, WithCounters, WithBuffer
<1>11. OwnersInv'
  <2> SUFFICES ASSUME NEW b \in Blocks, mem[b].type \in {"kub", "counters", "commands"}
               PROVE  mem[b].call \in Calls /\ launches'[mem[b].call].outcome = "false"
    BY <1>4 DEF OwnersInv
  <2>1. CASE mem[b].call = Cur
    BY <1>1, <1>5, <2>1
  <2>2. CASE mem[b].call # Cur
    BY <1>6, <2>2 DEF LaunchInv, OwnersInv
  <2> QED
    BY <2>1, <2>2
<1>12. ParametersInv'
  BY <1>7 DEF LaunchInv, ParametersInv, OwnParameters, WithKub, runVars
<1>13. \A i : RanBy(i)' = RanBy(i)
  BY DEF RanBy, runVars
<1>14. GroupsInv'
  BY <1>4, <1>6, <1>7, <1>13 DEF LaunchInv, GroupsInv, Early, Over, Undisturbed, runVars
<1>15. CountersInv'
  BY <1>4, <1>6, <1>7, <1>13 DEF LaunchInv, CountersInv, Over, Undisturbed
<1> QED
  BY <1>8, <1>9, <1>10, <1>11, <1>12, <1>14, <1>15 DEF LaunchInv

LEMMA LoadKeepsInv ==
  ASSUME LaunchInv, NEW t \in Threads, Load(t)
  PROVE  LaunchInv'
<1>1. pc[t] = "loading" /\ UNCHANGED <<mem, queue, at, runVars, failed>>
  BY DEF Load
<1>2. CASE Return(t, "false")
  BY <1>1, <1>2, ReturnFalseKeepsInv
<1>3. CASE image' = call[t] /\ Goto(t, "kub") /\ UNCHANGED <<lock, call, launches>>
  <2>1. lock = t /\ lock # Nobody /\ Stage = "loading" /\ call[t] = Cur
    BY <1>1, HolderOfLock
  <2>2. UNCHANGED <<Cur, Calls, Latest>> /\ image' = Cur
    BY <1>3, <2>1 DEF Cur, Calls, Latest
  <2>3. Stage' = "kub" /\ queue = <<>> /\ \A u \in Threads : pc'[u] = "idle" <=> pc[u] = "idle"
    BY <1>1, <1>3, <2>1 DEF Stage, Goto, LaunchInv, Types, QueueInv
  <2>4. Types' /\ LockInv'
    BY <1>1, <1>3, <2>2, <2>3 DEF LaunchInv, Types, LockInv, Goto, Locations, runVars
  <2>5. BlocksInv' /\ OwnersInv' /\ QueueInv'
    BY <1>1, <1>3, <2>1, <2>2, <2>3
    DEF LaunchInv, BlocksInv, OwnersInv, QueueInv, WithKub, WithCounters, WithBuffer
  <2>6. ParametersInv'
    BY <1>1, <2>2, <2>3 DEF LaunchInv, ParametersInv, OwnParameters, runVars
  <2>7. \A i : RanBy(i)' = RanBy(i)
    BY <1>1 DEF RanBy, runVars
  <2>8. GroupsInv' /\ CountersInv'
    BY <1>1, <1>3, <2>1, <2>2, <2>3, <2>7
    DEF LaunchInv, GroupsInv, CountersInv, Early, Over, Undisturbed, runVars
  <2> QED
    BY <2>4, <2>5, <2>6, <2>8 DEF LaunchInv
<1> QED
  BY <1>2, <1>3 DEF Load

\* What the three allocations of kernel_exec have in common when they succeed.
Allocated(next, b, content, new) ==
  /\ Types' /\ LockInv' /\ QueueInv' /\ ParametersInv' /\ GroupsInv' /\ CountersInv'
  /\ Stage' = next
  /\ Cur' = Cur /\ Calls' = Calls /\ Cur \in Calls /\ Latest' = new
  /\ launches[Cur].outcome = "none"
  /\ \A i \in Calls : i # Cur => launches'[i] = launches[i]
  /\ mem'[b] = content /\ \A a \in Blocks : a # b => mem'[a] = mem[a]

LEMMA AllocFacts ==
  ASSUME LaunchInv, NEW t \in Threads, pc[t] \in {"kub", "counters", "buffer"},
         NEW next \in {"counters", "buffer", "submitting"}, Goto(t, next),
         NEW b \in Blocks, NEW content, mem' = [mem EXCEPT ![b] = content],
         NEW new \in LaunchType, launches' = [launches EXCEPT ![Cur] = new],
         new.outcome = "none", new.range = Latest.range,
         UNCHANGED <<lock, call, queue, at, image, runVars, failed>>
  PROVE  Allocated(next, b, content, new)
<1>1. /\ lock = t /\ lock # Nobody /\ Stage = pc[t] /\ pc[t] # "idle"
      /\ call[t] = Cur /\ Cur \in Calls /\ Latest.outcome = "none"
  BY HolderOfLock
<1>2. /\ Cur' = Cur /\ Calls' = Calls /\ launches' \in Seq(LaunchType)
      /\ \A i \in Calls \ {Cur} : launches'[i] = launches[i]
      /\ Latest' = new /\ launches'[Cur] = new /\ launches[Cur] = Latest
  BY <1>1, NoteFacts
<1>3. /\ mem' = [a \in Blocks |-> mem'[a]]
      /\ mem'[b] = content /\ \A a \in Blocks : a # b => mem'[a] = mem[a]
  <2>1. mem = [a \in Blocks |-> mem[a]]
    BY DEF LaunchInv, Types
  <2> QED
    BY <2>1
<1>4. /\ pc' = [pc EXCEPT ![t] = next] /\ lock' = lock /\ queue' = queue
  BY DEF Goto
<1>5. Stage' = next /\ \A u \in Threads : pc'[u] = "idle" <=> pc[u] = "idle"
  BY <1>1, <1>4 DEF Stage, LaunchInv, Types
<1>6. queue = <<>>
  BY <1>1 DEF LaunchInv, QueueInv
<1>7. Types'
  BY <1>2, <1>3, <1>4 DEF LaunchInv, Types, Locations, runVars
<1>8. LockInv'
  BY <1>1, <1>2, <1>4, <1>5 DEF LaunchInv, LockInv
<1>9. QueueInv' /\ ParametersInv'
  <2>1. QueueInv'
    BY <1>4, <1>6 DEF LaunchInv, QueueInv
  <2>2. image = Cur
    BY <1>1 DEF LaunchInv, ParametersInv, WithKub
  <2>3. ParametersInv'
    BY <1>2, <1>4, <1>6, <2>2 DEF LaunchInv, ParametersInv, OwnParameters, runVars
  <2> QED
    BY <2>1, <2>3
<1>10. \A i : RanBy(i)' = RanBy(i)
  BY DEF RanBy, runVars
<1>11. \A i \in Calls : /\ launches'[i].range = launches[i].range
                        /\ launches'[i].outcome = "true" =>
                             launches[i].outcome = "true" /\ launches'[i] = launches[i]
  BY <1>1, <1>2
<1>12. GroupsInv' /\ CountersInv'
  <2>1. Stage \in Early /\ ~Over' /\ Stage # "idle"
    BY <1>1, <1>5 DEF Early, Over
  <2>2. GroupsInv'
    BY <1>2, <1>4, <1>5, <1>6, <1>10, <1>11, <2>1
    DEF LaunchInv, GroupsInv, Undisturbed, runVars
  <2>3. CountersInv'
    BY <1>2, <1>4, <1>5, <1>6, <1>10, <1>11, <2>1 DEF LaunchInv, CountersInv, Undisturbed
  <2> QED
    BY <2>2, <2>3
<1> QED
  BY <1>1, <1>2, <1>3, <1>5, <1>7, <1>8, <1>9, <1>12 DEF Allocated

LEMMA AllocKubKeepsInv ==
  ASSUME LaunchInv, NEW t \in Threads, AllocKub(t)
  PROVE  LaunchInv'
<1> DEFINE content == [type |-> "kub", call |-> call[t], groups |-> Launch(t).range.groups]
<1>1. pc[t] = "kub" /\ UNCHANGED <<queue, at, image, runVars, failed>>
  BY DEF AllocKub, Allocate
<1>2. CASE Return(t, "false") /\ UNCHANGED mem
  <2>1. UNCHANGED <<mem, queue, at, runVars, failed>>
    BY <1>1, <1>2
  <2> QED
    BY <1>1, <1>2, <2>1, ReturnFalseKeepsInv
<1>3. ASSUME NEW b \in Blocks, mem[b] = Free, mem' = [mem EXCEPT ![b] = content],
             Note(t, "kub", b), UNCHANGED <<lock, call>>,
             NEW next, Goto(t, next), next \in {"counters", "buffer"},
             next = "buffer" => ~Counting
      PROVE  LaunchInv'
  <2> DEFINE new == [Latest EXCEPT !.kub = b]
  <2>1. /\ call[t] = Cur /\ Launch(t) = Latest /\ Latest \in LaunchType
        /\ Latest.outcome = "none" /\ Stage = "kub"
    BY <1>1, HolderOfLock
  <2>2. /\ new \in LaunchType /\ new.outcome = "none" /\ new.range = Latest.range
        /\ new.kub = b /\ new.counters = Latest.counters
    BY <2>1 DEF LaunchType
  <2>3. launches' = [launches EXCEPT ![Cur] = new]
    BY <1>3, <2>1 DEF Note, Latest
  <2>4. content = [type |-> "kub", call |-> Cur, groups |-> Latest.range.groups]
    BY <2>1
  <2>5. /\ next \in {"counters", "buffer", "submitting"}
        /\ pc[t] \in {"kub", "counters", "buffer"} /\ Goto(t, next)
        /\ mem' = [mem EXCEPT ![b] = content]
        /\ UNCHANGED <<lock, call, queue, at, image, runVars, failed>>
    BY <1>1, <1>3
  <2> HIDE DEF new, content
  <2>6. Allocated(next, b, content, new)
    BY <1>3, <2>2, <2>3, <2>5, AllocFacts
  <2> USE DEF Allocated
  <2>7. BlocksInv'
    BY <1>3, <2>2, <2>4, <2>6 DEF BlocksInv, WithKub, WithCounters, WithBuffer
  <2>8. OwnersInv'
    <3> SUFFICES ASSUME NEW a \in Blocks, mem'[a].type \in {"kub", "counters", "commands"}
                 PROVE  /\ mem'[a].call \in Calls
                        /\ \/ launches'[mem'[a].call].outcome = "false"
                           \/ mem'[a].call = Cur /\ mem'[a].type = "kub" /\ a = b
      BY <2>2, <2>5, <2>6 DEF OwnersInv, WithKub
    <3>1. CASE a = b
      BY <2>4, <2>6, <3>1
    <3>2. CASE a # b
      <4>1. mem[a].call \in Calls /\ launches[mem[a].call].outcome = "false"
        BY <2>1, <2>6, <3>2 DEF LaunchInv, OwnersInv, WithKub, WithCounters, WithBuffer
      <4>2. mem[a].call # Cur
        BY <2>6, <4>1
      <4> QED
        BY <2>6, <3>2, <4>1, <4>2
    <3> QED
      BY <3>1, <3>2
  <2> QED
    BY <2>6, <2>7, <2>8 DEF LaunchInv
<1>4. /\ (IF Counting THEN "counters" ELSE "buffer") \in {"counters", "buffer"}
      /\ (IF Counting THEN "counters" ELSE "buffer") = "buffer" => ~Counting
  OBVIOUS
<1> QED
  BY <1>2, <1>3, <1>4 DEF AllocKub, Allocate

LEMMA AllocCountersKeepsInv ==
  ASSUME LaunchInv, NEW t \in Threads, AllocCounters(t)
  PROVE  LaunchInv'
<1> DEFINE content == [type |-> "counters", call |-> call[t], before |-> 0, after |-> 0]
<1>1. pc[t] = "counters" /\ UNCHANGED <<queue, at, image, runVars, failed>>
  BY DEF AllocCounters, Allocate
<1>2. CASE Return(t, "false") /\ UNCHANGED mem
  <2>1. UNCHANGED <<mem, queue, at, runVars, failed>>
    BY <1>1, <1>2
  <2> QED
    BY <1>1, <1>2, <2>1, ReturnFalseKeepsInv
<1>3. ASSUME NEW b \in Blocks, mem[b] = Free, mem' = [mem EXCEPT ![b] = content],
             Note(t, "counters", b), Goto(t, "buffer"), UNCHANGED <<lock, call>>
      PROVE  LaunchInv'
  <2> DEFINE new == [Latest EXCEPT !.counters = b]
  <2>1. /\ call[t] = Cur /\ Launch(t) = Latest /\ Latest \in LaunchType
        /\ Latest.outcome = "none" /\ Stage = "counters"
    BY <1>1, HolderOfLock
  <2>2. /\ new \in LaunchType /\ new.outcome = "none" /\ new.range = Latest.range
        /\ new.kub = Latest.kub /\ new.counters = b
    BY <2>1 DEF LaunchType
  <2>3. launches' = [launches EXCEPT ![Cur] = new]
    BY <1>3, <2>1 DEF Note, Latest
  <2>4. content \in [type : {"counters"}, call : {Cur}, before : Nat, after : Nat]
    BY <2>1
  <2>5. content.type = "counters" /\ content.call = Cur
    BY <2>1
  <2>6. /\ Latest.kub \in Blocks /\ Latest.kub # b
        /\ mem[Latest.kub] = [type |-> "kub", call |-> Cur, groups |-> Latest.range.groups]
    <3>1. /\ Latest.kub \in Blocks
          /\ mem[Latest.kub] = [type |-> "kub", call |-> Cur, groups |-> Latest.range.groups]
      BY <2>1 DEF LaunchInv, BlocksInv, WithKub
    <3>2. mem[Latest.kub].type = "kub" /\ mem[b].type = "free"
      BY <1>3, <3>1 DEF Free
    <3> QED
      BY <3>1, <3>2
  <2> HIDE DEF new, content
  <2>7. Allocated("buffer", b, content, new)
    BY <1>1, <1>3, <2>2, <2>3, AllocFacts
  <2> USE DEF Allocated
  <2>8. BlocksInv'
    BY <2>2, <2>4, <2>6, <2>7 DEF BlocksInv, WithKub, WithCounters, WithBuffer
  <2>9. OwnersInv'
    <3> SUFFICES ASSUME NEW a \in Blocks, mem'[a].type \in {"kub", "counters", "commands"}
                 PROVE  /\ mem'[a].call \in Calls
                        /\ \/ launches'[mem'[a].call].outcome = "false"
                           \/ /\ mem'[a].call = Cur
                              /\ \/ mem'[a].type = "kub" /\ a = Latest.kub
                                 \/ mem'[a].type = "counters" /\ a = b
      BY <2>2, <2>7 DEF OwnersInv, WithKub, WithCounters
    <3>1. CASE a = b
      BY <2>5, <2>7, <3>1
    <3>2. CASE a # b
      <4>1. /\ mem[a].call \in Calls
            /\ \/ launches[mem[a].call].outcome = "false"
               \/ mem[a].call = Cur /\ mem[a].type = "kub" /\ a = Latest.kub
        BY <2>1, <2>7, <3>2 DEF LaunchInv, OwnersInv, WithKub, WithCounters, WithBuffer
      <4>2. launches[mem[a].call].outcome = "false" => mem[a].call # Cur
        BY <2>7
      <4> QED
        BY <2>7, <3>2, <4>1, <4>2
    <3> QED
      BY <3>1, <3>2
  <2> QED
    BY <2>7, <2>8, <2>9 DEF LaunchInv
<1> QED
  BY <1>2, <1>3 DEF AllocCounters, Allocate

LEMMA AllocBufferKeepsInv ==
  ASSUME LaunchInv, NEW t \in Threads, AllocBuffer(t)
  PROVE  LaunchInv'
<1> DEFINE content ==
      [type |-> "commands", call |-> call[t],
       commands |-> Commands(Launch(t).range, Launch(t).kub, Launch(t).counters)]
<1>1. pc[t] = "buffer" /\ UNCHANGED <<queue, at, image, runVars, failed>>
  BY DEF AllocBuffer, Allocate
<1>2. CASE Return(t, "false") /\ UNCHANGED mem
  <2>1. UNCHANGED <<mem, queue, at, runVars, failed>>
    BY <1>1, <1>2
  <2> QED
    BY <1>1, <1>2, <2>1, ReturnFalseKeepsInv
<1>3. ASSUME NEW b \in Blocks, mem[b] = Free, mem' = [mem EXCEPT ![b] = content],
             Note(t, "buffer", b), Goto(t, "submitting"), UNCHANGED <<lock, call>>
      PROVE  LaunchInv'
  <2> DEFINE new == [Latest EXCEPT !.buffer = b]
  <2>1. /\ call[t] = Cur /\ Launch(t) = Latest /\ Latest \in LaunchType
        /\ Latest.outcome = "none" /\ Stage = "buffer"
    BY <1>1, HolderOfLock
  <2>2. /\ new \in LaunchType /\ new.outcome = "none" /\ new.range = Latest.range
        /\ new.kub = Latest.kub /\ new.counters = Latest.counters /\ new.buffer = b
    BY <2>1 DEF LaunchType
  <2>3. launches' = [launches EXCEPT ![Cur] = new]
    BY <1>3, <2>1 DEF Note, Latest
  <2>4. content = [type |-> "commands", call |-> Cur,
                   commands |-> Commands(Latest.range, Latest.kub, Latest.counters)]
    BY <2>1
  <2>5. content.type = "commands" /\ content.call = Cur
    BY <2>1
  <2>6. /\ Latest.kub \in Blocks /\ Latest.kub # b
        /\ mem[Latest.kub] = [type |-> "kub", call |-> Cur, groups |-> Latest.range.groups]
    <3>1. /\ Latest.kub \in Blocks
          /\ mem[Latest.kub] = [type |-> "kub", call |-> Cur, groups |-> Latest.range.groups]
      BY <2>1 DEF LaunchInv, BlocksInv, WithKub
    <3>2. mem[Latest.kub].type = "kub" /\ mem[b].type = "free"
      BY <1>3, <3>1 DEF Free
    <3> QED
      BY <3>1, <3>2
  <2>7. Counting =>
          /\ Latest.counters \in Blocks /\ Latest.counters # b
          /\ mem[Latest.counters] \in
               [type : {"counters"}, call : {Cur}, before : Nat, after : Nat]
    <3> SUFFICES ASSUME Counting
                 PROVE  /\ Latest.counters \in Blocks /\ Latest.counters # b
                        /\ mem[Latest.counters] \in
                             [type : {"counters"}, call : {Cur}, before : Nat, after : Nat]
      OBVIOUS
    <3>1. /\ Latest.counters \in Blocks
          /\ mem[Latest.counters] \in
               [type : {"counters"}, call : {Cur}, before : Nat, after : Nat]
      BY <2>1 DEF LaunchInv, BlocksInv, WithCounters
    <3>2. mem[Latest.counters].type = "counters" /\ mem[b].type = "free"
      BY <1>3, <3>1 DEF Free
    <3> QED
      BY <3>1, <3>2
  <2> HIDE DEF new, content
  <2>8. Allocated("submitting", b, content, new)
    BY <1>1, <1>3, <2>2, <2>3, AllocFacts
  <2> USE DEF Allocated
  <2>9. BlocksInv'
    BY <2>2, <2>4, <2>6, <2>7, <2>8 DEF BlocksInv, WithKub, WithCounters, WithBuffer
  <2>10. OwnersInv'
    <3> SUFFICES ASSUME NEW a \in Blocks, mem'[a].type \in {"kub", "counters", "commands"}
                 PROVE  /\ mem'[a].call \in Calls
                        /\ \/ launches'[mem'[a].call].outcome = "false"
                           \/ /\ mem'[a].call = Cur
                              /\ \/ mem'[a].type = "kub" /\ a = Latest.kub
                                 \/ mem'[a].type = "counters" /\ a = Latest.counters
                                 \/ mem'[a].type = "commands" /\ a = b
      BY <2>2, <2>8 DEF OwnersInv, WithKub, WithCounters, WithBuffer
    <3>1. CASE a = b
      BY <2>5, <2>8, <3>1
    <3>2. CASE a # b
      <4>1. /\ mem[a].call \in Calls
            /\ \/ launches[mem[a].call].outcome = "false"
               \/ /\ mem[a].call = Cur
                  /\ \/ mem[a].type = "kub" /\ a = Latest.kub
                     \/ mem[a].type = "counters" /\ a = Latest.counters
        BY <2>1, <2>8, <3>2 DEF LaunchInv, OwnersInv, WithKub, WithCounters, WithBuffer
      <4>2. launches[mem[a].call].outcome = "false" => mem[a].call # Cur
        BY <2>8
      <4> QED
        BY <2>8, <3>2, <4>1, <4>2
    <3> QED
      BY <3>1, <3>2
  <2> QED
    BY <2>8, <2>9, <2>10 DEF LaunchInv
<1> QED
  BY <1>2, <1>3 DEF AllocBuffer, Allocate

\* The positions of a command buffer.
LEMMA Positions ==
  ASSUME NEW r \in Ranges
  PROVE  /\ Slices(r) \in Nat /\ Reads \in {0, 1} /\ (Counting <=> Reads = 1)
         /\ FirstRun = 4 + Reads /\ LastSync(r) = FirstRun + Slices(r)
         /\ FinishAt(r) = LastSync(r) + 1 + Reads
<1>1. r.groups[2] * r.groups[3] \in Nat
  BY RangeShape
<1>2. Slices(r) \in Nat
  BY <1>1, RangeShape
<1>3. Reads \in {0, 1} /\ (Counting <=> Reads = 1)
  BY LaunchAssumption DEF Reads
<1> QED
  BY <1>2, <1>3 DEF FirstRun, LastSync, FinishAt

LEMMA SubmitKeepsInv ==
  ASSUME LaunchInv, NEW t \in Threads, Submit(t)
  PROVE  LaunchInv'
<1>1. /\ pc[t] = "submitting" /\ queue' = Append(queue, Launch(t).buffer)
      /\ pc' = [pc EXCEPT ![t] = "waiting"]
      /\ UNCHANGED <<lock, call, launches, mem, at, image, runVars, failed>>
  BY DEF Submit, Goto
<1>2. /\ lock = t /\ lock # Nobody /\ Stage = "submitting" /\ Cur \in Calls
      /\ Launch(t) = Latest /\ Latest \in LaunchType
  BY <1>1, HolderOfLock
<1>3. UNCHANGED <<Cur, Calls, Latest>>
  BY <1>1 DEF Cur, Calls, Latest
<1>4. queue = <<>> /\ at = 1
  BY <1>2 DEF LaunchInv, QueueInv
<1>5. queue' = << Latest.buffer >> /\ queue' # <<>>
  BY <1>1, <1>2, <1>4
<1>6. Stage' = "waiting" /\ \A u \in Threads : pc'[u] = "idle" <=> pc[u] = "idle"
  BY <1>1, <1>2 DEF Stage, LaunchInv, Types
<1>7. RanBy(Cur) = {} /\ Cur \notin failed /\ image = Cur
  BY <1>2 DEF LaunchInv, GroupsInv, ParametersInv, Early, WithKub
<1>8. Types' /\ LockInv'
  BY <1>1, <1>3, <1>6 DEF LaunchInv, Types, LockInv, Locations, runVars
<1>9. BlocksInv' /\ OwnersInv'
  BY <1>1, <1>2, <1>3, <1>6
  DEF LaunchInv, BlocksInv, OwnersInv, WithKub, WithCounters, WithBuffer
<1>10. Latest.range \in Ranges
  BY <1>2 DEF LaunchType
<1>11. at < FirstRun /\ FirstRun < FinishAt(Latest.range) /\ at \in 1 .. FinishAt(Latest.range)
  BY <1>4, <1>10, Positions
<1>12. QueueInv' /\ ParametersInv'
  <2>1. QueueInv'
    BY <1>1, <1>3, <1>5, <1>6, <1>7, <1>11 DEF QueueInv
  <2>2. ParametersInv'
    BY <1>1, <1>3, <1>4, <1>7 DEF LaunchInv, ParametersInv, OwnParameters, runVars
  <2> QED
    BY <2>1, <2>2
<1>13. \A i : RanBy(i)' = RanBy(i)
  BY <1>1 DEF RanBy, runVars
<1>14. GroupsUpTo(Latest.range, SlicesBefore(Latest.range, at)) = {}
  BY <1>11 DEF GroupsUpTo, SlicesBefore
<1>15. IsFiniteSet(RanBy(Cur))
  BY <1>7, FS_EmptySet
<1>16. GroupsInv'
  BY <1>1, <1>3, <1>5, <1>6, <1>7, <1>13, <1>14, <1>15
  DEF LaunchInv, GroupsInv, Early, Over, Undisturbed, runVars
<1>17. CountersInv'
  <2>1. ~Over' /\ ~(at >= FirstRun) /\ at # FinishAt(Latest.range)
    BY <1>4, <1>5, <1>10, <1>11, Positions DEF Over
  <2> QED
    BY <1>1, <1>3, <1>13, <2>1 DEF LaunchInv, CountersInv, Undisturbed
<1> QED
  BY <1>8, <1>9, <1>12, <1>16, <1>17 DEF LaunchInv

LEMMA WaitKeepsInv ==
  ASSUME LaunchInv, NEW t \in Threads, Wait(t)
  PROVE  LaunchInv'
<1>1. /\ pc[t] = "waiting" /\ queue = <<>>
      /\ mem' = [mem EXCEPT ![Launch(t).buffer] = Free]
      /\ pc' = [pc EXCEPT ![t] = "finishing"]
      /\ UNCHANGED <<lock, call, launches, queue, at, image, runVars, failed>>
  BY DEF Wait, Goto
<1>2. /\ lock = t /\ lock # Nobody /\ Stage = "waiting" /\ Cur \in Calls
      /\ Launch(t) = Latest /\ Latest \in LaunchType
  BY <1>1, HolderOfLock
<1>3. UNCHANGED <<Cur, Calls, Latest>>
  BY <1>1 DEF Cur, Calls, Latest
<1>4. Stage' = "finishing" /\ \A u \in Threads : pc'[u] = "idle" <=> pc[u] = "idle"
  BY <1>1, <1>2 DEF Stage, LaunchInv, Types
<1>5. Latest.buffer \in Blocks /\ mem[Latest.buffer].type = "commands"
  BY <1>2 DEF LaunchInv, BlocksInv, WithBuffer
<1>6. /\ mem'[Latest.buffer].type = "free"
      /\ \A a \in Blocks : a # Latest.buffer => mem'[a] = mem[a]
      /\ mem' = [a \in Blocks |-> mem'[a]]
  <2>1. mem = [a \in Blocks |-> mem[a]]
    BY DEF LaunchInv, Types
  <2> QED
    BY <1>1, <1>2, <1>5, <2>1 DEF Free
<1>7. Types' /\ LockInv'
  BY <1>1, <1>3, <1>4, <1>6 DEF LaunchInv, Types, LockInv, Locations, runVars
<1>8. /\ Latest.kub \in Blocks /\ Latest.kub # Latest.buffer
      /\ mem[Latest.kub] = [type |-> "kub", call |-> Cur, groups |-> Latest.range.groups]
  <2>1. /\ Latest.kub \in Blocks
        /\ mem[Latest.kub] = [type |-> "kub", call |-> Cur, groups |-> Latest.range.groups]
    BY <1>2 DEF LaunchInv, BlocksInv, WithKub
  <2>2. mem[Latest.kub].type = "kub"
    BY <2>1
  <2> QED
    BY <1>5, <2>1, <2>2
<1>9. Counting => /\ Latest.counters \in Blocks /\ Latest.counters # Latest.buffer
                  /\ mem[Latest.counters] \in
                       [type : {"counters"}, call : {Cur}, before : Nat, after : Nat]
  <2>1. Counting => /\ Latest.counters \in Blocks
                    /\ mem[Latest.counters] \in
                         [type : {"counters"}, call : {Cur}, before : Nat, after : Nat]
    BY <1>2 DEF LaunchInv, BlocksInv, WithCounters
  <2>2. Counting => mem[Latest.counters].type = "counters"
    BY <2>1
  <2> QED
    BY <1>5, <2>1, <2>2
<1>10. BlocksInv'
  BY <1>3, <1>4, <1>6, <1>8, <1>9 DEF BlocksInv, WithBuffer
<1>11. OwnersInv'
  <2> SUFFICES ASSUME NEW a \in Blocks, mem'[a].type \in {"kub", "counters", "commands"}
               PROVE  /\ mem'[a].call \in Calls
                      /\ \/ launches[mem'[a].call].outcome = "false"
                         \/ /\ mem'[a].call = Cur
                            /\ \/ mem'[a].type = "kub" /\ a = Latest.kub
                               \/ mem'[a].type = "counters" /\ a = Latest.counters
    BY <1>1, <1>3, <1>4 DEF OwnersInv, WithKub, WithCounters
  <2>1. a # Latest.buffer /\ mem'[a] = mem[a]
    BY <1>6
  <2> QED
    BY <1>2, <2>1 DEF LaunchInv, OwnersInv
<1>12. QueueInv' /\ ParametersInv'
  <2>1. image = Cur
    BY <1>2 DEF LaunchInv, ParametersInv, WithKub
  <2> QED
    BY <1>1, <1>3, <2>1 DEF LaunchInv, QueueInv, ParametersInv, OwnParameters, runVars
<1>13. \A i : RanBy(i)' = RanBy(i)
  BY <1>1 DEF RanBy, runVars
<1>14. Over' <=> Over
  BY <1>1, <1>2, <1>3, <1>4 DEF Over, Undisturbed
<1>15. GroupsInv'
  BY <1>1, <1>2, <1>3, <1>4, <1>13, <1>14
  DEF LaunchInv, GroupsInv, Early, Undisturbed, runVars
<1>16. CountersInv'
  <2>1. Counting => mem'[Latest.counters] = mem[Latest.counters]
    BY <1>6, <1>9
  <2> QED
    BY <1>1, <1>3, <1>13, <1>14, <2>1 DEF LaunchInv, CountersInv, Undisturbed
<1> QED
  BY <1>7, <1>10, <1>11, <1>12, <1>15, <1>16 DEF LaunchInv

LEMMA FinishKeepsInv ==
  ASSUME LaunchInv, NEW t \in Threads, Finish(t)
  PROVE  LaunchInv'
<1> DEFINE m == IF Counting THEN mem[Latest.counters].after - mem[Latest.counters].before
                ELSE 0
           new == [Latest EXCEPT !.outcome = "true", !.measured = m]
<1>1. /\ lock = t /\ lock # Nobody /\ Stage = "finishing" /\ pc[t] = "finishing"
      /\ call[t] = Cur /\ Cur \in Calls /\ Launch(t) = Latest /\ Latest \in LaunchType
  BY HolderOfLock DEF Finish
<1>2. /\ launches' = [launches EXCEPT ![Cur] = new]
      /\ mem' = [b \in Blocks |->
                   IF b \in {Latest.kub, Latest.counters} THEN Free ELSE mem[b]]
      /\ lock' = Nobody /\ pc' = [pc EXCEPT ![t] = "idle"]
      /\ UNCHANGED <<call, queue, at, image, runVars, failed>>
  BY <1>1 DEF Finish, Goto, Latest
<1>3. m \in Int
  <2>1. Counting => mem[Latest.counters] \in
                      [type : {"counters"}, call : {Cur}, before : Nat, after : Nat]
    BY <1>1 DEF LaunchInv, BlocksInv, WithCounters
  <2>2. Counting => mem[Latest.counters].before \in Nat /\ mem[Latest.counters].after \in Nat
    BY <2>1
  <2> QED
    BY <2>2
<1> HIDE DEF m
<1>4. /\ new \in LaunchType /\ new.outcome = "true" /\ new.range = Latest.range
      /\ new.measured = m
  BY <1>1, <1>3 DEF LaunchType
<1> HIDE DEF new
<1>5. /\ Cur' = Cur /\ Calls' = Calls /\ launches' \in Seq(LaunchType)
      /\ \A i \in Calls \ {Cur} : launches'[i] = launches[i]
      /\ Latest' = new /\ launches'[Cur] = new /\ launches[Cur] = Latest
  BY <1>1, <1>2, <1>4, NoteFacts
<1>6. Stage' = "idle" /\ queue = <<>>
  BY <1>1, <1>2 DEF Stage, LaunchInv, QueueInv
<1>7. Types'
  <2>1. mem' = [b \in Blocks |-> mem'[b]]
    BY <1>2
  <2> QED
    BY <1>2, <1>5, <2>1 DEF LaunchInv, Types, Locations, runVars
<1>8. LockInv'
  <2>1. \A u \in Threads : pc'[u] = "idle"
    BY <1>1, <1>2 DEF LaunchInv, LockInv, Types
  <2>2. \A i \in Calls : launches'[i].outcome # "none"
    BY <1>1, <1>4, <1>5 DEF LaunchInv, LockInv
  <2> QED
    BY <1>2, <1>5, <2>1, <2>2, LaunchAssumption DEF LockInv
<1>9. BlocksInv' /\ QueueInv'
  BY <1>2, <1>6 DEF BlocksInv, LaunchInv, QueueInv, WithKub, WithCounters, WithBuffer
<1>10. OwnersInv'
  <2> SUFFICES ASSUME NEW b \in Blocks, mem'[b].type \in {"kub", "counters", "commands"}
               PROVE  mem'[b].call \in Calls /\ launches'[mem'[b].call].outcome = "false"
    BY <1>5 DEF OwnersInv
  <2>1. b \notin {Latest.kub, Latest.counters} /\ mem'[b] = mem[b]
    BY <1>2 DEF Free
  <2>2. mem[b].call \in Calls /\ launches[mem[b].call].outcome = "false"
    BY <1>1, <2>1 DEF LaunchInv, OwnersInv, WithBuffer
  <2>3. mem[b].call # Cur
    BY <1>1, <2>2 DEF LaunchInv, LockInv
  <2> QED
    BY <1>5, <2>1, <2>2, <2>3
<1>11. ParametersInv'
  BY <1>2, <1>6 DEF LaunchInv, ParametersInv, OwnParameters, WithKub, runVars
<1>12. \A i : RanBy(i)' = RanBy(i)
  BY <1>2 DEF RanBy, runVars
<1>13. Undisturbed(Cur) => Over
  BY <1>1, <1>6 DEF Over
<1>14. GroupsInv'
  <2>1. \A i \in Calls : launches'[i].range = launches[i].range
    BY <1>4, <1>5
  <2>2. \A i \in Calls : launches'[i].outcome = "true" /\ Undisturbed(i)
          => RanBy(i) = Groups(launches[i].range)
    BY <1>4, <1>5, <1>13 DEF LaunchInv, GroupsInv
  <2>3. \A i \in Calls : Undisturbed(i)' <=> Undisturbed(i)
    BY <1>2, <2>1, UndisturbedStays
  <2> QED
    BY <1>2, <1>5, <1>6, <1>12, <2>1, <2>2, <2>3 DEF LaunchInv, GroupsInv, Early, Over, runVars
<1>15. CountersInv'
  <2>1. Counting => \A i \in Calls : launches'[i].outcome = "true" /\ Undisturbed(i)
          => launches'[i].measured = Cardinality(RanBy(i))
    BY <1>4, <1>5, <1>13 DEF LaunchInv, CountersInv, m
  <2>2. \A i \in Calls : Undisturbed(i)' <=> Undisturbed(i)
    BY <1>2, <1>4, <1>5, UndisturbedStays
  <2> QED
    BY <1>2, <1>5, <1>6, <1>12, <2>1, <2>2 DEF CountersInv, Over
<1> QED
  BY <1>7, <1>8, <1>9, <1>10, <1>11, <1>14, <1>15 DEF LaunchInv

\* Allocations of the HAL's clients, which hold the lock in between.
LEMMA MemKeepsInv ==
  ASSUME LaunchInv, NEW b \in Blocks, MemAlloc(b) \/ MemFree(b)
  PROVE  LaunchInv'
<1>1. /\ lock = Nobody /\ mem' \in {[mem EXCEPT ![b] = User], [mem EXCEPT ![b] = Free]}
      /\ UNCHANGED <<lock, pc, call, launches, queue, at, image, runVars, failed>>
  BY DEF MemAlloc, MemFree, hostVars
<1>2. Stage = "idle" /\ queue = <<>>
  BY <1>1 DEF Stage, LaunchInv, QueueInv
<1>3. UNCHANGED <<Cur, Calls, Latest, Stage>>
  BY <1>1 DEF Cur, Calls, Latest, Stage
<1>4. /\ mem' = [a \in Blocks |-> mem'[a]]
      /\ mem'[b].type \in {"user", "free"}
      /\ \A a \in Blocks : a # b => mem'[a] = mem[a]
  <2>1. mem = [a \in Blocks |-> mem[a]]
    BY DEF LaunchInv, Types
  <2> QED
    BY <1>1, <2>1 DEF Free, User
<1>5. Types' /\ LockInv'
  BY <1>1, <1>3, <1>4 DEF LaunchInv, Types, LockInv, runVars
<1>6. BlocksInv' /\ QueueInv'
  BY <1>1, <1>2, <1>3 DEF BlocksInv, LaunchInv, QueueInv, WithKub, WithCounters, WithBuffer
<1>7. OwnersInv'
  BY <1>1, <1>2, <1>3, <1>4 DEF LaunchInv, OwnersInv, WithKub, WithCounters, WithBuffer
<1>8. ParametersInv'
  BY <1>1, <1>2, <1>3 DEF LaunchInv, ParametersInv, OwnParameters, WithKub, runVars
<1>9. \A i : RanBy(i)' = RanBy(i)
  BY <1>1 DEF RanBy, runVars
<1>10. GroupsInv' /\ CountersInv'
  BY <1>1, <1>2, <1>3, <1>9
  DEF LaunchInv, GroupsInv, CountersInv, Early, Over, Undisturbed, runVars
<1> QED
  BY <1>5, <1>6, <1>7, <1>8, <1>10 DEF LaunchInv

-----------------------------------------------------------------------------
(* The steps of the command processor preserve the invariant.              *)

LEMMA InjectiveImage ==
  ASSUME NEW S, IsFiniteSet(S), NEW f, \A x, y \in S : f[x] = f[y] => x = y
  PROVE  IsFiniteSet({f[x] : x \in S}) /\ Cardinality({f[x] : x \in S}) = Cardinality(S)
<1> DEFINE T == {f[x] : x \in S}
           g == [x \in S |-> f[x]]
<1>1. g \in Bijection(S, T)
  BY DEF Bijection, Injection, Surjection, IsInjective
<1> QED
  BY <1>1, FS_Bijection DEF ExistsBijection

\* While the queue is not empty the CMP executes the commands of the latest
\* launch, whose thread waits.
LEMMA CmpFacts ==
  ASSUME LaunchInv, queue # <<>>
  PROVE  /\ Head(queue) = Latest.buffer /\ Tail(queue) = <<>> /\ Stage = "waiting"
         /\ Cur \in Calls /\ Latest \in LaunchType /\ Latest.range \in Ranges
         /\ Latest.outcome = "none"
         /\ at \in 1 .. FinishAt(Latest.range) /\ Cur \notin failed /\ image = Cur
         /\ Buffer.type = "commands" /\ Buffer.call = Cur
         /\ Buffer.commands = Commands(Latest.range, Latest.kub, Latest.counters)
         /\ Latest.kub \in Blocks
         /\ mem[Latest.kub] = [type |-> "kub", call |-> Cur, groups |-> Latest.range.groups]
<1>1. /\ queue = << Latest.buffer >> /\ Stage = "waiting"
      /\ at \in 1 .. FinishAt(Latest.range) /\ Cur \notin failed
  BY DEF LaunchInv, QueueInv
<1>2. Head(queue) = Latest.buffer /\ Tail(queue) = <<>>
  BY <1>1
<1>3. lock \in Threads /\ pc[lock] # "idle"
  BY <1>1 DEF Stage, LaunchInv, Types
<1>4. Cur \in Calls /\ Latest \in LaunchType /\ Latest.outcome = "none"
  BY <1>3, HolderOfLock
<1>5. image = Cur
  BY <1>1 DEF LaunchInv, ParametersInv, WithKub
<1>6. Buffer = [type |-> "commands", call |-> Cur,
                commands |-> Commands(Latest.range, Latest.kub, Latest.counters)]
  BY <1>1, <1>2 DEF LaunchInv, BlocksInv, WithBuffer, Buffer
<1>7. /\ Latest.kub \in Blocks
      /\ mem[Latest.kub] = [type |-> "kub", call |-> Cur, groups |-> Latest.range.groups]
  BY <1>1 DEF LaunchInv, BlocksInv, WithKub
<1> QED
  BY <1>1, <1>2, <1>4, <1>5, <1>6, <1>7 DEF LaunchType

\* The command that is executed next, and where.
LEMMA CommandNow ==
  ASSUME LaunchInv, queue # <<>>
  PROVE  LET r == Latest.range
         IN  \/ at = 1 /\ Command = [op |-> "DMA", addr |-> Latest.kub]
             \/ at = 2 /\ Command = [op |-> "SYNC"]
             \/ at = 3 /\ Command = [op |-> "ENTRY", dim |-> r.dim]
             \/ /\ Counting /\ at = 4
                /\ Command = [op |-> "COUNT", addr |-> Latest.counters, set |-> "before"]
             \/ /\ at - FirstRun \in SliceIds(r)
                /\ Command = [op |-> "RUN", addr |-> Latest.kub, slice |-> at - FirstRun,
                              instances |-> r.groups[1]]
             \/ at = LastSync(r) /\ Command = [op |-> "SYNC"]
             \/ /\ Counting /\ at = LastSync(r) + 1
                /\ Command = [op |-> "COUNT", addr |-> Latest.counters, set |-> "after"]
             \/ at = FinishAt(r) /\ Command = [op |-> "FINISH"]
<1> DEFINE r == Latest.range
           c == Commands(r, Latest.kub, Latest.counters)
<1>1. /\ r \in Ranges /\ at \in 1 .. FinishAt(r) /\ Command = c[at]
  BY CmpFacts DEF Command
<1> HIDE DEF r
<1>2. /\ Slices(r) \in Nat /\ Reads \in {0, 1} /\ (Counting <=> Reads = 1)
      /\ FirstRun = 4 + Reads /\ LastSync(r) = FirstRun + Slices(r)
      /\ FinishAt(r) = LastSync(r) + 1 + Reads
  BY <1>1, Positions
<1>3. \/ at = 1 \/ at = 2 \/ at = 3 \/ (Counting /\ at = 4)
      \/ at - FirstRun \in SliceIds(r) \/ at = LastSync(r)
      \/ (Counting /\ at = LastSync(r) + 1) \/ at = FinishAt(r)
  <2>1. CASE Reads = 0
    BY <1>1, <1>2, <2>1 DEF SliceIds
  <2>2. CASE Reads = 1
    BY <1>1, <1>2, <2>2 DEF SliceIds
  <2> QED
    BY <1>2, <2>1, <2>2
<1>4. /\ c[1] = [op |-> "DMA", addr |-> Latest.kub]
      /\ c[2] = [op |-> "SYNC"]
      /\ c[3] = [op |-> "ENTRY", dim |-> r.dim]
      /\ Counting => c[4] = [op |-> "COUNT", addr |-> Latest.counters, set |-> "before"]
      /\ \A s \in SliceIds(r) :
           c[FirstRun + s] = [op |-> "RUN", addr |-> Latest.kub, slice |-> s,
                              instances |-> r.groups[1]]
      /\ c[LastSync(r)] = [op |-> "SYNC"]
      /\ Counting =>
           c[LastSync(r) + 1] = [op |-> "COUNT", addr |-> Latest.counters, set |-> "after"]
      /\ c[FinishAt(r)] = [op |-> "FINISH"]
  BY <1>1, CommandAt
<1>5. at - FirstRun \in SliceIds(r) =>
        c[at] = [op |-> "RUN", addr |-> Latest.kub, slice |-> at - FirstRun,
                 instances |-> r.groups[1]]
  <2>1. FirstRun + (at - FirstRun) = at
    BY <1>1, <1>2
  <2> QED
    BY <1>4, <2>1
<1> HIDE DEF c
<1> QED
  BY <1>1, <1>3, <1>4, <1>5 DEF r

\* What a step of the CMP leaves alone when it writes no block.
LEMMA CmpKeepsHost ==
  ASSUME LaunchInv, UNCHANGED <<hostVars, mem, image>>, retired' \in Nat,
         failed' \subseteq Calls, \A work \in ran' : work.by \in Calls
  PROVE  /\ Types' /\ LockInv' /\ BlocksInv' /\ OwnersInv'
         /\ Cur' = Cur /\ Calls' = Calls /\ Latest' = Latest /\ Stage' = Stage
<1>1. UNCHANGED <<lock, pc, call, launches, mem>>
  BY DEF hostVars
<1>2. UNCHANGED <<Cur, Calls, Latest, Stage>>
  BY <1>1 DEF Cur, Calls, Latest, Stage
<1>3. Types' /\ LockInv'
  BY <1>1, <1>2 DEF LaunchInv, Types, LockInv
<1>4. BlocksInv' /\ OwnersInv'
  BY <1>1, <1>2 DEF LaunchInv, BlocksInv, OwnersInv
<1> QED
  BY <1>2, <1>3, <1>4

\* A command that runs no kernel: the next one is within the buffer, and the
\* same slices have been run before it.
LEMMA CommandKeepsRest ==
  ASSUME LaunchInv, queue # <<>>, NextCommand,
         UNCHANGED <<hostVars, mem, image, retired, trapped, ran, repeated>>,
         at < FinishAt(Latest.range), at < FirstRun \/ at >= LastSync(Latest.range),
         Counting => at + 1 # FinishAt(Latest.range) /\ at # FirstRun - 1
  PROVE  /\ Types' /\ LockInv' /\ BlocksInv' /\ OwnersInv'
         /\ QueueInv' /\ GroupsInv' /\ CountersInv'
<1> DEFINE r == Latest.range
<1>1. /\ at' = at + 1 /\ queue' = queue /\ failed' = failed /\ retired' = retired
      /\ ran' = ran /\ repeated' = repeated /\ trapped' = trapped
      /\ mem' = mem /\ launches' = launches
  BY DEF NextCommand, hostVars
<1>2. /\ Types' /\ LockInv' /\ BlocksInv' /\ OwnersInv'
      /\ Cur' = Cur /\ Calls' = Calls /\ Latest' = Latest /\ Stage' = Stage
  BY <1>1, CmpKeepsHost DEF LaunchInv, Types
<1>3. r \in Ranges /\ at \in 1 .. FinishAt(r)
  BY CmpFacts
<1>4. /\ Slices(r) \in Nat /\ Reads \in {0, 1} /\ (Counting <=> Reads = 1)
      /\ FirstRun = 4 + Reads /\ LastSync(r) = FirstRun + Slices(r)
      /\ FinishAt(r) = LastSync(r) + 1 + Reads
  BY <1>3, Positions
<1>5. at + 1 \in 1 .. FinishAt(r)
  BY <1>3, <1>4
<1>6. SlicesBefore(r, at + 1) = SlicesBefore(r, at)
  <2>1. CASE at < FirstRun
    BY <1>3, <1>4, <2>1 DEF SlicesBefore
  <2>2. CASE at >= LastSync(r)
    BY <1>3, <1>4, <2>2 DEF SlicesBefore
  <2> QED
    BY <2>1, <2>2
<1>7. Counting /\ at + 1 >= FirstRun => at >= FirstRun
  BY <1>3, <1>4
<1>8. QueueInv'
  BY <1>1, <1>2, <1>5 DEF LaunchInv, QueueInv
<1>9. \A i : RanBy(i)' = RanBy(i)
  BY <1>1 DEF RanBy
<1>10. ~Over /\ ~Over'
  BY <1>1 DEF Over
<1>11. GroupsInv'
  BY <1>1, <1>2, <1>6, <1>9, <1>10 DEF LaunchInv, GroupsInv, Undisturbed
<1>12. CountersInv'
  BY <1>1, <1>2, <1>7, <1>9, <1>10 DEF LaunchInv, CountersInv, Undisturbed, FirstRun, Reads
<1> QED
  BY <1>2, <1>8, <1>11, <1>12

LEMMA CopyExecKeepsInv ==
  ASSUME LaunchInv, CopyExec
  PROVE  LaunchInv'
<1>1. /\ queue # <<>> /\ Command.op = "DMA" /\ NextCommand
      /\ UNCHANGED <<hostVars, mem, image, icache, entry, retired, trapped, ran, repeated>>
  BY DEF CopyExec, Executing, Command
<1>2. at = 1 /\ Command.addr = Latest.kub
  BY <1>1, CommandNow
<1>3. exec' = [call |-> Cur, groups |-> Latest.range.groups]
  BY <1>1, <1>2, CmpFacts DEF CopyExec, Holds
<1>4. /\ 1 < FinishAt(Latest.range) /\ at < FirstRun
      /\ Counting => at + 1 # FinishAt(Latest.range) /\ at # FirstRun - 1
  BY <1>1, <1>2, CmpFacts, Positions
<1>5. /\ Types' /\ LockInv' /\ BlocksInv' /\ OwnersInv'
      /\ QueueInv' /\ GroupsInv' /\ CountersInv'
  BY <1>1, <1>2, <1>4, CommandKeepsRest
<1>6. ParametersInv'
  <2>1. UNCHANGED <<Cur, Latest, Stage>>
    BY <1>1 DEF hostVars, Cur, Latest, Stage
  <2>2. at' = 2 /\ image' = image /\ ran' = ran
    BY <1>1, <1>2 DEF NextCommand
  <2> QED
    BY <1>3, <2>1, <2>2 DEF LaunchInv, ParametersInv, OwnParameters
<1> QED
  BY <1>5, <1>6 DEF LaunchInv

LEMMA SyncCacheKeepsInv ==
  ASSUME LaunchInv, SyncCache
  PROVE  LaunchInv'
<1>1. /\ queue # <<>> /\ Command.op = "SYNC" /\ NextCommand /\ icache' = 0
      /\ UNCHANGED <<hostVars, mem, image, exec, entry, retired, trapped, ran, repeated>>
  BY DEF SyncCache, Executing, Command
<1>2. at = 2 \/ at = LastSync(Latest.range)
  BY <1>1, CommandNow
<1>3. /\ at < FinishAt(Latest.range) /\ (at < FirstRun \/ at >= LastSync(Latest.range))
      /\ Counting => at + 1 # FinishAt(Latest.range) /\ at # FirstRun - 1
      /\ at = 2 \/ at > 3
  BY <1>1, <1>2, CmpFacts, Positions
<1>4. /\ Types' /\ LockInv' /\ BlocksInv' /\ OwnersInv'
      /\ QueueInv' /\ GroupsInv' /\ CountersInv'
  BY <1>1, <1>3, CommandKeepsRest
<1>5. ParametersInv'
  <2>1. UNCHANGED <<Cur, Latest, Stage>>
    BY <1>1 DEF hostVars, Cur, Latest, Stage
  <2>2. at' = at + 1 /\ at \in Nat /\ queue' = queue
    BY <1>1, CmpFacts DEF NextCommand
  <2> QED
    BY <1>1, <1>3, <2>1, <2>2 DEF LaunchInv, ParametersInv, OwnParameters
<1> QED
  BY <1>4, <1>5 DEF LaunchInv

LEMMA SetEntryKeepsInv ==
  ASSUME LaunchInv, SetEntry
  PROVE  LaunchInv'
<1>1. /\ queue # <<>> /\ Command.op = "ENTRY" /\ NextCommand /\ entry' = Command.dim
      /\ UNCHANGED <<hostVars, mem, image, icache, exec, retired, trapped, ran, repeated>>
  BY DEF SetEntry, Executing, Command
<1>2. at = 3 /\ Command.dim = Latest.range.dim
  BY <1>1, CommandNow
<1>3. /\ at < FinishAt(Latest.range) /\ at < FirstRun
      /\ Counting => at + 1 # FinishAt(Latest.range) /\ at # FirstRun - 1
  BY <1>1, <1>2, CmpFacts, Positions
<1>4. /\ Types' /\ LockInv' /\ BlocksInv' /\ OwnersInv'
      /\ QueueInv' /\ GroupsInv' /\ CountersInv'
  BY <1>1, <1>3, CommandKeepsRest
<1>5. ParametersInv'
  <2>1. UNCHANGED <<Cur, Latest, Stage>>
    BY <1>1 DEF hostVars, Cur, Latest, Stage
  <2>2. at' = 4 /\ queue' = queue
    BY <1>1, <1>2 DEF NextCommand
  <2> QED
    BY <1>1, <1>2, <2>1, <2>2 DEF LaunchInv, ParametersInv, OwnParameters
<1> QED
  BY <1>4, <1>5 DEF LaunchInv

LEMMA ReadCountersKeepsInv ==
  ASSUME LaunchInv, ReadCounters
  PROVE  LaunchInv'
<1> DEFINE r == Latest.range
           ctr == Latest.counters
           set == Command.set
<1>1. /\ queue # <<>> /\ Command.op = "COUNT"
      /\ at' = at + 1 /\ queue' = queue /\ failed' = failed
      /\ UNCHANGED <<lock, pc, call, launches, image, icache, exec, entry, retired, trapped,
                     ran, repeated>>
  BY DEF ReadCounters, Executing, Command, NextCommand, hostVars, runVars
<1>2. /\ Counting /\ Command.addr = ctr
      /\ \/ at = 4 /\ set = "before"
         \/ at = LastSync(r) + 1 /\ set = "after"
  BY <1>1, CommandNow
<1> HIDE DEF set
<1>3. /\ r \in Ranges /\ at \in 1 .. FinishAt(r) /\ Stage = "waiting" /\ Cur \notin failed
      /\ Latest.kub \in Blocks /\ mem[Latest.kub].type = "kub"
  BY <1>1, CmpFacts
<1>4. /\ ctr \in Blocks
      /\ mem[ctr] \in [type : {"counters"}, call : {Cur}, before : Nat, after : Nat]
  BY <1>2, <1>3 DEF LaunchInv, BlocksInv, WithCounters
<1>5. retired \in Nat /\ mem = [b \in Blocks |-> mem[b]]
  BY DEF LaunchInv, Types
<1>6. mem' = [mem EXCEPT ![ctr] = [mem[ctr] EXCEPT ![set] = retired]]
  <2>1. Holds(Command.addr, "counters")
    BY <1>2, <1>4 DEF Holds
  <2> QED
    BY <1>1, <1>2, <2>1 DEF ReadCounters, set
<1>7. /\ mem'[ctr] \in [type : {"counters"}, call : {Cur}, before : Nat, after : Nat]
      /\ mem'[ctr].type = "counters" /\ mem'[ctr].call = Cur
      /\ set = "before" => mem'[ctr].before = retired
      /\ set = "after" => mem'[ctr].after = retired /\ mem'[ctr].before = mem[ctr].before
  <2>1. mem'[ctr] = [mem[ctr] EXCEPT ![set] = retired]
    BY <1>4, <1>5, <1>6
  <2>2. CASE set = "before"
    BY <1>4, <1>5, <2>1, <2>2
  <2>3. CASE set = "after"
    BY <1>4, <1>5, <2>1, <2>3
  <2> QED
    BY <1>2, <2>2, <2>3
<1>8. \A b \in Blocks : /\ b # ctr => mem'[b] = mem[b]
                        /\ mem'[b].type = mem[b].type
                        /\ b = ctr => mem'[b].call = mem[b].call
  <2>1. mem[ctr].type = "counters" /\ mem[ctr].call = Cur
    BY <1>4
  <2>2. \A b \in Blocks : b # ctr => mem'[b] = mem[b]
    BY <1>5, <1>6
  <2> QED
    BY <1>7, <2>1, <2>2
<1>9. mem' = [b \in Blocks |-> mem'[b]]
  BY <1>5, <1>6
<1>10. UNCHANGED <<Cur, Calls, Latest, Stage>>
  BY <1>1 DEF Cur, Calls, Latest, Stage
<1>11. Types' /\ LockInv'
  BY <1>1, <1>9, <1>10 DEF LaunchInv, Types, LockInv
<1>12. /\ Slices(r) \in Nat /\ Reads = 1 /\ FirstRun = 5 /\ LastSync(r) = 5 + Slices(r)
       /\ FinishAt(r) = LastSync(r) + 2
  BY <1>2, <1>3, Positions
<1>13. BlocksInv'
  <2>1. Latest.buffer \in Blocks /\ mem[Latest.buffer].type = "commands"
    BY <1>3 DEF LaunchInv, BlocksInv, WithBuffer
  <2>2. mem[ctr].type = "counters"
    BY <1>4
  <2>3. mem'[Latest.kub] = mem[Latest.kub] /\ mem'[Latest.buffer] = mem[Latest.buffer]
    BY <1>3, <1>8, <2>1, <2>2
  <2> QED
    BY <1>4, <1>7, <1>10, <2>3 DEF LaunchInv, BlocksInv
<1>14. OwnersInv'
  <2>1. \A b \in Blocks : mem'[b].type = mem[b].type /\ mem'[b].call = mem[b].call
    BY <1>8
  <2> QED
    BY <1>1, <1>10, <2>1 DEF LaunchInv, OwnersInv
<1>15. QueueInv'
  BY <1>1, <1>2, <1>3, <1>10, <1>12 DEF LaunchInv, QueueInv
<1>16. ParametersInv'
  BY <1>1, <1>2, <1>3, <1>10, <1>12 DEF LaunchInv, ParametersInv, OwnParameters
<1>17. \A i : RanBy(i)' = RanBy(i)
  BY <1>1 DEF RanBy
<1>18. ~Over /\ ~Over'
  BY <1>1 DEF Over
<1>19. SlicesBefore(r, at + 1) = SlicesBefore(r, at)
  BY <1>2, <1>12 DEF SlicesBefore
<1>20. GroupsInv'
  BY <1>1, <1>10, <1>17, <1>18, <1>19 DEF LaunchInv, GroupsInv, Undisturbed
<1>21. CASE set = "before"
  <2>1. at' = FirstRun /\ at' # FinishAt(r)
    BY <1>1, <1>2, <1>12, <1>21
  <2>2. SlicesBefore(r, at) = 0
    BY <1>2, <1>12, <1>21 DEF SlicesBefore
  <2>3. RanBy(Cur) = {}
    BY <1>1, <2>2 DEF LaunchInv, GroupsInv, GroupsUpTo
  <2>4. retired - mem'[ctr].before = Cardinality(RanBy(Cur))
    BY <1>5, <1>7, <1>21, <2>3, FS_EmptySet
  <2>5. CountersInv'
    BY <1>1, <1>10, <1>17, <1>18, <2>1, <2>4 DEF LaunchInv, CountersInv, Undisturbed
  <2> QED
    BY <1>11, <1>13, <1>14, <1>15, <1>16, <1>20, <2>5 DEF LaunchInv
<1>22. CASE set = "after"
  <2>1. at >= FirstRun
    BY <1>2, <1>12, <1>22
  <2>2. retired - mem[ctr].before = Cardinality(RanBy(Cur))
    BY <1>1, <1>2, <2>1 DEF LaunchInv, CountersInv
  <2>3. CountersInv'
    BY <1>1, <1>7, <1>10, <1>17, <1>18, <1>22, <2>2
    DEF LaunchInv, CountersInv, Undisturbed
  <2> QED
    BY <1>11, <1>13, <1>14, <1>15, <1>16, <1>20, <2>3 DEF LaunchInv
<1> QED
  BY <1>2, <1>21, <1>22

\* The slices of a launch run all its work-groups.
LEMMA AllGroups ==
  ASSUME NEW r \in Ranges
  PROVE  GroupsUpTo(r, Slices(r)) = Groups(r)
BY GroupsAreInRange, EveryGroupIsCovered DEF GroupsUpTo, SliceIds

\* FINISH comes after all the slices.
LEMMA FinishBufferKeepsInv ==
  ASSUME LaunchInv, FinishBuffer
  PROVE  LaunchInv'
<1> DEFINE r == Latest.range
<1>1. /\ queue # <<>> /\ Command.op = "FINISH" /\ at' = 1 /\ queue' = Tail(queue)
      /\ UNCHANGED <<hostVars, mem, image, runVars, failed>>
  BY DEF FinishBuffer, Executing, Command, EndBuffer
<1>2. at = FinishAt(r)
  BY <1>1, CommandNow
<1>3. queue' = <<>> /\ Stage = "waiting" /\ Cur \notin failed /\ r \in Ranges /\ image = Cur
  BY <1>1, CmpFacts
<1>4. UNCHANGED <<launches, mem, image, icache, exec, entry, retired, trapped, ran, repeated, failed>>
  BY <1>1 DEF hostVars, runVars
<1>5. /\ Types' /\ LockInv' /\ BlocksInv' /\ OwnersInv'
      /\ Cur' = Cur /\ Calls' = Calls /\ Latest' = Latest /\ Stage' = Stage
  BY <1>1, <1>4, CmpKeepsHost DEF LaunchInv, Types
<1>6. /\ Slices(r) \in Nat /\ Reads \in {0, 1} /\ FirstRun = 4 + Reads
      /\ LastSync(r) = FirstRun + Slices(r) /\ FinishAt(r) = LastSync(r) + 1 + Reads
  BY <1>3, Positions
<1>7. Undisturbed(Cur) => RanBy(Cur) = Groups(r)
  <2>1. SlicesBefore(r, at) = Slices(r)
    BY <1>2, <1>6 DEF SlicesBefore
  <2> QED
    BY <1>1, <1>3, <2>1, AllGroups DEF LaunchInv, GroupsInv
<1>8. \A i : RanBy(i)' = RanBy(i)
  BY <1>4 DEF RanBy
<1>9. QueueInv' /\ ParametersInv'
  BY <1>1, <1>3, <1>4, <1>5 DEF QueueInv, LaunchInv, ParametersInv, OwnParameters
<1>10. GroupsInv'
  BY <1>3, <1>4, <1>5, <1>7, <1>8 DEF LaunchInv, GroupsInv, Early, Over, Undisturbed
<1>11. CountersInv'
  <2>1. Counting =>
          mem[Latest.counters].after - mem[Latest.counters].before = Cardinality(RanBy(Cur))
    BY <1>1, <1>2 DEF LaunchInv, CountersInv
  <2> QED
    BY <1>3, <1>4, <1>5, <1>8, <2>1 DEF LaunchInv, CountersInv, Undisturbed
<1> QED
  BY <1>5, <1>9, <1>10, <1>11 DEF LaunchInv

LEMMA FailBufferKeepsInv ==
  ASSUME LaunchInv, FailBuffer
  PROVE  LaunchInv'
<1>1. /\ queue # <<>> /\ at' = 1 /\ queue' = Tail(queue)
      /\ UNCHANGED <<hostVars, mem, image, runVars>>
  BY DEF FailBuffer, EndBuffer
<1>2. /\ queue' = <<>> /\ Stage = "waiting" /\ Cur \in Calls /\ image = Cur
      /\ failed' = failed \cup {Cur}
  BY <1>1, CmpFacts DEF FailBuffer
<1>3. UNCHANGED <<launches, mem, image, icache, exec, entry, retired, trapped, ran, repeated>>
  BY <1>1 DEF hostVars, runVars
<1>4. /\ Types' /\ LockInv' /\ BlocksInv' /\ OwnersInv'
      /\ Cur' = Cur /\ Calls' = Calls /\ Latest' = Latest /\ Stage' = Stage
  BY <1>1, <1>2, <1>3, CmpKeepsHost DEF LaunchInv, Types
<1>5. \A i : RanBy(i)' = RanBy(i)
  BY <1>3 DEF RanBy
<1>6. QueueInv' /\ ParametersInv'
  BY <1>1, <1>2, <1>3, <1>4 DEF QueueInv, LaunchInv, ParametersInv, OwnParameters
<1>7. ~Over' /\ \A i \in Calls : Undisturbed(i)' => Undisturbed(i)
  <2>1. \A i \in Calls : Undisturbed(i)' => Undisturbed(i)
    BY <1>2, <1>3 DEF Undisturbed
  <2>2. Cur \in 1 .. Cur
    BY <1>2, CallsAre
  <2>3. ~Undisturbed(Cur)'
    BY <1>2, <1>4, <2>2 DEF Undisturbed
  <2> QED
    BY <2>1, <2>3 DEF Over
<1>8. GroupsInv' /\ CountersInv'
  BY <1>2, <1>3, <1>4, <1>5, <1>7 DEF LaunchInv, GroupsInv, CountersInv, Early
<1> QED
  BY <1>4, <1>6, <1>8 DEF LaunchInv

\* What the instances of a slice that run add to the work-groups that have been
\* run: each of them one, none of them twice.
LEMMA SliceRuns ==
  ASSUME LaunchInv, queue # <<>>, Command.op = "RUN",
         NEW some \in SUBSET (0 .. Command.instances - 1)
  PROVE  LET r == Latest.range
             s == at - FirstRun
             new == {Work(i) : i \in some}
             groups == {GroupOf(r.dim, r.groups, i, s) : i \in some}
         IN  /\ r \in Ranges /\ s \in SliceIds(r) /\ some \subseteq Instances(r)
             /\ 0 .. Command.instances - 1 = Instances(r)
             /\ at \in Nat /\ at >= FirstRun /\ at < LastSync(r)
             /\ Program = Cur
             /\ \A w \in new : w.by = Cur /\ w.program = Cur /\ w.exec = Cur /\ w.args = Cur
             /\ {w.group : w \in new} = groups
             /\ IsFiniteSet(groups) /\ Cardinality(groups) = Cardinality(some)
             /\ Cardinality(new) = Cardinality(some) /\ Cardinality(some) \in Nat
             /\ new \cap ran = {} /\ groups \cap RanBy(Cur) = {}
             /\ groups \subseteq Groups(r)
<1> DEFINE r == Latest.range
           s == at - FirstRun
           G(i) == GroupOf(r.dim, r.groups, i, s)
           new == {Work(i) : i \in some}
           groups == {G(i) : i \in some}
<1>1. /\ s \in SliceIds(r)
      /\ Command = [op |-> "RUN", addr |-> Latest.kub, slice |-> s, instances |-> r.groups[1]]
  BY CommandNow
<1>2. /\ r \in Ranges /\ at \in 1 .. FinishAt(r) /\ image = Cur /\ Buffer.call = Cur
      /\ Latest.kub \in Blocks
      /\ mem[Latest.kub] = [type |-> "kub", call |-> Cur, groups |-> r.groups]
      /\ Cur \in Calls
  BY CmpFacts
<1>3. /\ Slices(r) \in Nat /\ Reads \in {0, 1} /\ FirstRun = 4 + Reads
      /\ LastSync(r) = FirstRun + Slices(r)
  BY <1>2, Positions
<1>4. at \in Nat /\ at >= FirstRun /\ at < LastSync(r) /\ SlicesBefore(r, at) = s
  BY <1>1, <1>2, <1>3 DEF SliceIds, SlicesBefore
<1>5. /\ exec = [call |-> Cur, groups |-> r.groups] /\ icache \in {0, Cur}
      /\ entry = r.dim
  BY <1>3, <1>4 DEF LaunchInv, ParametersInv
<1>6. Program = Cur
  BY <1>2, <1>5 DEF Program
<1>7. \A i \in some : Work(i) = [by |-> Cur, program |-> Cur, exec |-> Cur, args |-> Cur,
                                 group |-> G(i)]
  <2>1. Holds(Command.addr, "kub") /\ mem[Command.addr].call = Cur /\ Command.slice = s
    BY <1>1, <1>2 DEF Holds
  <2>2. exec.call = Cur /\ exec.groups = r.groups
    BY <1>5
  <2> QED
    BY <1>2, <1>5, <1>6, <2>1, <2>2 DEF Work
<1>8. 0 .. Command.instances - 1 = Instances(r) /\ some \subseteq Instances(r)
  BY <1>1 DEF Instances
<1>9. \A i \in some : G(i) \in Groups(r)
  BY <1>1, <1>2, <1>8, GroupsAreInRange
<1>10. \A i, j \in some : G(i) = G(j) => i = j
  BY <1>1, <1>2, <1>8, NoGroupTwice
<1>11. IsFiniteSet(some) /\ Cardinality(some) \in Nat
  <2>1. r.groups[1] - 1 \in Int /\ 0 \in Int
    BY <1>2, RangeShape
  <2>2. IsFiniteSet(Instances(r))
    BY <2>1, FS_Interval DEF Instances
  <2> QED
    BY <1>8, <2>2, FS_Subset, FS_CardinalityType
<1>12. /\ \A w \in new : w.by = Cur /\ w.program = Cur /\ w.exec = Cur /\ w.args = Cur
       /\ {w.group : w \in new} = groups
       /\ \A w \in new : w.group \in groups
  <2> HIDE DEF G
  <2> QED
    BY <1>7
<1>13. IsFiniteSet(groups) /\ Cardinality(groups) = Cardinality(some)
  <2> DEFINE f == [i \in some |-> G(i)]
  <2>1. \A i, j \in some : f[i] = f[j] => i = j
    BY <1>10
  <2>2. {f[i] : i \in some} = groups
    OBVIOUS
  <2> HIDE DEF f, groups
  <2> QED
    BY <1>11, <2>1, <2>2, InjectiveImage
<1>14. Cardinality(new) = Cardinality(some)
  <2> DEFINE f == [i \in some |-> Work(i)]
  <2>1. \A i, j \in some : f[i] = f[j] => i = j
    <3> SUFFICES ASSUME NEW i \in some, NEW j \in some, f[i] = f[j] PROVE i = j
      OBVIOUS
    <3>1. Work(i) = Work(j)
      OBVIOUS
    <3>2. Work(i).group = G(i) /\ Work(j).group = G(j)
      BY <1>7
    <3> QED
      BY <1>10, <3>1, <3>2
  <2>2. {f[i] : i \in some} = new
    OBVIOUS
  <2> HIDE DEF f, new
  <2> QED
    BY <1>11, <2>1, <2>2, InjectiveImage
<1>15. groups \cap RanBy(Cur) = {}
  <2> SUFFICES ASSUME NEW i \in some, G(i) \in RanBy(Cur) PROVE FALSE
    OBVIOUS
  <2>1. RanBy(Cur) \subseteq GroupsUpTo(r, s)
    BY <1>4 DEF LaunchInv, GroupsInv
  <2>2. PICK j \in Instances(r), q \in 0 .. s - 1 : GroupOf(r.dim, r.groups, j, q) = G(i)
    BY <2>1 DEF GroupsUpTo
  <2>3. q \in SliceIds(r) /\ q # s
    BY <1>1, <1>3 DEF SliceIds
  <2>4. r \in Ranges /\ i \in Instances(r) /\ s \in SliceIds(r)
    BY <1>1, <1>2, <1>8
  <2>5. GroupOf(r.dim, r.groups, j, q) = GroupOf(r.dim, r.groups, i, s)
    BY <2>2
  <2> HIDE DEF r, s
  <2> QED
    BY <2>2, <2>3, <2>4, <2>5, NoGroupTwice
<1>16. new \cap ran = {}
  <2> SUFFICES ASSUME NEW w \in new, w \in ran PROVE FALSE
    OBVIOUS
  <2>1. w.by = Cur /\ w.group \in groups
    BY <1>12
  <2>2. w.group \in RanBy(Cur)
    BY <2>1 DEF RanBy
  <2> QED
    BY <1>15, <2>1, <2>2
<1> QED
  BY <1>1, <1>2, <1>4, <1>6, <1>8, <1>9, <1>11, <1>12, <1>13, <1>14, <1>15, <1>16

\* The instances of a slice run, all of them when the launch is undisturbed and
\* the slice succeeds.
LEMMA RunSliceKeepsInv ==
  ASSUME LaunchInv, RunSlice
  PROVE  LaunchInv' /\ \A work \in ran' \ ran : launches[work.by].outcome = "none"
<1> DEFINE r == Latest.range
           s == at - FirstRun
           New(some) == {Work(i) : i \in some}
<1>1. /\ queue # <<>> /\ Command.op = "RUN"
      /\ UNCHANGED <<hostVars, mem, image, exec, entry>>
  BY DEF RunSlice, Executing, Command
<1>2. PICK some \in SUBSET (0 .. Command.instances - 1), ok \in BOOLEAN, left \in BOOLEAN :
        /\ SliceEnds(some, ok, left) /\ trapped' = left
        /\ ran' = ran \cup New(some)
        /\ repeated' = (repeated \/ New(some) \cap ran # {}
                          \/ Cardinality(New(some)) < Cardinality(some))
        /\ retired' = retired + Cardinality(some)
        /\ icache' = IF some = {} THEN icache ELSE Program
        /\ IF ok THEN NextCommand
                 ELSE EndBuffer /\ failed' = failed \cup {Buffer.call}
  BY DEF RunSlice
<1> DEFINE new == New(some)
           groups == {GroupOf(r.dim, r.groups, i, s) : i \in some}
<1>3. /\ r \in Ranges /\ s \in SliceIds(r) /\ some \subseteq Instances(r)
      /\ 0 .. Command.instances - 1 = Instances(r)
      /\ at \in Nat /\ at >= FirstRun /\ at < LastSync(r)
      /\ Program = Cur
      /\ \A w \in new : w.by = Cur /\ w.program = Cur /\ w.exec = Cur /\ w.args = Cur
      /\ {w.group : w \in new} = groups
      /\ IsFiniteSet(groups) /\ Cardinality(groups) = Cardinality(some)
      /\ Cardinality(new) = Cardinality(some) /\ Cardinality(some) \in Nat
      /\ new \cap ran = {} /\ groups \cap RanBy(Cur) = {}
      /\ groups \subseteq Groups(r)
  BY <1>1, SliceRuns
<1>4. groups = {GroupOf(r.dim, r.groups, i, s) : i \in some}
  OBVIOUS
<1> HIDE DEF New, groups
<1>5. /\ Tail(queue) = <<>> /\ Stage = "waiting" /\ Cur \in Calls /\ Latest.outcome = "none"
      /\ Cur \notin failed /\ image = Cur /\ Buffer.call = Cur
  BY <1>1, CmpFacts
<1>6. ~repeated /\ ~repeated'
  <2>1. ~repeated
    BY DEF LaunchInv, GroupsInv
  <2>2. ~(Cardinality(new) < Cardinality(some))
    BY <1>3
  <2> QED
    BY <1>2, <1>3, <2>1, <2>2
<1>7. /\ RanBy(Cur)' = RanBy(Cur) \cup groups
      /\ \A i : i = Cur => RanBy(i)' = RanBy(Cur) \cup groups
      /\ \A i : i # Cur => RanBy(i)' = RanBy(i)
  <2>1. UNCHANGED Cur
    BY <1>1 DEF hostVars, Cur
  <2>2. \A i : RanBy(i)' = RanBy(i) \cup {w.group : w \in {x \in new : x.by = i}}
    BY <1>2 DEF RanBy
  <2>3. {x \in new : x.by = Cur} = new /\ \A i : i # Cur => {x \in new : x.by = i} = {}
    BY <1>3
  <2> QED
    BY <1>3, <2>1, <2>2, <2>3
<1>8. /\ IsFiniteSet(RanBy(Cur)) /\ IsFiniteSet(RanBy(Cur) \cup groups)
      /\ Cardinality(RanBy(Cur)) \in Nat
      /\ Cardinality(RanBy(Cur) \cup groups) = Cardinality(RanBy(Cur)) + Cardinality(some)
  <2>1. IsFiniteSet(RanBy(Cur))
    BY <1>5 DEF LaunchInv, GroupsInv
  <2>2. groups \cap RanBy(Cur) = {} /\ RanBy(Cur) \cap groups = {}
    BY <1>3
  <2>3. /\ IsFiniteSet(RanBy(Cur) \cup groups)
        /\ Cardinality(RanBy(Cur) \cup groups)
             = Cardinality(RanBy(Cur)) + Cardinality(groups) - 0
    BY <1>3, <2>1, <2>2, FS_Union, FS_EmptySet
  <2>4. Cardinality(RanBy(Cur)) \in Nat
    BY <2>1, FS_CardinalityType
  <2> QED
    BY <1>3, <2>1, <2>3, <2>4
<1>9. /\ Types' /\ LockInv' /\ BlocksInv' /\ OwnersInv'
      /\ Cur' = Cur /\ Calls' = Calls /\ Latest' = Latest /\ Stage' = Stage
  <2>1. retired' \in Nat
    BY <1>2, <1>3 DEF LaunchInv, Types
  <2>2. failed' \subseteq Calls
    BY <1>2, <1>5 DEF LaunchInv, Types, NextCommand
  <2>3. \A work \in ran' : work.by \in Calls
    BY <1>2, <1>3, <1>5 DEF LaunchInv, Types
  <2> QED
    BY <1>1, <2>1, <2>2, <2>3, CmpKeepsHost
<1>10. OwnParameters' /\ icache' \in {0, Cur}
  <2>1. icache \in {0, Cur}
    <3>1. at > 2
      BY <1>3, Positions
    <3> QED
      BY <1>1, <3>1 DEF LaunchInv, ParametersInv
  <2>2. icache' \in {0, Cur}
    BY <1>2, <1>3, <2>1
  <2>3. OwnParameters'
    BY <1>2, <1>3 DEF LaunchInv, ParametersInv, OwnParameters
  <2> QED
    BY <2>2, <2>3
<1>11. UNCHANGED <<launches, mem, image, exec, entry>>
  BY <1>1 DEF hostVars
<1>12. \A i \in Calls : launches[i].outcome = "true" => i # Cur
  BY <1>5 DEF Latest
<1>13. trapped' => failed' # {}
  <2>1. CASE ok
    <3>1. failed' = failed /\ (left => trapped)
      BY <1>2, <2>1 DEF NextCommand, SliceEnds
    <3> QED
      BY <1>2, <3>1 DEF LaunchInv, GroupsInv
  <2>2. CASE ~ok
    BY <1>2, <2>2
  <2> QED
    BY <2>1, <2>2
<1>14. CASE ok
  <2>1. at' = at + 1 /\ queue' = queue /\ failed' = failed
    BY <1>2, <1>14 DEF NextCommand
  <2>2. /\ Slices(r) \in Nat /\ Reads \in {0, 1} /\ FirstRun = 4 + Reads
        /\ LastSync(r) = FirstRun + Slices(r) /\ FinishAt(r) = LastSync(r) + 1 + Reads
    BY <1>3, Positions
  <2>3. /\ at + 1 \in 1 .. FinishAt(r) /\ at + 1 # FinishAt(r) /\ at + 1 >= FirstRun
        /\ SlicesBefore(r, at) = s /\ SlicesBefore(r, at + 1) = s + 1 /\ s \in Nat
    BY <1>3, <2>2 DEF SlicesBefore
  <2>4. QueueInv'
    BY <1>1, <1>9, <2>1, <2>3 DEF LaunchInv, QueueInv
  <2>5. ParametersInv'
    <3>1. at > 3 /\ at > 2 /\ at > 1
      BY <1>3, <2>2
    <3>2. exec = [call |-> Cur, groups |-> Latest.range.groups] /\ entry = Latest.range.dim
      BY <1>1, <3>1 DEF LaunchInv, ParametersInv
    <3> QED
      BY <1>5, <1>9, <1>10, <1>11, <3>2 DEF ParametersInv
  <2>6. /\ RanBy(Cur)' \subseteq GroupsUpTo(r, s + 1)
        /\ Undisturbed(Cur) => RanBy(Cur)' = GroupsUpTo(r, s + 1)
    <3>1. /\ RanBy(Cur) \subseteq GroupsUpTo(r, s)
          /\ Undisturbed(Cur) => RanBy(Cur) = GroupsUpTo(r, s)
      BY <1>1, <2>3 DEF LaunchInv, GroupsInv
    <3>2. Undisturbed(Cur) => some = Instances(r)
      <4>1. Undisturbed(Cur) => ~trapped
        BY FailuresDisturb DEF LaunchInv, GroupsInv
      <4>2. Cur # 0
        BY <1>5 DEF LaunchInv, Types, Calls
      <4>3. Undisturbed(Cur) => Program # 0 /\ launches[Program].range.orderly
        BY <1>3, <4>2 DEF Undisturbed
      <4> QED
        BY <1>2, <1>3, <1>14, <4>1, <4>3 DEF SliceEnds
    <3>3. 0 .. (s + 1) - 1 = (0 .. s - 1) \cup {s}
      BY <2>3
    <3> HIDE DEF s
    <3>4. GroupsUpTo(r, s + 1)
            = GroupsUpTo(r, s) \cup {GroupOf(r.dim, r.groups, i, s) : i \in Instances(r)}
      BY <3>3 DEF GroupsUpTo
    <3>5. groups \subseteq {GroupOf(r.dim, r.groups, i, s) : i \in Instances(r)}
      BY <1>3, <1>4
    <3>6. Undisturbed(Cur) => groups = {GroupOf(r.dim, r.groups, i, s) : i \in Instances(r)}
      BY <1>4, <3>2
    <3> QED
      BY <1>7, <3>1, <3>4, <3>5, <3>6
  <2>7. \A i \in Calls : Undisturbed(i)' <=> Undisturbed(i)
    BY <1>11, <2>1, UndisturbedStays
  <2>8. ~Over /\ ~Over'
    BY <1>1, <2>1 DEF Over
  <2>9. GroupsInv'
    <3>1. \A i \in Calls : RanBy(i)' \subseteq Groups(launches[i].range)
      <4>1. RanBy(Cur) \cup groups \subseteq Groups(launches[Cur].range)
        BY <1>3, <1>5 DEF LaunchInv, GroupsInv, Latest
      <4> QED
        BY <1>7, <4>1 DEF LaunchInv, GroupsInv
    <3>2. \A i \in Calls : launches[i].outcome = "true" /\ Undisturbed(i)
            => RanBy(i)' = Groups(launches[i].range)
      BY <1>7, <1>12 DEF LaunchInv, GroupsInv
    <3>3. IsFiniteSet(RanBy(Cur)')
      BY <1>7, <1>8
    <3> QED
      BY <1>1, <1>5, <1>6, <1>9, <1>11, <1>13, <2>1, <2>3, <2>6, <2>7, <2>8, <3>1, <3>2, <3>3
      DEF GroupsInv, Early
  <2>10. CountersInv'
    <3> SUFFICES ASSUME Counting PROVE CountersInv'
      BY DEF CountersInv
    <3>1. retired - mem[Latest.counters].before = Cardinality(RanBy(Cur))
      BY <1>1, <1>3 DEF LaunchInv, CountersInv
    <3>2. retired \in Nat /\ mem[Latest.counters].before \in Nat
      <4>1. mem[Latest.counters] \in
              [type : {"counters"}, call : {Cur}, before : Nat, after : Nat]
        BY <1>5 DEF LaunchInv, BlocksInv, WithCounters
      <4> QED
        BY <4>1 DEF LaunchInv, Types
    <3>3. retired' - mem[Latest.counters].before = Cardinality(RanBy(Cur)')
      BY <1>2, <1>3, <1>7, <1>8, <3>1, <3>2
    <3>4. \A i \in Calls : launches[i].outcome = "true" /\ Undisturbed(i)
            => launches[i].measured = Cardinality(RanBy(i)')
      BY <1>7, <1>12 DEF LaunchInv, CountersInv
    <3> QED
      BY <1>9, <1>11, <2>1, <2>3, <2>7, <2>8, <3>3, <3>4 DEF CountersInv
  <2> QED
    BY <1>2, <1>3, <1>5, <1>9, <2>4, <2>5, <2>9, <2>10 DEF LaunchInv, Latest
<1>15. CASE ~ok
  <2>1. at' = 1 /\ queue' = <<>> /\ failed' = failed \cup {Cur}
    BY <1>2, <1>5, <1>15 DEF EndBuffer
  <2>2. QueueInv' /\ ParametersInv'
    BY <1>5, <1>9, <1>10, <1>11, <2>1 DEF QueueInv, ParametersInv
  <2>3. ~Over'
    <3>1. Cur \in 1 .. Cur
      BY <1>5, CallsAre
    <3>2. ~Undisturbed(Cur)'
      BY <1>9, <2>1, <3>1 DEF Undisturbed
    <3> QED
      BY <3>2 DEF Over
  <2>4. \A i \in Calls : Undisturbed(i)' => Undisturbed(i)
    BY <1>11, <2>1 DEF Undisturbed
  <2>5. GroupsInv'
    <3>1. \A i \in Calls : RanBy(i)' \subseteq Groups(launches[i].range)
      <4>1. RanBy(Cur) \cup groups \subseteq Groups(launches[Cur].range)
        BY <1>3, <1>5 DEF LaunchInv, GroupsInv, Latest
      <4> QED
        BY <1>7, <4>1 DEF LaunchInv, GroupsInv
    <3>2. \A i \in Calls : launches[i].outcome = "true" /\ Undisturbed(i)
            => RanBy(i)' = Groups(launches[i].range)
      BY <1>7, <1>12 DEF LaunchInv, GroupsInv
    <3>3. IsFiniteSet(RanBy(Cur)')
      BY <1>7, <1>8
    <3> QED
      BY <1>5, <1>6, <1>9, <1>11, <1>13, <2>1, <2>3, <2>4, <3>1, <3>2, <3>3
      DEF GroupsInv, Early
  <2>6. CountersInv'
    <3>1. Counting => \A i \in Calls : launches[i].outcome = "true" /\ Undisturbed(i)
            => launches[i].measured = Cardinality(RanBy(i)')
      BY <1>7, <1>12 DEF LaunchInv, CountersInv
    <3> QED
      BY <1>9, <1>11, <2>1, <2>3, <2>4, <3>1 DEF CountersInv
  <2> QED
    BY <1>2, <1>3, <1>5, <1>9, <2>2, <2>5, <2>6 DEF LaunchInv, Latest
<1> QED
  BY <1>14, <1>15

-----------------------------------------------------------------------------
(* Theorems                                                                *)

LEMMA StepKeepsInv == LaunchInv /\ [Next]_vars => LaunchInv'
<1> SUFFICES ASSUME LaunchInv, [Next]_vars PROVE LaunchInv'
  OBVIOUS
<1>1. ASSUME CmpStep PROVE LaunchInv'
  BY <1>1, CopyExecKeepsInv, SyncCacheKeepsInv, SetEntryKeepsInv, ReadCountersKeepsInv,
     RunSliceKeepsInv, FinishBufferKeepsInv, FailBufferKeepsInv
  DEF CmpStep
<1>2. ASSUME NEW t \in Threads, ThreadStep(t) PROVE LaunchInv'
  BY <1>2, LoadKeepsInv, AllocKubKeepsInv, AllocCountersKeepsInv, AllocBufferKeepsInv,
     SubmitKeepsInv, WaitKeepsInv, FinishKeepsInv
  DEF ThreadStep
<1>3. ASSUME NEW t \in Threads, NEW r \in Ranges, Begin(t, r) PROVE LaunchInv'
  BY <1>3, BeginKeepsInv
<1>4. ASSUME NEW b \in Blocks, MemAlloc(b) \/ MemFree(b) PROVE LaunchInv'
  BY <1>4, MemKeepsInv
<1>5. CASE UNCHANGED vars
  <2>1. UNCHANGED <<lock, pc, call, launches, mem, queue, at, image, icache, exec, entry,
                    retired, trapped, ran, repeated, failed>>
    BY <1>5 DEF vars, hostVars, runVars
  <2>2. UNCHANGED <<Cur, Calls, Latest, Stage>> /\ \A i : RanBy(i)' = RanBy(i)
    BY <2>1 DEF Cur, Calls, Latest, Stage, RanBy
  <2>3. Types' /\ LockInv' /\ BlocksInv' /\ OwnersInv'
    BY <2>1, <2>2 DEF LaunchInv, Types, LockInv, BlocksInv, OwnersInv
  <2>4. QueueInv' /\ ParametersInv' /\ GroupsInv' /\ CountersInv'
    BY <2>1, <2>2
    DEF LaunchInv, QueueInv, ParametersInv, OwnParameters, GroupsInv, CountersInv, Over,
        Undisturbed
  <2> QED
    BY <2>3, <2>4 DEF LaunchInv
<1> QED
  BY <1>1, <1>2, <1>3, <1>4, <1>5 DEF Next

\* The invariant of a launch, through all its steps and those of the CMP.
THEOREM LaunchInvariant == Spec => []LaunchInv
BY InitLaunchInv, StepKeepsInv, PTL DEF Spec

\* What the CMP is to execute is not freed before it has been executed:
\* kernel_exec keeps the lock and the blocks while it waits for the device.
THEOREM BuffersStayAlive == Spec => []BuffersAreLive
<1>1. LaunchInv => BuffersAreLive
  <2> SUFFICES ASSUME LaunchInv, NEW n \in 1 .. Len(queue)
               PROVE  LET content == mem[queue[n]]
                          l == launches[content.call]
                      IN  /\ content.type = "commands"
                          /\ Holds(l.kub, "kub") /\ mem[l.kub].call = content.call
                          /\ Counting => /\ Holds(l.counters, "counters")
                                         /\ mem[l.counters].call = content.call
                          /\ \E t \in Threads : /\ lock = t /\ pc[t] = "waiting"
                                                /\ call[t] = content.call
    BY DEF BuffersAreLive
  <2>1. queue # <<>> /\ queue = << Latest.buffer >>
    <3>1. queue # <<>>
      OBVIOUS
    <3> QED
      BY <3>1 DEF LaunchInv, QueueInv
  <2>2. queue[n] = Latest.buffer /\ mem[queue[n]] = Buffer
    BY <2>1 DEF Buffer
  <2>3. /\ Buffer.type = "commands" /\ Buffer.call = Cur /\ Stage = "waiting"
        /\ Latest.kub \in Blocks
        /\ mem[Latest.kub] = [type |-> "kub", call |-> Cur, groups |-> Latest.range.groups]
    BY <2>1, CmpFacts
  <2>4. Holds(Latest.kub, "kub") /\ mem[Latest.kub].call = Cur
    BY <2>3 DEF Holds
  <2>5. Counting => Holds(Latest.counters, "counters") /\ mem[Latest.counters].call = Cur
    <3> SUFFICES ASSUME Counting
                 PROVE  Holds(Latest.counters, "counters") /\ mem[Latest.counters].call = Cur
      OBVIOUS
    <3>1. /\ Latest.counters \in Blocks
          /\ mem[Latest.counters] \in
               [type : {"counters"}, call : {Cur}, before : Nat, after : Nat]
      BY <2>3 DEF LaunchInv, BlocksInv, WithCounters
    <3>2. mem[Latest.counters].type = "counters" /\ mem[Latest.counters].call = Cur
      BY <3>1
    <3> QED
      BY <3>1, <3>2 DEF Holds
  <2>6. lock \in Threads /\ pc[lock] = "waiting" /\ call[lock] = Cur
    BY <2>3, HolderOfLock DEF LaunchInv, Types, LockInv, Stage
  <2> QED
    BY <2>2, <2>3, <2>4, <2>5, <2>6 DEF Latest
<1> QED
  BY <1>1, LaunchInvariant, PTL

\* No work-group runs with the program, the execution state or the arguments of
\* another launch, for ranges of any size and any number of launches.
THEOREM GroupsRunOwnParameters == Spec => []OwnParameters
<1>1. LaunchInv => OwnParameters
  BY DEF LaunchInv, ParametersInv
<1> QED
  BY <1>1, LaunchInvariant, PTL

\* An undisturbed launch that returns true has run every work-group of its range,
\* once; no launch runs one twice, or one outside its range.
THEOREM LaunchRunsEveryGroupOnce == Spec => []EveryGroupOnce
<1>1. LaunchInv => EveryGroupOnce
  BY DEF LaunchInv, GroupsInv, EveryGroupOnce
<1> QED
  BY <1>1, LaunchInvariant, PTL

\* The counters of an undisturbed launch count its own work-groups, whatever ran
\* before.
THEOREM LaunchCountersExact == Spec => []CountersMeasureCall
<1>1. LaunchInv => CountersMeasureCall
  BY DEF LaunchInv, CountersInv, CountersMeasureCall
<1> QED
  BY <1>1, LaunchInvariant, PTL

\* A launch that returns true has no memory left.
THEOREM SuccessLeavesNoBlock == Spec => []SuccessReturnsMemory
<1>1. LaunchInv => SuccessReturnsMemory
  <2> SUFFICES ASSUME LaunchInv, NEW b \in Blocks,
                      mem[b].type \in {"kub", "counters", "commands"}
               PROVE  launches[mem[b].call].outcome # "true"
    BY DEF SuccessReturnsMemory
  <2>1. CASE launches[mem[b].call].outcome = "false"
    BY <2>1
  <2>2. CASE mem[b].call = Cur /\ Stage # "idle"
    <3>1. lock # Nobody /\ Cur \in Calls
      BY <2>2 DEF Stage, LaunchInv, OwnersInv
    <3> QED
      BY <2>2, <3>1 DEF LaunchInv, LockInv
  <2> QED
    BY <2>1, <2>2 DEF LaunchInv, OwnersInv, WithKub, WithCounters, WithBuffer
<1> QED
  BY <1>1, LaunchInvariant, PTL

\* Nothing of a launch runs once kernel_exec has returned, nor anything of a
\* launch that returned false.
THEOREM NothingRunsLate == Spec => NoLateWork
<1>1. LaunchInv /\ [Next]_vars
        => [\A work \in ran' \ ran : launches[work.by].outcome = "none"]_vars
  <2> SUFFICES ASSUME LaunchInv, Next
               PROVE  \A work \in ran' \ ran : launches[work.by].outcome = "none"
    OBVIOUS
  <2>1. CASE RunSlice
    BY <2>1, RunSliceKeepsInv
  <2>2. CASE ran' = ran
    BY <2>2
  <2>3. CmpStep => RunSlice \/ ran' = ran
    BY DEF CmpStep, CopyExec, SyncCache, SetEntry, ReadCounters, FinishBuffer, FailBuffer,
           runVars
  <2>4. ASSUME NEW t \in Threads, ThreadStep(t) PROVE ran' = ran
    BY <2>4 DEF ThreadStep, Load, AllocKub, AllocCounters, AllocBuffer, Allocate, Submit,
                Wait, Finish, runVars
  <2>5. ASSUME NEW t \in Threads, NEW r \in Ranges, Begin(t, r) PROVE ran' = ran
    BY <2>5 DEF Begin, Call, runVars
  <2>6. ASSUME NEW b \in Blocks, MemAlloc(b) \/ MemFree(b) PROVE ran' = ran
    BY <2>6 DEF MemAlloc, MemFree, runVars
  <2> QED
    BY <2>1, <2>2, <2>3, <2>4, <2>5, <2>6 DEF Next
<1> QED
  BY <1>1, LaunchInvariant, PTL DEF Spec, NoLateWork

-----------------------------------------------------------------------------
(* The refinement                                                          *)

\* A launch as its client sees it.
JobOf(i) == [range |-> launches[i].range, outcome |-> launches[i].outcome,
             measured |-> IF Undisturbed(i) THEN launches[i].measured ELSE 0]
Jobs == [i \in Calls |-> JobOf(i)]
DoneNow == {<<work.by, work.group>> : work \in ran}

LEMMA JobsAre ==
  ASSUME LaunchInv
  PROVE  Calls = 1 .. Cur /\ Cur \in Nat /\ Len(Jobs) = Cur /\ \A i \in Calls : Jobs[i] = JobOf(i)
<1>1. Calls = 1 .. Cur /\ Cur \in Nat
  BY CallsAre
<1>2. Jobs = [i \in 1 .. Cur |-> JobOf(i)]
  BY <1>1 DEF Jobs
<1>3. Len([i \in 1 .. Cur |-> JobOf(i)]) = Cur
  BY <1>1
<1> QED
  BY <1>1, <1>2, <1>3 DEF Jobs

LEMMA ServiceIs ==
  ASSUME LaunchInv
  PROVE  /\ Service!Current = Cur
         /\ lock # Nobody => /\ Service!Wanted = Groups(Latest.range)
                             /\ Service!Done = RanBy(Cur)
<1>1. Service!Current = Len(Jobs)
  BY DEF Service!Current, Jobs, JobOf
<1>2. Service!Current = Cur
  BY <1>1, JobsAre
<1>3. ASSUME lock # Nobody
      PROVE  /\ Service!Wanted = Groups(Latest.range)
             /\ Service!Done = RanBy(Cur)
  <2>1. Cur \in Calls
    BY <1>3, JobsAre DEF LaunchInv, LockInv
  <2>2. Jobs[Cur].range = Latest.range
    BY <2>1, JobsAre DEF JobOf, Latest
  <2>3. Service!Wanted = Service!Groups(Jobs[Cur].range)
    BY <1>2 DEF Service!Wanted, Jobs, JobOf
  <2>4. Service!Groups(Latest.range) = Groups(Latest.range)
    BY DEF Service!Groups, Groups
  <2>5. Service!Wanted = Groups(Latest.range)
    BY <2>2, <2>3, <2>4
  <2>6. RanBy(Cur) \subseteq Groups(Latest.range)
    BY <2>1 DEF LaunchInv, GroupsInv, Latest
  <2>7. Service!Done = {g \in Service!Wanted : <<Cur, g>> \in DoneNow}
    BY <1>2 DEF Service!Done, DoneNow
  <2>8. \A g : <<Cur, g>> \in DoneNow <=> g \in RanBy(Cur)
    BY DEF DoneNow, RanBy
  <2> QED
    BY <2>5, <2>6, <2>7, <2>8
<1> QED
  BY <1>2, <1>3

\* What has been measured of a launch that has not returned true.
MeasuredInv == \A i \in Calls : launches[i].outcome # "true" => launches[i].measured = 0

\* A step that the service does not see.
Quiet ==
  /\ UNCHANGED <<lock, ran, failed>> /\ Calls' = Calls
  /\ \A i \in Calls : /\ launches'[i].range = launches[i].range
                      /\ launches'[i].outcome = launches[i].outcome
                      /\ launches'[i].measured = launches[i].measured

LEMMA QuietIsStutter ==
  ASSUME Quiet
  PROVE  UNCHANGED Service!launchVars
<1>1. \A i \in Calls : JobOf(i)' = JobOf(i)
  BY DEF Quiet, JobOf, Undisturbed
<1>2. Jobs' = Jobs
  BY <1>1 DEF Quiet, Jobs
<1>3. DoneNow' = DoneNow
  BY DEF Quiet, DoneNow
<1> QED
  BY <1>2, <1>3 DEF Quiet, Service!launchVars, Jobs, JobOf, DoneNow

LEMMA QuietKeepsMeasured ==
  ASSUME Quiet, MeasuredInv
  PROVE  MeasuredInv'
BY DEF Quiet, MeasuredInv

\* kernel_exec returns false before anything has been submitted.
Refused(t) ==
  /\ pc[t] \in {"loading", "kub", "counters", "buffer"} /\ lock' = Nobody
  /\ launches' = [launches EXCEPT ![Cur].outcome = "false"]
  /\ UNCHANGED <<ran, failed>>

LEMMA NoteOther ==
  ASSUME LaunchInv, NEW t \in Threads, pc[t] # "idle", UNCHANGED <<lock, ran, failed>>,
         NEW field \in {"kub", "counters", "buffer"}, NEW b, Note(t, field, b)
  PROVE  Quiet
<1>1. call[t] = Cur /\ Cur \in Calls /\ Latest \in LaunchType
  BY HolderOfLock
<1>2. launches' = [launches EXCEPT ![Cur] = [launches[Cur] EXCEPT ![field] = b]]
  BY <1>1 DEF Note
<1>3. Calls' = Calls
  BY <1>2 DEF Calls
<1>4. \A i \in Calls \ {Cur} : launches'[i] = launches[i]
  BY <1>2 DEF Calls
<1>5. launches'[Cur] = [Latest EXCEPT ![field] = b]
  BY <1>1, <1>2 DEF Calls, Latest
<1>6. /\ launches'[Cur].range = Latest.range /\ launches'[Cur].outcome = Latest.outcome
      /\ launches'[Cur].measured = Latest.measured
  BY <1>1, <1>5 DEF LaunchType
<1> QED
  BY <1>3, <1>4, <1>6 DEF Quiet, Latest

LEMMA ReturnIsRefused ==
  ASSUME LaunchInv, NEW t \in Threads, pc[t] \in {"loading", "kub", "counters", "buffer"},
         Return(t, "false"), UNCHANGED <<ran, failed>>
  PROVE  Refused(t)
BY HolderOfLock DEF Return, Note, Refused

LEMMA AllocateSteps ==
  ASSUME LaunchInv, NEW t \in Threads, pc[t] \in {"kub", "counters", "buffer"},
         NEW field \in {"kub", "counters", "buffer"}, NEW content, NEW next,
         Allocate(t, field, content, next)
  PROVE  Quiet \/ Refused(t)
<1>1. UNCHANGED <<ran, failed>>
  BY DEF Allocate, runVars
<1>2. CASE Return(t, "false")
  BY <1>1, <1>2, ReturnIsRefused
<1>3. CASE \E b \in Blocks : Note(t, field, b) /\ UNCHANGED lock
  BY <1>1, <1>3, NoteOther
<1> QED
  BY <1>2, <1>3 DEF Allocate

LEMMA HostSteps ==
  ASSUME LaunchInv, NEW t \in Threads, ThreadStep(t)
  PROVE  Quiet \/ Refused(t) \/ Finish(t)
<1>1. CASE Load(t)
  <2>1. pc[t] = "loading" /\ UNCHANGED <<ran, failed>>
    BY <1>1 DEF Load, runVars
  <2>2. CASE Return(t, "false")
    BY <2>1, <2>2, ReturnIsRefused
  <2>3. CASE UNCHANGED <<lock, launches>>
    BY <2>1, <2>3 DEF Quiet, Calls
  <2> QED
    BY <1>1, <2>2, <2>3 DEF Load
<1>2. CASE AllocKub(t)
  BY <1>2, AllocateSteps DEF AllocKub
<1>3. CASE AllocCounters(t)
  BY <1>3, AllocateSteps DEF AllocCounters
<1>4. CASE AllocBuffer(t)
  BY <1>4, AllocateSteps DEF AllocBuffer
<1>5. CASE Submit(t) \/ Wait(t)
  BY <1>5 DEF Submit, Wait, Quiet, Calls, runVars
<1> QED
  BY <1>1, <1>2, <1>3, <1>4, <1>5 DEF ThreadStep

\* The record of the latest launch is the only one that a step has changed.
LEMMA JobChanges ==
  ASSUME LaunchInv, Cur \in Calls, Calls' = Calls, NEW outcome, NEW measured, NEW new,
         new = [range |-> Latest.range, outcome |-> outcome, measured |-> measured],
         \A i \in Calls : JobOf(i)' = IF i = Cur THEN new ELSE JobOf(i)
  PROVE  Jobs' = [Jobs EXCEPT ![Service!Current].outcome = outcome,
                              ![Service!Current].measured = measured]
<1>1. Service!Current = Cur
  BY ServiceIs
<1>2. PICK o, m : JobOf(Cur) = [range |-> Latest.range, outcome |-> o, measured |-> m]
  BY DEF JobOf, Latest
<1> DEFINE other == [Jobs EXCEPT ![Cur].outcome = outcome, ![Cur].measured = measured]
<1>3. Jobs' = [i \in Calls |-> Jobs'[i]] /\ \A i \in Calls : Jobs'[i] = JobOf(i)'
  BY DEF Jobs
<1>4. Jobs = [i \in Calls |-> Jobs[i]] /\ \A i \in Calls : Jobs[i] = JobOf(i)
  BY DEF Jobs
<1>5. other = [i \in Calls |-> other[i]] /\ \A i \in Calls \ {Cur} : other[i] = Jobs[i]
  BY <1>4
<1>6. other[Cur] = new
  <2>1. other[Cur] = [[Jobs[Cur] EXCEPT !.outcome = outcome] EXCEPT !.measured = measured]
    BY <1>4
  <2> DEFINE old == [range |-> Latest.range, outcome |-> o, measured |-> m]
             middle == [range |-> Latest.range, outcome |-> outcome, measured |-> m]
  <2>2. [old EXCEPT !.outcome = outcome] = middle
    OBVIOUS
  <2>3. [middle EXCEPT !.measured = measured] = new
    OBVIOUS
  <2>4. Jobs[Cur] = old
    BY <1>2, <1>4
  <2> HIDE DEF old, middle
  <2> QED
    BY <2>1, <2>2, <2>3, <2>4
<1>7. \A i \in Calls : Jobs'[i] = other[i]
  BY <1>3, <1>4, <1>5, <1>6
<1> HIDE DEF other
<1>8. Jobs' = other
  BY <1>3, <1>5, <1>7
<1> QED
  BY <1>1, <1>8 DEF other

LEMMA RefusedIsRefuse ==
  ASSUME LaunchInv, MeasuredInv, NEW t \in Threads, Refused(t)
  PROVE  MeasuredInv' /\ Service!Refuse
<1>1. /\ lock # Nobody /\ Cur \in Calls /\ Latest \in LaunchType /\ Latest.outcome = "none"
      /\ Stage \in Early
  BY HolderOfLock DEF Refused, Early
<1>2. RanBy(Cur) = {} /\ Cur \notin failed
  BY <1>1 DEF LaunchInv, GroupsInv
<1>3. /\ Calls' = Calls /\ \A i \in Calls \ {Cur} : launches'[i] = launches[i]
      /\ launches'[Cur] = [Latest EXCEPT !.outcome = "false"]
  BY <1>1 DEF Refused, Calls, Latest
<1>4. /\ launches'[Cur].range = Latest.range /\ launches'[Cur].outcome = "false"
      /\ launches'[Cur].measured = Latest.measured /\ Latest.measured = 0
  BY <1>1, <1>3 DEF LaunchType, MeasuredInv, Latest
<1>5. MeasuredInv'
  BY <1>3, <1>4 DEF MeasuredInv
<1> DEFINE new == [range |-> Latest.range, outcome |-> "false", measured |-> 0]
<1>6. \A i \in Calls : JobOf(i)' = IF i = Cur THEN new ELSE JobOf(i)
  BY <1>2, <1>3, <1>4 DEF JobOf, Refused, Undisturbed
<1> HIDE DEF new
<1>7. Jobs' = [Jobs EXCEPT ![Service!Current].outcome = "false",
                           ![Service!Current].measured = 0]
  BY <1>1, <1>3, <1>6, JobChanges DEF new
<1>8. DoneNow' = DoneNow /\ failed' = failed /\ lock' = Nobody
  BY DEF Refused, DoneNow
<1>9. Service!Done = {} /\ Service!Current \notin failed
  BY <1>1, <1>2, ServiceIs
<1> QED
  BY <1>1, <1>5, <1>7, <1>8, <1>9 DEF Service!Refuse, Service!Return, Jobs, JobOf, DoneNow

LEMMA FinishIsReturn ==
  ASSUME LaunchInv, LaunchInv', MeasuredInv, NEW t \in Threads, Finish(t)
  PROVE  MeasuredInv' /\ (Service!Complete \/ Service!Break)
<1>1. /\ lock # Nobody /\ Cur \in Calls /\ Latest \in LaunchType /\ Latest.outcome = "none"
      /\ Stage = "finishing" /\ call[t] = Cur
  BY HolderOfLock DEF Finish
<1>2. PICK value :
        /\ launches' = [launches EXCEPT ![Cur].outcome = "true", ![Cur].measured = value]
        /\ ~Counting => value = 0
  BY <1>1 DEF Finish
<1>3. Calls' = Calls /\ \A i \in Calls \ {Cur} : launches'[i] = launches[i]
  BY <1>2 DEF Calls
<1>4. /\ launches'[Cur].range = Latest.range /\ launches'[Cur].outcome = "true"
      /\ launches'[Cur].measured = value
  <2>1. launches'[Cur] = [[Latest EXCEPT !.outcome = "true"] EXCEPT !.measured = value]
    BY <1>1, <1>2 DEF Calls, Latest
  <2> QED
    BY <1>1, <2>1 DEF LaunchType
<1>5. MeasuredInv'
  BY <1>3, <1>4 DEF MeasuredInv
<1>6. DoneNow' = DoneNow /\ failed' = failed /\ lock' = Nobody /\ ran' = ran
  BY DEF Finish, DoneNow, runVars
<1>7. queue = <<>>
  BY <1>1 DEF LaunchInv, QueueInv
<1> DEFINE count == IF Counting /\ Undisturbed(Cur) THEN Cardinality(Groups(Latest.range))
                                                     ELSE 0
           new == [range |-> Latest.range, outcome |-> "true", measured |-> count]
<1>8. \A i \in Calls : Undisturbed(i)' <=> Undisturbed(i)
  BY <1>3, <1>4, <1>6, UndisturbedStays DEF Latest
<1>9. Undisturbed(Cur) => RanBy(Cur) = Groups(Latest.range)
  BY <1>1, <1>7 DEF LaunchInv, GroupsInv, Over
<1>10. Undisturbed(Cur) => launches'[Cur].measured = count
  <2>1. CASE Undisturbed(Cur) /\ Counting
    <3>1. Cur \in Calls' /\ RanBy(Cur)' = RanBy(Cur') /\ Cur' = Cur /\ Undisturbed(Cur)'
      BY <1>1, <1>3, <1>6, <1>8, <2>1 DEF RanBy, Cur, LaunchInv, Types, Calls
    <3> QED
      BY <1>4, <1>6, <1>9, <2>1, <3>1 DEF LaunchInv, CountersInv, RanBy
  <2>2. CASE ~Counting
    BY <1>2, <1>4, <2>2
  <2> QED
    BY <2>1, <2>2
<1>11. \A i \in Calls : JobOf(i)' = IF i = Cur THEN new ELSE JobOf(i)
  BY <1>3, <1>4, <1>10, <1>8 DEF JobOf
<1> HIDE DEF new, count
<1>12. Jobs' = [Jobs EXCEPT ![Service!Current].outcome = "true",
                            ![Service!Current].measured = count]
  BY <1>1, <1>3, <1>11, JobChanges DEF new
<1>13. CASE ~Undisturbed(Cur)
  <2>1. /\ count = 0 /\ Service!Current = Cur
        /\ failed # {} \/ ~Jobs[Cur].range.orderly
    BY <1>1, <1>13, JobsAre, ServiceIs DEF count, Undisturbed, JobOf, Latest
  <2> QED
    BY <1>1, <1>5, <1>6, <1>12, <2>1 DEF Service!Break, Service!Return, Jobs, JobOf, DoneNow
<1>14. CASE Undisturbed(Cur)
  <2>1. /\ Service!Current \notin failed /\ Service!Done = Service!Wanted
        /\ count = IF Counting THEN Cardinality(Service!Wanted) ELSE 0
    BY <1>1, <1>9, <1>14, ServiceIs, FailuresDisturb DEF count
  <2>2. count = IF Counting THEN Service!Cardinality(Service!Wanted) ELSE 0
    <3>1. \A S : Service!Cardinality(S) = Cardinality(S)
      BY Zenon DEF Service!Cardinality, Cardinality
    <3> QED
      BY <2>1, <3>1
  <2>3. Jobs' = [Jobs EXCEPT
          ![Service!Current].outcome = "true",
          ![Service!Current].measured = IF Counting THEN Service!Cardinality(Service!Wanted)
                                                    ELSE 0]
    BY <1>12, <2>2
  <2>4. Service!Return("true", IF Counting THEN Service!Cardinality(Service!Wanted) ELSE 0)
    BY <1>6, <2>3 DEF Service!Return, Jobs, JobOf, DoneNow
  <2>5. lock # Nobody /\ Service!Current \notin failed
    BY <1>1, <2>1
  <2>6. Service!Complete
    BY <2>1, <2>4, <2>5, Zenon DEF Service!Complete
  <2> QED
    BY <1>5, <2>6
<1> QED
  BY <1>13, <1>14

\* A sequence that is another one with an element more.
LEMMA AppendIs ==
  ASSUME NEW S, NEW s \in Seq(S), NEW f, NEW x,
         f = [i \in 1 .. Len(s) + 1 |-> f[i]],
         f[Len(s) + 1] = x, \A i \in 1 .. Len(s) : f[i] = s[i]
  PROVE  f = Append(s, x)
<1> DEFINE a == Append(s, x)
           n == Len(s)
<1>1. s \in Seq(S \cup {x}) /\ x \in S \cup {x} /\ n \in Nat
  OBVIOUS
<1>2. /\ a \in Seq(S \cup {x}) /\ Len(a) = n + 1
      /\ a[n + 1] = x /\ \A i \in 1 .. n : a[i] = s[i]
  BY <1>1
<1> HIDE DEF a, n
<1>3. a = [i \in 1 .. n + 1 |-> a[i]]
  BY <1>2
<1>4. f = [i \in 1 .. n + 1 |-> f[i]] /\ f[n + 1] = x /\ \A i \in 1 .. n : f[i] = s[i]
  BY DEF n
<1>5. \A i \in 1 .. n + 1 : i \in 1 .. n \/ i = n + 1
  BY <1>1
<1>6. \A i \in 1 .. n + 1 : f[i] = a[i]
  BY <1>2, <1>4, <1>5
<1>7. f = a
  BY <1>3, <1>4, <1>6
<1> QED
  BY <1>7 DEF a

LEMMA BeginIsBegin ==
  ASSUME LaunchInv, MeasuredInv, NEW t \in Threads, NEW r \in Ranges, Begin(t, r)
  PROVE  MeasuredInv' /\ Service!Begin(t, r)
<1> DEFINE new == [range |-> r, outcome |-> "none", measured |-> 0]
<1>1. Calls = 1 .. Cur /\ Cur \in Nat /\ Len(Jobs) = Cur /\ \A i \in Calls : Jobs[i] = JobOf(i)
  BY JobsAre
<1>2. /\ lock = Nobody /\ lock' = t /\ Cur < MaxCalls
      /\ UNCHANGED <<ran, failed>> /\ failed \subseteq Calls
  BY DEF Begin, Call, runVars, Cur, LaunchInv, Types
<1>3. /\ Calls' = 1 .. Cur + 1 /\ \A i \in Calls : launches'[i] = launches[i]
      /\ launches'[Cur + 1].range = r /\ launches'[Cur + 1].outcome = "none"
      /\ launches'[Cur + 1].measured = 0
  BY DEF Begin, Call, Calls, Cur, LaunchInv, Types
<1>4. MeasuredInv'
  BY <1>1, <1>3 DEF MeasuredInv
<1>5. \A i \in Calls' : JobOf(i)' = IF i = Cur + 1 THEN new ELSE JobOf(i)
  BY <1>1, <1>2, <1>3 DEF JobOf, Undisturbed
<1>6. Jobs' = Append(Jobs, new)
  <2>1. Jobs = [i \in 1 .. Cur |-> Jobs[i]] /\ Jobs' = [i \in 1 .. Cur + 1 |-> Jobs'[i]]
    BY <1>1, <1>3 DEF Jobs
  <2>2. \A i \in 1 .. Cur + 1 : Jobs'[i] = JobOf(i)'
    BY <1>3 DEF Jobs
  <2>3. \A i \in 1 .. Cur + 1 : Jobs'[i] = IF i = Cur + 1 THEN new ELSE Jobs[i]
    BY <1>1, <1>3, <1>5, <2>2
  <2> HIDE DEF Jobs, new
  <2> DEFINE S == {Jobs[i] : i \in 1 .. Cur}
  <2>4. Jobs \in Seq(S)
    BY <1>1, <2>1
  <2>5. Jobs'[Cur + 1] = new /\ \A i \in 1 .. Cur : Jobs'[i] = Jobs[i]
    BY <1>1, <2>3
  <2> HIDE DEF S
  <2> QED
    BY <1>1, <2>1, <2>4, <2>5, AppendIs
<1>7. DoneNow' = DoneNow
  BY <1>2 DEF DoneNow
<1>8. Service!Current = Cur
  BY ServiceIs
<1> QED
  BY <1>2, <1>4, <1>6, <1>7, <1>8 DEF Service!Begin, Jobs, JobOf, DoneNow

LEMMA CmpIsWork ==
  ASSUME LaunchInv, MeasuredInv, CmpStep
  PROVE  MeasuredInv' /\ [Service!Next]_Service!launchVars
<1>1. launches' = launches /\ lock' = lock /\ Calls' = Calls
  BY DEF CmpStep, CopyExec, SyncCache, SetEntry, ReadCounters, RunSlice, FinishBuffer,
         FailBuffer, hostVars, Calls
<1>2. MeasuredInv'
  BY <1>1 DEF MeasuredInv
<1>3. /\ queue # <<>> /\ Cur \in Calls /\ Cur \notin failed /\ Latest.outcome = "none"
      /\ lock # Nobody /\ Latest.measured = 0 /\ Buffer.call = Cur /\ Buffer.type = "commands"
  <2>1. queue # <<>>
    BY DEF CmpStep, CopyExec, SyncCache, SetEntry, ReadCounters, RunSlice, FinishBuffer,
           FailBuffer, Executing
  <2>2. /\ Cur \in Calls /\ Cur \notin failed /\ Latest.outcome = "none"
        /\ Stage = "waiting" /\ Buffer.call = Cur /\ Buffer.type = "commands"
    BY <2>1, CmpFacts
  <2> QED
    BY <2>1, <2>2 DEF MeasuredInv, Latest, Stage
<1>4. ASSUME failed' \in {failed, failed \cup {Cur}}
      PROVE  Jobs' = Jobs
  <2>1. \A i \in Calls \ {Cur} : Undisturbed(i)' <=> Undisturbed(i)
    <3>1. \A i \in Calls \ {Cur} : i \in Nat /\ i < Cur
      BY JobsAre
    <3> QED
      BY <1>1, <1>4, <3>1 DEF Undisturbed
  <2>2. \A i \in Calls : JobOf(i)' = JobOf(i)
    BY <1>1, <1>3, <2>1 DEF JobOf, Latest
  <2> QED
    BY <1>1, <2>2 DEF Jobs
<1>5. ASSUME NEW groups \in SUBSET (Groups(Latest.range) \ RanBy(Cur)),
             DoneNow' = DoneNow \cup {<<Cur, g>> : g \in groups},
             failed' \in {failed, failed \cup {Cur}}
      PROVE  Service!Next
  <2>1. /\ Service!Current = Cur /\ Service!Wanted = Groups(Latest.range)
        /\ Service!Done = RanBy(Cur)
    BY <1>3, ServiceIs
  <2>2. Jobs' = Jobs
    BY <1>4, <1>5
  <2>3. /\ DoneNow \subseteq DoneNow'
        /\ DoneNow' \ DoneNow \subseteq {Service!Current} \X Service!Wanted
    BY <1>5, <2>1
  <2>4. Service!Work
    BY <1>1, <1>3, <1>5, <2>1, <2>2, <2>3 DEF Service!Work, Jobs, JobOf, DoneNow
  <2> QED
    BY <2>4 DEF Service!Next
<1>6. CASE UNCHANGED <<ran, failed>>
  <2>1. Quiet
    BY <1>1, <1>6 DEF Quiet
  <2> QED
    BY <1>2, <2>1, QuietIsStutter
<1>7. CASE FailBuffer
  <2>1. ran' = ran /\ failed' = failed \cup {Cur}
    BY <1>3, <1>7 DEF FailBuffer, runVars
  <2>2. DoneNow' = DoneNow \cup {<<Cur, g>> : g \in {}}
    BY <2>1 DEF DoneNow
  <2> QED
    BY <1>2, <1>5, <2>1, <2>2
<1>8. CASE RunSlice
  <2>1. Command.op = "RUN"
    BY <1>8 DEF RunSlice, Executing, Command
  <2>2. PICK some \in SUBSET (0 .. Command.instances - 1) :
          /\ ran' = ran \cup {Work(i) : i \in some}
          /\ failed' \in {failed, failed \cup {Cur}}
    BY <1>3, <1>8 DEF RunSlice, NextCommand
  <2> DEFINE new == {Work(i) : i \in some}
             groups == {GroupOf(Latest.range.dim, Latest.range.groups, i, at - FirstRun)
                          : i \in some}
  <2>3. /\ \A w \in new : w.by = Cur
        /\ {w.group : w \in new} = groups
        /\ groups \cap RanBy(Cur) = {} /\ groups \subseteq Groups(Latest.range)
    BY <1>3, <2>1, SliceRuns
  <2>4. ran' = ran \cup new
    BY <2>2
  <2> HIDE DEF new, groups
  <2>5. DoneNow' = DoneNow \cup {<<Cur, g>> : g \in groups}
    BY <2>3, <2>4 DEF DoneNow
  <2> QED
    BY <1>2, <1>5, <2>2, <2>3, <2>5
<1>9. CopyExec \/ SyncCache \/ SetEntry \/ ReadCounters \/ FinishBuffer
        => UNCHANGED <<ran, failed>>
  BY DEF CopyExec, SyncCache, SetEntry, ReadCounters, FinishBuffer, NextCommand, runVars
<1> QED
  BY <1>6, <1>7, <1>8, <1>9 DEF CmpStep

LEMMA StepIsService ==
  LaunchInv /\ LaunchInv' /\ MeasuredInv /\ [Next]_vars
    => MeasuredInv' /\ [Service!Next]_Service!launchVars
<1> SUFFICES ASSUME LaunchInv, LaunchInv', MeasuredInv, [Next]_vars
             PROVE  MeasuredInv' /\ [Service!Next]_Service!launchVars
  OBVIOUS
<1>1. CASE CmpStep
  BY <1>1, CmpIsWork
<1>2. CASE Quiet
  BY <1>2, QuietIsStutter, QuietKeepsMeasured
<1>3. ASSUME NEW t \in Threads, ThreadStep(t)
      PROVE  MeasuredInv' /\ [Service!Next]_Service!launchVars
  <2>1. CASE Refused(t)
    BY <2>1, RefusedIsRefuse DEF Service!Next
  <2>2. CASE Finish(t)
    BY <2>2, FinishIsReturn DEF Service!Next
  <2> QED
    BY <1>2, <1>3, <2>1, <2>2, HostSteps
<1>4. ASSUME NEW t \in Threads, NEW r \in Ranges, Begin(t, r)
      PROVE  MeasuredInv' /\ [Service!Next]_Service!launchVars
  BY <1>4, BeginIsBegin DEF Service!Next
<1>5. ASSUME NEW b \in Blocks, MemAlloc(b) \/ MemFree(b)
      PROVE  Quiet
  BY <1>5 DEF MemAlloc, MemFree, Quiet, hostVars, runVars, Calls
<1>6. CASE UNCHANGED vars
  BY <1>2, <1>6 DEF vars, Quiet, hostVars, runVars, Calls
<1> QED
  BY <1>1, <1>2, <1>3, <1>4, <1>5, <1>6 DEF Next

\* kernel_exec with its memory, command buffers and shared places implements the
\* service of LaunchService, for any threads, ranges and blocks.
THEOREM LaunchImplementsService == Spec => ImplementsLaunch
<1>1. Init => MeasuredInv /\ Service!Init
  BY DEF Init, MeasuredInv, Calls, Service!Init
<1> QED
  BY <1>1, StepIsService, LaunchInvariant, PTL DEF Spec, ImplementsLaunch, Service!Spec

=============================================================================
