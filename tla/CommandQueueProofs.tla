------------------------- MODULE CommandQueueProofs -------------------------
(***************************************************************************)
(* Proofs about CommandQueue, for any number of clients, any queue length  *)
(* and any set of command buffers.  The inductive invariant adds to the    *)
(* invariants of the module how the phases of stop constrain the worker    *)
(* and the other clients.  It carries over to CommandQueueHistory, because *)
(* a step of the history specification is a step of the queue; with it the *)
(* queue is shown to implement CommandService.                             *)
(***************************************************************************)
EXTENDS CommandQueueHistory, SequenceTheorems, TLAPS

-----------------------------------------------------------------------------
\* While a client is in stop, and after it, the other clients are idle.
StopAlone ==
  \A c \in Clients : pc[c] \in InStop \cup {"stopped"} =>
    \A d \in Clients \ {c} : pc[d] = "idle"

\* stopping is raised exactly between the two critical sections of stop.
StoppingPhase ==
  stopping <=> \E c \in Clients : pc[c] \in {"joining", "relockStop", "joined"}

\* What the locations of the worker and of the clients say of each other.
WorkerPhase ==
  /\ worker = "none" <=> ~started
  /\ worker = "draining" => ~stopping
  /\ worker = "exited" =>
       \E c \in Clients : pc[c] \in {"joining", "relockStop", "joined", "stopped"}
  /\ \A c \in Clients :
       /\ pc[c] \in {"joining", "relockStop", "joined"} => started
       /\ pc[c] \in {"relockStop", "joined"} => worker = "exited"
       /\ pc[c] = "stopped" => worker \in {"none", "exited"}
       /\ pc[c] \in {"testing", "blocked", "relockExecute"} => started
  /\ requests # <<>> => started

QInv ==
  /\ TypeOK
  /\ LockOwnership
  /\ QueueBound
  /\ StopAlone
  /\ StoppingPhase
  /\ WorkerPhase
  /\ NoLostWakeup
  /\ SleepersAreServed

-----------------------------------------------------------------------------
\* TypeOK: every location, flag and queue stays in its range.
LEMMA InitTypeOK == Init => TypeOK
<1> USE DEF TypeOK, Locking, Holding, InStop, ClientLocations, WorkerHolding,
            WorkerLocations
<1> SUFFICES ASSUME Init PROVE TypeOK
  OBVIOUS
<1>1. requests \in Seq(Buffers)
  BY DEF Init
<1>2. pc \in [Clients -> ClientLocations]
  BY DEF Init
<1>3. lock \in Clients \cup {Worker, Nobody} /\ worker \in WorkerLocations
  BY DEF Init
<1>4. started \in BOOLEAN /\ stopping \in BOOLEAN
  BY DEF Init
<1> QED
  BY <1>1, <1>2, <1>3, <1>4

\* Every variable keeps its type, in every call and in workerMain.
THEOREM TypeCorrect == Spec => []TypeOK
<1> USE DEF TypeOK, Locking, Holding, InStop, ClientLocations, WorkerHolding,
            WorkerLocations
<1>1. Init => TypeOK
  BY InitTypeOK
<1>2. TypeOK /\ [Next]_vars => TypeOK'
  <2> SUFFICES ASSUME TypeOK, [Next]_vars
               PROVE  TypeOK'
    OBVIOUS
  <2> USE QueueAssumption
  <2>1. CASE WorkerAcquire
    BY <2>1 DEF WorkerAcquire
  <2>2. CASE WorkerBookkeeping
    BY <2>2 DEF WorkerBookkeeping, WorkerLoop, WorkerExit, Sleep
  <2>3. ASSUME NEW b \in Buffers, Execute(b)
        PROVE  TypeOK'
    BY <2>3 DEF Execute, ClientsNotified
  <2>4. CASE SpuriousWake
    BY <2>4 DEF SpuriousWake, ClientsNotified
  <2>5. ASSUME NEW c \in Clients, Acquire(c)
        PROVE  TypeOK'
    BY <2>5 DEF Acquire, Entry
  <2>6. ASSUME NEW c \in Clients, NEW b \in Buffers, Enqueue(c, b)
        PROVE  TypeOK'
    BY <2>6 DEF Enqueue, WorkerNotified
  <2>7. ASSUME NEW c \in Clients, ClientBookkeeping(c)
        PROVE  TypeOK'
    BY <2>7 DEF ClientBookkeeping, EnsureStarted, Block, Await, ReturnIdle,
                RequestStop, Join, FinishStop, WorkerNotified
  <2>8. ASSUME NEW c \in Clients, ClientCall(c)
        PROVE  TypeOK'
    BY <2>8 DEF ClientCall, CallExecute, CallWait, CallStop, Call
  <2>9. CASE UNCHANGED vars
    BY <2>9 DEF vars
  <2> QED
    BY <2>1, <2>2, <2>3, <2>4, <2>5, <2>6, <2>7, <2>8, <2>9
       DEF Next, WorkerStep, ClientStep
<1> QED
  BY <1>1, <1>2, PTL DEF Spec

\* A step keeps the relation between queue, mutex, worker and sleepers.
LEMMA QInvStep == ~Restart /\ QInv /\ TypeOK' /\ [Next]_vars => QInv'
<1> SUFFICES ASSUME ~Restart, QInv, TypeOK', [Next]_vars
             PROVE  QInv'
  OBVIOUS
<1> USE QueueAssumption DEF QInv, TypeOK, LockOwnership, QueueBound, StopAlone,
        StoppingPhase, WorkerPhase, NoLostWakeup, SleepersAreServed,
        Locking, Holding, InStop, ClientLocations, WorkerHolding, WorkerLocations
<1>1. CASE WorkerAcquire
  BY <1>1 DEF WorkerAcquire
<1>2. CASE WorkerLoop
  BY <1>2 DEF WorkerLoop
<1>3. CASE WorkerExit
  BY <1>3 DEF WorkerExit
<1>4. CASE Sleep
  BY <1>4 DEF Sleep
<1>5. CASE SpuriousWake
  BY <1>5 DEF SpuriousWake, ClientsNotified
<1>6. ASSUME NEW b \in Buffers, Execute(b)
      PROVE  QInv'
  BY <1>6 DEF Execute, ClientsNotified
<1>7. ASSUME NEW c \in Clients, Acquire(c)
      PROVE  QInv'
  BY <1>7 DEF Acquire, Entry
<1>8. ASSUME NEW c \in Clients, NEW b \in Buffers, Enqueue(c, b)
      PROVE  QInv'
  BY <1>8 DEF Enqueue, Full, WorkerNotified
<1>9. ASSUME NEW c \in Clients, EnsureStarted(c)
      PROVE  QInv'
  BY <1>9 DEF EnsureStarted
<1>10. ASSUME NEW c \in Clients, Block(c)
      PROVE  QInv'
  BY <1>10 DEF Block, Full
<1>11. ASSUME NEW c \in Clients, Await(c)
      PROVE  QInv'
  BY <1>11 DEF Await
<1>12. ASSUME NEW c \in Clients, ReturnIdle(c)
      PROVE  QInv'
  BY <1>12 DEF ReturnIdle
<1>13. ASSUME NEW c \in Clients, RequestStop(c)
      PROVE  QInv'
  BY <1>13 DEF RequestStop, WorkerNotified
<1>14. ASSUME NEW c \in Clients, Join(c)
      PROVE  QInv'
  BY <1>14 DEF Join
<1>15. ASSUME NEW c \in Clients, FinishStop(c)
      PROVE  QInv'
  BY <1>15 DEF FinishStop
<1>16. ASSUME NEW c \in Clients, CallExecute(c)
      PROVE  QInv'
  BY <1>16 DEF CallExecute, Call, Usable
<1>17. ASSUME NEW c \in Clients, CallWait(c)
      PROVE  QInv'
  BY <1>17 DEF CallWait, Call, Usable
<1>18. ASSUME NEW c \in Clients, CallStop(c)
      PROVE  QInv'
  BY <1>18 DEF CallStop, Call, Usable
<1>19. CASE UNCHANGED vars
  BY <1>19 DEF vars
<1> QED
  BY <1>1, <1>2, <1>3, <1>4, <1>5, <1>6, <1>7, <1>8, <1>9, <1>10, <1>11, <1>12, <1>13, <1>14, <1>15, <1>16, <1>17, <1>18, <1>19
     DEF Next, WorkerStep, WorkerBookkeeping, ClientStep, ClientBookkeeping, ClientCall

-----------------------------------------------------------------------------
\* The relation between queue, mutex, worker and sleepers always holds.
THEOREM QInvHolds == ~Restart => (Spec => []QInv)
<1> SUFFICES ASSUME ~Restart
             PROVE  Spec => []QInv
  OBVIOUS
<1>1. Init => QInv
  <2> SUFFICES ASSUME Init PROVE QInv
    OBVIOUS
  <2>1. TypeOK
    BY InitTypeOK
  <2> QED
    BY <2>1, QueueAssumption DEF Init, QInv, LockOwnership, QueueBound,
       StopAlone, StoppingPhase, WorkerPhase, NoLostWakeup, SleepersAreServed,
       Holding, InStop, WorkerHolding
<1> QED
  BY <1>1, QInvStep, TypeCorrect, PTL DEF Spec

-----------------------------------------------------------------------------
\* QueueBound: the queue never holds more than max_requests + 1 requests,
\* whatever the clients do, a stop and a restart included.
THEOREM QueueIsBounded == Spec => []QueueBound
<1>1. Init => QueueBound
  BY QueueAssumption DEF Init, QueueBound
<1>2. TypeOK /\ QueueBound /\ [Next]_vars => QueueBound'
  <2> SUFFICES ASSUME TypeOK, QueueBound, [Next]_vars
               PROVE  QueueBound'
    OBVIOUS
  <2> USE QueueAssumption DEF TypeOK, QueueBound
  <2>1. ASSUME NEW b \in Buffers, Execute(b)
        PROVE  QueueBound'
    BY <2>1 DEF Execute
  <2>2. ASSUME NEW c \in Clients, NEW b \in Buffers, Enqueue(c, b)
        PROVE  QueueBound'
    BY <2>2 DEF Enqueue, Full
  <2>3. ASSUME requests' = requests
        PROVE  QueueBound'
    BY <2>3
  <2>4. WorkerAcquire \/ WorkerBookkeeping \/ SpuriousWake => requests' = requests
    BY DEF WorkerAcquire, WorkerBookkeeping, WorkerLoop, WorkerExit, Sleep,
           SpuriousWake
  <2>5. ASSUME NEW c \in Clients,
               Acquire(c) \/ ClientBookkeeping(c) \/ ClientCall(c)
        PROVE  requests' = requests
    BY <2>5 DEF Acquire, ClientBookkeeping, EnsureStarted, Block, Await,
                ReturnIdle, RequestStop, Join, FinishStop, ClientCall,
                CallExecute, CallWait, CallStop, Call
  <2> QED
    BY <2>1, <2>2, <2>3, <2>4, <2>5 DEF Next, WorkerStep, ClientStep, vars
<1> QED
  BY <1>1, <1>2, TypeCorrect, PTL DEF Spec

\* LockOwnership: the mutex belongs to the thread inside a critical section.
THEOREM MutexIsOwned == ~Restart => (Spec => []LockOwnership)
BY QInvHolds, PTL DEF QInv

\* NoLostWakeup: dispatched.wait has no predicate, and needs none.
THEOREM WorkerSeesEveryRequest == ~Restart => (Spec => []NoLostWakeup)
BY QInvHolds, PTL DEF QInv

\* SleepersAreServed: a client asleep on executed is waiting for a request
\* that the worker is on its way to execute.
THEOREM NobodyIsStranded == ~Restart => (Spec => []SleepersAreServed)
BY QInvHolds, PTL DEF QInv

\* StartMeansRunning: on a device that is not used after stop, a client past
\* start has a live worker.
THEOREM StartedWorkerIsLive == ~Restart => (Spec => []StartMeansRunning)
<1>1. QInv => StartMeansRunning
  <2> SUFFICES ASSUME QInv, NEW c \in Clients, pc[c] = "testing"
               PROVE  worker \notin {"none", "exited"}
    BY DEF StartMeansRunning
  <2>1. worker # "none"
    BY DEF QInv, WorkerPhase
  <2>2. ASSUME worker = "exited" PROVE FALSE
    <3>1. PICK d \in Clients :
            pc[d] \in {"joining", "relockStop", "joined", "stopped"}
      BY <2>2 DEF QInv, WorkerPhase
    <3> QED
      BY <3>1 DEF QInv, StopAlone, InStop
  <2> QED
    BY <2>1, <2>2
<1> QED
  BY <1>1, QInvHolds, PTL

\* StopIsFinal: once stop has returned, the worker is gone for good and no
\* request is executed.
THEOREM StopEndsExecution == ~Restart => (Spec => StopIsFinal)
<1> SUFFICES ASSUME ~Restart
             PROVE  Spec => StopIsFinal
  OBVIOUS
<1>1. ASSUME QInv, [Next]_vars,
             NEW c \in Clients, pc[c] = "stopped", worker # "none"
      PROVE  worker' = worker /\ Len(requests') >= Len(requests)
  <2>1. worker = "exited" /\ started
    BY <1>1 DEF QInv, WorkerPhase
  <2>2. \A d \in Clients \ {c} : pc[d] = "idle"
    BY <1>1 DEF QInv, StopAlone
  <2>3. TypeOK
    BY <1>1 DEF QInv
  <2>4. UNCHANGED <<worker, requests>>
    BY <1>1, <2>1, <2>2 DEF Next, WorkerStep, WorkerBookkeeping, ClientStep,
       ClientBookkeeping, ClientCall, WorkerAcquire, WorkerLoop, WorkerExit,
       Execute, Sleep, SpuriousWake, Acquire, EnsureStarted, Enqueue, Block,
       Await, ReturnIdle, RequestStop, Join, FinishStop, CallExecute, CallWait,
       CallStop, Call, vars, Locking
  <2> QED
    BY <2>3, <2>4 DEF TypeOK
<1>2. QInv /\ [Next]_vars =>
        [(\E c \in Clients : pc[c] = "stopped") /\ worker # "none"
           => worker' = worker /\ Len(requests') >= Len(requests)]_vars
  BY <1>1
<1> QED
  BY <1>2, QInvHolds, PTL DEF Spec, StopIsFinal

-----------------------------------------------------------------------------
(* The history, and the service that the queue implements                  *)

HTypeOK ==
  /\ accepted \in Seq(Buffers)
  /\ executed \in Seq(Buffers)
  /\ before \in [Clients -> Nat]

WaitsForThePast ==
  \A c \in Clients : before[c] <= Len(accepted)

HInv == HTypeOK /\ ExactlyOnceInOrder /\ WaitsForThePast

-----------------------------------------------------------------------------
\* Moving the head of one sequence to the end of another keeps their
\* concatenation.
LEMMA MoveHead ==
  ASSUME NEW S, NEW s \in Seq(S), NEW t \in Seq(S), t # <<>>
  PROVE  Append(s, Head(t)) \o Tail(t) = s \o t
<1>1. Tail(t) \in Seq(S) /\ Head(t) \in S /\ Len(Tail(t)) = Len(t) - 1
  BY HeadTailProperties
<1>2. Append(s, Head(t)) \in Seq(S) /\ Len(Append(s, Head(t))) = Len(s) + 1
  BY <1>1, AppendProperties
<1>3. \A i \in 1 .. Len(s) + Len(t) :
        (Append(s, Head(t)) \o Tail(t))[i] = (s \o t)[i]
  BY <1>1, <1>2
<1>4. /\ Append(s, Head(t)) \o Tail(t) \in Seq(S)
      /\ s \o t \in Seq(S)
      /\ Len(Append(s, Head(t)) \o Tail(t)) = Len(s) + Len(t)
      /\ Len(s \o t) = Len(s) + Len(t)
  BY <1>1, <1>2, ConcatProperties
<1> QED
  BY <1>3, <1>4, SeqEqual

-----------------------------------------------------------------------------
\* Forgetting the history, the specification is that of the queue.
LEMMA HStepIsStep == [HNext]_hvars => [Next]_vars
BY DEF HNext, HBookkeeping, HExecute, HCallExecute, HCallWait, HEnqueue, Next,
       WorkerStep, ClientStep, ClientCall, hvars

\* The history variables restrict the queue and add nothing to it.
LEMMA HSpecIsSpec == HSpec => Spec
<1>1. HInit => Init
  BY DEF HInit
<1> QED
  BY <1>1, HStepIsStep, PTL DEF HSpec, Spec

\* The invariant of the history holds throughout.
LEMMA HInvHolds == HSpec => []HInv
<1>1. HInit => HInv
  BY DEF HInit, Init, HInv, HTypeOK, ExactlyOnceInOrder, WaitsForThePast
<1>2. TypeOK /\ HInv /\ [HNext]_hvars => HInv'
  <2> SUFFICES ASSUME TypeOK, HInv, [HNext]_hvars
               PROVE  HInv'
    OBVIOUS
  <2> USE DEF HInv, HTypeOK, WaitsForThePast
  <2>0. requests \in Seq(Buffers)
    BY DEF TypeOK
  <2>1. ASSUME NEW b \in Buffers, HExecute(b)
        PROVE  HInv'
    <3>1. ExactlyOnceInOrder'
      <4>1. /\ requests # <<>> /\ b = Head(requests)
            /\ requests' = Tail(requests) /\ accepted' = accepted
            /\ executed' = Append(executed, Head(requests))
        BY <2>1 DEF HExecute, Execute
      <4>2. executed' \o requests' = executed \o requests
        BY <2>0, <4>1, MoveHead
      <4>3. accepted' = accepted /\ accepted = executed \o requests
        BY <4>1 DEF ExactlyOnceInOrder
      <4> QED
        BY <4>2, <4>3, Zenon DEF ExactlyOnceInOrder
    <3> QED
      BY <2>0, <2>1, <3>1 DEF HExecute
  <2>2. ASSUME NEW c \in Clients, NEW b \in Buffers, HEnqueue(c, b)
        PROVE  HInv'
    <3>1. ExactlyOnceInOrder'
      <4>1. /\ requests' = Append(requests, b) /\ executed' = executed
            /\ accepted' = Append(accepted, b)
        BY <2>2 DEF HEnqueue, Enqueue
      <4>2. accepted' = Append(executed \o requests, b)
        BY <4>1 DEF ExactlyOnceInOrder
      <4>3. Append(executed \o requests, b) = executed \o Append(requests, b)
        <5> DEFINE u == Append(executed \o requests, b)
                   v == executed \o Append(requests, b)
        <5>1. u \in Seq(Buffers) /\ v \in Seq(Buffers)
          BY <2>0, ConcatProperties, AppendProperties
        <5>2. Len(u) = Len(v) /\ \A i \in 1 .. Len(u) : u[i] = v[i]
          BY <2>0
        <5> HIDE DEF u, v
        <5>3. u = v
          BY <5>1, <5>2, SeqEqual
        <5> QED
          BY <5>3 DEF u, v
      <4> QED
        BY <4>1, <4>2, <4>3, Zenon DEF ExactlyOnceInOrder
    <3>2. Len(accepted') = Len(accepted) + 1
      BY <2>2 DEF HEnqueue
    <3>3. WaitsForThePast'
      BY <2>2, <3>2 DEF HEnqueue
    <3> QED
      BY <2>2, <3>1, <3>3 DEF HEnqueue
  <2>3. ASSUME NEW c \in Clients, HCallWait(c)
        PROVE  HInv'
    BY <2>3 DEF HCallWait, CallWait, Call, ExactlyOnceInOrder
  <2>4. ASSUME NEW c \in Clients, HCallExecute(c)
        PROVE  HInv'
    BY <2>4 DEF HCallExecute, CallExecute, Call, ExactlyOnceInOrder, history
  <2>5. CASE HBookkeeping
    <3>1. requests' = requests
      BY <2>5 DEF HBookkeeping, WorkerAcquire, WorkerBookkeeping, WorkerLoop,
        WorkerExit, Sleep, SpuriousWake, Acquire, ClientBookkeeping,
        EnsureStarted, Block, Await, ReturnIdle, RequestStop, Join, FinishStop,
        CallStop, Call
    <3> QED
      BY <2>5, <3>1 DEF HBookkeeping, ExactlyOnceInOrder, history
  <2>6. CASE UNCHANGED hvars
    BY <2>6 DEF hvars, vars, history, ExactlyOnceInOrder
  <2> QED
    BY <2>1, <2>2, <2>3, <2>4, <2>5, <2>6 DEF HNext
<1> QED
  BY <1>1, <1>2, HSpecIsSpec, TypeCorrect, PTL DEF HSpec

\* ExactlyOnceInOrder: what has been accepted is what has been executed
\* followed by what the queue holds.
THEOREM ExecutedExactlyOnce == HSpec => []ExactlyOnceInOrder
<1>1. HInv => ExactlyOnceInOrder
  BY DEF HInv
<1> QED
  BY <1>1, HInvHolds, PTL

-----------------------------------------------------------------------------
\* The call of each location.
LEMMA CallOfLocation ==
  /\ \A l \in InExecute : CallOf(l) = "execute"
  /\ \A l \in {"lockWait", "checking", "waiting"} : CallOf(l) = "wait"
  /\ \A l \in InStop : CallOf(l) = "stop"
  /\ CallOf("stopped") = "gone"
  /\ CallOf("idle") = "none"
BY DEF CallOf, InExecute, InStop

\* Only the calls' first and last steps change the call a client is in: when
\* a client moves within a call, nobody's call changes.
LEMMA CallUnchanged ==
  ASSUME TypeOK, TypeOK',
         \A c \in Clients : CallOf(pc'[c]) = CallOf(pc[c]),
         \A c \in Clients : pc'[c] = "stopped" <=> pc[c] = "stopped",
         UNCHANGED history
  PROVE  UNCHANGED Service!serviceVars
BY DEF Service!serviceVars, history

\* ImplementsService: every step of the queue is a step of the service, or
\* leaves the service's state unchanged.
THEOREM QueueImplementsService == ~Restart => (HSpec => ImplementsService)
<1> SUFFICES ASSUME ~Restart
             PROVE  HSpec => ImplementsService
  OBVIOUS
<1> DEFINE call == [c \in Clients |-> CallOf(pc[c])]
           down == \E c \in Clients : pc[c] = "stopped"
<1>1. HInit => Service!Init
  BY DEF HInit, Init, Service!Init, CallOf, InExecute, InStop
<1>2. QInv /\ TypeOK' /\ HInv /\ [HNext]_hvars => [Service!Next]_Service!serviceVars
  <2> SUFFICES ASSUME QInv, TypeOK', HInv, [HNext]_hvars
               PROVE  [Service!Next]_Service!serviceVars
    OBVIOUS
  <2>0. TypeOK /\ HTypeOK /\ TypeOK'
    BY DEF QInv, HInv, TypeOK
  <2>1. ASSUME NEW b \in Buffers, HExecute(b)
        PROVE  Service!Finish
    <3>1. ~down
      BY <2>0, <2>1 DEF QInv, WorkerPhase, HExecute, Execute
    <3>2. /\ executed \in Seq(Buffers) /\ requests \in Seq(Buffers)
          /\ requests # <<>> /\ accepted = executed \o requests
      BY <2>0, <2>1 DEF HExecute, Execute, HInv, ExactlyOnceInOrder, HTypeOK, TypeOK
    <3>3. /\ Len(executed) < Len(accepted)
          /\ accepted[Len(executed) + 1] = Head(requests)
      BY <3>2
    <3>4. \A c \in Clients : CallOf(pc'[c]) = CallOf(pc[c])
      <4> SUFFICES ASSUME NEW c \in Clients
                   PROVE  CallOf(pc'[c]) = CallOf(pc[c])
        OBVIOUS
      <4>1. pc'[c] = ClientsNotified[c]
        BY <2>1 DEF HExecute, Execute
      <4>2. CASE pc[c] = "blocked"
        BY <4>1, <4>2, CallOfLocation DEF ClientsNotified, InExecute
      <4>3. CASE pc[c] = "waiting"
        BY <4>1, <4>3, CallOfLocation DEF ClientsNotified
      <4>4. CASE pc[c] \notin {"blocked", "waiting"}
        BY <4>1, <4>4 DEF ClientsNotified
      <4> QED
        BY <4>2, <4>3, <4>4
    <3>5. \A c \in Clients : pc'[c] = "stopped" <=> pc[c] = "stopped"
      BY <2>1 DEF HExecute, Execute, ClientsNotified
    <3>6. executed' = Append(executed, accepted[Len(executed) + 1])
      BY <2>1, <3>3 DEF HExecute, Execute
    <3> QED
      BY <2>1, <3>1, <3>3, <3>4, <3>5, <3>6 DEF Service!Finish, HExecute
  <2>2. ASSUME NEW c \in Clients, NEW b \in Buffers, HEnqueue(c, b)
        PROVE  Service!Accept(c, b)
    <3>1. Len(accepted) = Len(executed) + Len(requests)
      BY <2>0 DEF HInv, ExactlyOnceInOrder, HTypeOK, TypeOK
    <3>2. Len(requests) < MaxRequests + 1
      BY <2>0, <2>2, QueueAssumption DEF HEnqueue, Enqueue, Full, TypeOK
    <3>3. Len(accepted) < Len(executed) + (MaxRequests + 1)
      BY <2>0, <3>1, <3>2, QueueAssumption DEF HTypeOK, TypeOK
    <3>4. /\ call[c] = "execute"
          /\ call' = [call EXCEPT ![c] = "none"]
          /\ down' = down
      BY <2>0, <2>2, CallOfLocation DEF HEnqueue, Enqueue, TypeOK, InExecute
    <3> QED
      BY <2>2, <3>3, <3>4 DEF HEnqueue, Service!Accept
  <2>3. ASSUME NEW c \in Clients, HCallWait(c)
        PROVE  Service!Begin(c, "wait")
    BY <2>0, <2>3, CallOfLocation DEF HCallWait, CallWait, Call, TypeOK, Service!Begin
  <2>4. ASSUME NEW c \in Clients, HCallExecute(c)
        PROVE  Service!Begin(c, "execute")
    BY <2>0, <2>4, CallOfLocation DEF HCallExecute, CallExecute, Call, TypeOK, Service!Begin, InExecute, history
  <2>5. ASSUME NEW c \in Clients, CallStop(c), UNCHANGED history
        PROVE  Service!Begin(c, "stop")
    BY <2>0, <2>5, CallOfLocation DEF CallStop, Call, TypeOK, Service!Begin, InStop, history
  <2>6. ASSUME NEW c \in Clients, ReturnIdle(c), UNCHANGED history
        PROVE  Service!EndWait(c)
    <3>1. executed = accepted
      BY <2>0, <2>6 DEF ReturnIdle, HInv, ExactlyOnceInOrder, HTypeOK
    <3>2. Len(executed) >= before[c]
      BY <2>0, <3>1 DEF HInv, WaitsForThePast, HTypeOK
    <3>3. /\ call[c] = "wait"
          /\ call' = [call EXCEPT ![c] = "none"]
          /\ down' = down
      BY <2>0, <2>6, CallOfLocation DEF ReturnIdle, TypeOK
    <3> QED
      BY <2>6, <3>2, <3>3 DEF Service!EndWait, history
  <2>7. ASSUME NEW c \in Clients, FinishStop(c), UNCHANGED history
        PROVE  Service!EndStop(c)
    BY <2>0, <2>7, CallOfLocation DEF FinishStop, TypeOK, Service!EndStop, InStop, history
  <2>8. ASSUME NEW c \in Clients, RequestStop(c), UNCHANGED history
        PROVE  [Service!EndStop(c)]_Service!serviceVars
    <3>1. CASE started
      <4>1. /\ \A d \in Clients : CallOf(pc'[d]) = CallOf(pc[d])
            /\ \A d \in Clients : pc'[d] = "stopped" <=> pc[d] = "stopped"
        BY <2>0, <2>8, <3>1, CallOfLocation DEF RequestStop, TypeOK, InStop
      <4> QED
        BY <2>0, <2>8, <4>1, CallUnchanged
    <3>2. CASE ~started
      BY <2>0, <2>8, <3>2, CallOfLocation
         DEF RequestStop, TypeOK, Service!EndStop, InStop, history
    <3> QED
      BY <3>1, <3>2
  <2>9. ASSUME NEW c \in Clients, UNCHANGED history,
               \/ Acquire(c) \/ EnsureStarted(c) \/ Block(c)
               \/ Await(c) \/ Join(c)
        PROVE  UNCHANGED Service!serviceVars
    <3>1. /\ \A d \in Clients : CallOf(pc'[d]) = CallOf(pc[d])
          /\ \A d \in Clients : pc'[d] = "stopped" <=> pc[d] = "stopped"
      <4>1. CASE Acquire(c)
        BY <2>0, <4>1, CallOfLocation
           DEF Acquire, Entry, Locking, TypeOK, InStop, InExecute
      <4>2. CASE EnsureStarted(c) \/ Block(c) \/ Await(c) \/ Join(c)
        BY <2>0, <4>2, CallOfLocation
           DEF EnsureStarted, Block, Await, Join, TypeOK, InStop, InExecute
      <4> QED
        BY <2>9, <4>1, <4>2
    <3> QED
      BY <2>0, <2>9, <3>1, CallUnchanged
  <2>10. ASSUME WorkerAcquire \/ WorkerBookkeeping \/ SpuriousWake,
                UNCHANGED history
         PROVE  UNCHANGED Service!serviceVars
    <3>1. CASE SpuriousWake
      <4>1. ASSUME NEW c \in Clients, pc[c] \in {"blocked", "waiting"},
                   pc' = [pc EXCEPT ![c] = ClientsNotified[c]]
            PROVE  \A d \in Clients :
                     /\ CallOf(pc'[d]) = CallOf(pc[d])
                     /\ pc'[d] = "stopped" <=> pc[d] = "stopped"
        <5>1. ClientsNotified[c] =
                IF pc[c] = "blocked" THEN "relockExecute" ELSE "lockWait"
          BY <4>1 DEF ClientsNotified
        <5> QED
          BY <2>0, <4>1, <5>1, CallOfLocation DEF TypeOK, InExecute
      <4>2. \A d \in Clients :
              /\ CallOf(pc'[d]) = CallOf(pc[d])
              /\ pc'[d] = "stopped" <=> pc[d] = "stopped"
        BY <3>1, <4>1 DEF SpuriousWake
      <4> QED
        BY <2>0, <2>10, <4>2, CallUnchanged
    <3>2. CASE WorkerAcquire \/ WorkerBookkeeping
      BY <2>10, <3>2 DEF WorkerAcquire, WorkerBookkeeping, WorkerLoop,
         WorkerExit, Sleep, history, Service!serviceVars
    <3> QED
      BY <2>10, <3>1, <3>2
  <2>11. ASSUME UNCHANGED hvars
         PROVE  UNCHANGED Service!serviceVars
    BY <2>11 DEF hvars, vars, history, Service!serviceVars
  <2> QED
    BY <2>1, <2>2, <2>3, <2>4, <2>5, <2>6, <2>7, <2>8, <2>9, <2>10, <2>11
       DEF HNext, HBookkeeping, ClientBookkeeping, Service!Next
<1> QED
  BY <1>1, <1>2, HSpecIsSpec, TypeCorrect, QInvHolds, HInvHolds, PTL
     DEF HSpec, ImplementsService, Service!Spec

=============================================================================
