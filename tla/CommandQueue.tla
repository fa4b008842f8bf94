---------------------------- MODULE CommandQueue ----------------------------
(***************************************************************************)
(* The request queue of the RefSi command processor (CMP) and the threads  *)
(* that share it.  Driver clients call executeCommandBuffer and            *)
(* waitForDeviceIdle; the thread that destroys the device calls stop; one  *)
(* worker thread executes the requests.  All of them synchronise on the    *)
(* device mutex and on two condition variables, dispatched (the worker     *)
(* sleeps on it) and executed (clients sleep on it).                       *)
(*                                                                         *)
(* A critical section is cut into one step per wait, test or loop          *)
(* iteration.  Executing a request is one step here: what a command buffer *)
(* does to the device is the subject of other modules, and the worker      *)
(* holds the mutex from before the first request to after the last.        *)
(***************************************************************************)
EXTENDS Naturals, Sequences

CONSTANTS
  Clients,      \* threads that call the driver
  Stoppers,     \* the clients that may call stop (once each)
  Buffers,      \* command buffers (address and size) that requests name
  MaxRequests,  \* RefSiCommandProcessor::max_requests, 4 in the code
  Restart,      \* may a client use the queue again after stop returned?
  Worker,       \* the worker thread, as owner of the mutex
  Nobody        \* the mutex is free

ASSUME QueueAssumption ==
  /\ MaxRequests \in Nat
  /\ Stoppers \subseteq Clients
  /\ Restart \in BOOLEAN
  /\ Worker \notin Clients
  /\ Nobody \notin Clients \cup {Worker}

VARIABLES
  lock,       \* owner of the device mutex
  requests,   \* the queue
  started,    \* start() has run
  stopping,   \* stop() asks the worker to leave
  worker,     \* where the worker thread is
  pc          \* where each client is

vars == <<lock, requests, started, stopping, worker, pc>>

(***************************************************************************)
(* Client locations.  "lock*" and "relock*": waiting for the mutex, before *)
(* the call's critical section or on the way out of a condition variable.  *)
(* "blocked" and "waiting": asleep on executed, in enqueueRequest and in   *)
(* waitEmptyQueue.  "joining": in worker_thread->join(), without the       *)
(* mutex.  "stopped": stop has returned.                                   *)
(***************************************************************************)
Entry(location) ==
  CASE location = "lockExecute"   -> "starting"
    [] location = "relockExecute" -> "testing"
    [] location = "lockWait"      -> "checking"
    [] location = "lockStop"      -> "stopping"
    [] location = "relockStop"    -> "joined"

Holding == {"starting", "testing", "checking", "stopping", "joined"}
InStop == {"lockStop", "stopping", "joining", "relockStop", "joined"}
Locking == {"lockExecute", "relockExecute", "lockWait", "lockStop", "relockStop"}
ClientLocations ==
  Locking \cup Holding
    \cup {"idle", "blocked", "waiting", "joining", "stopped"}

WorkerHolding == {"looping", "draining"}
WorkerLocations == WorkerHolding \cup {"none", "locking", "asleep", "exited"}

TypeOK ==
  /\ lock \in Clients \cup {Worker, Nobody}
  /\ requests \in Seq(Buffers)
  /\ started \in BOOLEAN
  /\ stopping \in BOOLEAN
  /\ worker \in WorkerLocations
  /\ pc \in [Clients -> ClientLocations]

Init ==
  /\ lock = Nobody
  /\ requests = <<>>
  /\ started = FALSE
  /\ stopping = FALSE
  /\ worker = "none"
  /\ pc = [c \in Clients |-> "idle"]

Full == Len(requests) > MaxRequests

-----------------------------------------------------------------------------
(* Condition variables and the mutex.                                      *)

\* dispatched.notify_all(): the worker, if asleep, goes for the mutex.
WorkerNotified == IF worker = "asleep" THEN "locking" ELSE worker

\* Faulty ClientsNotified: a client goes on without the mutex.
ClientsNotifiedUnlocked ==
  [c \in Clients |->
     CASE pc[c] = "blocked" -> "testing"
       [] pc[c] = "waiting" -> "checking"
       [] OTHER             -> pc[c]]

\* executed.notify_all(): every sleeping client goes for the mutex.
ClientsNotified ==
  [c \in Clients |->
     CASE pc[c] = "blocked" -> "relockExecute"
       [] pc[c] = "waiting" -> "lockWait"
       [] OTHER             -> pc[c]]

Acquire(c) ==
  /\ pc[c] \in Locking
  /\ lock = Nobody
  /\ lock' = c
  /\ pc' = [pc EXCEPT ![c] = Entry(pc[c])]
  /\ UNCHANGED <<requests, started, stopping, worker>>

WorkerAcquire ==
  /\ worker = "locking"
  /\ lock = Nobody
  /\ lock' = Worker
  /\ worker' = "looping"
  /\ UNCHANGED <<requests, started, stopping, pc>>

\* A condition variable may wake a sleeper that nobody notified.
SpuriousWake ==
  /\ \/ /\ worker = "asleep"
        /\ worker' = "locking"
        /\ pc' = pc
     \/ /\ \E c \in Clients :
             /\ pc[c] \in {"blocked", "waiting"}
             /\ pc' = [pc EXCEPT ![c] = ClientsNotified[c]]
        /\ worker' = worker
  /\ UNCHANGED <<lock, requests, started, stopping>>

-----------------------------------------------------------------------------
(* Calls.  A destroyed device is not called again, unless Restart asks     *)
(* what the class itself promises; stop is called when no other call is in *)
(* progress, as a destructor must be.                                      *)

Usable == /\ \A d \in Clients : pc[d] \notin InStop
          /\ Restart \/ \A d \in Clients : pc[d] # "stopped"

Call(c, location) ==
  /\ pc[c] = "idle"
  /\ Usable
  /\ pc' = [pc EXCEPT ![c] = location]
  /\ UNCHANGED <<lock, requests, started, stopping, worker>>

CallExecute(c) == Call(c, "lockExecute")
CallWait(c) == Call(c, "lockWait")
CallStop(c) ==
  /\ c \in Stoppers
  /\ \A d \in Clients : pc[d] = "idle"
  /\ Call(c, "lockStop")

-----------------------------------------------------------------------------
(* enqueueRequest                                                          *)

\* "if (!started) start(lock)": start spawns the worker thread.
EnsureStarted(c) ==
  /\ pc[c] = "starting"
  /\ started' = TRUE
  /\ IF started THEN UNCHANGED <<stopping, worker>>
                ELSE stopping' = FALSE /\ worker' = "locking"
  /\ pc' = [pc EXCEPT ![c] = "testing"]
  /\ UNCHANGED <<lock, requests>>

\* Faulty: the request is queued whatever the length of the queue.
EnqueueUnbounded(c, b) ==
  /\ pc[c] = "testing"
  /\ requests' = Append(requests, b)
  /\ worker' = WorkerNotified
  /\ lock' = Nobody
  /\ pc' = [pc EXCEPT ![c] = "idle"]
  /\ UNCHANGED <<started, stopping>>

\* Faulty: the worker is not told about the request.
EnqueueSilently(c, b) ==
  /\ pc[c] = "testing"
  /\ ~Full
  /\ requests' = Append(requests, b)
  /\ lock' = Nobody
  /\ pc' = [pc EXCEPT ![c] = "idle"]
  /\ UNCHANGED <<worker, started, stopping>>

\* Room in the queue: add the request, notify the worker, return.
Enqueue(c, b) ==
  /\ pc[c] = "testing"
  /\ ~Full
  /\ requests' = Append(requests, b)
  /\ worker' = WorkerNotified
  /\ lock' = Nobody
  /\ pc' = [pc EXCEPT ![c] = "idle"]
  /\ UNCHANGED <<started, stopping>>

\* No room: executed.wait(lock).
Block(c) ==
  /\ pc[c] = "testing"
  /\ Full
  /\ lock' = Nobody
  /\ pc' = [pc EXCEPT ![c] = "blocked"]
  /\ UNCHANGED <<requests, started, stopping, worker>>

-----------------------------------------------------------------------------
(* waitEmptyQueue                                                          *)

Await(c) ==
  /\ pc[c] = "checking"
  /\ requests # <<>>
  /\ lock' = Nobody
  /\ pc' = [pc EXCEPT ![c] = "waiting"]
  /\ UNCHANGED <<requests, started, stopping, worker>>

\* Faulty ReturnIdle: without looking at the queue.
ReturnAtOnce(c) ==
  /\ pc[c] = "checking"
  /\ lock' = Nobody
  /\ pc' = [pc EXCEPT ![c] = "idle"]
  /\ UNCHANGED <<requests, started, stopping, worker>>

ReturnIdle(c) ==
  /\ pc[c] = "checking"
  /\ requests = <<>>
  /\ lock' = Nobody
  /\ pc' = [pc EXCEPT ![c] = "idle"]
  /\ UNCHANGED <<requests, started, stopping, worker>>

-----------------------------------------------------------------------------
(* stop                                                                    *)

\* Faulty: the mutex stays locked during the join.
RequestStopLocked(c) ==
  /\ pc[c] = "stopping"
  /\ IF started
     THEN /\ stopping' = TRUE
          /\ worker' = WorkerNotified
          /\ pc' = [pc EXCEPT ![c] = "joining"]
     ELSE /\ pc' = [pc EXCEPT ![c] = "stopped"]
          /\ UNCHANGED <<stopping, worker>>
  /\ UNCHANGED <<lock, requests, started>>

\* stopping = true, notify the worker and unlock; or, when nothing was ever
\* started, return.
RequestStop(c) ==
  /\ pc[c] = "stopping"
  /\ IF started
     THEN /\ stopping' = TRUE
          /\ worker' = WorkerNotified
          /\ pc' = [pc EXCEPT ![c] = "joining"]
     ELSE /\ pc' = [pc EXCEPT ![c] = "stopped"]
          /\ UNCHANGED <<stopping, worker>>
  /\ lock' = Nobody
  /\ UNCHANGED <<requests, started>>

\* Faulty: does not wait for the worker.
JoinAtOnce(c) ==
  /\ pc[c] = "joining"
  /\ pc' = [pc EXCEPT ![c] = "relockStop"]
  /\ UNCHANGED <<lock, requests, started, stopping, worker>>

Join(c) ==
  /\ pc[c] = "joining"
  /\ worker = "exited"
  /\ pc' = [pc EXCEPT ![c] = "relockStop"]
  /\ UNCHANGED <<lock, requests, started, stopping, worker>>

\* stopping = false and return.  started keeps its value.
FinishStop(c) ==
  /\ pc[c] = "joined"
  /\ stopping' = FALSE
  /\ lock' = Nobody
  /\ pc' = [pc EXCEPT ![c] = "stopped"]
  /\ UNCHANGED <<requests, started, worker>>

-----------------------------------------------------------------------------
(* workerMain                                                              *)

WorkerLoop ==
  /\ worker = "looping"
  /\ ~stopping
  /\ worker' = "draining"
  /\ UNCHANGED <<lock, requests, started, stopping, pc>>

WorkerExit ==
  /\ worker = "looping"
  /\ stopping
  /\ worker' = "exited"
  /\ lock' = Nobody
  /\ UNCHANGED <<requests, started, stopping, pc>>

\* Faulty: clients are not told that a request has been executed.
ExecuteSilently(b) ==
  /\ worker = "draining"
  /\ requests # <<>>
  /\ b = Head(requests)
  /\ requests' = Tail(requests)
  /\ UNCHANGED <<lock, started, stopping, worker, pc>>

\* Faulty: the newest request first.
ExecuteNewest(b) ==
  /\ worker = "draining"
  /\ requests # <<>>
  /\ b = requests[Len(requests)]
  /\ requests' = SubSeq(requests, 1, Len(requests) - 1)
  /\ pc' = ClientsNotified
  /\ UNCHANGED <<lock, started, stopping, worker>>

\* Execute the oldest request, erase it, notify the clients.
Execute(b) ==
  /\ worker = "draining"
  /\ requests # <<>>
  /\ b = Head(requests)
  /\ requests' = Tail(requests)
  /\ pc' = ClientsNotified
  /\ UNCHANGED <<lock, started, stopping, worker>>

\* Faulty: one request per wake-up.
SleepEarly ==
  /\ worker = "draining"
  /\ worker' = "asleep"
  /\ lock' = Nobody
  /\ UNCHANGED <<requests, started, stopping, pc>>

\* Nothing left: dispatched.wait(lock).
Sleep ==
  /\ worker = "draining"
  /\ requests = <<>>
  /\ worker' = "asleep"
  /\ lock' = Nobody
  /\ UNCHANGED <<requests, started, stopping, pc>>

-----------------------------------------------------------------------------
\* The steps that leave the queue's content alone.
WorkerBookkeeping == WorkerLoop \/ WorkerExit \/ Sleep

ClientBookkeeping(c) ==
  \/ EnsureStarted(c)
  \/ Block(c)
  \/ Await(c)
  \/ ReturnIdle(c)
  \/ RequestStop(c)
  \/ Join(c)
  \/ FinishStop(c)

WorkerStep == WorkerBookkeeping \/ \E b \in Buffers : Execute(b)

\* What a client does inside a call, the mutex in hand (or joining).
ClientStep(c) == (\E b \in Buffers : Enqueue(c, b)) \/ ClientBookkeeping(c)

ClientCall(c) == CallExecute(c) \/ CallWait(c) \/ CallStop(c)

Next ==
  \/ WorkerAcquire
  \/ WorkerStep
  \/ SpuriousWake
  \/ \E c \in Clients : Acquire(c) \/ ClientStep(c) \/ ClientCall(c)

Spec == Init /\ [][Next]_vars

(***************************************************************************)
(* Fairness.  Threads that can run do, and a mutex that is released again  *)
(* and again is eventually granted to each thread waiting for it.  Nothing *)
(* forces a client to call, nor a condition variable to wake spuriously.   *)
(***************************************************************************)
Fairness ==
  /\ SF_vars(WorkerAcquire)
  /\ WF_vars(WorkerStep)
  /\ \A c \in Clients : SF_vars(Acquire(c)) /\ WF_vars(ClientStep(c))

FairSpec == Spec /\ Fairness

-----------------------------------------------------------------------------
(* Safety                                                                  *)

\* The mutex is held by whoever is inside a critical section, and by nobody
\* else: every path through the queue's functions that gives the processor
\* away (a wait, a join, a return) has given the mutex back.
LockOwnership ==
  /\ \A c \in Clients : pc[c] \in Holding <=> lock = c
  /\ worker \in WorkerHolding <=> lock = Worker

\* enqueueRequest keeps the queue within one of max_requests: the test is
\* "size() > max_requests", made again after every wake-up.
QueueBound == Len(requests) <= MaxRequests + 1

\* The worker never sleeps through work or through a request to stop, although
\* dispatched.wait is not guarded by a predicate.
NoLostWakeup ==
  worker = "asleep" => requests = <<>> /\ ~stopping

\* A client asleep on executed is never stranded: there is a request still to
\* be executed, and the worker is awake and will execute it.
SleepersAreServed ==
  (\E c \in Clients : pc[c] \in {"blocked", "waiting"})
    => requests # <<>> /\ worker \in WorkerHolding \cup {"locking"}

\* After start (called by enqueueRequest) a worker processes requests, "until
\* start is called again" (refsi_command_processor.h:67-68).
StartMeansRunning ==
  (\E c \in Clients : pc[c] = "testing") => worker \notin {"none", "exited"}

\* Once stop has returned nothing is executed any more: the worker does not
\* move and no request leaves the queue.
StopIsFinal ==
  [][(\E c \in Clients : pc[c] = "stopped") /\ worker # "none"
       => worker' = worker /\ Len(requests') >= Len(requests)]_vars

-----------------------------------------------------------------------------
(* Liveness                                                                *)

\* Requests in the queue are executed, unless the device is being destroyed.
QueueDrains ==
  requests # <<>> ~>
    requests = <<>> \/ \E c \in Clients : pc[c] \in InStop \cup {"stopped"}

\* waitForDeviceIdle and a blocked executeCommandBuffer return once the other
\* clients leave the queue alone.
QuiescentCallsReturn ==
  \A c \in Clients :
    (<>[](\A d \in Clients \ {c} : pc[d] = "idle"))
      => (pc[c] \in {"waiting", "blocked"} ~> pc[c] = "idle")

\* waitForDeviceIdle returns, whatever the other clients do.
WaitReturns ==
  \A c \in Clients : pc[c] = "waiting" ~> pc[c] = "idle"

\* stop returns, even with requests in the queue and the worker busy.
StopReturns ==
  \A c \in Clients : pc[c] = "lockStop" ~> pc[c] = "stopped"

=============================================================================
