------------------------- MODULE CommandQueueHistory -------------------------
(***************************************************************************)
(* CommandQueue with history variables: what was accepted, what was        *)
(* executed, and how much had been accepted when a client began to wait.   *)
(* With them the queue is shown to implement CommandService.               *)
(***************************************************************************)
EXTENDS CommandQueue, FiniteSets

CONSTANT MaxAccepted   \* bound: requests accepted in a behaviour

VARIABLES accepted, executed, before

history == <<accepted, executed, before>>
hvars == <<vars, history>>

HInit ==
  /\ Init
  /\ accepted = <<>>
  /\ executed = <<>>
  /\ before = [c \in Clients |-> 0]

InExecute == {"lockExecute", "starting", "testing", "blocked", "relockExecute"}

HCallExecute(c) ==
  /\ Len(accepted) + Cardinality({d \in Clients : pc[d] \in InExecute})
       < MaxAccepted
  /\ CallExecute(c)
  /\ UNCHANGED history

HCallWait(c) ==
  /\ CallWait(c)
  /\ before' = [before EXCEPT ![c] = Len(accepted)]
  /\ UNCHANGED <<accepted, executed>>

HEnqueue(c, b) ==
  /\ Enqueue(c, b)
  /\ accepted' = Append(accepted, b)
  /\ UNCHANGED <<executed, before>>

HExecute(b) ==
  /\ Execute(b)
  /\ executed' = Append(executed, b)
  /\ UNCHANGED <<accepted, before>>

HBookkeeping ==
  /\ \/ WorkerAcquire
     \/ WorkerBookkeeping
     \/ SpuriousWake
     \/ \E c \in Clients : Acquire(c) \/ ClientBookkeeping(c) \/ CallStop(c)
  /\ UNCHANGED history

HNext ==
  \/ HBookkeeping
  \/ \E b \in Buffers : HExecute(b)
  \/ \E c \in Clients :
       \/ HCallExecute(c)
       \/ HCallWait(c)
       \/ \E b \in Buffers : HEnqueue(c, b)

HSpec == HInit /\ [][HNext]_hvars

-----------------------------------------------------------------------------
\* Every accepted request is executed exactly once and in the order of
\* acceptance; what has been accepted and not executed is the queue.
ExactlyOnceInOrder == accepted = executed \o requests

\* The refinement mapping: the call a client is in, from its location.
CallOf(location) ==
  CASE location \in InExecute                         -> "execute"
    [] location \in {"lockWait", "checking", "waiting"} -> "wait"
    [] location \in InStop                            -> "stop"
    [] location = "stopped"                           -> "gone"
    [] OTHER                                          -> "none"

Service == INSTANCE CommandService
  WITH Capacity <- MaxRequests + 1,
       call <- [c \in Clients |-> CallOf(pc[c])],
       down <- \E c \in Clients : pc[c] = "stopped"

\* The queue, its mutex and its condition variables implement the service.
ImplementsService == Service!Spec
=============================================================================
