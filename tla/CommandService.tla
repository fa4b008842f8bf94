--------------------------- MODULE CommandService ---------------------------
(***************************************************************************)
(* What the command processor promises its clients, without mutex, worker  *)
(* or condition variables: executeCommandBuffer accepts a request while    *)
(* there is room, requests are executed once each and in the order they    *)
(* were accepted, waitForDeviceIdle returns only when every request        *)
(* accepted before the call has been executed, and nothing is executed     *)
(* after the device has been stopped.                                      *)
(***************************************************************************)
EXTENDS Naturals, Sequences

CONSTANTS Clients, Buffers, Capacity

VARIABLES
  accepted,   \* every request accepted so far, in order
  executed,   \* every request executed so far, in order
  call,       \* the call each client is in
  before,     \* Len(accepted) when the client's last wait call began
  down        \* the device has been stopped

serviceVars == <<accepted, executed, call, before, down>>

Init ==
  /\ accepted = <<>>
  /\ executed = <<>>
  /\ call = [c \in Clients |-> "none"]
  /\ before = [c \in Clients |-> 0]
  /\ down = FALSE

Begin(c, op) ==
  /\ call[c] = "none"
  /\ call' = [call EXCEPT ![c] = op]
  /\ before' = IF op = "wait" THEN [before EXCEPT ![c] = Len(accepted)]
                              ELSE before
  /\ UNCHANGED <<accepted, executed, down>>

Accept(c, b) ==
  /\ call[c] = "execute"
  /\ Len(accepted) < Len(executed) + Capacity
  /\ accepted' = Append(accepted, b)
  /\ call' = [call EXCEPT ![c] = "none"]
  /\ UNCHANGED <<executed, before, down>>

Finish ==
  /\ ~down
  /\ Len(executed) < Len(accepted)
  /\ executed' = Append(executed, accepted[Len(executed) + 1])
  /\ UNCHANGED <<accepted, call, before, down>>

EndWait(c) ==
  /\ call[c] = "wait"
  /\ Len(executed) >= before[c]
  /\ call' = [call EXCEPT ![c] = "none"]
  /\ UNCHANGED <<accepted, executed, before, down>>

EndStop(c) ==
  /\ call[c] = "stop"
  /\ call' = [call EXCEPT ![c] = "gone"]
  /\ down' = TRUE
  /\ UNCHANGED <<accepted, executed, before>>

Next ==
  \/ Finish
  \/ \E c \in Clients :
       \/ \E op \in {"execute", "wait", "stop"} : Begin(c, op)
       \/ \E b \in Buffers : Accept(c, b)
       \/ EndWait(c)
       \/ EndStop(c)

Spec == Init /\ [][Next]_serviceVars

=============================================================================
