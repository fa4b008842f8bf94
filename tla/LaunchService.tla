---------------------------- MODULE LaunchService -----------------------------
(***************************************************************************)
(* What a launch promises the clients of the HAL, without device memory,   *)
(* command buffers, caches or slices: launches are served one at a time;   *)
(* the work-groups of the one that is served run in any order, some at a   *)
(* time, each at most once, until all have or a command fails, and nothing *)
(* of it runs after that; kernel_exec returns false when nothing has run   *)
(* at all, and true when all have run.  It also returns true when a        *)
(* command has failed, of this launch or of an earlier one, or when the    *)
(* kernel is not orderly: then any of them may not have run.               *)
(***************************************************************************)
EXTENDS Integers, Sequences, FiniteSets

CONSTANTS Threads, Ranges, Counting, MaxCalls, Nobody

VARIABLES
  caller,   \* the thread whose launch is served, or Nobody
  jobs,     \* every launch, in the order they were served: [range, outcome, measured]
  done,     \* the work-groups that have run, each with the number of its launch
  broken    \* launches that a command has failed of

launchVars == <<caller, jobs, done, broken>>

Init ==
  /\ caller = Nobody
  /\ jobs = <<>>
  /\ done = {}
  /\ broken = {}

Current == Len(jobs)
Groups(r) == (0 .. r.groups[1] - 1) \X (0 .. r.groups[2] - 1) \X (0 .. r.groups[3] - 1)
Wanted == Groups(jobs[Current].range)
Done == {g \in Wanted : <<Current, g>> \in done}

Begin(t, r) ==
  /\ caller = Nobody
  /\ Current < MaxCalls
  /\ caller' = t
  /\ jobs' = Append(jobs, [range |-> r, outcome |-> "none", measured |-> 0])
  /\ UNCHANGED <<done, broken>>

\* Some work-groups run that have not, and perhaps a command fails.
Work ==
  /\ caller # Nobody
  /\ Current \notin broken
  /\ done \subseteq done' /\ done' \ done \subseteq {Current} \X Wanted
  /\ broken' \in {broken, broken \cup {Current}}
  /\ UNCHANGED <<caller, jobs>>

Return(outcome, measured) ==
  /\ caller' = Nobody
  /\ jobs' = [jobs EXCEPT ![Current].outcome = outcome, ![Current].measured = measured]
  /\ UNCHANGED <<done, broken>>

\* The counters say how many have run.
Complete ==
  /\ caller # Nobody /\ Current \notin broken
  /\ Done = Wanted
  /\ Return("true", IF Counting THEN Cardinality(Wanted) ELSE 0)

\* What is missing is not reported, and the counters say nothing: once a launch
\* has broken the traps it has left may make any later one skip work-groups.
Break ==
  /\ caller # Nobody
  /\ broken # {} \/ ~jobs[Current].range.orderly
  /\ Return("true", 0)

Refuse ==
  /\ caller # Nobody /\ Current \notin broken
  /\ Done = {}
  /\ Return("false", 0)

Next ==
  \/ \E t \in Threads, r \in Ranges : Begin(t, r)
  \/ Work \/ Complete \/ Break \/ Refuse

Spec == Init /\ [][Next]_launchVars

=============================================================================
