----------------------------- MODULE HostPrograms -----------------------------
(***************************************************************************)
(* The example programs: each selects a device, creates OpenCL objects,    *)
(* enqueues transfers and a kernel on an in-order queue, reads the result, *)
(* checks it and releases everything.  The OpenCL runtime executes the     *)
(* queue while the program goes on.                                        *)
(*                                                                         *)
(* A program is a sequence of calls.  The content of a memory is what it   *)
(* was computed from, so that the check can tell a result from a stale one.*)
(***************************************************************************)
EXTENDS Integers, Sequences

ListOps == INSTANCE SequencesExt

CONSTANTS
  PlatformNames, DeviceNames,  \* sequences of names that a host may have
  WantedNames,  \* values of --platform and --device, "" for none
  Answers       \* what a user may answer, parsed as an unsigned number

ASSUME ProgramAssumption ==
  /\ \A p \in PlatformNames \cup DeviceNames : p \in Seq(STRING)
  /\ Answers \subseteq Nat

VARIABLES
  program,   \* its name
  at,        \* the next call
  alive,     \* objects and device memory that exist
  pending,   \* commands in the queue
  content,   \* content of the host's and the device's memory
  host,      \* names of the platforms and devices, those wanted and selected
  errors,    \* a result was wrong
  ended      \* "no", "waits" for the queue, or how the program has ended

programVars == <<program, at, alive, pending, content, host, errors, ended>>

Memories == {"src1", "src2", "dst", "h1", "h2", "out"}
Kinds == {"platform", "device"}

-----------------------------------------------------------------------------
(* Calls.  A content is a sequence: that of an array of the host is a     *)
(* letter, that of a result the kernel and the contents of its arguments.  *)

Create(objects) == [i \in 1 .. Len(objects) |-> [call |-> "create", object |-> objects[i]]]
Release(objects) == [i \in 1 .. Len(objects) |-> [call |-> "release", object |-> objects[i]]]
FillHost(m, value) == << [call |-> "fill", object |-> m, value |-> value] >>
Await == << [call |-> "finish"] >>

\* A wrong result ends the program, or is remembered until its end.
Check(result, expected, exits) ==
  << [call |-> "check", object |-> result, expected |-> expected, exits |-> exits] >>

Command(kernel, from, to, blocking) ==
  << [call |-> "enqueue", kernel |-> kernel, from |-> from, to |-> to, blocking |-> blocking] >>

\* clEnqueueReadBuffer, clEnqueueMapBuffer, clEnqueueMemcpyINTEL with CL_TRUE
MoveNow(to, from) == Command(<< >>, << from >>, to, TRUE)

Move(to, from) == Command(<< >>, << from >>, to, FALSE)
Kernel(kernel, from, to) == Command(<< kernel >>, from, to, FALSE)

Select(kind, how) == << [call |-> "select", kind |-> kind, how |-> how] >>
ByName == Select("platform", "ask") \o Select("device", "ask")
FirstPlatform == Select("platform", "first")

Inputs == FillHost("h1", << "a" >>) \o FillHost("h2", << "b" >>)
Result(kernel) == << kernel, "a", "b" >>

\* What calls do to the memories: a new one holds nothing yet, and a command of
\* the queue computes from what it finds.
Emptied(object, store) == [m \in Memories |-> IF m = object THEN << >> ELSE store[m]]

Executed(c, store) ==
  [store EXCEPT ![c.to] = c.kernel \o ListOps!FlattenSeq([i \in DOMAIN c.from |-> store[c.from[i]]])]

Used(c) == {c.to} \cup ListOps!ToSet(c.from)

-----------------------------------------------------------------------------
(* Programs                                                                *)

Elementwise(kernel) ==
  Create(<< "context", "program", "src1", "src2", "dst", "kernel", "queue" >>) \o Inputs
  \o Move("src1", "h1") \o Move("src2", "h2")
  \o Kernel(kernel, << "src1", "src2" >>, "dst") \o MoveNow("out", "dst")
  \o Check("out", Result(kernel), TRUE)
  \o Release(<< "queue", "kernel", "src1", "src2", "dst", "program", "context" >>)

\* The calls are the same, the kernels and the ranges are not.
VectorAdd == ByName \o Elementwise("vector_addition")
VectorAdd2D == ByName \o Elementwise("vector_addition_2d")
NuNop == ByName \o Elementwise("nu_nop")
ControlFlow == ByName \o Elementwise("control_flow")

\* One device after the other.
MultiDevices(devices) ==
  Select("platform", "ask") \o Select("device", "all")
  \o ListOps!FlattenSeq([d \in 1 .. devices |-> Elementwise("vector_addition")])

\* The result is compared when all objects are released.
Reduce ==
  ByName \o Create(<< "context", "program", "kernel" >>) \o FillHost("h1", << "a" >>)
  \o Create(<< "src1", "dst", "queue" >>)
  \o Move("src1", "h1") \o Kernel("reduction", << "src1" >>, "dst")
  \o MoveNow("out", "dst")
  \o Release(<< "queue", "src1", "dst", "kernel", "program", "context" >>)
  \o Check("out", << "reduction", "a" >>, TRUE)

\* The buffers begin with copies of the host's data (src2 is the number of
\* elements); the result is mapped.  Objects go at the end of their scope.
Absf ==
  FirstPlatform \o Select("device", "first")
  \o Create(<< "context", "program", "src1" >>) \o FillHost("src1", << "a" >>)
  \o Create(<< "dst", "src2" >>) \o FillHost("src2", << "b" >>) \o Create(<< "kernel", "queue" >>)
  \o Kernel("absf", << "src1", "src2" >>, "dst") \o MoveNow("out", "dst") \o Await
  \o Check("out", Result("absf"), TRUE)
  \o Release(<< "queue", "kernel", "src2", "dst", "src1", "program", "context" >>)

\* Copies to and from memory that the program allocates on the device.
UsmDevice ==
  FirstPlatform \o Select("device", "search")
  \o Create(<< "context", "queue", "src1", "src2", "dst" >>) \o Inputs
  \o MoveNow("src1", "h1") \o MoveNow("src2", "h2") \o Create(<< "program", "kernel" >>)
  \o Kernel("vector_add", << "src1", "src2" >>, "dst") \o Await
  \o MoveNow("out", "dst") \o Check("out", Result("vector_add"), FALSE)
  \o Release(<< "src1", "src2", "dst", "kernel", "program", "queue", "context" >>)

\* The kernel works on memory of the host, which the program fills and reads.
UsmHost ==
  FirstPlatform \o Select("device", "search")
  \o Create(<< "context", "queue", "src1", "src2", "dst" >>)
  \o FillHost("src1", << "a" >>) \o FillHost("src2", << "b" >>) \o FillHost("dst", << "zero" >>)
  \o Await \o Create(<< "program", "kernel" >>)
  \o Kernel("vector_add", << "src1", "src2" >>, "dst") \o Await
  \o Check("dst", Result("vector_add"), FALSE)
  \o Release(<< "src1", "src2", "dst", "kernel", "program", "queue", "context" >>)

\* No copy blocks; the program waits once, for all of them.
UsmMemcpy ==
  FirstPlatform \o Select("device", "search")
  \o Create(<< "context", "queue", "h1", "h2", "out" >>) \o Inputs \o Create(<< "src1", "src2", "dst" >>)
  \o Move("src1", "h1") \o Move("src2", "h2") \o Create(<< "program", "kernel" >>)
  \o Kernel("vector_add", << "src1", "src2" >>, "dst") \o Move("out", "dst") \o Await
  \o Check("out", Result("vector_add"), FALSE)
  \o Release(<< "src1", "src2", "dst", "h1", "h2", "out", "kernel", "program", "queue", "context" >>)

Programs ==
  [vector_add |-> VectorAdd, vector_add_2d |-> VectorAdd2D, nop |-> NuNop,
   control_flow |-> ControlFlow, reduce |-> Reduce, absf |-> Absf, usm_device |-> UsmDevice,
   usm_host |-> UsmHost, usm_memcpy |-> UsmMemcpy]

-----------------------------------------------------------------------------
(* Selecting a platform and a device.                                      *)

\* The last one of the name wanted, 0 if there is none.
Matching(names, wanted) ==
  LET Matches == {i \in DOMAIN names : names[i] # "" /\ wanted # "" /\ names[i] = wanted}
  IN  IF Matches = {} THEN 0 ELSE CHOOSE i \in Matches : \A j \in Matches : j <= i

\* Faulty Chosen: the user is also asked when there is no device of the name wanted.
ChosenAnyway(names, wanted) ==
  LET chosen == Matching(names, wanted)
      answers == IF Len(names) = 1 THEN {1}
                 ELSE IF chosen # 0 THEN {chosen} ELSE Answers
  IN  {a \in answers : a \in DOMAIN names}

\* The numbers that selectPlatform and selectDevice may come to, none if they
\* exit: a name that is not found ends the program, a single one is taken,
\* and else the user is asked.  The number is counted from one and unsigned:
\* zero becomes the largest one (2^32 - 1 in the code) and is refused.
Chosen(names, wanted) ==
  LET chosen == Matching(names, wanted)
      answers == IF Len(names) = 1 THEN {1}
                 ELSE IF chosen # 0 THEN {chosen} ELSE Answers
      index(answer) == (answer - 1) % 2^16
  IN  IF wanted # "" /\ chosen = 0 THEN {}
      ELSE {index(a) + 1 : a \in {b \in answers : index(b) < Len(names)}}

\* The first device that names the accelerator.
Searched(names) ==
  {i \in DOMAIN names : names[i] = "refsi" /\ \A j \in 1 .. i - 1 : names[j] # "refsi"}

ProgramInit ==
  /\ host \in [names : [platform : PlatformNames, device : DeviceNames],
              wanted : [Kinds -> WantedNames], selected : [Kinds -> {0}]]
  /\ program \in DOMAIN Programs \cup {"multi_devices"}
  /\ at = 1 /\ alive = {} /\ pending = << >> /\ errors = FALSE
  /\ content = [m \in Memories |-> << >>]
  /\ ended = "no"

Calls == IF program \in DOMAIN Programs THEN Programs[program]
         ELSE MultiDevices(Len(host.names.device))
Call == Calls[at]
Calling(call) == ended = "no" /\ at \in DOMAIN Calls /\ Call.call = call
NextCall == at' = at + 1

Possible ==
  LET names == host.names[Call.kind]
  IN  CASE Call.how = "ask" -> Chosen(names, host.wanted[Call.kind])
        [] Call.how = "first" -> IF names = << >> THEN {} ELSE {1}
        [] Call.how = "search" -> Searched(names)
        [] Call.how = "all" -> IF Len(names) < 2 THEN {} ELSE {1}

\* A program ends where there is nothing to select.
SelectOne ==
  /\ Calling("select")
  /\ IF Possible = {}
     THEN ended' = "stopped" /\ UNCHANGED <<at, host>>
     ELSE /\ \E s \in Possible : host' = [host EXCEPT !.selected[Call.kind] = s]
          /\ NextCall /\ UNCHANGED ended
  /\ UNCHANGED <<program, alive, pending, content, errors>>

\* Every call of the runtime may fail, and the device may lack the compiler
\* or an extension: then the program exits.
CallFails ==
  /\ Calling("create") \/ Calling("enqueue") \/ Calling("finish")
  /\ ended' = "stopped"
  /\ UNCHANGED <<program, at, alive, pending, content, host, errors>>

CreateObject ==
  /\ Calling("create")
  /\ alive' = alive \cup {Call.object}
  /\ content' = Emptied(Call.object, content)
  /\ NextCall /\ UNCHANGED <<program, pending, host, errors, ended>>

ReleaseObject ==
  /\ Calling("release")
  /\ alive' = alive \ {Call.object}
  /\ NextCall /\ UNCHANGED <<program, pending, content, host, errors, ended>>

FillMemory ==
  /\ Calling("fill")
  /\ content' = [content EXCEPT ![Call.object] = Call.value]
  /\ NextCall /\ UNCHANGED <<program, alive, pending, host, errors, ended>>

\* Faulty Enqueue: no call blocks.
EnqueueOnly ==
  /\ Calling("enqueue")
  /\ pending' = Append(pending, Call)
  /\ NextCall /\ UNCHANGED <<program, alive, content, host, errors, ended>>

Enqueue ==
  /\ Calling("enqueue")
  /\ pending' = Append(pending, Call)
  /\ ended' = IF Call.blocking THEN "waits" ELSE ended
  /\ NextCall /\ UNCHANGED <<program, alive, content, host, errors>>

WaitForQueue ==
  /\ Calling("finish")
  /\ ended' = "waits"
  /\ NextCall /\ UNCHANGED <<program, alive, pending, content, host, errors>>

\* The program goes on when the queue is empty.
Resume ==
  /\ ended = "waits" /\ pending = << >>
  /\ ended' = "no"
  /\ UNCHANGED <<program, at, alive, pending, content, host, errors>>

CheckResult ==
  /\ Calling("check")
  /\ errors' = (content[Call.object] # Call.expected)
  /\ ended' = IF errors' /\ Call.exits THEN "stopped" ELSE ended
  /\ NextCall /\ UNCHANGED <<program, alive, pending, content, host>>

Exit ==
  /\ ended = "no" /\ at > Len(Calls)
  /\ ended' = IF errors THEN "stopped" ELSE "success"
  /\ UNCHANGED <<program, at, alive, pending, content, host, errors>>

\* The runtime executes the commands of the queue in their order.
ExecuteCommand ==
  /\ pending # << >> /\ ended \in {"no", "waits"}
  /\ content' = Executed(Head(pending), content)
  /\ pending' = Tail(pending)
  /\ UNCHANGED <<program, at, alive, host, errors, ended>>

ProgramNext ==
  \/ SelectOne \/ CallFails \/ CreateObject \/ ReleaseObject \/ FillMemory \/ Enqueue
  \/ WaitForQueue \/ Resume \/ CheckResult \/ Exit \/ ExecuteCommand

ProgramSpec == ProgramInit /\ [][ProgramNext]_programVars

-----------------------------------------------------------------------------
(* Properties                                                              *)

CreatedBy(calls) == {calls[i].object : i \in {j \in DOMAIN calls : calls[j].call = "create"}}
Created == CreatedBy(Calls)

\* However late the runtime executes the queue, the result of an example has
\* arrived when it is checked, and no memory that a pending command uses is
\* released; a program that succeeds has released all it created and ran on
\* a platform and a device of the names it was asked for.
ExamplesVerify ==
  /\ ~errors
  /\ ended \in {"no", "waits"} =>
       \A i \in DOMAIN pending :
         Created \cap Used(pending[i]) \subseteq alive
  /\ ended = "success" =>
       /\ alive = {}
       /\ \A i \in DOMAIN Calls :
            Calls[i].call = "select" =>
              LET k == Calls[i].kind
              IN  /\ host.selected[k] \in DOMAIN host.names[k]
                  /\ Calls[i].how = "ask" /\ host.wanted[k] # "" =>
                       host.names[k][host.selected[k]] = host.wanted[k]

-----------------------------------------------------------------------------
(* The discipline of the examples                                          *)

\* What a program counts on after so many calls: what is alive, the memories
\* once the queue has been executed, and whether it has waited for the queue.
Start == [alive |-> {}, store |-> [m \in Memories |-> << >>], waited |-> TRUE]

After(plan, c) ==
  [alive  |-> CASE c.call = "create"  -> plan.alive \cup {c.object}
                [] c.call = "release" -> plan.alive \ {c.object}
                [] OTHER              -> plan.alive,
   store  |-> CASE c.call = "create"  -> Emptied(c.object, plan.store)
                [] c.call = "fill"    -> [plan.store EXCEPT ![c.object] = c.value]
                [] c.call = "enqueue" -> Executed(c, plan.store)
                [] OTHER              -> plan.store,
   waited |-> CASE c.call = "finish"  -> TRUE
                [] c.call = "enqueue" -> c.blocking
                [] OTHER              -> plan.waited]

Plans(calls) ==
  LET plans[i \in 0 .. Len(calls)] == IF i = 0 THEN Start ELSE After(plans[i - 1], calls[i])
  IN  plans

\* A program touches memory only when it has waited for the queue, checks
\* what is then there, gives commands memory that is alive, and releases all.
Careful(c, plan, created) ==
  /\ c.call \in {"fill", "release", "check"} => plan.waited
  /\ c.call = "create" /\ c.object \in Memories => plan.waited
  /\ c.call = "check" => plan.store[c.object] = c.expected
  /\ c.call = "enqueue" => created \cap Used(c) \subseteq plan.alive /\ c.blocking \in BOOLEAN
  /\ c.call = "select" => c.kind \in Kinds /\ c.how \in {"ask", "first", "search", "all"}

Disciplined(calls) ==
  LET plans == Plans(calls)
  IN  /\ Len(calls) \in Nat /\ DOMAIN calls = 1 .. Len(calls)
      /\ \A i \in DOMAIN calls : Careful(calls[i], plans[i - 1], CreatedBy(calls))
      /\ plans[Len(calls)].alive = {}
      /\ \A i, j \in DOMAIN calls :
           calls[i].call = "select" /\ calls[j].call = "select" /\ calls[i].kind = calls[j].kind
             => i = j

ProgramsAreDisciplined ==
  /\ \A p \in DOMAIN Programs : Disciplined(Programs[p])
  /\ \A names \in DeviceNames : Disciplined(MultiDevices(Len(names)))

\* Numbers of platforms and devices fit an index.
NamesAreFew == \A names \in PlatformNames \cup DeviceNames : Len(names) <= 2^16

=============================================================================
