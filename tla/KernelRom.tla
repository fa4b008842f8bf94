------------------------------ MODULE KernelRom -------------------------------
(***************************************************************************)
(* The launches of KernelLaunch with the ROM of RomCode: the function that *)
(* the harts enter for an instance, word by word.                          *)
(***************************************************************************)
EXTENDS KernelLaunch, RomCode

\* Ranges whose coordinates survive the stores of the ROM, and whose number of
\* groups in the second dimension survives its load.
GroupsFit ==
  \A r \in Ranges : r.groups[1] <= Word /\ r.groups[2] < Half /\ r.groups[3] <= Word

\* The words of the ROM do what the launch counts on: the harts that enter it
\* for an instance of the slice that runs call the kernel with its arguments,
\* its execution state and the work-group GroupOf gives, and a kernel that
\* returns to the ROM exits without an error, whatever its registers hold
\* (encodeLaunchKernel, encodeKernelExit, riscv_encoder).
RomComputesGroups ==
  queue # <<>> /\ Executing("RUN") =>
    /\ \A i \in 0 .. Command.instances - 1 :
         CallFor(entry, exec.groups, i, Command.slice)
           = [kernel |-> TRUE, args |-> TRUE, wg |-> TRUE,
              group |-> GroupOf(entry, exec.groups, i, Command.slice)]
    /\ \A value \in {0, 1, 93} : ExitFor(value) = << InHost, 0, 0 >>

=============================================================================
