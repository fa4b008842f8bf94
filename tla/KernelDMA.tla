------------------------------ MODULE KernelDMA -------------------------------
(***************************************************************************)
(* The DMA device of RefSi.  Every unit (hart or command processor) has a  *)
(* register file of its own; a unit describes a transfer of one, two or    *)
(* three dimensions in it, one register at a time, and starts it by        *)
(* writing DMACTRL.  The device then copies the data at once and numbers   *)
(* the transfer.  A kernel reads the number back as an event and later     *)
(* waits for it by writing it to DMADONESEQ.                               *)
(*                                                                         *)
(* A byte of memory is one address.  A register value of DMACTRL is the    *)
(* dimension and the set of sides that are strided.  A store that the      *)
(* device refuses is an access fault, which ends the hart's kernel.        *)
(***************************************************************************)
EXTENDS Integers, Sequences, FiniteSets, FiniteSetsExt

CONSTANTS
  Harts,     \* units that run kernels
  Cmp,       \* the command processor, which never runs together with harts
  Memory,    \* addresses that addr_to_mem resolves
  Jobs,      \* Jobs[u]: the transfers that unit u asks for
  IdLimit,   \* number of transfer identifiers, 2^32 in the code
  MaxStart,  \* bound: a unit with this identifier asks for no other transfer
  NoJob      \* the unit is not programming a transfer

Units == Harts \cup {Cmp}

Job == [dim : 1 .. 3, src : Nat, dst : Nat, size : [1 .. 3 -> Nat],
        srcStride : [1 .. 2 -> Nat], dstStride : [1 .. 2 -> Nat]]

ASSUME DMAAssumption ==
  /\ Cmp \notin Harts
  /\ Memory \subseteq Nat
  /\ \A u \in Units : Jobs[u] \subseteq Job
  /\ IdLimit \in Nat \ {0} /\ MaxStart \in Nat
  /\ NoJob \notin Job

VARIABLES
  start,    \* DMASTARTSEQ of each unit
  finished, \* DMADONESEQ of each unit
  regs,     \* the other registers of each unit
  mem,      \* contents of the memory
  job,      \* the transfer each unit programs
  step,     \* the number of its next register write, 0 when there is none
  events    \* the events each unit has not yet waited for

vars == <<start, finished, regs, mem, job, step, events>>

Sizes == <<"SIZE0", "SIZE1", "SIZE2">>
SrcStrides == <<"SRCSTRIDE0", "SRCSTRIDE1">>
DstStrides == <<"DSTSTRIDE0", "DSTSTRIDE1">>
Registers == {"CTRL", "SRCADDR", "DSTADDR"}
  \cup {Sizes[i] : i \in 1 .. 3}
  \cup {SrcStrides[i] : i \in 1 .. 2} \cup {DstStrides[i] : i \in 1 .. 2}

Init ==
  /\ start = [u \in Units |-> 0]
  /\ finished = [u \in Units |-> 0]
  /\ regs = [u \in Units |->
               [r \in Registers |-> IF r = "CTRL" THEN <<0, {}>> ELSE 0]]
  /\ mem = [a \in Memory |-> a]
  /\ job = [u \in Units |-> NoJob]
  /\ step = [u \in Units |-> 0]
  /\ events = [u \in Units |-> {}]

TypeOK ==
  /\ start \in [Units -> 0 .. IdLimit - 1]
  /\ finished \in [Units -> 0 .. IdLimit - 1]
  /\ DOMAIN regs = Units /\ \A u \in Units : DOMAIN regs[u] = Registers
  /\ mem \in [Memory -> Memory]
  /\ job \in [Units -> Job \cup {NoJob}]
  /\ step \in [Units -> Nat]
  /\ events \in [Units -> SUBSET (0 .. IdLimit - 1)]

-----------------------------------------------------------------------------
(* The register writes that ask for a transfer: the compiler's DMA         *)
(* built-ins for a hart, kernel_exec's command buffer for the CMP.         *)

Strides(names, values, n) == [i \in 1 .. n |-> <<names[i], values[i]>>]

Writes(u, j) ==
  LET addresses == IF u = Cmp
                   THEN << <<"SRCADDR", j.src>>, <<"DSTADDR", j.dst>> >>
                   ELSE << <<"DSTADDR", j.dst>>, <<"SRCADDR", j.src>> >>
  IN  addresses
        \o Strides(Sizes, j.size, j.dim)
        \o Strides(SrcStrides, j.srcStride, j.dim - 1)
        \o Strides(DstStrides, j.dstStride, j.dim - 1)
        \o << <<"CTRL", <<j.dim, IF j.dim = 1 THEN {} ELSE {"src", "dst"}>> >> >>

\* The command processor waits for the kernels it has launched.
Program(u, j) ==
  /\ job[u] = NoJob /\ start[u] < MaxStart
  /\ IF u = Cmp THEN \A h \in Harts : job[h] = NoJob /\ events[h] = {}
                ELSE job[Cmp] = NoJob /\ events[Cmp] = {}
  /\ job' = [job EXCEPT ![u] = j]
  /\ step' = [step EXCEPT ![u] = 1]
  /\ UNCHANGED <<start, finished, regs, mem, events>>

\* Faulty RegFile, for the checks of the properties: one file for all units.
SharedRegFile(u) == Cmp

\* get_dma_regs: the register file of a unit.
RegFile(u) == u

Written(u) ==
  LET write == Writes(u, job[u])[step[u]]
  IN  [regs EXCEPT ![RegFile(u)][write[1]] = write[2]]

WriteRegister(u) ==
  /\ step[u] > 0 /\ step[u] < Len(Writes(u, job[u]))
  /\ regs' = Written(u)
  /\ step' = [step EXCEPT ![u] = @ + 1]
  /\ UNCHANGED <<start, finished, mem, job, events>>

-----------------------------------------------------------------------------
(* do_kernel_dma, with the register file r                                 *)

Dim(r) == r["CTRL"][1]
Strided(r, side) == side \in r["CTRL"][2]
Size(r, i) == r[Sizes[i]]

\* Without strides a dimension follows the other at the distance of its size.
SrcStride(r, i) == IF Strided(r, "src") THEN r[SrcStrides[i]] ELSE Size(r, i)
DstStride(r, i) == IF Strided(r, "dst") THEN r[DstStrides[i]] ELSE Size(r, i)

Reachable(r) == {r["SRCADDR"], r["DSTADDR"]} \subseteq Memory

Empty(r) == \E i \in 1 .. Dim(r) : Size(r, i) = 0

\* A stride no smaller than the size; a two-dimensional transfer may read the
\* same row again and again.
StridesFit(r) ==
  CASE Dim(r) = 1 -> r["CTRL"][2] = {}
    [] Dim(r) = 2 -> /\ SrcStride(r, 1) >= Size(r, 1) \/ SrcStride(r, 1) = 0
                     /\ DstStride(r, 1) >= Size(r, 1)
    [] Dim(r) = 3 -> \A i \in 1 .. 2 : /\ SrcStride(r, i) >= Size(r, i)
                                       /\ DstStride(r, i) >= Size(r, i)

\* memcpy of n bytes
CopyRow(m, dst, src, n) ==
  [a \in Memory |-> IF a \in dst .. dst + n - 1 THEN m[src + (a - dst)] ELSE m[a]]

\* The loop over the rows; at is the memory and the two pointers.
NextRow(r, at) ==
  [mem |-> CopyRow(at.mem, at.dst, at.src, Size(r, 1)),
   dst |-> at.dst + DstStride(r, 1), src |-> at.src + SrcStride(r, 1)]

CopyRows(r, at) ==
  LET rows[y \in Nat] == IF y = 0 THEN at ELSE NextRow(r, rows[y - 1])
  IN  rows[Size(r, 2)]

NextPlane(r, at) ==
  [at EXCEPT !.dst = @ + DstStride(r, 2) - Size(r, 2) * DstStride(r, 1),
             !.src = @ + SrcStride(r, 2) - Size(r, 2) * SrcStride(r, 1)]

\* The loop over the planes.
CopyPlanes(r, at) ==
  LET planes[z \in Nat] ==
        IF z = 0 THEN at ELSE NextPlane(r, CopyRows(r, planes[z - 1]))
  IN  planes[Size(r, 3)]

Copied(r, m) ==
  LET at == [mem |-> m, dst |-> r["DSTADDR"], src |-> r["SRCADDR"]]
  IN  CASE Dim(r) = 1 -> CopyRow(m, at.dst, at.src, Size(r, 1))
        [] Dim(r) = 2 -> CopyRows(r, at).mem
        [] Dim(r) = 3 -> CopyPlanes(r, at).mem

\* Faulty NextId: identifiers are not counted.
SameId(id) == id
NextId(id) == (id + 1) % IdLimit

\* Faulty Transfer: DMADONESEQ is one behind.
TransferUnfinished(u, r) ==
  LET f == RegFile(u)
  IN  /\ start' = [start EXCEPT ![f] = NextId(@)]
      /\ finished' = [finished EXCEPT ![f] = start[f]]
      /\ mem' = Copied(r, mem)

\* The transfer is numbered, made, and done.
Transfer(u, r) ==
  LET f == RegFile(u)
  IN  /\ start' = [start EXCEPT ![f] = NextId(@)]
      /\ finished' = [finished EXCEPT ![f] = NextId(start[f])]
      /\ mem' = Copied(r, mem)

\* A kernel whose access faults is aborted, and so is a command buffer.
Abort(u) ==
  /\ job' = [job EXCEPT ![u] = NoJob]
  /\ events' = [events EXCEPT ![u] = {}]

\* The write to DMACTRL.  The unit has still to read the event.
StartTransfer(u) ==
  /\ step[u] > 0 /\ step[u] = Len(Writes(u, job[u]))
  /\ regs' = Written(u)
  /\ step' = [step EXCEPT ![u] = 0]
  /\ LET r == regs'[RegFile(u)]
     IN  \/ /\ \/ ~Reachable(r)
               \/ ~Empty(r) /\ ~StridesFit(r)
            /\ Abort(u)
            /\ UNCHANGED <<start, finished, mem>>
         \/ /\ Reachable(r)
            /\ \/ Empty(r) /\ UNCHANGED <<start, finished, mem>>
               \/ ~Empty(r) /\ StridesFit(r) /\ Transfer(u, r)
            /\ UNCHANGED <<job, events>>

-----------------------------------------------------------------------------
(* Events                                                                  *)

\* fetchAndReturnLastTransferID, and LOAD_REG64 in kernel_exec's command
\* buffer: the event is the value of DMASTARTSEQ.
FetchEvent(u) ==
  /\ job[u] # NoJob /\ step[u] = 0
  /\ job' = [job EXCEPT ![u] = NoJob]
  /\ events' = [events EXCEPT ![u] = @ \cup {start[RegFile(u)]}]
  /\ UNCHANGED <<start, finished, regs, mem, step>>

\* defineRefSiDmaWait, and STORE_REG64 in the command buffer: the largest
\* event is written to DMADONESEQ, and the device refuses it when it is
\* larger than the register.
Wait(u, list) ==
  /\ job[u] = NoJob
  /\ list # {} /\ list \subseteq events[u]
  /\ IF Max(list) <= finished[RegFile(u)]
     THEN events' = [events EXCEPT ![u] = @ \ list] /\ UNCHANGED job
     ELSE Abort(u)
  /\ UNCHANGED <<start, finished, regs, mem, step>>

\* The kernel or the command buffer ends, its events with it; the registers
\* stay.
EndKernel(u) ==
  /\ job[u] = NoJob
  /\ events' = [events EXCEPT ![u] = {}]
  /\ UNCHANGED <<start, finished, regs, mem, job, step>>

UnitStep(u) ==
  \/ \E j \in Jobs[u] : Program(u, j)
  \/ WriteRegister(u)
  \/ StartTransfer(u)
  \/ FetchEvent(u)
  \/ \E list \in SUBSET events[u] : Wait(u, list)
  \/ EndKernel(u)

Next == \E u \in Units : UnitStep(u)

Spec == Init /\ [][Next]_vars

-----------------------------------------------------------------------------
(* Properties                                                              *)

\* What a job asks for: byte x of row y of plane z.
Extent(j, i) == 0 .. (IF i <= j.dim THEN j.size[i] ELSE 1) - 1
Cells(j) == Extent(j, 1) \X Extent(j, 2) \X Extent(j, 3)
From(j, c) == j.src + c[1] + c[2] * j.srcStride[1] + c[3] * j.srcStride[2]
To(j, c) == j.dst + c[1] + c[2] * j.dstStride[1] + c[3] * j.dstStride[2]

Asked(j, m) ==
  [a \in Memory |->
     IF \E c \in Cells(j) : To(j, c) = a
     THEN m[From(j, CHOOSE c \in Cells(j) : To(j, c) = a)]
     ELSE m[a]]

\* The bytes of a job do not disturb each other: all are read from the memory,
\* none is read where another is written, and none is written twice.
KeepsApart(j) ==
  \A c \in Cells(j) :
    /\ From(j, c) \in Memory
    /\ \A d \in Cells(j) : To(j, d) # From(j, c) /\ (To(j, d) = To(j, c) => d = c)

\* The transfers whose addresses the device resolves are of this kind.
JobsKeepApart ==
  \A u \in Units : \A j \in Jobs[u] : {j.src, j.dst} \subseteq Memory => KeepsApart(j)

\* A transfer moves what its unit asked for, each byte to its place and no
\* other byte, although other harts write their registers in between and the
\* registers keep the values of earlier transfers; a transfer that is refused
\* or empty moves nothing and uses up no identifier (do_kernel_dma).
TransfersAreExact ==
  [][\A u \in Units :
       step[u] > 0 /\ step'[u] = 0 =>
         IF finished'[u] = finished[u]
         THEN mem' = mem /\ start' = start
         ELSE mem' = Asked(job[u], mem)]_vars

\* "the transfer ID returned by reading the DMASTARTSEQ register after
\* starting the DMA transfer is guaranteed to be valid for that hart"
\* (refsi_mux_builtin_info.cpp:215-217): the events of a unit are those of
\* finished transfers, so that no wait for them is refused.
EventsAreFinished ==
  \A u \in Units : \A e \in events[u] : e <= finished[u]

\* Different transfers of a unit have different events: the event of a
\* transfer that copied something is none of those the unit holds.
EventsAreFresh ==
  \A u \in Units : job[u] # NoJob /\ step[u] = 0 /\ ~Empty(regs[u])
    => start[u] \notin events[u]

=============================================================================
