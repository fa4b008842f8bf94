---------------------------- MODULE CommandBuffer -----------------------------
(***************************************************************************)
(* A command buffer between the HAL that encodes it (refsi_command_buffer) *)
(* and the command processor that decodes and executes it: a sequence of   *)
(* 64-bit chunks, a header and its data for each command.                  *)
(*                                                                         *)
(* A chunk is the sequence of its four 16-bit parts, lowest first, and a   *)
(* 32-bit number the first two.  What commands do is CommandProcessor's.   *)
(***************************************************************************)
EXTENDS Integers, Sequences

CONSTANTS
  Numbers,     \* 32-bit arguments
  Words,       \* 64-bit arguments
  Widths,      \* values of max_harts, 8 bits wide
  ArgCounts,   \* lengths of the extra arguments of RUN_INSTANCES, at most 7
  MaxCommands  \* bound: commands in a buffer

Limb == 0 .. 2^16 - 1

ASSUME BufferAssumption ==
  /\ Numbers \subseteq Limb \X Limb
  /\ Words \subseteq Limb \X Limb \X Limb \X Limb
  /\ Widths \subseteq 0 .. 255 /\ ArgCounts \subseteq 0 .. 7
  /\ MaxCommands \in Nat

VARIABLES
  chunks,   \* the buffer
  asked,    \* history: the commands that the HAL has added
  pos,      \* position of the CMP in the buffer, 0 before it is submitted
  seen,     \* history: the commands that the CMP has executed
  outcome   \* what execute returned

bufferVars == <<chunks, asked, pos, seen, outcome>>

BufferInit ==
  chunks = <<>> /\ asked = <<>> /\ pos = 0 /\ seen = <<>> /\ outcome = "none"

-----------------------------------------------------------------------------
(* Headers                                                                 *)

Opcodes == [FINISH |-> 1, WRITE_REG64 |-> 2, LOAD_REG64 |-> 3, STORE_REG64 |-> 4,
            STORE_IMM64 |-> 5, COPY_MEM64 |-> 6, RUN_KERNEL_SLICE |-> 7,
            RUN_INSTANCES |-> 8, SYNC_CACHE |-> 9]

\* Faulty Encode: the number of chunks is not doubled.
EncodeSingle(op, count, inline) ==
  << Opcodes[op] * 2^8, 3 * 2^14 + count, inline[1], inline[2] >>

\* refsiEncodeCMPCommand: the number of 32-bit chunks from bit 16 on.
Encode(op, count, inline) ==
  << Opcodes[op] * 2^8, 3 * 2^14 + 2 * count, inline[1], inline[2] >>

\* refsiDecodeCMPCommand
IsHeader(chunk) == chunk[1] % 2^8 = 0 /\ chunk[2] \div 2^14 = 3
Opcode(chunk) == chunk[1] \div 2^8
Count(chunk) == (chunk[2] % 2^14) \div 2
Inline(chunk) == << chunk[3], chunk[4] >>

Low(word) == << word[1], word[2] >>

-----------------------------------------------------------------------------
(* Building: one action per add function                                   *)

Add(op, inline, data, args) ==
  /\ pos = 0 /\ Len(asked) < MaxCommands
  /\ chunks' = chunks \o << Encode(op, Len(data), inline) >> \o data
  /\ asked' = Append(asked, [op |-> op, args |-> args])
  /\ UNCHANGED <<pos, seen, outcome>>

AddFINISH == Add("FINISH", <<0, 0>>, <<>>, <<>>)
AddSYNC_CACHE(flags) == Add("SYNC_CACHE", flags, <<>>, << flags >>)

AddWRITE_REG64(reg, value) ==
  Add("WRITE_REG64", reg, << value >>, << reg, value >>)
AddLOAD_REG64(reg, addr) == Add("LOAD_REG64", reg, << addr >>, << reg, addr >>)
AddSTORE_REG64(reg, addr) == Add("STORE_REG64", reg, << addr >>, << reg, addr >>)

\* The header has 32 bits for the address, which is enough for I/O registers.
AddSTORE_IMM64(addr, value) ==
  Add("STORE_IMM64", Low(addr), << value >>, << addr, value >>)

AddCOPY_MEM64(src, dst, count, unit) ==
  LET unitId == unit \o <<0, 0>>
  IN  Add("COPY_MEM64", count, << src, dst, unitId >>, << count, src, dst, unit >>)

AddRUN_KERNEL_SLICE(harts, instances, slice) ==
  Add("RUN_KERNEL_SLICE", << harts, 0 >>, << instances, slice >>, << harts, instances, slice >>)

AddRUN_INSTANCES(harts, instances, extra) ==
  Add("RUN_INSTANCES", << harts + Len(extra) * 2^8, 0 >>, << instances >> \o extra,
      << harts, instances, extra >>)

-----------------------------------------------------------------------------
(* Executing                                                               *)

\* run submits the buffer; execute starts at its first chunk.
Submit ==
  /\ pos = 0
  /\ pos' = 1
  /\ UNCHANGED <<chunks, asked, seen, outcome>>

Stop(result) == outcome' = result /\ UNCHANGED <<chunks, asked, pos, seen>>

Header == chunks[pos]
Data(i) == chunks[pos + i]
Extra == Inline(Header)[1] \div 2^8 % 8

\* The arguments each execute function takes from the header and its data.
Arguments(op) ==
  CASE op = "FINISH"      -> <<>>
    [] op = "SYNC_CACHE"  -> << << Inline(Header)[1] % 4, 0 >> >>
    [] op \in {"WRITE_REG64", "LOAD_REG64", "STORE_REG64"} -> << Inline(Header), Data(1) >>
    [] op = "STORE_IMM64" -> << Inline(Header) \o <<0, 0>>, Data(1) >>
    [] op = "COPY_MEM64"  -> << Inline(Header), Data(1), Data(2), Low(Data(3)) >>
    [] op = "RUN_KERNEL_SLICE" -> << Inline(Header)[1] % 2^8, Data(1), Data(2) >>
    [] op = "RUN_INSTANCES" ->
         << Inline(Header)[1] % 2^8, Data(1), [i \in 1 .. Extra |-> Data(1 + i)] >>

\* How many chunks of data each execute function insists on.
Expected(op) ==
  CASE op \in {"FINISH", "SYNC_CACHE"} -> 0
    [] op \in {"WRITE_REG64", "LOAD_REG64", "STORE_REG64", "STORE_IMM64"} -> 1
    [] op = "RUN_KERNEL_SLICE" -> 2
    [] op = "COPY_MEM64" -> 3
    [] op = "RUN_INSTANCES" -> 1 + Extra

Executing == pos > 0 /\ outcome = "none"

\* executeCommand; FINISH may have any number of chunks.
ExecuteNext ==
  /\ Executing /\ pos <= Len(chunks)
  /\ IF IsHeader(Header) /\ \E op \in DOMAIN Opcodes : Opcodes[op] = Opcode(Header)
     THEN LET op == CHOOSE o \in DOMAIN Opcodes : Opcodes[o] = Opcode(Header)
          IN  IF op = "FINISH" \/ Count(Header) = Expected(op)
              THEN /\ seen' = Append(seen, [op |-> op, args |-> Arguments(op)])
                   /\ pos' = pos + 1 + Count(Header)
                   /\ outcome' = IF op = "FINISH" THEN "success" ELSE outcome
                   /\ UNCHANGED <<chunks, asked>>
              ELSE Stop("failure")
     ELSE Stop("failure")

EndOfBuffer ==
  /\ Executing /\ pos > Len(chunks)
  /\ Stop("success")

BufferNext ==
  \/ AddFINISH \/ Submit \/ ExecuteNext \/ EndOfBuffer
  \/ \E n \in 0 .. 3 : AddSYNC_CACHE(<<n, 0>>)
  \/ \E n \in Numbers, w \in Words :
       AddWRITE_REG64(n, w) \/ AddLOAD_REG64(n, w) \/ AddSTORE_REG64(n, w)
       \/ AddSTORE_IMM64(n \o <<0, 0>>, w)
  \/ \E n, unit \in Numbers, src, dst \in Words : AddCOPY_MEM64(src, dst, n, unit)
  \/ \E n \in Widths, i, s \in Words : AddRUN_KERNEL_SLICE(n, i, s)
  \/ \E n \in Widths, i \in Words, k \in ArgCounts : \E extra \in [1 .. k -> Words] :
       AddRUN_INSTANCES(n, i, extra)

BufferSpec == BufferInit /\ [][BufferNext]_bufferVars

-----------------------------------------------------------------------------
(* Properties                                                              *)

\* The two sides agree on the format: the CMP executes the commands that the
\* HAL has added, all of them up to the first FINISH, in their order and with
\* their arguments; it never takes data for a header and never fails to decode
\* (refsi_command_buffer, refsiEncodeCMPCommand, refsiDecodeCMPCommand,
\* RefSiCommandProcessor::execute).
BufferDecodes ==
  /\ outcome # "failure"
  /\ Len(seen) <= Len(asked) /\ \A i \in 1 .. Len(seen) : seen[i] = asked[i]
  /\ outcome = "success" =>
       Len(seen) = Len(asked) \/ (seen # <<>> /\ seen[Len(seen)].op = "FINISH")

=============================================================================
