-------------------------------- MODULE VM1 --------------------------------
(***************************************************************************)
(* MIPS-vm v1.0: the vCPU thread (vcpu.c) with its memory controller        *)
(* (vmemory_controller.c) and the memory thread (vmemory.c), which talk     *)
(* through the buses IN and OUT (VMemoryBus).                               *)
(*                                                                          *)
(* A fetch and an LDR write a READ to IN and poll OUT until the reply is    *)
(* there; an STR writes a WRITE to IN and goes on.  The memory thread polls *)
(* IN, one packet a second.  The clock and the loggers share nothing with   *)
(* this exchange and are not here, nor is the main thread, which waits for  *)
(* a key and then ends the process.                                         *)
(*                                                                          *)
(* The process is "crashed" after the call of a null decoder (an opcode     *)
(* from 5 on).  What a write behind the buffer of a bus does C leaves       *)
(* undefined: either nothing else lies there and the program goes on, or    *)
(* the heap is "corrupt" (the other bus lies there, say) and nothing is     *)
(* claimed of what follows.                                                 *)
(***************************************************************************)
EXTENDS VMemoryBus

CONSTANTS Gpr,          \* R0 .. R3 in the program
          InsnOf,       \* the instruction a byte encodes
          Images        \* the memory contents at the start

Op == {"ADD", "MOV", "LDR", "STR", "HLT", "NULL"}

ASSUME InsnAssumption == InsnOf \in [Value -> [op : Op, dest : Gpr, src : Gpr]]
ASSUME ImagesAssumption == Images \subseteq [Value -> Value]

VARIABLES in, out,                    \* the buses
          cpu, regs, PC, IR, MAR, MDR, \* the vCPU thread and its registers
          memory, mem, packets,       \* the memory, its thread and the packet it holds
          status

cpuVars == <<cpu, regs, PC, IR, MAR, MDR>>
memVars == <<memory, mem, packets>>
vars == <<in, out, cpuVars, memVars, status>>

Init ==
    /\ in = EmptyBus /\ out = EmptyBus
    /\ cpu = "fetch"
    /\ regs = [r \in Gpr |-> 0]
    /\ PC = 0 /\ IR = 0 /\ MAR = 0 /\ MDR = 0
    /\ memory \in Images
    /\ mem = "poll"
    /\ packets = NoPacket
    /\ status = "running"

CpuAt(s) == status = "running" /\ cpu = s
MemAt(s) == status = "running" /\ mem = s

ReadRequest(a)     == [used |-> TRUE, op |-> "READ",  access |-> a, data |-> 0]
WriteRequest(a, d) == [used |-> TRUE, op |-> "WRITE", access |-> a, data |-> d]
Reply(d)           == [used |-> TRUE, op |-> "WRITE", access |-> 0, data |-> d]

Running == UNCHANGED status
End(s)  == status' = s /\ UNCHANGED <<in, out, cpuVars, memVars>>

(***************************************************************************)
(* The end of fetch_instruction: IR takes what is in MDR, PC advances.      *)
(***************************************************************************)
InstructionIsUnwrapped(d) ==     \* slip: PC is wider than the address
    IR' = d /\ PC' = PC + 1 /\ cpu' = "execute"

InstructionIs(d) ==
    /\ IR' = d /\ PC' = (PC + 1) % PAGES
    /\ cpu' = "execute"

(***************************************************************************)
(* fetch_instruction up to the first poll of OUT.  Its caller ignores the   *)
(* return code: after a refused request the old MDR becomes the instruction.*)
(***************************************************************************)
fetch_instruction ==
    /\ CpuAt("fetch") /\ ~in.locked
    /\ MAR' = PC
    /\ in' = WriteBus(in, ReadRequest(PC))
    /\ IF Refuses(in) THEN InstructionIs(MDR)
       ELSE cpu' = "fetching" /\ UNCHANGED <<IR, PC>>
    /\ Running /\ UNCHANGED <<out, regs, MDR, memVars>>

(***************************************************************************)
(* The polls of OUT in vmemory_controller_fetch_page; one that finds        *)
(* nothing changes nothing.                                                 *)
(***************************************************************************)
instruction_arrives ==
    /\ CpuAt("fetching") /\ ~out.locked
    /\ ReadPacket(out).used
    /\ out' = ReadBus(out)
    /\ MDR' = ReadPacket(out).data
    /\ InstructionIs(ReadPacket(out).data)
    /\ Running /\ UNCHANGED <<in, regs, MAR, memVars>>

data_arrives ==
    /\ CpuAt("loading") /\ ~out.locked
    /\ ReadPacket(out).used
    /\ out' = ReadBus(out)
    /\ MDR' = ReadPacket(out).data
    /\ regs' = [regs EXCEPT ![InsnOf[IR].dest] = ReadPacket(out).data]
    /\ cpu' = "fetch"
    /\ Running /\ UNCHANGED <<in, PC, IR, MAR, memVars>>

(***************************************************************************)
(* decode_instruction and execute_instruction.                              *)
(***************************************************************************)
Executes(op) == CpuAt("execute") /\ InsnOf[IR].op = op

Dest == InsnOf[IR].dest
Src  == InsnOf[IR].src

vcpu_insn_alu ==
    /\ \/ Executes("ADD") /\ regs' = [regs EXCEPT ![Dest] = (@ + regs[Src]) % PAGES]
       \/ Executes("MOV") /\ regs' = [regs EXCEPT ![Dest] = regs[Src]]
    /\ cpu' = "fetch"
    /\ Running /\ UNCHANGED <<in, out, PC, IR, MAR, MDR, memVars>>

vcpu_insn_ldr_unwaited ==        \* slip: the reply is not waited for
    /\ Executes("LDR") /\ ~in.locked
    /\ MAR' = regs[Src]
    /\ in' = WriteBus(in, ReadRequest(regs[Src]))
    /\ regs' = [regs EXCEPT ![Dest] = MDR] /\ cpu' = "fetch"
    /\ Running /\ UNCHANGED <<out, PC, IR, MDR, memVars>>

vcpu_insn_ldr ==
    /\ Executes("LDR") /\ ~in.locked
    /\ MAR' = regs[Src]
    /\ in' = WriteBus(in, ReadRequest(regs[Src]))
    /\ IF Refuses(in) THEN regs' = [regs EXCEPT ![Dest] = MDR] /\ cpu' = "fetch"
       ELSE cpu' = "loading" /\ UNCHANGED regs
    /\ Running /\ UNCHANGED <<out, PC, IR, MDR, memVars>>

vcpu_insn_str ==
    /\ Executes("STR") /\ ~in.locked
    /\ MAR' = regs[Src]
    /\ MDR' = regs[Dest]
    /\ in' = WriteBus(in, WriteRequest(regs[Src], regs[Dest]))
    /\ cpu' = "fetch"
    /\ Running /\ UNCHANGED <<out, regs, PC, IR, memVars>>

vcpu_insn_hlt ==
    /\ Executes("HLT")
    /\ cpu' = "halted"
    /\ Running /\ UNCHANGED <<in, out, regs, PC, IR, MAR, MDR, memVars>>

null_decoder == Executes("NULL") /\ End("crashed")

\* A write of the vCPU behind the end of IN that hits something.
heap_corrupted ==
    /\ ~in.locked /\ Overflows(in)
    /\ CpuAt("fetch") \/ Executes("LDR") \/ Executes("STR")
    /\ End("corrupt")

(***************************************************************************)
(* poll_vmemorybus: take a packet, if there is one.                         *)
(***************************************************************************)
poll_vmemorybus_reads_only ==    \* slip: only a READ is taken off the bus
    /\ MemAt("poll") /\ ~in.locked
    /\ ReadPacket(in).used /\ ReadPacket(in).op = "READ"
    /\ in' = ReadBus(in)
    /\ packets' = ReadPacket(in)
    /\ mem' = "process"
    /\ Running /\ UNCHANGED <<out, cpuVars, memory>>

poll_vmemorybus ==
    /\ MemAt("poll") /\ ~in.locked
    /\ ReadPacket(in).used
    /\ in' = ReadBus(in)
    /\ packets' = ReadPacket(in)
    /\ mem' = "process"
    /\ Running /\ UNCHANGED <<out, cpuVars, memory>>

(***************************************************************************)
(* process_vmemorybus_packets: answer a READ, perform a WRITE.              *)
(***************************************************************************)
process_ctl_read ==
    /\ MemAt("process") /\ packets.op = "READ" /\ ~out.locked
    /\ out' = WriteBus(out, Reply(memory[packets.access]))
    /\ mem' = "poll"
    /\ Running /\ UNCHANGED <<in, cpuVars, memory, packets>>

process_ctl_write ==
    /\ MemAt("process") /\ packets.op = "WRITE"
    /\ memory' = [memory EXCEPT ![packets.access] = packets.data]
    /\ mem' = "poll"
    /\ Running /\ UNCHANGED <<in, out, cpuVars, packets>>

Cpu == \/ fetch_instruction \/ instruction_arrives \/ data_arrives
       \/ vcpu_insn_alu \/ vcpu_insn_ldr \/ vcpu_insn_str \/ vcpu_insn_hlt
       \/ null_decoder \/ heap_corrupted

MemoryThread == poll_vmemorybus \/ process_ctl_read \/ process_ctl_write

Next == Cpu \/ MemoryThread

(***************************************************************************)
(* Both threads loop for ever.  The mutex of IN, and that of OUT for the    *)
(* vCPU, is wanted by a thread that the other leaves it to for a second     *)
(* after each use.  A reply has no such luck: while the memory thread waits *)
(* for OUT the vCPU locks it again and again without a sleep                *)
(* (vmemory_controller.c:53), and a mutex of glibc is not fair.             *)
(***************************************************************************)
Spec == /\ Init /\ [][Next]_vars
        /\ WF_vars(Cpu) /\ WF_vars(poll_vmemorybus \/ process_ctl_write)

-----------------------------------------------------------------------------
TypeOK ==
    /\ in \in Bus /\ out \in Bus
    /\ cpu \in {"fetch", "fetching", "execute", "loading", "halted"}
    /\ regs \in [Gpr -> Value]
    /\ PC \in Value /\ IR \in Value /\ MAR \in Value /\ MDR \in Value
    /\ memory \in [Value -> Value]
    /\ mem \in {"poll", "process"}
    /\ packets \in Packet
    /\ status \in {"running", "crashed", "corrupt"}

(***************************************************************************)
(* The emptiness of a bus can be told from the packet an empty read returns *)
(* (vmemory.c:101, vmemory_controller.c:53).                                *)
(***************************************************************************)
BusesKeepShape == BusShape(in) /\ BusShape(out)

(***************************************************************************)
(* A request and its reply: while the vCPU polls OUT exactly one of them is *)
(* somewhere, on top of IN, in the hands of the memory thread or in OUT,    *)
(* and it asks for the address in MAR; otherwise there is none.  Nothing in *)
(* a reply says what it answers (vmemory.c:126), so that this is all that   *)
(* keeps the vCPU from taking one value for another.                        *)
(***************************************************************************)
Polling == cpu \in {"fetching", "loading"}
RequestAt(i) == i \in Waiting(in) /\ in.slots[i].op = "READ"
There  == \E i \in Slot : RequestAt(i)
InHand == mem = "process" /\ packets.op = "READ"
Back   == out.next # 0

OneRequest ==
    /\ Polling <=> There \/ InHand \/ Back
    /\ ~(There /\ InHand) /\ ~(There /\ Back) /\ ~(InHand /\ Back)
    /\ out.next <= 1
    /\ \A i \in Slot : RequestAt(i) => i = in.next - 1 /\ in.slots[i].access = MAR
    /\ InHand => packets.access = MAR

(***************************************************************************)
(* The vCPU polls for ever (vmemory_controller.c:53) only where the memory  *)
(* thread has its request and does not get the mutex of OUT: every request  *)
(* leaves IN, however many stores lie under it, and every reply is taken.   *)
(***************************************************************************)
OnlyTheReplyMayWait ==
    Polling /\ ~InHand ~> (InHand \/ ~Polling \/ status # "running")

(***************************************************************************)
(* A halted vCPU leaves nothing behind: the memory thread, which does not   *)
(* stop with it, performs every store that waits in IN (vmemory.c:87),      *)
(* unless a refused packet has left IN locked (vmemorybus.c:59).            *)
(***************************************************************************)
HaltDrainsTheBus ==
    cpu = "halted" ~> ((in.next = 0 /\ mem = "poll") \/ in.locked)
=============================================================================
