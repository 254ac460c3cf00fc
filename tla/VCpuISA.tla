------------------------------ MODULE VCpuISA ------------------------------
(***************************************************************************)
(* What the pipeline promises: its safety and liveness properties, and the  *)
(* refinement of the instruction set MipsISA by VCpu.                       *)
(*                                                                          *)
(* An instruction counts as executed when alu_pipestage has run it: the     *)
(* mapping completes what the instructions beyond that stage still have to  *)
(* do to the registers and to the memory.  Between mem_pipestage and        *)
(* alu_pipestage EX_MEM has handed over everything it held.                 *)
(***************************************************************************)
EXTENDS VCpu, Sequences

Drained == stage = "alu"

\* The registers once MEM_WB is written back.
WrittenBack == WriteBack(gprs, MEM_WB.dest_reg, MEM_WB.result)

late == IF Drained THEN gprs ELSE WrittenBack

regs == IF Drained THEN WrittenBack
        ELSE WriteBack(WrittenBack, EX_MEM.dest_reg, ResultOf(EX_MEM, memory))

mem == IF Drained THEN memory ELSE StoreOf(EX_MEM, memory)

Queued(f) == [insn |-> f.insn, pc |-> f.pc, ok |-> TRUE]

Fetched(a) ==
    IF Cacheable(a) THEN [insn |-> 0, pc |-> a, ok |-> FALSE]
    ELSE [insn |-> vmemory_read_word(memory, Paddr(a)), pc |-> a, ok |-> TRUE]

queue == IF stage \in {"rd", "if"} THEN <<Queued(IF_ID), Fetched(pc)>>
         ELSE <<Queued(ID_EX), Queued(IF_ID)>>

\* The address mem_pipestage will leave in pc.
npc == IF ~Drained /\ Taken(EX_MEM) THEN EX_MEM.target_address
       ELSE IF stage \in {"rd", "if"} THEN Add(pc, 4) ELSE pc

trap == LoadFaults(EX_MEM)

stopped == status = "exited"

Abstract == INSTANCE MipsISA

(***************************************************************************)
(* The pipeline implements the instruction set: whatever the stages do to   *)
(* each other's buffers in whatever order, a program sees a machine that    *)
(* executes one instruction after the other, with the registers one         *)
(* instruction late and two delay slots (handle_rising, vcpu.c:172).        *)
(***************************************************************************)
ImplementsISA == Abstract!ISA

(***************************************************************************)
(* ... and it does so at a pace: as long as the process runs, the clock     *)
(* (vclock_start, vclock.c:45) brings about the next instruction.           *)
(***************************************************************************)
ImplementsFairISA == Abstract!FairISA

(***************************************************************************)
(* The types of the buffers; every field fits the C type that holds it.     *)
(***************************************************************************)
TypeOK ==
    /\ gprs \in [Reg -> Word]
    /\ pc \in Word
    /\ IF_ID \in [insn : Word, pc : Word]
    /\ ID_EX \in Decoded
    /\ EX_MEM \in Executed
    /\ MEM_WB \in [dest_reg : Byte, result : Word]
    /\ memory \in Memory
    /\ edge \in {0, 1}
    /\ stage \in Stage
    /\ status \in {"running", "exited"}

(***************************************************************************)
(* wb_pipestage indexes gprs with an unchecked byte, and JAL takes that     *)
(* byte from the value of register 31 instead of its number (vcpu.c:328,    *)
(* 409).  No run writes outside the register file all the same: the jump    *)
(* of the same JAL ends the process one stage before its write-back.        *)
(***************************************************************************)
WritesInsideGprs == At("wb") => MEM_WB.dest_reg \in Reg

(***************************************************************************)
(* Why: a link that names no register comes with a jump to a cacheable      *)
(* address, and from the stage that takes the jump to the fetch that ends   *)
(* the process pc stays there (vcpu.c:294, 409, 412).                       *)
(***************************************************************************)
LostLinkJumpsAway ==
    /\ EX_MEM.dest_reg \notin Reg =>
           Taken(EX_MEM) /\ Cacheable(EX_MEM.target_address)
    /\ MEM_WB.dest_reg \notin Reg =>
           stage \in {"alu", "rd", "if"} /\ Cacheable(pc)

(***************************************************************************)
(* Every instruction in the pipeline is one this machine fetched from       *)
(* uncached memory, or the initial bubble: no stage works on a word of      *)
(* another address (if_pipestage, rd_pipestage).                            *)
(***************************************************************************)
FetchedUncached ==
    /\ \A b \in {IF_ID, ID_EX} : b.pc \in kseg1 \/ (b.pc = 0 /\ b.insn = 0)
    /\ ID_EX = Decode(ID_EX)

(***************************************************************************)
(* An instruction that reaches IF_ID is executed, whatever is in front of   *)
(* it: nothing is flushed and nothing waits for ever (if_pipestage,         *)
(* vcpu.c:183).  Otherwise the process ends.                                *)
(***************************************************************************)
FetchedIsExecuted ==
    \A a \in kseg1 :
        IF_ID.pc = a ~> (status = "exited" \/ (At("rd") /\ ID_EX.pc = a))
=============================================================================
