-------------------------------- MODULE VCpu --------------------------------
(***************************************************************************)
(* The five-stage pipeline of MIPS-vm v2.0 (devices/vcpu/vcpu.c) driven by  *)
(* the clock (devices/vclock/vclock.c) over uncached memory.                *)
(*                                                                          *)
(* Every rising edge runs the five stages once, LAST STAGE FIRST, so that   *)
(* each stage finds in its input buffer what its predecessor left there in  *)
(* the previous cycle.  Each stage is one action; stage is the stage that   *)
(* runs next, "idle" between two edges.                                     *)
(*                                                                          *)
(* The process ends (status "exited") where the code exits or dereferences  *)
(* a null pointer: a word of unknown format, an instruction of insn_table   *)
(* without executer, a load or a fetch at a cacheable address.              *)
(***************************************************************************)
EXTENDS Insns

CONSTANTS RESET_VECTOR,   \* 0xBFC00000 in the program
          Images          \* the RAM contents loader_flash_rom may leave

ASSUME ResetAssumption == RESET_VECTOR \in kseg1
ASSUME ImagesAssumption == Images \subseteq Memory

VARIABLES gprs, pc, IF_ID, ID_EX, EX_MEM, MEM_WB, memory, edge, stage, status

vars == <<gprs, pc, IF_ID, ID_EX, EX_MEM, MEM_WB, memory, edge, stage, status>>
buffers == <<IF_ID, ID_EX, EX_MEM, MEM_WB>>

Stage == {"idle", "wb", "mem", "alu", "rd", "if"}

(***************************************************************************)
(* The vCPU is a zero-initialised static variable: the empty pipeline holds *)
(* the word 0, a NOP.  vcpu_reset sets pc.                                  *)
(***************************************************************************)
Bubble == [insn |-> 0, pc |-> 0]

Init ==
    /\ gprs = [r \in Reg |-> 0]
    /\ pc = RESET_VECTOR
    /\ IF_ID = Bubble
    /\ ID_EX = Decode(Bubble)
    /\ EX_MEM = NoResult
    /\ MEM_WB = [dest_reg |-> 0, result |-> 0]
    /\ memory \in Images
    /\ edge = 0
    /\ stage = "idle"
    /\ status = "running"

At(s) == status = "running" /\ stage = s

Exit(s) == At(s) /\ status' = "exited"
                 /\ UNCHANGED <<gprs, pc, buffers, memory, edge, stage>>

(***************************************************************************)
(* flip_edge: the edge is toggled and edge_changed is notified; vcpu_update *)
(* ignores the falling edge.  The notification is a synchronous call, so    *)
(* the next edge comes only after the last stage.                           *)
(***************************************************************************)
FlipEdgeStuck ==      \* slip: the edge is not toggled
    At("idle") /\ UNCHANGED vars

FlipEdge ==
    /\ At("idle")
    /\ edge' = 1 - edge
    /\ stage' = IF edge = 0 THEN "wb" ELSE "idle"
    /\ UNCHANGED <<gprs, pc, buffers, memory, status>>

wb_pipestage ==
    /\ At("wb")
    /\ gprs' = WriteBack(gprs, MEM_WB.dest_reg, MEM_WB.result)
    /\ stage' = "mem"
    /\ UNCHANGED <<pc, buffers, memory, edge, status>>

mem_pipestage_drops_load ==      \* slip: the loaded word never replaces result
    /\ At("mem")
    /\ ~LoadFaults(EX_MEM)
    /\ MEM_WB' = [dest_reg |-> EX_MEM.dest_reg, result |-> EX_MEM.result]
    /\ pc' = IF Taken(EX_MEM) THEN EX_MEM.target_address ELSE pc
    /\ memory' = StoreOf(EX_MEM, memory)
    /\ stage' = "alu"
    /\ UNCHANGED <<gprs, IF_ID, ID_EX, EX_MEM, edge, status>>

mem_pipestage_flushes ==         \* slip: a taken branch empties IF_ID
    /\ At("mem")
    /\ ~LoadFaults(EX_MEM)
    /\ MEM_WB' = [dest_reg |-> EX_MEM.dest_reg, result |-> ResultOf(EX_MEM, memory)]
    /\ pc' = IF Taken(EX_MEM) THEN EX_MEM.target_address ELSE pc
    /\ IF_ID' = IF Taken(EX_MEM) THEN Bubble ELSE IF_ID
    /\ memory' = StoreOf(EX_MEM, memory)
    /\ stage' = "alu"
    /\ UNCHANGED <<gprs, ID_EX, EX_MEM, edge, status>>

mem_pipestage ==
    /\ At("mem")
    /\ ~LoadFaults(EX_MEM)
    /\ MEM_WB' = [dest_reg |-> EX_MEM.dest_reg, result |-> ResultOf(EX_MEM, memory)]
    /\ pc' = IF Taken(EX_MEM) THEN EX_MEM.target_address ELSE pc
    /\ memory' = StoreOf(EX_MEM, memory)
    /\ stage' = "alu"
    /\ UNCHANGED <<gprs, IF_ID, ID_EX, EX_MEM, edge, status>>

mem_faults == LoadFaults(EX_MEM) /\ Exit("mem")

(***************************************************************************)
(* alu_pipestage reads the operands itself, from the register file.         *)
(***************************************************************************)
alu_pipestage ==
    /\ At("alu")
    /\ ID_EX.op \notin Unimplemented
    /\ EX_MEM' = Execute(ID_EX, gprs)
    /\ stage' = "rd"
    /\ UNCHANGED <<gprs, pc, IF_ID, ID_EX, MEM_WB, memory, edge, status>>

alu_faults == ID_EX.op \in Unimplemented /\ Exit("alu")

rd_pipestage ==
    /\ At("rd")
    /\ Decode(IF_ID).op # "UNKNOWN"
    /\ ID_EX' = Decode(IF_ID)
    /\ stage' = "if"
    /\ UNCHANGED <<gprs, pc, IF_ID, EX_MEM, MEM_WB, memory, edge, status>>

rd_faults == Decode(IF_ID).op = "UNKNOWN" /\ Exit("rd")

if_pipestage_unchecked ==        \* slip: the cacheable flag is ignored
    /\ At("if")
    /\ IF_ID' = [insn |-> vmemory_read_word(memory, Paddr(pc)), pc |-> pc]
    /\ pc' = Add(pc, 4)
    /\ stage' = "idle"
    /\ UNCHANGED <<gprs, ID_EX, EX_MEM, MEM_WB, memory, edge, status>>

if_pipestage ==
    /\ At("if")
    /\ ~Cacheable(pc)
    /\ IF_ID' = [insn |-> vmemory_read_word(memory, Paddr(pc)), pc |-> pc]
    /\ pc' = Add(pc, 4)
    /\ stage' = "idle"
    /\ UNCHANGED <<gprs, ID_EX, EX_MEM, MEM_WB, memory, edge, status>>

if_faults == Cacheable(pc) /\ Exit("if")

\* The process is gone.
Exited == status = "exited" /\ UNCHANGED vars

Next == \/ FlipEdge
        \/ wb_pipestage
        \/ mem_pipestage \/ mem_faults
        \/ alu_pipestage \/ alu_faults
        \/ rd_pipestage \/ rd_faults
        \/ if_pipestage \/ if_faults
        \/ Exited

(***************************************************************************)
(* One thread runs vclock_start's endless loop and every call in it         *)
(* returns: the machine never stands still while the process runs.          *)
(***************************************************************************)
Spec == Init /\ [][Next]_vars /\ WF_vars(Next)
=============================================================================
