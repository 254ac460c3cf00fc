------------------------------ MODULE MipsISA ------------------------------
(***************************************************************************)
(* The instruction set the v2.0 vCPU really offers to a program: what is    *)
(* left of the pipeline when its stages and buffers are forgotten.  One     *)
(* step executes one instruction from beginning to end.  Two things betray  *)
(* the pipeline, because it neither stalls, forwards nor flushes:           *)
(*                                                                          *)
(*   - an instruction reads the registers as they were before the           *)
(*     instruction just ahead of it (late), which has not written back yet; *)
(*   - two instructions are already under way behind the one that           *)
(*     executes (queue), so that a taken branch has two delay slots and a   *)
(*     store misses the two words behind it.                                *)
(*                                                                          *)
(* The refinement of VCpu to this module is stated in VCpuISA.              *)
(***************************************************************************)
EXTENDS Insns, Sequences

CONSTANT RESET_VECTOR

VARIABLES regs,      \* the registers, every executed instruction included
          late,      \* the registers without the last executed instruction
          mem,       \* the RAM
          queue,     \* the instruction to execute and the one behind it
          npc,       \* the address after the queue
          trap,      \* the last instruction loads from a cacheable address
          stopped    \* the process has ended

isaVars == <<regs, late, mem, queue, npc, trap, stopped>>

(***************************************************************************)
(* The word at address a, as the instruction at the end of the queue; a     *)
(* cacheable address has none (ok is FALSE).                                *)
(***************************************************************************)
Fetch(m, a) ==
    IF Cacheable(a) THEN [insn |-> 0, pc |-> a, ok |-> FALSE]
    ELSE [insn |-> vmemory_read_word(m, Paddr(a)), pc |-> a, ok |-> TRUE]

Empty == [insn |-> 0, pc |-> 0, ok |-> TRUE]

IsaInit ==
    /\ regs = [r \in Reg |-> 0]
    /\ late = regs
    /\ mem \in Memory
    /\ queue = <<Empty, Empty>>
    /\ npc = RESET_VECTOR
    /\ trap = FALSE
    /\ stopped = FALSE

\* What ends the process before the head of the queue is executed.
Faults == \/ trap
          \/ ~queue[2].ok
          \/ Decode(queue[1]).op \in Unimplemented \cup {"UNKNOWN"}

Stop == /\ ~stopped /\ Faults
        /\ stopped' = TRUE
        /\ UNCHANGED <<regs, late, mem, queue, npc, trap>>

Step ==
    /\ ~stopped /\ ~Faults
    /\ LET e == Execute(Decode(queue[1]), late)
       IN  /\ late' = regs
           /\ regs' = WriteBack(regs, e.dest_reg, ResultOf(e, mem))
           /\ mem' = StoreOf(e, mem)
           /\ queue' = <<queue[2], Fetch(mem, npc)>>
           /\ npc' = IF Taken(e) THEN e.target_address ELSE Add(npc, 4)
           /\ trap' = LoadFaults(e)
    /\ UNCHANGED stopped

IsaNext == Step \/ Stop

ISA == IsaInit /\ [][IsaNext]_isaVars

\* The program never stands still before it stops.
FairISA == ISA /\ WF_isaVars(IsaNext)
=============================================================================
