------------------------------- MODULE Insns -------------------------------
(***************************************************************************)
(* The instructions of the v2.0 vCPU: decoding (format_table and the fields *)
(* of rd_pipestage) and the executers of alu_pipestage with what their      *)
(* EX_MEM record means to the later stages.  The operators have no state:   *)
(* the pipeline (VCpu) and the instruction set it implements (MipsISA) are  *)
(* both built from them.                                                    *)
(*                                                                          *)
(* What a word encodes is the constant function InsnOf, so that a checked   *)
(* instance may encode a handful of instructions in a small word.           *)
(***************************************************************************)
EXTENDS AddressMap

CONSTANTS GPR_COUNT,      \* 32 in the program
          REGISTER_RA,    \* 31 in the program
          InsnOf,         \* the instruction a word encodes
          BitOr(_, _)     \* the bitwise | of two words

Reg == 0 .. GPR_COUNT - 1

\* The rows of insn_table that vcpu_init gives an executer.
Implemented == {"NOP", "ADD", "ADDU", "OR", "ORI", "ADDIU", "LUI", "BEQ", "J",
                "JAL", "JR", "JALR", "LW", "SW"}

\* The rows of insn_table whose executer stays NULL.
Unimplemented == {"SUB", "SUBU", "MUL", "MULU", "DIV", "DIVU", "SLT", "SLTU",
                  "AND", "NOR", "XOR", "ADDI"}

(***************************************************************************)
(* An opcode with a format but no row of insn_table for it is "UNLISTED";   *)
(* one without a format is "UNKNOWN".                                       *)
(***************************************************************************)
Op == Implemented \cup Unimplemented \cup {"UNLISTED", "UNKNOWN"}

Insn == [op : Op, rs : Reg, rt : Reg, rd : Reg, immed : Half]

ASSUME GprAssumption ==
    /\ GPR_COUNT \in Nat /\ GPR_COUNT <= BYTE
    /\ REGISTER_RA \in Reg /\ 0 \in Reg
ASSUME InsnAssumption ==
    /\ InsnOf \in [Word -> Insn]
    /\ InsnOf[0] = [op |-> "NOP", rs |-> 0, rt |-> 0, rd |-> 0, immed |-> 0]
ASSUME BitOrAssumption == \A a, b \in Word : BitOr(a, b) \in Word

\* format_table.
Format(op) ==
    CASE op = "UNKNOWN" -> "UNDEFINED"
      [] op \in {"J", "JAL"} -> "J"
      [] op \in {"ORI", "ADDIU", "ADDI", "LUI", "BEQ", "LW", "SW", "UNLISTED"} -> "I"
      [] OTHER -> "R"

(***************************************************************************)
(* The fields rd_pipestage extracts; those the format lacks stay zero.  Of  *)
(* a J-format address only whether it is zero is ever used.                 *)
(***************************************************************************)
Decode(f) ==
    LET d == InsnOf[f.insn]
        k == Format(d.op)
    IN  [insn  |-> f.insn, pc |-> f.pc, op |-> d.op,
         rs    |-> IF k = "J" THEN 0 ELSE d.rs,
         rt    |-> IF k = "J" THEN 0 ELSE d.rt,
         rd    |-> IF k = "R" THEN d.rd ELSE 0,
         immed |-> IF k = "R" THEN 0 ELSE d.immed]

Decoded == [insn : Word, pc : Word, op : Op, rs : Reg, rt : Reg, rd : Reg, immed : Half]

(***************************************************************************)
(* The executers.  Each one starts from the EX_MEM record alu_pipestage has *)
(* just cleared, and takes its operands from the register file r.           *)
(***************************************************************************)
InsnType == {"UNDEFINED", "BRANCH", "ALU", "LOAD", "STORE"}

NoResult == [dest_reg |-> 0, result |-> 0, store_value |-> 0, target_address |-> 0,
             condition_flag |-> FALSE, insn_type |-> "UNDEFINED"]

AluResult(reg, w) ==
    [NoResult EXCEPT !.insn_type = "ALU", !.dest_reg = reg, !.result = w]

Branch(target, taken, reg, w) ==
    [NoResult EXCEPT !.insn_type = "BRANCH", !.target_address = target,
                     !.condition_flag = taken, !.dest_reg = reg, !.result = w]

(***************************************************************************)
(* The target of J and JAL: the code joins the top bits of the pc and the   *)
(* address with the logical ||, which leaves 0 or 1.                        *)
(***************************************************************************)
JumpTargetJoined(d) ==      \* what the comments at vcpu.c:398 and 411 announce
    (d.pc \div (WORD \div 16)) * (WORD \div 16) + 4 * d.immed

JumpTarget(d) == IF d.pc >= WORD \div 16 \/ d.immed # 0 THEN 1 ELSE 0

Execute(d, r) ==
    LET a == r[d.rs]
        b == r[d.rt]
        next == Add(d.pc, 4)
    IN  CASE d.op = "NOP" -> AluResult(0, 0)
          [] d.op \in {"ADD", "ADDU"} -> AluResult(d.rd, Add(a, b))
          [] d.op = "OR"    -> AluResult(d.rd, BitOr(a, b))
          [] d.op = "ORI"   -> AluResult(d.rt, BitOr(a, d.immed))
          [] d.op = "ADDIU" -> AluResult(d.rt, Add(a, SignExtend(d.immed)))
          [] d.op = "LUI"   -> AluResult(d.rt, d.immed * HALF)
          [] d.op = "BEQ"   -> Branch(0, a = b, 0, Add(next, 4 * d.immed))
          [] d.op = "J"     -> Branch(JumpTarget(d), TRUE, 0, 0)
          [] d.op = "JAL"   -> Branch(JumpTarget(d), TRUE, r[REGISTER_RA] % BYTE, next)
          [] d.op = "JR"    -> Branch(a, TRUE, 0, 0)
          [] d.op = "JALR"  -> Branch(a, TRUE, d.rd, next)
          [] d.op = "LW"    -> [NoResult EXCEPT !.insn_type = "LOAD", !.dest_reg = d.rt,
                                   !.target_address = Add(SignExtend(d.immed), a)]
          [] d.op = "SW"    -> [NoResult EXCEPT !.insn_type = "STORE", !.store_value = b,
                                   !.target_address = Add(SignExtend(d.immed), a)]
          [] OTHER -> NoResult

Executed == [dest_reg : Byte, result : Word, store_value : Word, target_address : Word,
             condition_flag : BOOLEAN, insn_type : InsnType]

(***************************************************************************)
(* What mem_pipestage does with an EX_MEM record e: the branch it takes,    *)
(* the value it passes on (the loaded word of a load), the store it         *)
(* performs.  A cacheable store goes to vcache_store, whose body is empty.  *)
(* A cacheable load ends the process (LoadFaults): vcache_load runs on a    *)
(* cache that vcpu_init never gave any data.                                *)
(***************************************************************************)
Taken(e) == e.insn_type = "BRANCH" /\ e.condition_flag

LoadFaults(e) == e.insn_type = "LOAD" /\ Cacheable(e.target_address)

ResultOf(e, m) ==
    IF e.insn_type = "LOAD" /\ ~LoadFaults(e)
      THEN vmemory_read_word(m, Paddr(e.target_address))
      ELSE e.result

StoreOf(e, m) ==
    IF e.insn_type = "STORE" /\ ~Cacheable(e.target_address)
      THEN vmemory_write_word(m, e.store_value, Paddr(e.target_address))
      ELSE m

\* wb_pipestage: every register is written alike, register 0 too.
WriteBack(r, reg, w) == [r EXCEPT ![reg] = w]
=============================================================================
