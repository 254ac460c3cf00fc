----------------------------- MODULE VCpuProofs -----------------------------
(***************************************************************************)
(* Theorems about the pipeline of v2.0, for every size of byte, RAM and     *)
(* register file, every encoding and every RAM contents: its invariants,    *)
(* and that it implements the instruction set MipsISA.                      *)
(***************************************************************************)
EXTENDS VCpuISA, MemoryMapProofs

(***************************************************************************)
(* Decoding yields fields of their types and keeps the word and its pc; it  *)
(* depends on nothing but these two.                                        *)
(***************************************************************************)
LEMMA DecodeType ==
    ASSUME NEW f, f.insn \in Word, f.pc \in Word
    PROVE  /\ Decode(f) \in Decoded
           /\ Decode(f).insn = f.insn /\ Decode(f).pc = f.pc
           /\ Decode(Decode(f)) = Decode(f)
<1>1. InsnOf[f.insn] \in Insn
  BY InsnAssumption
<1>2. 0 \in Reg /\ 0 \in Half
  BY GprAssumption, Sizes DEF Half
<1> DEFINE d == InsnOf[f.insn]
<1>3. /\ d.op \in Op /\ d.rs \in Reg /\ d.rt \in Reg /\ d.rd \in Reg /\ d.immed \in Half
  BY <1>1 DEF Insn
<1>4. Decode(f) = [insn |-> f.insn, pc |-> f.pc, op |-> d.op,
                   rs    |-> IF Format(d.op) = "J" THEN 0 ELSE d.rs,
                   rt    |-> IF Format(d.op) = "J" THEN 0 ELSE d.rt,
                   rd    |-> IF Format(d.op) = "R" THEN d.rd ELSE 0,
                   immed |-> IF Format(d.op) = "R" THEN 0 ELSE d.immed]
  BY DEF Decode
<1>5. Decode(f) \in Decoded
  <2> HIDE DEF d
  <2> QED BY <1>2, <1>3, <1>4 DEF Decoded
<1>6. Decode(f).insn = f.insn /\ Decode(f).pc = f.pc
  BY <1>4
<1>7. Decode(Decode(f)) = Decode(f)
  BY <1>6 DEF Decode
<1> QED
  BY <1>5, <1>6, <1>7

LEMMA ExecuteType ==
    ASSUME NEW d \in Decoded, NEW r \in [Reg -> Word]
    PROVE  Execute(d, r) \in Executed
<1> DEFINE a == r[d.rs]
           b == r[d.rt]
           next == Add(d.pc, 4)
<1>0. d.rs \in Reg /\ d.rt \in Reg /\ d.rd \in Reg /\ d.pc \in Word
  BY DEF Decoded
<1>1. /\ a \in Word /\ b \in Word /\ 4 \in Word /\ next \in Word
      /\ 0 \in Word /\ 1 \in Word /\ 0 \in Byte
      /\ Reg \subseteq Byte
  <2>1. 0 \in Word /\ 1 \in Word /\ 4 \in Word /\ 0 \in Byte
    BY Sizes DEF Word, Byte
  <2>2. Reg \subseteq Byte
    BY Sizes, GprAssumption DEF Reg, Byte
  <2>3. next \in Word
    BY <1>0, <2>1, AddIsWord
  <2> QED
    BY <1>0, <2>1, <2>2, <2>3
<1>2. JumpTarget(d) \in Word
  BY <1>1 DEF JumpTarget
<1>3. \A reg \in Byte, w \in Word : AluResult(reg, w) \in Executed
  BY <1>1 DEF AluResult, Executed, NoResult, InsnType
<1>4. \A t, w \in Word, c \in BOOLEAN, reg \in Byte : Branch(t, c, reg, w) \in Executed
  BY <1>1 DEF Branch, Executed, NoResult, InsnType
<1>5. CASE d.op = "NOP"
  <2>1. Execute(d, r) = AluResult(0, 0)
    BY <1>5 DEF Execute
  <2> QED
    BY <2>1, <1>1, <1>3
<1>6. CASE d.op \in {"ADD", "ADDU"}
  <2>1. Execute(d, r) = AluResult(d.rd, Add(a, b))
    BY <1>6 DEF Execute
  <2> QED
    BY <2>1, <1>1, <1>3, AddIsWord DEF Decoded
<1>7. CASE d.op = "OR"
  <2>1. Execute(d, r) = AluResult(d.rd, BitOr(a, b))
    BY <1>7 DEF Execute
  <2> QED
    BY <2>1, <1>1, <1>3, BitOrAssumption DEF Decoded
<1>8. CASE d.op = "ORI"
  <2>1. Execute(d, r) = AluResult(d.rt, BitOr(a, d.immed))
    BY <1>8 DEF Execute
  <2> QED
    BY <2>1, <1>1, <1>3, BitOrAssumption, HalfIsWord DEF Decoded
<1>9. CASE d.op = "ADDIU"
  <2>1. Execute(d, r) = AluResult(d.rt, Add(a, SignExtend(d.immed)))
    BY <1>9 DEF Execute
  <2> QED
    BY <2>1, <1>1, <1>3, AddIsWord, SignExtendIsWord DEF Decoded
<1>10. CASE d.op = "LUI"
  <2>1. Execute(d, r) = AluResult(d.rt, d.immed * HALF)
    BY <1>10 DEF Execute
  <2> QED
    BY <2>1, <1>1, <1>3, ShiftedHalfIsWord DEF Decoded
<1>11. CASE d.op = "BEQ"
  <2>1. Execute(d, r) = Branch(0, a = b, 0, Add(next, 4 * d.immed))
    BY <1>11 DEF Execute
  <2>2. Add(next, 4 * d.immed) \in Word
    BY <1>1, Sizes DEF Add, Word, Decoded, Half
  <2>3. (a = b) \in BOOLEAN
    OBVIOUS
  <2> DEFINE t == Add(next, 4 * d.immed)
             c == a = b
  <2> HIDE DEF t, c
  <2>4. Branch(0, c, 0, t) \in Executed
    BY <2>2, <2>3, <1>1, <1>4, Zenon DEF t, c
  <2> QED
    BY <2>1, <2>4, Zenon DEF t, c
<1>12. CASE d.op = "J"
  <2>1. Execute(d, r) = Branch(JumpTarget(d), TRUE, 0, 0)
    BY <1>12 DEF Execute
  <2> QED
    BY <2>1, <1>1, <1>2, <1>4
<1>13. CASE d.op = "JAL"
  <2>1. Execute(d, r) = Branch(JumpTarget(d), TRUE, r[REGISTER_RA] % BYTE, next)
    BY <1>13 DEF Execute
  <2>2. r[REGISTER_RA] % BYTE \in Byte
    BY Sizes, GprAssumption DEF Byte, Word
  <2> QED
    BY <2>1, <2>2, <1>1, <1>2, <1>4
<1>14. CASE d.op = "JR"
  <2>1. Execute(d, r) = Branch(a, TRUE, 0, 0)
    BY <1>14 DEF Execute
  <2> QED
    BY <2>1, <1>1, <1>4
<1>15. CASE d.op = "JALR"
  <2>1. Execute(d, r) = Branch(a, TRUE, d.rd, next)
    BY <1>15 DEF Execute
  <2> QED
    BY <2>1, <1>0, <1>1, <1>4
<1>16. CASE d.op \in {"LW", "SW"}
  <2> DEFINE at == Add(SignExtend(d.immed), a)
  <2>1. at \in Word
    BY <1>1, AddIsWord, SignExtendIsWord DEF Decoded
  <2>2. CASE d.op = "LW"
    <3>1. Execute(d, r) = [NoResult EXCEPT !.insn_type = "LOAD", !.dest_reg = d.rt,
                              !.target_address = at]
      BY <2>2 DEF Execute
    <3> HIDE DEF at
    <3> QED
      BY <3>1, <2>1, <1>1 DEF NoResult, Executed, InsnType, Decoded
  <2>3. CASE d.op = "SW"
    <3>1. Execute(d, r) = [NoResult EXCEPT !.insn_type = "STORE", !.store_value = b,
                              !.target_address = at]
      BY <2>3 DEF Execute
    <3> HIDE DEF at, b
    <3> QED
      BY <3>1, <2>1, <1>1 DEF NoResult, Executed, InsnType
  <2> QED
    BY <1>16, <2>2, <2>3
<1>17. CASE d.op \notin Implemented
  <2>1. Execute(d, r) = NoResult
    BY <1>17 DEF Execute, Implemented
  <2> QED
    BY <2>1, <1>1 DEF NoResult, Executed, InsnType
<1>18. \/ d.op = "NOP" \/ d.op \in {"ADD", "ADDU"} \/ d.op = "OR" \/ d.op = "ORI"
       \/ d.op = "ADDIU" \/ d.op = "LUI" \/ d.op = "BEQ" \/ d.op = "J" \/ d.op = "JAL"
       \/ d.op = "JR" \/ d.op = "JALR" \/ d.op \in {"LW", "SW"} \/ d.op \notin Implemented
  BY DEF Implemented
<1> QED
  BY <1>5, <1>6, <1>7, <1>8, <1>9, <1>10, <1>11, <1>12, <1>13, <1>14, <1>15, <1>16,
     <1>17, <1>18

(***************************************************************************)
(* What mem_pipestage passes on and leaves in the RAM.                      *)
(***************************************************************************)
LEMMA ResultType ==
    ASSUME NEW e \in Executed, NEW m \in Memory PROVE ResultOf(e, m) \in Word
<1>1. e.target_address \in Word /\ e.result \in Word
  BY DEF Executed
<1> QED
  BY <1>1, UncachedAccess, ReadIsWord DEF ResultOf, LoadFaults

LEMMA StoreType ==
    ASSUME NEW e \in Executed, NEW m \in Memory PROVE StoreOf(e, m) \in Memory
<1>1. e.target_address \in Word /\ e.store_value \in Word
  BY DEF Executed
<1> QED
  BY <1>1, UncachedAccess, WriteIsMemory DEF StoreOf
(***************************************************************************)
(* An executer that names no register is JAL's, and its jump leaves kseg1.  *)
(***************************************************************************)
LEMMA ExecuteLink ==
    ASSUME NEW d \in Decoded, NEW r \in [Reg -> Word],
           Execute(d, r).dest_reg \notin Reg
    PROVE  /\ Taken(Execute(d, r))
           /\ Cacheable(Execute(d, r).target_address)
<1>1. d.rs \in Reg /\ d.rt \in Reg /\ d.rd \in Reg /\ 0 \in Reg
  BY GprAssumption DEF Decoded
<1>2. d.op = "JAL"
  <2>1. \A reg, w : AluResult(reg, w).dest_reg = reg
    BY DEF AluResult, NoResult
  <2>2. \A t, c, reg, w : Branch(t, c, reg, w).dest_reg = reg
    BY DEF Branch, NoResult
  <2>3. CASE d.op \in {"NOP", "ADD", "ADDU", "OR", "ORI", "ADDIU", "LUI"}
    <3>1. \E reg \in Reg : \E w : Execute(d, r) = AluResult(reg, w)
      <4>1. \/ d.op = "NOP" \/ d.op \in {"ADD", "ADDU"} \/ d.op = "OR" \/ d.op = "ORI"
            \/ d.op = "ADDIU" \/ d.op = "LUI"
        BY <2>3
      <4>2. CASE d.op = "NOP"
        BY <4>2, <1>1 DEF Execute
      <4>3. CASE d.op \in {"ADD", "ADDU"}
        BY <4>3, <1>1 DEF Execute
      <4>4. CASE d.op = "OR"
        BY <4>4, <1>1 DEF Execute
      <4>5. CASE d.op = "ORI"
        BY <4>5, <1>1 DEF Execute
      <4>6. CASE d.op = "ADDIU"
        BY <4>6, <1>1 DEF Execute
      <4>7. CASE d.op = "LUI"
        BY <4>7, <1>1 DEF Execute
      <4> QED
        BY <4>1, <4>2, <4>3, <4>4, <4>5, <4>6, <4>7
    <3> QED
      BY <3>1, <2>1
  <2>4. CASE d.op \in {"BEQ", "J", "JR", "JALR"}
    <3>1. \E t, c, w : \E reg \in Reg : Execute(d, r) = Branch(t, c, reg, w)
      <4>1. CASE d.op = "BEQ"
        BY <4>1, <1>1 DEF Execute
      <4>2. CASE d.op = "J"
        BY <4>2, <1>1 DEF Execute
      <4>3. CASE d.op = "JR"
        BY <4>3, <1>1 DEF Execute
      <4>4. CASE d.op = "JALR"
        BY <4>4, <1>1 DEF Execute
      <4> QED
        BY <2>4, <4>1, <4>2, <4>3, <4>4
    <3> QED
      BY <3>1, <2>2
  <2>5. CASE d.op = "LW"
    <3>1. Execute(d, r) = [NoResult EXCEPT !.insn_type = "LOAD", !.dest_reg = d.rt,
                              !.target_address = Add(SignExtend(d.immed), r[d.rs])]
      BY <2>5 DEF Execute
    <3>2. Execute(d, r).dest_reg = d.rt
      BY <3>1 DEF NoResult
    <3> QED
      BY <3>2, <1>1
  <2>6. CASE d.op = "SW"
    <3>1. Execute(d, r) = [NoResult EXCEPT !.insn_type = "STORE", !.store_value = r[d.rt],
                              !.target_address = Add(SignExtend(d.immed), r[d.rs])]
      BY <2>6 DEF Execute
    <3>2. Execute(d, r).dest_reg = 0
      BY <3>1 DEF NoResult
    <3> QED
      BY <3>2, <1>1
  <2>7. CASE d.op \notin Implemented
    <3>1. Execute(d, r) = NoResult
      BY <2>7 DEF Execute, Implemented
    <3> QED
      BY <3>1, <1>1 DEF NoResult
  <2>8. \/ d.op \in {"NOP", "ADD", "ADDU", "OR", "ORI", "ADDIU", "LUI"}
        \/ d.op \in {"BEQ", "J", "JR", "JALR"} \/ d.op = "LW" \/ d.op = "SW"
        \/ d.op = "JAL" \/ d.op \notin Implemented
    BY DEF Implemented
  <2> QED
    BY <2>3, <2>4, <2>5, <2>6, <2>7, <2>8
<1>3. Execute(d, r) = Branch(JumpTarget(d), TRUE, r[REGISTER_RA] % BYTE, Add(d.pc, 4))
  BY <1>2 DEF Execute
<1>4. /\ Execute(d, r).insn_type = "BRANCH"
      /\ Execute(d, r).condition_flag = TRUE
      /\ Execute(d, r).target_address = JumpTarget(d)
  BY <1>3 DEF Branch, NoResult
<1>5. JumpTarget(d) \in {0, 1}
  BY DEF JumpTarget
<1>6. \A v \in {0, 1} : v \in Word /\ v \notin kseg1
  BY Sizes DEF Word, kseg1, KSEG1_START, KSEG2_START
<1>7. Cacheable(JumpTarget(d))
  BY <1>5, <1>6, UncachedAccess
<1> QED
  BY <1>4, <1>7 DEF Taken
(***************************************************************************)
(* The inductive invariant: types, the addresses the pipeline's words came  *)
(* from, and what a link that names no register brings with it.             *)
(***************************************************************************)
IInv == TypeOK /\ FetchedUncached /\ LostLinkJumpsAway

LEMMA InitIInv == Init => IInv
<1> SUFFICES ASSUME Init PROVE IInv
  OBVIOUS
<1>1. /\ 0 \in Word /\ 0 \in Byte /\ 0 \in Reg /\ Bubble.insn \in Word /\ Bubble.pc \in Word
  BY Sizes, GprAssumption DEF Word, Byte, Bubble
<1>2. RESET_VECTOR \in Word
  BY Sizes, ResetAssumption DEF kseg1, Word, KSEG1_START, KSEG2_START
<1>3. TypeOK
  <2>1. gprs \in [Reg -> Word]
    BY <1>1 DEF Init
  <2>2. IF_ID \in [insn : Word, pc : Word]
    BY <1>1 DEF Init, Bubble
  <2>3. ID_EX \in Decoded
    BY <1>1, DecodeType DEF Init
  <2>4. EX_MEM \in Executed
    BY <1>1 DEF Init, NoResult, Executed, InsnType
  <2>5. MEM_WB \in [dest_reg : Byte, result : Word]
    BY <1>1 DEF Init
  <2> QED
    BY <2>1, <2>2, <2>3, <2>4, <2>5, <1>2, ImagesAssumption DEF Init, TypeOK, Stage
<1>4. FetchedUncached
  <2>1. ID_EX = Decode(ID_EX) /\ ID_EX.insn = 0 /\ ID_EX.pc = 0
    BY <1>1, DecodeType DEF Init, Bubble
  <2> QED
    BY <2>1 DEF Init, Bubble, FetchedUncached
<1>5. LostLinkJumpsAway
  BY <1>1 DEF Init, NoResult, LostLinkJumpsAway
<1> QED
  BY <1>3, <1>4, <1>5 DEF IInv

(***************************************************************************)
(* Every step of the clock and of the pipeline preserves it.                *)
(***************************************************************************)
LEMMA NextIInv == IInv /\ [Next]_vars => IInv'
<1> SUFFICES ASSUME IInv, [Next]_vars PROVE IInv'
  OBVIOUS
<1> USE DEF IInv
<1>1. CASE UNCHANGED vars
  BY <1>1 DEF vars, TypeOK, FetchedUncached, LostLinkJumpsAway
<1>2. CASE FlipEdge
  <2>1. TypeOK'
    BY <1>2 DEF FlipEdge, buffers, TypeOK, Stage
  <2>2. FetchedUncached'
    BY <1>2 DEF FlipEdge, buffers, FetchedUncached
  <2>3. LostLinkJumpsAway'
    BY <1>2 DEF FlipEdge, At, buffers, LostLinkJumpsAway
  <2> QED
    BY <2>1, <2>2, <2>3
<1>3. CASE wb_pipestage
  <2>1. TypeOK'
    BY <1>3 DEF wb_pipestage, WriteBack, buffers, TypeOK, Stage
  <2>2. FetchedUncached'
    BY <1>3 DEF wb_pipestage, buffers, FetchedUncached
  <2>3. LostLinkJumpsAway'
    BY <1>3 DEF wb_pipestage, At, buffers, LostLinkJumpsAway
  <2> QED
    BY <2>1, <2>2, <2>3
<1>4. CASE mem_pipestage
  <2>1. TypeOK'
    <3>1. EX_MEM.dest_reg \in Byte /\ EX_MEM.target_address \in Word
      BY DEF TypeOK, Executed
    <3>2. MEM_WB' \in [dest_reg : Byte, result : Word] /\ memory' \in Memory
      BY <1>4, <3>1, ResultType, StoreType DEF mem_pipestage, TypeOK
    <3> QED
      BY <1>4, <3>1, <3>2 DEF mem_pipestage, TypeOK, Stage
  <2>2. FetchedUncached'
    BY <1>4 DEF mem_pipestage, FetchedUncached
  <2>3. LostLinkJumpsAway'
    <3>1. MEM_WB'.dest_reg = EX_MEM.dest_reg /\ stage' = "alu" /\ EX_MEM' = EX_MEM
      BY <1>4 DEF mem_pipestage
    <3>2. Taken(EX_MEM) => pc' = EX_MEM.target_address
      BY <1>4 DEF mem_pipestage
    <3> QED
      BY <3>1, <3>2 DEF LostLinkJumpsAway
  <2> QED
    BY <2>1, <2>2, <2>3
<1>5. CASE alu_pipestage
  <2>1. ID_EX \in Decoded /\ gprs \in [Reg -> Word] /\ EX_MEM' = Execute(ID_EX, gprs)
    BY <1>5 DEF alu_pipestage, TypeOK
  <2>2. TypeOK'
    BY <1>5, <2>1, ExecuteType DEF alu_pipestage, TypeOK, Stage
  <2>3. FetchedUncached'
    BY <1>5 DEF alu_pipestage, FetchedUncached
  <2>4. LostLinkJumpsAway'
    <3>1. EX_MEM'.dest_reg \notin Reg =>
              Taken(EX_MEM') /\ Cacheable(EX_MEM'.target_address)
      BY <2>1, ExecuteLink
    <3> QED
      BY <1>5, <3>1 DEF alu_pipestage, LostLinkJumpsAway
  <2> QED
    BY <2>2, <2>3, <2>4
<1>6. CASE rd_pipestage
  <2>1. IF_ID.insn \in Word /\ IF_ID.pc \in Word /\ ID_EX' = Decode(IF_ID)
    BY <1>6 DEF rd_pipestage, TypeOK
  <2>2. TypeOK'
    BY <1>6, <2>1, DecodeType DEF rd_pipestage, TypeOK, Stage
  <2>3. FetchedUncached'
    <3>1. /\ ID_EX' = Decode(ID_EX')
          /\ ID_EX'.pc = IF_ID.pc /\ ID_EX'.insn = IF_ID.insn
          /\ IF_ID' = IF_ID
      BY <1>6, <2>1, DecodeType DEF rd_pipestage
    <3> QED
      BY <3>1 DEF FetchedUncached
  <2>4. LostLinkJumpsAway'
    BY <1>6 DEF rd_pipestage, LostLinkJumpsAway
  <2> QED
    BY <2>2, <2>3, <2>4
<1>7. CASE if_pipestage
  <2>1. pc \in Word /\ memory \in Memory /\ ~Cacheable(pc) /\ 4 \in Word
    BY <1>7, Sizes DEF if_pipestage, TypeOK, Word
  <2>2. pc \in kseg1 /\ Paddr(pc) \in 0 .. SEG - 1
    BY <2>1, UncachedAccess
  <2>3. /\ IF_ID' = [insn |-> vmemory_read_word(memory, Paddr(pc)), pc |-> pc]
        /\ vmemory_read_word(memory, Paddr(pc)) \in Word
        /\ pc' \in Word
    BY <1>7, <2>1, <2>2, ReadIsWord, AddIsWord DEF if_pipestage
  <2>4. TypeOK'
    BY <1>7, <2>1, <2>3 DEF if_pipestage, TypeOK, Stage
  <2>5. FetchedUncached'
    BY <1>7, <2>2, <2>3 DEF if_pipestage, FetchedUncached
  <2>6. LostLinkJumpsAway'
    BY <1>7, <2>1 DEF if_pipestage, LostLinkJumpsAway
  <2> QED
    BY <2>4, <2>5, <2>6
<1>8. ASSUME NEW s \in Stage, Exit(s) PROVE IInv'
  BY <1>8 DEF Exit, buffers, TypeOK, FetchedUncached, LostLinkJumpsAway
<1>9. CASE mem_faults \/ alu_faults \/ rd_faults \/ if_faults
  BY <1>8, <1>9 DEF mem_faults, alu_faults, rd_faults, if_faults, Stage
<1>10. CASE Exited
  BY <1>1, <1>10 DEF Exited
<1> QED
  BY <1>1, <1>2, <1>3, <1>4, <1>5, <1>6, <1>7, <1>9, <1>10 DEF Next

LEMMA Invariance == Spec => []IInv
  BY InitIInv, NextIInv, PTL DEF Spec

(***************************************************************************)
(* The buffers of the pipeline always hold values of their C types          *)
(* (the struct vCPU, vcpu.h:152), the RAM bytes, pc a word.                 *)
(***************************************************************************)
THEOREM TypeCorrect == Spec => []TypeOK
<1>1. IInv => TypeOK
  BY DEF IInv
<1> QED
  BY <1>1, Invariance, PTL

(***************************************************************************)
(* A JAL never gets to write back a link whose register number lies outside *)
(* the register file: wb_pipestage (vcpu.c:328) stays inside gprs.          *)
(***************************************************************************)
THEOREM WriteBackInBounds == Spec => []WritesInsideGprs
<1>1. IInv => WritesInsideGprs
  BY DEF IInv, LostLinkJumpsAway, WritesInsideGprs, At
<1> QED
  BY <1>1, Invariance, PTL

(***************************************************************************)
(* The reason: whatever register 31 holds, a link that names no register    *)
(* stays with a jump that ends the process (vcpu.c:409, 412).               *)
(***************************************************************************)
THEOREM LostLinksEndTheProcess == Spec => []LostLinkJumpsAway
<1>1. IInv => LostLinkJumpsAway
  BY DEF IInv
<1> QED
  BY <1>1, Invariance, PTL

(***************************************************************************)
(* The pipeline only ever holds words fetched from uncached memory, decoded *)
(* from the word they carry (if_pipestage, rd_pipestage, vcpu.c:181-250).   *)
(***************************************************************************)
THEOREM OnlyUncachedWords == Spec => []FetchedUncached
<1>1. IInv => FetchedUncached
  BY DEF IInv
<1> QED
  BY <1>1, Invariance, PTL

(***************************************************************************)
(* The pipeline implements MipsISA: every stage but one only moves an       *)
(* instruction along, and alu_pipestage is the step that executes it.  What *)
(* the steps of a cycle leave each other is needed for the mapping: WB has  *)
(* retired what MEM is about to replace, ALU runs only behind a load that   *)
(* was served, RD and IF agree on the instruction that moves on.            *)
(***************************************************************************)
HandOver ==
    /\ stage = "mem" => gprs = WrittenBack
    /\ stage = "alu" => ~LoadFaults(EX_MEM)
    /\ stage = "if" => Queued(ID_EX) = Queued(IF_ID)
    /\ ID_EX.op # "UNKNOWN"

LEMMA InitHandOver == Init => HandOver
<1> SUFFICES ASSUME Init PROVE HandOver
  OBVIOUS
<1>1. ID_EX.op = "NOP"
  BY InsnAssumption DEF Init, Bubble, Decode
<1> QED
  BY <1>1 DEF Init, HandOver

(***************************************************************************)
(* Writing the same register back twice is writing it back once.            *)
(***************************************************************************)
LEMMA WriteBackTwice ==
    ASSUME NEW r, NEW reg, NEW w
    PROVE  WriteBack(WriteBack(r, reg, w), reg, w) = WriteBack(r, reg, w)
BY DEF WriteBack

LEMMA NextHandOver == IInv /\ HandOver /\ [Next]_vars => HandOver'
<1> SUFFICES ASSUME IInv, HandOver, [Next]_vars PROVE HandOver'
  OBVIOUS
<1>1. CASE UNCHANGED vars
  BY <1>1 DEF vars, HandOver, WrittenBack, Queued
<1>2. CASE FlipEdge
  BY <1>2 DEF FlipEdge, buffers, HandOver
<1>3. CASE wb_pipestage
  <2>1. gprs' = WrittenBack'
    BY <1>3, WriteBackTwice DEF wb_pipestage, buffers, WrittenBack
  <2> QED
    BY <1>3, <2>1 DEF wb_pipestage, buffers, HandOver
<1>4. CASE mem_pipestage
  BY <1>4 DEF mem_pipestage, HandOver
<1>5. CASE alu_pipestage
  BY <1>5 DEF alu_pipestage, HandOver
<1>6. CASE rd_pipestage
  <2>1. Decode(IF_ID).insn = IF_ID.insn /\ Decode(IF_ID).pc = IF_ID.pc
    BY DEF Decode
  <2> QED
    BY <1>6, <2>1 DEF rd_pipestage, HandOver, Queued
<1>7. CASE if_pipestage
  BY <1>7 DEF if_pipestage, HandOver
<1>8. CASE mem_faults \/ alu_faults \/ rd_faults \/ if_faults
  BY <1>8 DEF mem_faults, alu_faults, rd_faults, if_faults, Exit, buffers, HandOver,
              WrittenBack, Queued
<1>9. CASE Exited
  BY <1>1, <1>9 DEF Exited
<1> QED
  BY <1>1, <1>2, <1>3, <1>4, <1>5, <1>6, <1>7, <1>8, <1>9 DEF Next

LEMMA HandOverHolds == Spec => []HandOver
  BY InitHandOver, NextHandOver, Invariance, PTL DEF Spec

(***************************************************************************)
(* The operators both modules are built from mean the same in both.         *)
(***************************************************************************)
LEMMA SameWords ==
    /\ Abstract!HALF = HALF /\ Abstract!WORD = WORD /\ Abstract!SEG = SEG
    /\ Abstract!Reg = Reg /\ Abstract!Memory = Memory
    /\ Abstract!Unimplemented = Unimplemented
  BY DEF Abstract!HALF, HALF, Abstract!WORD, WORD, Abstract!SEG, SEG, Abstract!Reg, Reg,
         Abstract!Memory, Memory, Abstract!PAddr, PAddr, Abstract!Byte, Byte,
         Abstract!Unimplemented, Unimplemented

LEMMA SameMap ==
    ASSUME NEW v
    PROVE  Abstract!Cacheable(v) = Cacheable(v) /\ Abstract!Paddr(v) = Paddr(v)
<1>1. Abstract!address_translation(v) = address_translation(v)
  BY SameWords
     DEF Abstract!address_translation, address_translation, Abstract!kuseg, kuseg,
         Abstract!kseg0, kseg0, Abstract!kseg1, kseg1, Abstract!kseg2, kseg2,
         Abstract!KSEG0_START, KSEG0_START, Abstract!KSEG1_START, KSEG1_START,
         Abstract!KSEG2_START, KSEG2_START
<1> QED
  BY <1>1 DEF Abstract!Cacheable, Cacheable, Abstract!Paddr, Paddr

LEMMA SameAccess ==
    ASSUME NEW m, NEW a, NEW w
    PROVE  /\ Abstract!vmemory_read_word(m, a) = vmemory_read_word(m, a)
           /\ Abstract!vmemory_write_word(m, w, a) = vmemory_write_word(m, w, a)
  BY DEF Abstract!vmemory_read_word, vmemory_read_word, Abstract!vmemory_write_word,
         vmemory_write_word

LEMMA SameMemoryStage ==
    ASSUME NEW e, NEW m
    PROVE  /\ Abstract!Taken(e) = Taken(e)
           /\ Abstract!LoadFaults(e) = LoadFaults(e)
           /\ Abstract!ResultOf(e, m) = ResultOf(e, m)
           /\ Abstract!StoreOf(e, m) = StoreOf(e, m)
  BY SameMap, SameAccess
     DEF Abstract!Taken, Taken, Abstract!LoadFaults, LoadFaults, Abstract!ResultOf, ResultOf,
         Abstract!StoreOf, StoreOf

LEMMA SameDecode == ASSUME NEW f PROVE Abstract!Decode(f) = Decode(f)
  BY DEF Abstract!Decode, Decode, Abstract!Format, Format

LEMMA SameExecute == ASSUME NEW d, NEW r PROVE Abstract!Execute(d, r) = Execute(d, r)
<1>1. \A a, b : Abstract!Add(a, b) = Add(a, b)
  BY SameWords DEF Abstract!Add, Add
<1>2. \A i : Abstract!SignExtend(i) = SignExtend(i)
  BY SameWords DEF Abstract!SignExtend, SignExtend
<1>3. Abstract!NoResult = NoResult
  BY DEF Abstract!NoResult, NoResult
<1>4. \A reg, w : Abstract!AluResult(reg, w) = AluResult(reg, w)
  BY <1>3 DEF Abstract!AluResult, AluResult
<1>5. \A t, c, reg, w : Abstract!Branch(t, c, reg, w) = Branch(t, c, reg, w)
  BY <1>3 DEF Abstract!Branch, Branch
<1>6. Abstract!JumpTarget(d) = JumpTarget(d)
  BY SameWords DEF Abstract!JumpTarget, JumpTarget
<1> QED
  BY <1>1, <1>2, <1>3, <1>4, <1>5, <1>6, SameWords DEF Abstract!Execute, Execute

LEMMA SameFetch == ASSUME NEW a PROVE Abstract!Fetch(memory, a) = Fetched(a)
  BY SameMap, SameAccess DEF Abstract!Fetch, Fetched

(***************************************************************************)
(* The initial pipeline is the initial machine.                             *)
(***************************************************************************)
LEMMA InitRefines == Init => Abstract!IsaInit
<1> SUFFICES ASSUME Init PROVE Abstract!IsaInit
  OBVIOUS
<1>1. stage = "idle" /\ status = "running" /\ EX_MEM = NoResult /\ ~Drained
  BY DEF Init, Drained
<1>2. /\ ~Taken(EX_MEM) /\ ~LoadFaults(EX_MEM)
      /\ ResultOf(EX_MEM, memory) = 0 /\ StoreOf(EX_MEM, memory) = memory
  BY <1>1 DEF NoResult, Taken, LoadFaults, ResultOf, StoreOf
<1>3. WrittenBack = gprs
  BY DEF Init, WrittenBack, WriteBack
<1>4. late = gprs /\ regs = gprs
  BY <1>1, <1>2, <1>3 DEF Init, late, regs, NoResult, WriteBack
<1>5. ID_EX.insn = 0 /\ ID_EX.pc = 0
  BY DEF Init, Decode, Bubble
<1>6. queue = <<Abstract!Empty, Abstract!Empty>>
  BY <1>1, <1>5 DEF Init, Bubble, queue, Queued, Abstract!Empty
<1>7. mem = memory /\ npc = RESET_VECTOR /\ trap = FALSE /\ stopped = FALSE
  BY <1>1, <1>2 DEF Init, mem, npc, trap, stopped, LoadFaults, NoResult
<1> QED
  BY <1>4, <1>6, <1>7, SameWords, ImagesAssumption DEF Init, Abstract!IsaInit
(***************************************************************************)
(* Every stage but alu_pipestage leaves the machine of the program alone.   *)
(***************************************************************************)
LEMMA Stutters ==
    ASSUME IInv, HandOver,
           FlipEdge \/ wb_pipestage \/ mem_pipestage \/ rd_pipestage \/ if_pipestage
    PROVE  UNCHANGED <<regs, late, mem, queue, npc, trap, stopped>>
<1>1. CASE FlipEdge
  <2>1. /\ UNCHANGED <<gprs, pc, IF_ID, ID_EX, EX_MEM, MEM_WB, memory, status>>
        /\ stage = "idle" /\ stage' \in {"idle", "wb"}
    BY <1>1 DEF FlipEdge, At, buffers
  <2> QED
    BY <2>1 DEF regs, late, mem, queue, npc, trap, stopped, Drained, WrittenBack, Queued
<1>2. CASE wb_pipestage
  <2>1. /\ UNCHANGED <<pc, IF_ID, ID_EX, EX_MEM, MEM_WB, memory, status>>
        /\ stage = "wb" /\ stage' = "mem" /\ gprs' = WrittenBack
    BY <1>2 DEF wb_pipestage, At, buffers, WrittenBack
  <2>2. WrittenBack' = WrittenBack
    BY <2>1, WriteBackTwice DEF WrittenBack
  <2> QED
    BY <2>1, <2>2 DEF regs, late, mem, queue, npc, trap, stopped, Drained, Queued
<1>3. CASE mem_pipestage
  <2>1. /\ UNCHANGED <<gprs, IF_ID, ID_EX, EX_MEM, status>>
        /\ stage = "mem" /\ stage' = "alu"
        /\ MEM_WB' = [dest_reg |-> EX_MEM.dest_reg, result |-> ResultOf(EX_MEM, memory)]
        /\ pc' = IF Taken(EX_MEM) THEN EX_MEM.target_address ELSE pc
        /\ memory' = StoreOf(EX_MEM, memory)
    BY <1>3 DEF mem_pipestage, At
  <2>2. gprs = WrittenBack
    BY <2>1 DEF HandOver
  <2>3. late' = late /\ regs' = regs
    <3>1. late' = gprs /\ regs' = WriteBack(gprs, EX_MEM.dest_reg, ResultOf(EX_MEM, memory))
      BY <2>1 DEF late, regs, Drained, WrittenBack
    <3>2. late = gprs /\ regs = WriteBack(gprs, EX_MEM.dest_reg, ResultOf(EX_MEM, memory))
      BY <2>1, <2>2 DEF late, regs, Drained
    <3> QED
      BY <3>1, <3>2
  <2>4. UNCHANGED <<mem, npc>>
    BY <2>1 DEF mem, npc, Drained
  <2> QED
    BY <2>1, <2>3, <2>4 DEF queue, trap, stopped, Queued
<1>4. CASE rd_pipestage
  <2>1. /\ UNCHANGED <<gprs, pc, IF_ID, EX_MEM, MEM_WB, memory, status>>
        /\ stage = "rd" /\ stage' = "if"
    BY <1>4 DEF rd_pipestage, At
  <2> QED
    BY <2>1 DEF regs, late, mem, queue, npc, trap, stopped, Drained, WrittenBack, Queued, Fetched
<1>5. CASE if_pipestage
  <2>1. /\ UNCHANGED <<gprs, ID_EX, EX_MEM, MEM_WB, memory, status>>
        /\ stage = "if" /\ stage' = "idle" /\ ~Cacheable(pc)
        /\ IF_ID' = [insn |-> vmemory_read_word(memory, Paddr(pc)), pc |-> pc]
        /\ pc' = Add(pc, 4)
    BY <1>5 DEF if_pipestage, At
  <2>2. queue' = queue
    <3>1. Queued(IF_ID)' = Fetched(pc)
      BY <2>1 DEF Queued, Fetched
    <3>2. Queued(ID_EX)' = Queued(IF_ID)
      BY <2>1 DEF HandOver, Queued
    <3> QED
      BY <2>1, <3>1, <3>2 DEF queue
  <2>3. npc' = npc
    BY <2>1 DEF npc, Drained
  <2> QED
    BY <2>1, <2>2, <2>3 DEF regs, late, mem, trap, stopped, Drained, WrittenBack
<1> QED
  BY <1>1, <1>2, <1>3, <1>4, <1>5

(***************************************************************************)
(* alu_pipestage executes the instruction at the head of the queue.         *)
(***************************************************************************)
LEMMA AluIsStep ==
    ASSUME IInv, HandOver, alu_pipestage
    PROVE  Abstract!Step
<1> DEFINE e == Execute(ID_EX, gprs)
<1>1. /\ UNCHANGED <<gprs, pc, IF_ID, ID_EX, MEM_WB, memory, status>>
      /\ stage = "alu" /\ stage' = "rd" /\ status = "running"
      /\ EX_MEM' = e /\ ID_EX.op \notin Unimplemented
  BY DEF alu_pipestage, At
<1>2. ~LoadFaults(EX_MEM) /\ ID_EX.op # "UNKNOWN" /\ Decode(ID_EX) = ID_EX
  BY <1>1 DEF HandOver, IInv, FetchedUncached
<1>3. queue = <<Queued(ID_EX), Queued(IF_ID)>>
  BY <1>1 DEF queue
<1>4. queue[1] = Queued(ID_EX) /\ queue[2] = Queued(IF_ID)
  BY <1>3
<1>5. Decode(queue[1]) = ID_EX
  <2>1. Decode(Queued(ID_EX)) = Decode(ID_EX)
    BY DEF Decode, Queued
  <2> QED
    BY <1>2, <1>4, <2>1
<1>6. ~Abstract!Faults
  <2>1. Abstract!Decode(queue[1]) = ID_EX
    BY <1>5, SameDecode
  <2>2. queue[2].ok = TRUE /\ trap = FALSE
    BY <1>2, <1>4 DEF Queued, trap, LoadFaults
  <2> QED
    BY <1>1, <1>2, <2>1, <2>2, SameWords DEF Abstract!Faults
<1>7. late = gprs /\ mem = memory /\ npc = pc /\ ~stopped /\ stopped' = stopped
  BY <1>1 DEF late, mem, npc, stopped, Drained
<1>8. Abstract!Execute(Abstract!Decode(queue[1]), late) = e
  BY <1>5, <1>7, SameDecode, SameExecute
<1>9. late' = regs
  BY <1>1 DEF late, regs, Drained, WrittenBack
<1>10. regs' = WriteBack(regs, e.dest_reg, ResultOf(e, memory))
  <2> HIDE DEF e
  <2> QED
    BY <1>1 DEF regs, Drained, WrittenBack
<1>11. mem' = StoreOf(e, memory)
  <2> HIDE DEF e
  <2> QED
    BY <1>1 DEF mem, Drained
<1>12. queue' = <<queue[2], Fetched(pc)>>
  BY <1>1, <1>4 DEF queue, Queued, Fetched
<1>13. npc' = IF Taken(e) THEN e.target_address ELSE Add(pc, 4)
  <2> HIDE DEF e
  <2> QED
    BY <1>1 DEF npc, Drained
<1>14. trap' = LoadFaults(e)
  <2> HIDE DEF e
  <2> QED
    BY <1>1 DEF trap
<1> HIDE DEF e
<1>15. /\ Abstract!WriteBack(regs, e.dest_reg, Abstract!ResultOf(e, mem))
            = WriteBack(regs, e.dest_reg, ResultOf(e, memory))
       /\ Abstract!StoreOf(e, mem) = StoreOf(e, memory)
       /\ Abstract!Fetch(mem, npc) = Fetched(pc)
       /\ Abstract!Taken(e) = Taken(e) /\ Abstract!LoadFaults(e) = LoadFaults(e)
       /\ Abstract!Add(npc, 4) = Add(pc, 4)
  BY <1>7, SameMemoryStage, SameFetch, SameWords
     DEF Abstract!WriteBack, WriteBack, Abstract!Add, Add
<1> QED
  BY <1>6, <1>7, <1>8, <1>9, <1>10, <1>11, <1>12, <1>13, <1>14, <1>15 DEF Abstract!Step

(***************************************************************************)
(* Where the process ends the machine of the program may stop.              *)
(***************************************************************************)
LEMMA FaultsStop ==
    ASSUME IInv, HandOver, mem_faults \/ alu_faults \/ rd_faults \/ if_faults
    PROVE  Abstract!Stop
<1>1. /\ UNCHANGED <<gprs, pc, IF_ID, ID_EX, EX_MEM, MEM_WB, memory, stage>>
      /\ status = "running" /\ status' = "exited"
  BY DEF mem_faults, alu_faults, rd_faults, if_faults, Exit, At, buffers
<1>2. UNCHANGED <<regs, late, mem, queue, npc, trap>>
  BY <1>1 DEF regs, late, mem, queue, npc, trap, Drained, WrittenBack, Queued, Fetched
<1>3. Abstract!Faults
  <2>1. CASE mem_faults
    BY <2>1 DEF mem_faults, trap, Abstract!Faults
  <2>2. CASE alu_faults
    <3>1. stage = "alu" /\ ID_EX.op \in Unimplemented /\ Decode(ID_EX) = ID_EX
      BY <2>2 DEF alu_faults, Exit, At, IInv, FetchedUncached
    <3>2. queue[1] = Queued(ID_EX) /\ Decode(Queued(ID_EX)) = Decode(ID_EX)
      BY <3>1 DEF queue, Queued, Decode
    <3>3. Abstract!Decode(queue[1]) = ID_EX
      BY <3>1, <3>2, SameDecode
    <3> QED
      BY <3>1, <3>3, SameWords DEF Abstract!Faults
  <2>3. CASE rd_faults
    <3>1. stage = "rd" /\ Decode(IF_ID).op = "UNKNOWN"
      BY <2>3 DEF rd_faults, Exit, At
    <3>2. queue[1] = Queued(IF_ID) /\ Decode(Queued(IF_ID)) = Decode(IF_ID)
      BY <3>1 DEF queue, Queued, Decode
    <3>3. Abstract!Decode(queue[1]).op = "UNKNOWN"
      BY <3>1, <3>2, SameDecode
    <3> QED
      BY <3>3 DEF Abstract!Faults
  <2>4. CASE if_faults
    <3>1. stage = "if" /\ Cacheable(pc)
      BY <2>4 DEF if_faults, Exit, At
    <3>2. queue[2] = Fetched(pc) /\ Fetched(pc).ok = FALSE
      BY <3>1 DEF queue, Fetched
    <3> QED
      BY <3>2 DEF Abstract!Faults
  <2> QED
    BY <2>1, <2>2, <2>3, <2>4
<1> QED
  BY <1>1, <1>2, <1>3 DEF Abstract!Stop, stopped

LEMMA NextRefines ==
    IInv /\ HandOver /\ [Next]_vars =>
        [Abstract!IsaNext]_<<regs, late, mem, queue, npc, trap, stopped>>
<1> SUFFICES ASSUME IInv, HandOver, [Next]_vars
             PROVE  Abstract!IsaNext \/ UNCHANGED <<regs, late, mem, queue, npc, trap, stopped>>
  OBVIOUS
<1>1. CASE UNCHANGED vars \/ Exited
  BY <1>1 DEF Exited, vars, regs, late, mem, queue, npc, trap, stopped, Drained, WrittenBack,
              Queued, Fetched
<1>2. CASE alu_pipestage
  BY <1>2, AluIsStep DEF Abstract!IsaNext
<1>3. CASE mem_faults \/ alu_faults \/ rd_faults \/ if_faults
  BY <1>3, FaultsStop DEF Abstract!IsaNext
<1>4. CASE FlipEdge \/ wb_pipestage \/ mem_pipestage \/ rd_pipestage \/ if_pipestage
  BY <1>4, Stutters
<1> QED
  BY <1>1, <1>2, <1>3, <1>4 DEF Next

(***************************************************************************)
(* The pipeline of vcpu.c:172-330 is indistinguishable, for the program it  *)
(* runs, from a machine that executes one instruction after the other with  *)
(* its registers one instruction late and two delay slots behind a branch.  *)
(***************************************************************************)
THEOREM PipelineImplementsISA == Spec => ImplementsISA
<1>1. Spec => [](IInv /\ HandOver)
  BY Invariance, HandOverHolds, PTL
<1> QED
  BY <1>1, InitRefines, NextRefines, PTL
     DEF Spec, ImplementsISA, Abstract!ISA, Abstract!isaVars
=============================================================================
