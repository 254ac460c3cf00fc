------------------------------- MODULE MCVCpu -------------------------------
(***************************************************************************)
(* A machine small enough for TLC: bytes of four values, so words of 256    *)
(* and half-words of 16 values, segments of 32 addresses (kseg1 is          *)
(* 160 .. 191), three registers.  kseg1 shows a RAM of eight words, the     *)
(* program, which may read, overwrite and leave itself.                     *)
(***************************************************************************)
EXTENDS VCpuISA, Bitwise, TLC

CONSTANT Choices   \* the words programs of three are chosen from

MCBitOr(a, b) == a | b

I(op, rs, rt, rd, immed) ==
    [op |-> op, rs |-> rs, rt |-> rt, rd |-> rd, immed |-> immed]

\* The encodings: word i is the i-th of these, 0 is NOP, the others unknown.
Encoding ==
    << I("LUI", 0, 1, 0, 10),      \* r1 := 160, the start of kseg1
       I("JR", 1, 0, 0, 0),
       I("ADDIU", 1, 1, 0, 12),    \* r1 := r1 - 4
       I("SW", 1, 2, 0, 4),        \* overwrites the second word
       I("LW", 1, 2, 0, 4),
       I("BEQ", 0, 2, 0, 1),
       I("JALR", 1, 0, 2, 0),
       I("JAL", 0, 0, 0, 0),
       I("OR", 1, 2, 0, 0),        \* a write to register 0
       I("ADD", 1, 1, 2, 0),       \* wraps
       I("J", 0, 0, 0, 3),
       I("LW", 0, 2, 0, 0),        \* cacheable
       I("SW", 0, 1, 0, 0),        \* cacheable
       I("ORI", 2, 2, 0, 7),
       I("SUB", 1, 2, 2, 0),
       I("UNLISTED", 1, 2, 0, 0),
       I("ADDU", 0, 1, 1, 0),
       I("LUI", 0, 2, 0, 11) >>    \* r2 := 176, the middle of kseg1

MCInsnOf ==
    [w \in Word |-> IF w = 0 THEN I("NOP", 0, 0, 0, 0)
                    ELSE IF w \in DOMAIN Encoding THEN Encoding[w]
                    ELSE I("UNKNOWN", 0, 0, 0, 0)]

(***************************************************************************)
(* The programs: LUI r1,160, two words of the encoding or three of Choices, *)
(* and a JR r1 that closes the loop.                                        *)
(***************************************************************************)
Program(s) == <<1>> \o s \o <<2>>

ImageOf(p) ==
    [a \in PAddr |-> LET i == (a \div 4) + 1
                     IN  IF i > Len(p) THEN 0
                         ELSE CASE a % 4 = 0 -> 0
                                [] a % 4 = 1 -> p[i] \div 16
                                [] a % 4 = 2 -> (p[i] \div 4) % 4
                                [] a % 4 = 3 -> p[i] % 4]

Slots == [1 .. 2 -> DOMAIN Encoding] \cup [1 .. 3 -> Choices]

MCImages == {ImageOf(Program(s)) : s \in Slots}
=============================================================================
