---------------------------- MODULE MachineWord ----------------------------
(***************************************************************************)
(* The machine words of MIPS-vm v2.0 (uint32_t) and the byte-addressed RAM  *)
(* that holds them.  A word is always four bytes, so that every "+ 4" of    *)
(* the code is a 4 here; only the number of values of one byte, BYTE, is a  *)
(* parameter: 256 in the program, smaller in the model-checked instances.   *)
(* A word then has WORD = BYTE^4 values, arithmetic wraps modulo WORD, and  *)
(* the 16-bit immediates of the program are the HALF = BYTE^2 half-words.   *)
(***************************************************************************)
EXTENDS Integers

CONSTANT BYTE, MEMORY_SIZE

HALF == BYTE * BYTE
WORD == HALF * HALF
SEG  == WORD \div 8     \* 512 MB, the size of kseg0: three address bits

Byte  == 0 .. BYTE - 1
Half  == 0 .. HALF - 1
Word  == 0 .. WORD - 1
PAddr == 0 .. MEMORY_SIZE - 1

(***************************************************************************)
(* A byte has an even number of values, so that a word splits into eight    *)
(* segments; the RAM holds every word that starts in the 512 MB kseg1       *)
(* reaches (in the program: 10^9 bytes against 2^29).                       *)
(***************************************************************************)
ASSUME ByteAssumption   == BYTE \in Nat /\ BYTE > 1 /\ WORD = 8 * SEG
ASSUME MemoryAssumption == MEMORY_SIZE \in Nat /\ MEMORY_SIZE >= SEG + 3

\* The contents of the RAM.
Memory == [PAddr -> Byte]

\* uint32_t addition, and the slip of a sum that is not truncated.
AddUntruncated(a, b) == a + b
Add(a, b) == (a + b) % WORD

\* The two's complement extension of a 16-bit immediate to 32 bits.
SignExtend(i) == IF i < HALF \div 2 THEN i ELSE i + (WORD - HALF)

(***************************************************************************)
(* vmemory_read_word: the word at four consecutive bytes, most significant  *)
(* first; no alignment is asked for.                                        *)
(***************************************************************************)
vmemory_read_word(m, a) ==
    ((m[a] * BYTE + m[a + 1]) * BYTE + m[a + 2]) * BYTE + m[a + 3]

(***************************************************************************)
(* vmemory_write_word: the four bytes of w, most significant first.         *)
(***************************************************************************)
vmemory_write_word_unreversed(m, w, a) ==    \* slip: bytes[i - address]
    [m EXCEPT ![a + 3] = w \div (BYTE * BYTE * BYTE),
              ![a + 2] = (w \div (BYTE * BYTE)) % BYTE,
              ![a + 1] = (w \div BYTE) % BYTE,
              ![a]     = w % BYTE]

vmemory_write_word(m, w, a) ==
    [m EXCEPT ![a]     = w \div (BYTE * BYTE * BYTE),
              ![a + 1] = (w \div (BYTE * BYTE)) % BYTE,
              ![a + 2] = (w \div BYTE) % BYTE,
              ![a + 3] = w % BYTE]
=============================================================================
