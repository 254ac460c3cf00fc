-------------------------- MODULE MemoryMapProofs --------------------------
(***************************************************************************)
(* Lemmas about words, the RAM and the memory map, and the theorems of      *)
(* MemoryMap, for every BYTE, RAM size and kuseg offset the assumptions     *)
(* allow.                                                                   *)
(***************************************************************************)
EXTENDS MemoryMap, TLAPS

(***************************************************************************)
(* Multiplication by a natural number preserves order: what is needed to    *)
(* bound the digits of a word written in base BYTE.                         *)
(***************************************************************************)
LEMMA MonotoneProduct ==
    ASSUME NEW a \in Nat, NEW b \in Nat, NEW c \in Nat, a <= b
    PROVE  a * c <= b * c /\ a * c \in Nat
<1>1. PICK d \in Nat : b = a + d
  <2>1. b - a \in Nat /\ b = a + (b - a)
    OBVIOUS
  <2> QED
    BY <2>1
<1>2. b * c = a * c + d * c
  BY <1>1
<1>3. a * c \in Nat /\ d * c \in Nat
  BY Z3
<1> QED
  BY <1>2, <1>3

(***************************************************************************)
(* The sizes the constants stand for.                                       *)
(***************************************************************************)
LEMMA Sizes ==
    /\ BYTE \in Nat /\ BYTE >= 2
    /\ HALF \in Nat /\ HALF >= 4 /\ HALF >= BYTE
    /\ WORD \in Nat /\ WORD >= 16 /\ WORD >= HALF
    /\ SEG \in Nat /\ SEG >= 2 /\ WORD = 8 * SEG
<1>1. BYTE \in Nat /\ BYTE >= 2 /\ WORD = 8 * SEG
  BY ByteAssumption
<1>2. HALF \in Nat /\ 2 * BYTE <= HALF
  BY <1>1, MonotoneProduct DEF HALF
<1>3. WORD \in Nat /\ 4 * HALF <= WORD
  BY <1>1, <1>2, MonotoneProduct DEF WORD
<1>4. SEG \in Int
  BY <1>3 DEF SEG
<1> QED
  BY <1>1, <1>2, <1>3, <1>4

LEMMA AddIsWord == ASSUME NEW a \in Word, NEW b \in Word PROVE Add(a, b) \in Word
  BY Sizes DEF Add, Word

LEMMA SignExtendIsWord == ASSUME NEW i \in Half PROVE SignExtend(i) \in Word
  BY Sizes DEF SignExtend, Word, Half

LEMMA HalfIsWord == Half \subseteq Word /\ Byte \subseteq Word
  BY Sizes DEF Byte, Half, Word

(***************************************************************************)
(* lui and the byte-wise reading of a word both append a digit to a number. *)
(***************************************************************************)
LEMMA AppendDigit ==
    ASSUME NEW n \in Nat, NEW b \in Nat, NEW x \in 0 .. n - 1, NEW d \in 0 .. b - 1
    PROVE  x * b + d \in 0 .. n * b - 1
<1>1. x * b \in Nat /\ (x + 1) * b <= n * b
  BY MonotoneProduct
<1>2. (x + 1) * b = x * b + b
  OBVIOUS
<1>3. n * b \in Nat
  BY MonotoneProduct
<1> QED
  BY <1>1, <1>2, <1>3

LEMMA ShiftedHalfIsWord == ASSUME NEW i \in Half PROVE i * HALF \in Word
  BY Sizes, AppendDigit DEF Half, Word, WORD

(***************************************************************************)
(* Four consecutive bytes are a word, wherever they start.                  *)
(***************************************************************************)
LEMMA ReadIsWord ==
    ASSUME NEW m \in Memory, NEW a \in 0 .. SEG - 1
    PROVE  vmemory_read_word(m, a) \in Word
<1> DEFINE w0 == m[a]
           w1 == w0 * BYTE + m[a + 1]
           w2 == w1 * BYTE + m[a + 2]
           w3 == w2 * BYTE + m[a + 3]
<1>1. a \in PAddr /\ a + 1 \in PAddr /\ a + 2 \in PAddr /\ a + 3 \in PAddr
  BY Sizes, MemoryAssumption DEF PAddr
<1>2. m[a] \in Byte /\ m[a + 1] \in Byte /\ m[a + 2] \in Byte /\ m[a + 3] \in Byte
  BY <1>1 DEF Memory
<1>3. w1 \in 0 .. HALF - 1
  BY <1>2, Sizes, AppendDigit DEF Byte, HALF
<1>4. w2 \in 0 .. HALF * BYTE - 1
  BY <1>2, <1>3, Sizes, AppendDigit DEF Byte
<1>5. HALF * BYTE \in Nat
  BY Sizes, MonotoneProduct
<1>6. w3 \in 0 .. HALF * BYTE * BYTE - 1
  <2> HIDE DEF w2
  <2> QED BY <1>2, <1>4, <1>5, Sizes, AppendDigit DEF Byte
<1>7. HALF * BYTE * BYTE = WORD
  BY Sizes DEF HALF, WORD
<1> QED
  BY <1>6, <1>7 DEF vmemory_read_word, Word

(***************************************************************************)
(* Storing a word leaves a RAM of bytes.                                    *)
(***************************************************************************)
LEMMA WriteIsMemory ==
    ASSUME NEW m \in Memory, NEW w \in Word, NEW a \in 0 .. SEG - 1
    PROVE  vmemory_write_word(m, w, a) \in Memory
<1>1. w \in Nat /\ w < WORD /\ BYTE \in Nat /\ BYTE > 0
  BY Sizes DEF Word
<1>2. /\ w % BYTE \in Byte
      /\ (w \div BYTE) % BYTE \in Byte
      /\ (w \div (BYTE * BYTE)) % BYTE \in Byte
  BY <1>1, Sizes DEF Byte, HALF
<1>3. w \div (BYTE * BYTE * BYTE) \in Byte
  <2> DEFINE c == BYTE * BYTE * BYTE
  <2>1. c \in Nat /\ c > 0
    BY Sizes, MonotoneProduct DEF HALF
  <2>2. WORD = BYTE * c
    BY Sizes DEF HALF, WORD
  <2>3. w \div c \in Nat /\ c * (w \div c) <= w
    BY <2>1, <1>1
  <2>4. w \div c < BYTE
    <3>1. SUFFICES ASSUME w \div c >= BYTE PROVE FALSE
      BY <2>3, <1>1
    <3>2. BYTE * c <= (w \div c) * c
      BY <3>1, <2>1, <2>3, <1>1, MonotoneProduct
    <3> QED
      BY <3>2, <2>1, <2>2, <2>3, <1>1
  <2> QED
    BY <2>3, <2>4, <1>1 DEF Byte
<1> QED
  BY <1>2, <1>3 DEF vmemory_write_word, Memory

(***************************************************************************)
(* The segments exhaust the words, so address_translation never reaches its *)
(* exit branch; an uncached access stays in the first SEG bytes of the RAM. *)
(***************************************************************************)
THEOREM SegmentsExhaustWords ==
    ASSUME NEW v \in Word
    PROVE  \/ v \in kuseg /\ address_translation(v) = [paddr |-> v + KUSEG_OFFSET, cacheable |-> TRUE]
           \/ v \in kseg0 /\ address_translation(v) = [paddr |-> v - KSEG0_START, cacheable |-> TRUE]
           \/ v \in kseg1 /\ address_translation(v) = [paddr |-> v - KSEG1_START, cacheable |-> FALSE]
           \/ v \in kseg2 /\ address_translation(v) = [paddr |-> v, cacheable |-> TRUE]
<1>1. /\ v \in kuseg \/ v \in kseg0 \/ v \in kseg1 \/ v \in kseg2
      /\ v \in kuseg => v \notin kseg0 /\ v \notin kseg1 /\ v \notin kseg2
      /\ v \in kseg0 => v \notin kseg1 /\ v \notin kseg2
      /\ v \in kseg1 => v \notin kseg2
  BY Sizes DEF Word, kuseg, kseg0, kseg1, kseg2, KSEG0_START, KSEG1_START, KSEG2_START
<1> QED
  BY <1>1 DEF address_translation

LEMMA UncachedAccess ==
    ASSUME NEW v \in Word
    PROVE  /\ Cacheable(v) \in BOOLEAN
           /\ Cacheable(v) <=> v \notin kseg1
           /\ ~Cacheable(v) => Paddr(v) \in 0 .. SEG - 1
<1>1. v \in kseg1 => v - KSEG1_START \in 0 .. SEG - 1
  BY Sizes DEF kseg1, KSEG1_START, KSEG2_START
<1>2. v \in kuseg \/ v \in kseg0 \/ v \in kseg2 => v \notin kseg1
  BY Sizes DEF Word, kuseg, kseg0, kseg1, kseg2, KSEG0_START, KSEG1_START, KSEG2_START
<1>3. CASE v \in kseg1
  <2>1. address_translation(v) = [paddr |-> v - KSEG1_START, cacheable |-> FALSE]
    BY <1>2, <1>3, SegmentsExhaustWords
  <2> QED
    BY <1>1, <1>3, <2>1 DEF Cacheable, Paddr
<1>4. CASE v \notin kseg1
  <2>1. address_translation(v).cacheable = TRUE
    BY <1>4, SegmentsExhaustWords
  <2> QED
    BY <1>4, <2>1 DEF Cacheable
<1> QED
  BY <1>3, <1>4

(***************************************************************************)
(* Division.                                                                *)
(***************************************************************************)
LEMMA Division ==
    ASSUME NEW w \in Nat, NEW c \in Nat, c > 0
    PROVE  w \div c \in Nat /\ w % c \in 0 .. c - 1 /\ w = (w \div c) * c + (w % c)
<1>1. w \div c \in Nat
  OBVIOUS
<1>2. w % c \in 0 .. c - 1
  OBVIOUS
<1>3. w = c * (w \div c) + (w % c)
  OBVIOUS
<1>4. c * (w \div c) = (w \div c) * c
  BY <1>1
<1> QED
  BY <1>1, <1>2, <1>3, <1>4

LEMMA QuotientIsUnique ==
    ASSUME NEW w \in Nat, NEW c \in Nat, c > 0, NEW q \in Nat, NEW r \in 0 .. c - 1,
           w = q * c + r
    PROVE  w \div c = q /\ w % c = r
<1> DEFINE p == w \div c
           s == w % c
<1>1. p \in Nat /\ s \in 0 .. c - 1 /\ w = p * c + s
  BY Division
<1> HIDE DEF p, s
<1>2. p * c \in Nat /\ q * c \in Nat
  BY <1>1, MonotoneProduct
<1>3. ~(p < q)
  <2> SUFFICES ASSUME p < q PROVE FALSE
    OBVIOUS
  <2>1. (p + 1) * c <= q * c
    BY <1>1, MonotoneProduct
  <2>2. (p + 1) * c = p * c + c
    BY <1>1
  <2> QED
    BY <2>1, <2>2, <1>1, <1>2
<1>4. ~(q < p)
  <2> SUFFICES ASSUME q < p PROVE FALSE
    OBVIOUS
  <2>1. (q + 1) * c <= p * c
    BY <1>1, MonotoneProduct
  <2>2. (q + 1) * c = q * c + c
    OBVIOUS
  <2> QED
    BY <2>1, <2>2, <1>1, <1>2
<1>5. p = q
  BY <1>1, <1>3, <1>4
<1> QED
  BY <1>5, <1>1, <1>2 DEF p, s

LEMMA QuotientOfQuotient ==
    ASSUME NEW w \in Nat, NEW c \in Nat, c > 0, NEW b \in Nat, b > 0
    PROVE  w \div (c * b) = (w \div c) \div b
<1> DEFINE u == w \div c
           q == u \div b
           r == (u % b) * c + (w % c)
<1>1. u \in Nat /\ w % c \in 0 .. c - 1 /\ w = u * c + (w % c)
  BY Division
<1>2. q \in Nat /\ u % b \in 0 .. b - 1 /\ u = q * b + (u % b)
  BY <1>1, Division
<1>3. r \in 0 .. b * c - 1
  BY <1>1, <1>2, AppendDigit
<1>4. c * b \in Nat /\ c * b > 0 /\ c * b = b * c
  BY MonotoneProduct
<1>5. w = q * (c * b) + r
  <2> DEFINE d == u % b
  <2>1. d \in Nat
    BY <1>2
  <2>2. u * c = (q * b + d) * c
    BY <1>2
  <2> HIDE DEF u, q, d
  <2>3. (q * b + d) * c = q * (c * b) + d * c
    BY <1>2, <2>1
  <2>4. d * c \in Nat /\ q * (c * b) \in Nat
    BY <1>2, <1>4, <2>1, MonotoneProduct
  <2>5. w = q * (c * b) + d * c + (w % c)
    BY <1>1, <2>2, <2>3, <2>4
  <2>6. r = d * c + (w % c)
    BY DEF d
  <2> HIDE DEF r
  <2> QED
    BY <1>1, <2>4, <2>5, <2>6
<1> HIDE DEF u, q, r
<1>6. w \div (c * b) = q
  BY <1>2, <1>3, <1>4, <1>5, QuotientIsUnique
<1> QED
  BY <1>6 DEF u, q

(***************************************************************************)
(* The four bytes of a word put together again.                             *)
(***************************************************************************)
LEMMA FourDigits ==
    ASSUME NEW w \in Nat
    PROVE  (((w \div (BYTE * BYTE * BYTE)) * BYTE + ((w \div (BYTE * BYTE)) % BYTE)) * BYTE
              + ((w \div BYTE) % BYTE)) * BYTE + (w % BYTE) = w
<1> DEFINE u == w \div BYTE
           v == w \div (BYTE * BYTE)
           t == w \div (BYTE * BYTE * BYTE)
<1>1. BYTE \in Nat /\ BYTE > 0 /\ BYTE * BYTE \in Nat /\ BYTE * BYTE > 0
  BY Sizes DEF HALF
<1>2. u \in Nat /\ w = u * BYTE + (w % BYTE)
  BY <1>1, Division
<1>3. v = u \div BYTE
  BY <1>1, QuotientOfQuotient
<1>4. t = v \div BYTE
  BY <1>1, QuotientOfQuotient
<1> HIDE DEF u, v, t
<1>5. v \in Nat /\ u = v * BYTE + (u % BYTE)
  BY <1>1, <1>2, <1>3, Division
<1>6. v = t * BYTE + (v % BYTE)
  BY <1>1, <1>4, <1>5, Division
<1>7. ((t * BYTE + (v % BYTE)) * BYTE + (u % BYTE)) * BYTE + (w % BYTE) = w
  BY <1>2, <1>5, <1>6
<1> QED
  BY <1>7 DEF u, v, t

(***************************************************************************)
(* The state: two words.                                                    *)
(***************************************************************************)
Walkers == va \in Word /\ vb \in Word

LEMMA WalkersStay == Walks => []Walkers
<1>1. Start => Walkers
  BY Sizes DEF Start, Walkers, Word
<1>2. Walkers /\ [Walk]_<<va, vb>> => Walkers'
  <2> SUFFICES ASSUME Walkers, [Walk]_<<va, vb>> PROVE Walkers'
    OBVIOUS
  <2>1. 1 \in Word
    BY Sizes DEF Word
  <2> QED
    BY <2>1, AddIsWord DEF Walkers, Walk, WalkA, WalkB
<1> QED
  BY <1>1, <1>2, PTL DEF Walks

(***************************************************************************)
(* Two uncached addresses never share a byte's place, and each has a word   *)
(* inside the RAM (mapping.c).                                              *)
(***************************************************************************)
THEOREM UncachedWindow == Walks => []UncachedIsOneToOne
<1>1. Walkers => UncachedIsOneToOne
  <2> SUFFICES ASSUME Walkers PROVE UncachedIsOneToOne
    OBVIOUS
  <2>1. ASSUME NEW v \in Word, ~Cacheable(v)
        PROVE  v \in kseg1 /\ Paddr(v) = v - KSEG1_START /\ Paddr(v) \in 0 .. SEG - 1
    <3>1. v \in kseg1 /\ Paddr(v) \in 0 .. SEG - 1
      BY <2>1, UncachedAccess
    <3>2. v \notin kuseg /\ v \notin kseg0 /\ v \notin kseg2
      BY <3>1, Sizes DEF kuseg, kseg0, kseg1, kseg2, KSEG0_START, KSEG1_START, KSEG2_START
    <3> QED
      BY <3>1, <3>2, SegmentsExhaustWords DEF Paddr
  <2>2. ~Cacheable(va) => {Paddr(va) + i : i \in 0 .. 3} \subseteq PAddr
    BY <2>1, Sizes, MemoryAssumption DEF Walkers, PAddr
  <2>3. ~Cacheable(va) /\ ~Cacheable(vb) /\ Paddr(va) = Paddr(vb) => va = vb
    BY <2>1, Sizes DEF Walkers, kseg1, KSEG1_START, KSEG2_START
  <2> QED
    BY <2>2, <2>3 DEF UncachedIsOneToOne
<1> QED
  BY <1>1, WalkersStay, PTL

(***************************************************************************)
(* vmemory_read_word after vmemory_write_word gives the word, big-endian,   *)
(* and no other byte has changed (vmemory.c).                               *)
(***************************************************************************)
THEOREM StoresAreLoaded == Walks => []StoreThenLoad
<1>1. Walkers => StoreThenLoad
  <2> DEFINE p == Paddr(vb)
             m == vmemory_write_word(Pattern, va, p)
  <2> SUFFICES ASSUME Walkers, ~Cacheable(vb)
               PROVE  /\ vmemory_read_word(m, p) = va
                      /\ m[p] = va \div (BYTE * HALF)
                      /\ \A a \in PAddr : a \notin p .. p + 3 => m[a] = Pattern[a]
    BY DEF StoreThenLoad
  <2>1. p \in 0 .. SEG - 1
    BY UncachedAccess DEF Walkers
  <2>2. p \in PAddr /\ p + 1 \in PAddr /\ p + 2 \in PAddr /\ p + 3 \in PAddr
    BY <2>1, Sizes, MemoryAssumption DEF PAddr
  <2>3. p # p + 1 /\ p # p + 2 /\ p # p + 3 /\ p + 1 # p + 2 /\ p + 1 # p + 3 /\ p + 2 # p + 3
    BY <2>1, Sizes
  <2> HIDE DEF p
  <2>4. /\ m[p]     = va \div (BYTE * BYTE * BYTE)
        /\ m[p + 1] = (va \div (BYTE * BYTE)) % BYTE
        /\ m[p + 2] = (va \div BYTE) % BYTE
        /\ m[p + 3] = va % BYTE
        /\ \A a \in PAddr : a \notin {p, p + 1, p + 2, p + 3} => m[a] = Pattern[a]
    <3> DEFINE b0 == va \div (BYTE * BYTE * BYTE)
               b1 == (va \div (BYTE * BYTE)) % BYTE
               b2 == (va \div BYTE) % BYTE
               b3 == va % BYTE
    <3>1. m = [Pattern EXCEPT ![p] = b0, ![p + 1] = b1, ![p + 2] = b2, ![p + 3] = b3]
      BY DEF vmemory_write_word
    <3>2. DOMAIN Pattern = PAddr
      BY DEF Pattern
    <3> HIDE DEF m, b0, b1, b2, b3
    <3>3. m[p] = b0 /\ m[p + 1] = b1 /\ m[p + 2] = b2 /\ m[p + 3] = b3
      BY <2>2, <2>3, <3>1, <3>2
    <3>4. \A a \in PAddr : a \notin {p, p + 1, p + 2, p + 3} => m[a] = Pattern[a]
      BY <3>1, <3>2
    <3> QED
      BY <3>3, <3>4 DEF b0, b1, b2, b3
  <2> HIDE DEF m
  <2>5. vmemory_read_word(m, p) = va
    <3>1. va \in Nat
      BY Sizes DEF Walkers, Word
    <3> QED
      BY <2>4, <3>1, FourDigits DEF vmemory_read_word
  <2>6. BYTE * HALF = BYTE * BYTE * BYTE
    BY Sizes DEF HALF
  <2>7. \A a \in PAddr : a \notin p .. p + 3 => m[a] = Pattern[a]
    <3>1. p \in p .. p + 3 /\ p + 1 \in p .. p + 3 /\ p + 2 \in p .. p + 3 /\ p + 3 \in p .. p + 3
      BY <2>1
    <3> QED
      BY <2>4, <3>1
  <2> QED
    BY <2>4, <2>5, <2>6, <2>7
<1> QED
  BY <1>1, WalkersStay, PTL
=============================================================================
