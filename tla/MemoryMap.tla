----------------------------- MODULE MemoryMap -----------------------------
(***************************************************************************)
(* The memory map and the RAM behind it, looked at through two words that   *)
(* walk independently over all their values: as virtual addresses, and as   *)
(* a value stored at an address.                                            *)
(***************************************************************************)
EXTENDS AddressMap

VARIABLES va, vb

Start == va = 0 /\ vb = 0

WalkA == va' = Add(va, 1) /\ vb' = vb
WalkB == vb' = Add(vb, 1) /\ va' = va

Walk == WalkA \/ WalkB

Walks == Start /\ [][Walk]_<<va, vb>>

(***************************************************************************)
(* Uncached accesses, the only ones that reach the RAM (vcpu.c:193-200,     *)
(* 299-317), are as many bytes as there are addresses: two of them meet     *)
(* only when they are the same address, and a word at each fits the RAM.    *)
(***************************************************************************)
UncachedIsOneToOne ==
    /\ ~Cacheable(va) => {Paddr(va) + i : i \in 0 .. 3} \subseteq PAddr
    /\ ~Cacheable(va) /\ ~Cacheable(vb) /\ Paddr(va) = Paddr(vb) => va = vb

(***************************************************************************)
(* A stored word is read back at its address, and no word beside it has     *)
(* changed (vmemory.c:35-59 turn the host's byte order round twice).        *)
(***************************************************************************)
Pattern == [a \in PAddr |-> a % BYTE]
StoreThenLoad ==
    ~Cacheable(vb) =>
        LET p == Paddr(vb)
            m == vmemory_write_word(Pattern, va, p)
        IN  /\ vmemory_read_word(m, p) = va
            /\ m[p] = va \div (BYTE * HALF)     \* big-endian
            /\ \A a \in PAddr : a \notin p .. p + 3 => m[a] = Pattern[a]
=============================================================================
