----------------------------- MODULE AddressMap -----------------------------
(***************************************************************************)
(* The virtual memory map of MIPS-vm v2.0: devices/vmemory/mapping.[ch],    *)
(* as it is built (TLB_PRESENT is 0).  Segments are counted in units of     *)
(* SEG = 2^29 bytes, the three top bits of an address.                      *)
(***************************************************************************)
EXTENDS MachineWord

CONSTANT KUSEG_OFFSET     \* 0x00100000 in the program

ASSUME OffsetAssumption == KUSEG_OFFSET \in 0 .. SEG

KSEG0_START == 4 * SEG
KSEG1_START == 5 * SEG
KSEG2_START == 6 * SEG

kuseg == 0 .. KSEG0_START - 1
kseg0 == KSEG0_START .. KSEG1_START - 1
kseg1 == KSEG1_START .. KSEG2_START - 1
kseg2 == KSEG2_START .. WORD - 1

(***************************************************************************)
(* address_translation: the physical address and whether the access goes    *)
(* through a cache.  Inside kseg0 the mask 0x7FFFFFFF strips the top bit,   *)
(* inside kseg1 the mask 0x1FFFFFFF strips the top three.  The last branch  *)
(* of the code (exit) has no address left.                                  *)
(***************************************************************************)
address_translation_one_mask(vaddr) ==    \* slip: one mask for both segments
    CASE vaddr \in kuseg -> [paddr |-> vaddr + KUSEG_OFFSET, cacheable |-> TRUE]
      [] vaddr \in kseg0 \cup kseg1 ->
             [paddr |-> vaddr - KSEG0_START, cacheable |-> vaddr \in kseg0]
      [] vaddr \in kseg2 -> [paddr |-> vaddr, cacheable |-> TRUE]

address_translation(vaddr) ==
    CASE vaddr \in kuseg -> [paddr |-> vaddr + KUSEG_OFFSET, cacheable |-> TRUE]
      [] vaddr \in kseg0 -> [paddr |-> vaddr - KSEG0_START,  cacheable |-> TRUE]
      [] vaddr \in kseg1 -> [paddr |-> vaddr - KSEG1_START,  cacheable |-> FALSE]
      [] vaddr \in kseg2 -> [paddr |-> vaddr,                cacheable |-> TRUE]

Cacheable(vaddr) == address_translation(vaddr).cacheable
Paddr(vaddr)     == address_translation(vaddr).paddr
=============================================================================
