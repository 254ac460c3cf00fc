-------------------------------- MODULE VTlb --------------------------------
(***************************************************************************)
(* The TLB of MIPS-vm v2.0, devices/vmemory/vtlb.[ch].  An entry is a tag   *)
(* (EntryHi: page and address space) and a page (EntryLo: frame, N, D, V,   *)
(* G).  The offset in the page passes a translation unchanged, and the      *)
(* segment only words a message; both are left out.                         *)
(*                                                                          *)
(* The registers' and the TLB's instructions (mtc0, tlbwi, tlbwr, tlbr,     *)
(* tlbp) are what vtlb.h is written for; no instruction of the vCPU is one, *)
(* so the caller, a kernel, is external.  It is any kernel: it writes any   *)
(* entry at any time, and may write one tag to many entries without a       *)
(* probe, as the boot code does (sdk/demo/hello_world/src/boot/start.s:     *)
(* 97-113).  An index has six bits (vtlb.h:31) and lies in the table.       *)
(*                                                                          *)
(* mmu_regs[MMU_REGISTER_ENTRYHI] is behind the array (10 of 5): the word   *)
(* there keeps what is written to it, or belongs to something else that     *)
(* writes it too.  Either way EntryHi may change at any time.               *)
(***************************************************************************)
EXTENDS Naturals, FiniteSetsExt

CONSTANTS TLB_SIZE,         \* 64 in the program
          Vpn, Asid, Pfn,
          Los               \* the EntryLo values the kernel writes

Mode  == {"LOAD", "STORE"}
Index == 0 .. TLB_SIZE - 1
NONE  == 255                \* (uint8_t)-1

Hi == [vpn : Vpn, asid : Asid]
Lo == [pfn : Pfn, n : BOOLEAN, d : BOOLEAN, v : BOOLEAN, g : BOOLEAN]

ASSUME TlbAssumption == /\ TLB_SIZE \in 1 .. NONE
                        /\ 0 \in Vpn /\ 0 \in Asid /\ 0 \in Pfn
                        /\ Los \subseteq Lo

VARIABLES entries, EntryHi, EntryLo,
          answer            \* the last translation, or index looked up

vars == <<entries, EntryHi, EntryLo, answer>>

ZeroHi == [vpn |-> 0, asid |-> 0]
ZeroLo == [pfn |-> 0, n |-> FALSE, d |-> FALSE, v |-> FALSE, g |-> FALSE]

Refill == [refill |-> TRUE]       \* 0xFFFFFFFF

\* vtlb_init; the registers of a static variable are zero.
vtlb_init ==
    /\ entries = [i \in Index |-> [hi |-> ZeroHi, lo |-> ZeroLo]]
    /\ EntryHi = ZeroHi /\ EntryLo = ZeroLo
    /\ answer = [index |-> NONE]

(***************************************************************************)
(* vtlb_translate searches all entries, so that the last match stands.  The *)
(* index of no match, 255, never equals -1: the entry used is then whatever *)
(* lies behind the table.                                                   *)
(***************************************************************************)
MatchesAnySpace(vpn) ==         \* slip: the ASID is not compared
    {i \in Index : entries[i].hi.vpn = vpn}

Matches(vpn) ==
    {i \in Index : /\ entries[i].hi.vpn = vpn
                   /\ entries[i].lo.g \/ entries[i].hi.asid = EntryHi.asid}

Found(vpn) == IF Matches(vpn) = {} THEN Lo ELSE {entries[Max(Matches(vpn))].lo}

Outcome(lo, mode) ==
    IF ~lo.v \/ (mode = "STORE" /\ ~lo.d) THEN Refill
    ELSE [pfn |-> lo.pfn, cacheable |-> ~lo.n]

vtlb_translate(vpn, mode) ==
    /\ \E out \in {Outcome(lo, mode) : lo \in Found(vpn)} :
          answer' = [vpn |-> vpn, mode |-> mode, out |-> out]
    /\ UNCHANGED <<entries, EntryHi, EntryLo>>

(***************************************************************************)
(* vtlb_lookup takes the first entry with the tag in EntryHi and does not   *)
(* look at G.                                                               *)
(***************************************************************************)
vtlb_lookup_runs_out ==         \* slip: past the last entry without a match
    LET SameTag == {i \in Index : entries[i].hi = EntryHi}
    IN  IF SameTag = {} THEN TLB_SIZE ELSE Min(SameTag)

vtlb_lookup ==
    LET SameTag == {i \in Index : entries[i].hi = EntryHi}
    IN  IF SameTag = {} THEN NONE ELSE Min(SameTag)

vtlb_write(i) ==
    /\ entries' = [entries EXCEPT ![i] = [hi |-> EntryHi, lo |-> EntryLo]]
    /\ UNCHANGED <<EntryHi, EntryLo, answer>>

vtlb_read(i) ==
    /\ EntryHi' = entries[i].hi /\ EntryLo' = entries[i].lo
    /\ UNCHANGED <<entries, answer>>

\* mtc0, and whatever else writes the word EntryHi lies in.
SetEntryHi == EntryHi' \in Hi /\ UNCHANGED <<entries, EntryLo, answer>>
SetEntryLo == EntryLo' \in Los /\ UNCHANGED <<entries, EntryHi, answer>>

Probe == answer' = [index |-> vtlb_lookup] /\ UNCHANGED <<entries, EntryHi, EntryLo>>

Next == \/ SetEntryHi \/ SetEntryLo \/ Probe
        \/ \E i \in Index : vtlb_write(i) \/ vtlb_read(i)
        \/ \E vpn \in Vpn, mode \in Mode : vtlb_translate(vpn, mode)

Spec == vtlb_init /\ [][Next]_vars
-----------------------------------------------------------------------------
Looked == "index" \in DOMAIN answer

(***************************************************************************)
(* Registers, entries and answers have their types; an index looked up lies *)
(* in the table or is the mark of none (vtlb.h:80-81).                      *)
(***************************************************************************)
TypeOK ==
    /\ entries \in [Index -> [hi : Hi, lo : Los \cup {ZeroLo}]]
    /\ EntryHi \in Hi /\ EntryLo \in Los \cup {ZeroLo}
    /\ answer \in [index : Index \cup {NONE}]
            \cup [vpn : Vpn, mode : Mode, out : [pfn : Pfn, cacheable : BOOLEAN] \cup {Refill}]

Promise == INSTANCE TlbPromise WITH
    table <- {entries[i] : i \in Index},
    hi <- EntryHi, lo <- EntryLo,
    answer <- IF Looked THEN [found |-> answer.index # NONE] ELSE answer

(***************************************************************************)
(* The TLB is a set of pages under their tags, for every kernel, also one   *)
(* that writes a tag twice: a page that is there is translated in its own   *)
(* address space, or in all if it is global, until it is replaced; a store  *)
(* needs D; what calloc left translates nothing; a probe finds the tags     *)
(* that are there; an installed page costs at most one other its place.     *)
(***************************************************************************)
ImplementsTlb == Promise!Tlb

(***************************************************************************)
(* "If entry not found, we must signal a TLB refill exception" (vtlb.c:44). *)
(***************************************************************************)
MissesRefill ==
    [][\A vpn \in Vpn, mode \in Mode :
          vtlb_translate(vpn, mode) /\ Matches(vpn) = {} => answer'.out = Refill]_vars
=============================================================================
