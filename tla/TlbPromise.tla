----------------------------- MODULE TlbPromise -----------------------------
(***************************************************************************)
(* What a TLB is to the program that manages it, whatever that program      *)
(* does: a set of pages, each under its tag, the page number and the        *)
(* address space it belongs to.  Where an entry lies plays no part; the     *)
(* program may install two pages under one tag, and is then answered by     *)
(* either.  What a page that is not there is translated to is left open,    *)
(* because vtlb.c leaves it open.                                           *)
(***************************************************************************)
EXTENDS Naturals

CONSTANTS Vpn, Asid, Pfn, Mode

VARIABLES table,            \* the pages that are there, with their tags
          hi, lo,           \* the registers EntryHi and EntryLo
          answer            \* the last answer to a translation or a probe

Hi == [vpn : Vpn, asid : Asid]
Lo == [pfn : Pfn, n : BOOLEAN, d : BOOLEAN, v : BOOLEAN, g : BOOLEAN]
Page == [hi : Hi, lo : Lo]

\* An address and whether it is cached, or a refill exception.
Refill == [refill |-> TRUE]
Frame(page) == [pfn |-> page.lo.pfn, cacheable |-> ~page.lo.n]
Outcome(page, mode) ==
    IF page.lo.v /\ (mode = "STORE" => page.lo.d) THEN Frame(page) ELSE Refill
Anything == [pfn : Pfn, cacheable : BOOLEAN] \cup {Refill}

Hits(vpn) == {page \in table : page.hi.vpn = vpn /\ (page.lo.g \/ page.hi.asid = hi.asid)}

Set == /\ hi' \in Hi /\ lo' \in Lo
       /\ UNCHANGED <<table, answer>>

\* A page is installed; at most one other loses its place.
Install ==
    /\ \E lost \in SUBSET table :
          /\ \A p, q \in lost : p = q
          /\ table' = (table \ lost) \cup {[hi |-> hi, lo |-> lo]}
    /\ UNCHANGED <<hi, lo, answer>>

Read == /\ \E page \in table : hi' = page.hi /\ lo' = page.lo
        /\ UNCHANGED <<table, answer>>

Probe == /\ answer' = [found |-> \E page \in table : page.hi = hi]
         /\ UNCHANGED <<table, hi, lo>>

Translate(vpn, mode) ==
    /\ \E out \in IF Hits(vpn) = {} THEN Anything
                  ELSE {Outcome(page, mode) : page \in Hits(vpn)} :
          answer' = [vpn |-> vpn, mode |-> mode, out |-> out]
    /\ UNCHANGED <<table, hi, lo>>

Next == \/ Set \/ Install \/ Read \/ Probe
        \/ \E vpn \in Vpn, mode \in Mode : Translate(vpn, mode)

vars == <<table, hi, lo, answer>>

\* At first nothing is there that translates.
Init == table \subseteq Page /\ \A page \in table : ~page.lo.v

Tlb == Init /\ [][Next]_vars
=============================================================================
