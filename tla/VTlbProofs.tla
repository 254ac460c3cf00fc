----------------------------- MODULE VTlbProofs -----------------------------
(***************************************************************************)
(* Proofs about the TLB: its types, and that it implements a set of pages   *)
(* found by their tag, for every size up to 255 and every kernel.           *)
(***************************************************************************)
EXTENDS VTlb, FiniteSetTheorems, WellFoundedInduction, TLAPS

(***************************************************************************)
(* The smallest and the largest of some indices are indices among them.     *)
(***************************************************************************)
LEMMA MinIsIn ==
    ASSUME NEW S \in SUBSET Index, S # {}
    PROVE  Min(S) \in S
<1>1. S \subseteq Nat
  BY TlbAssumption DEF Index
<1>2. PICK x \in S : \A y \in S : ~(<<y, x>> \in OpToRel(<, Nat))
  BY <1>1, WFMin, NatLessThanWellFounded
<1>3. \A y \in S : x <= y
  <2> TAKE y \in S
  <2>1. ~(y < x)
    BY <1>1, <1>2 DEF OpToRel
  <2> QED
    BY <1>1, <2>1
<1> QED
  BY <1>3 DEF Min

LEMMA MaxIsIn ==
    ASSUME NEW S \in SUBSET Index, S # {}
    PROVE  Max(S) \in S
<1> DEFINE T == {n \in Nat : TLB_SIZE - n \in S}
<1>1. T # {}
  <2>1. PICK i \in S : TRUE
    OBVIOUS
  <2>2. TLB_SIZE - i \in Nat /\ TLB_SIZE - (TLB_SIZE - i) = i
    BY <2>1, TlbAssumption DEF Index, NONE
  <2> QED
    BY <2>1, <2>2
<1>2. PICK n \in T : \A m \in T : ~(<<m, n>> \in OpToRel(<, Nat))
  <2>1. T \subseteq Nat
    OBVIOUS
  <2> QED
    BY <1>1, <2>1, WFMin, NatLessThanWellFounded
<1>3. \A y \in S : TLB_SIZE - n >= y
  <2> TAKE y \in S
  <2>1. TLB_SIZE - y \in T /\ y \in Nat /\ TLB_SIZE \in Nat
    BY TlbAssumption DEF Index, NONE
  <2>2. ~(TLB_SIZE - y < n)
    BY <1>2, <2>1 DEF OpToRel
  <2> QED
    BY <2>1, <2>2
<1>4. TLB_SIZE - n \in S
  BY <1>2
<1> QED
  BY <1>3, <1>4 DEF Max

(***************************************************************************)
(* Everything a page may be, and what a translation may give.               *)
(***************************************************************************)
LEMMA PagesAreLo == Los \cup {ZeroLo} \subseteq Lo
<1>1. ZeroLo \in Lo
  <2>1. 0 \in Pfn
    BY TlbAssumption
  <2> QED
    BY <2>1 DEF Lo, ZeroLo
<1> QED
  BY <1>1, TlbAssumption

LEMMA MatchIsMatch ==
    ASSUME NEW vpn, Matches(vpn) # {}
    PROVE  Max(Matches(vpn)) \in Matches(vpn)
<1>1. Matches(vpn) \in SUBSET Index
  BY DEF Matches
<1> QED
  BY <1>1, MaxIsIn

LEMMA FoundInLo ==
    ASSUME TypeOK, NEW vpn PROVE Found(vpn) \subseteq Lo
<1>1. CASE Matches(vpn) = {}
  BY <1>1 DEF Found
<1>2. CASE Matches(vpn) # {}
  <2>1. Max(Matches(vpn)) \in Index
    BY <1>2, MatchIsMatch DEF Matches
  <2> QED
    BY <1>2, <2>1, PagesAreLo DEF Found, TypeOK
<1> QED
  BY <1>1, <1>2

LEMMA OutcomeType ==
    ASSUME NEW lo \in Lo, NEW mode
    PROVE  Outcome(lo, mode) \in [pfn : Pfn, cacheable : BOOLEAN] \cup {Refill}
  BY DEF Outcome, Lo

(***************************************************************************)
(* A probe gives an entry with the tag in EntryHi, or the mark of none, and *)
(* that only if there is none.                                              *)
(***************************************************************************)
LEMMA LookupIsRight ==
    /\ vtlb_lookup \in Index \cup {NONE}
    /\ vtlb_lookup # NONE <=> \E i \in Index : entries[i].hi = EntryHi
<1> DEFINE Tagged == {i \in Index : entries[i].hi = EntryHi}
<1>n. NONE \notin Index
  BY TlbAssumption DEF NONE, Index
<1>1. CASE Tagged = {}
  BY <1>1, <1>n DEF vtlb_lookup
<1>2. CASE Tagged # {}
  <2>1. Tagged \in SUBSET Index
    OBVIOUS
  <2> HIDE DEF Tagged
  <2>2. Min(Tagged) \in Tagged
    BY <1>2, <2>1, MinIsIn
  <2>3. vtlb_lookup = Min(Tagged)
    BY <1>2 DEF vtlb_lookup, Tagged
  <2> QED
    BY <1>2, <1>n, <2>2, <2>3 DEF Tagged
<1> QED
  BY <1>1, <1>2

(***************************************************************************)
(* The types, which are inductive by themselves.                            *)
(***************************************************************************)
LEMMA TypeInit == vtlb_init => TypeOK
<1> SUFFICES ASSUME vtlb_init PROVE TypeOK
  OBVIOUS
<1>1. ZeroHi \in Hi
  BY TlbAssumption DEF Hi, ZeroHi
<1>2. answer \in [index : Index \cup {NONE}]
  BY DEF vtlb_init
<1>3. entries \in [Index -> [hi : Hi, lo : Los \cup {ZeroLo}]]
  BY <1>1 DEF vtlb_init
<1> QED
  BY <1>1, <1>2, <1>3 DEF vtlb_init, TypeOK

LEMMA TypeInductive == TypeOK /\ [Next]_vars => TypeOK'
<1> SUFFICES ASSUME TypeOK, [Next]_vars PROVE TypeOK'
  OBVIOUS
<1>1. CASE SetEntryHi
  BY <1>1 DEF SetEntryHi, TypeOK
<1>2. CASE SetEntryLo
  BY <1>2 DEF SetEntryLo, TypeOK
<1>3. CASE Probe
  <2>1. UNCHANGED <<entries, EntryHi, EntryLo>> /\ answer' = [index |-> vtlb_lookup]
    BY <1>3 DEF Probe
  <2>2. answer' \in [index : Index \cup {NONE}]
    BY <2>1, LookupIsRight
  <2> QED
    BY <2>1, <2>2 DEF TypeOK
<1>4. ASSUME NEW i \in Index, vtlb_write(i) PROVE TypeOK'
  BY <1>4 DEF vtlb_write, TypeOK
<1>5. ASSUME NEW i \in Index, vtlb_read(i) PROVE TypeOK'
  BY <1>5 DEF vtlb_read, TypeOK
<1>6. ASSUME NEW vpn \in Vpn, NEW mode \in Mode, vtlb_translate(vpn, mode) PROVE TypeOK'
  <2>1. PICK lo \in Found(vpn) :
          answer' = [vpn |-> vpn, mode |-> mode, out |-> Outcome(lo, mode)]
    BY <1>6 DEF vtlb_translate
  <2>2. Outcome(lo, mode) \in [pfn : Pfn, cacheable : BOOLEAN] \cup {Refill}
    BY FoundInLo, OutcomeType
  <2>3. answer' \in [vpn : Vpn, mode : Mode, out : [pfn : Pfn, cacheable : BOOLEAN] \cup {Refill}]
    BY <2>1, <2>2
  <2>4. UNCHANGED <<entries, EntryHi, EntryLo>>
    BY <1>6 DEF vtlb_translate
  <2> QED
    BY <2>3, <2>4 DEF TypeOK
<1>7. CASE UNCHANGED vars
  BY <1>7 DEF vars, TypeOK
<1> QED
  BY <1>1, <1>2, <1>3, <1>4, <1>5, <1>6, <1>7 DEF Next

(***************************************************************************)
(* Registers and entries keep their types: what lies behind the table is    *)
(* read by a translation and never written into it, and an index looked up  *)
(* is never one behind the table but 255.                                   *)
(***************************************************************************)
THEOREM TypeCorrectTlb == Spec => []TypeOK
  BY TypeInit, TypeInductive, PTL DEF Spec

(***************************************************************************)
(* The set of pages, and what the promise shows of the last answer.         *)
(***************************************************************************)
Table == {entries[i] : i \in Index}
Shown == IF Looked THEN [found |-> answer.index # NONE] ELSE answer

LEMMA PromiseTypes ==
    /\ Promise!Hi = Hi /\ Promise!Lo = Lo /\ Promise!Page = [hi : Hi, lo : Lo]
    /\ Promise!Refill = Refill
  BY DEF Promise!Hi, Hi, Promise!Lo, Lo, Promise!Page, Promise!Refill, Refill

LEMMA InitKeepsPromise == vtlb_init => Promise!Init
<1> SUFFICES ASSUME vtlb_init PROVE Promise!Init
  OBVIOUS
<1>1. ZeroHi \in Hi /\ ZeroLo \in Lo
  BY TlbAssumption, PagesAreLo DEF Hi, ZeroHi
<1>2. \A i \in Index : entries[i] = [hi |-> ZeroHi, lo |-> ZeroLo]
  BY DEF vtlb_init
<1>3. [hi |-> ZeroHi, lo |-> ZeroLo].lo.v = FALSE
  BY DEF ZeroLo
<1> QED
  BY <1>1, <1>2, <1>3, PromiseTypes DEF Promise!Init

(***************************************************************************)
(* Writing an entry installs the page in the registers and costs the page   *)
(* that was there its place, if no other entry is the same.                 *)
(***************************************************************************)
LEMMA WriteInstalls ==
    ASSUME TypeOK, NEW i \in Index, vtlb_write(i)
    PROVE  Promise!Install
<1> DEFINE new == [hi |-> EntryHi, lo |-> EntryLo]
           old == entries[i]
           lost == {old} \ {entries[j] : j \in Index \ {i}}
<1>1. \A j \in Index : entries'[j] = IF j = i THEN new ELSE entries[j]
  BY DEF vtlb_write, TypeOK
<1>2. Table' = (Table \ lost) \cup {new}
  <2>1. Table' = {entries'[j] : j \in Index}
    BY DEF Table
  <2>2. ASSUME NEW p PROVE p \in Table' <=> p \in (Table \ lost) \cup {new}
    <3>1. p \in Table' <=> p = new \/ \E j \in Index \ {i} : p = entries[j]
      BY <1>1, <2>1
    <3>2. p \in Table \ lost <=> \E j \in Index \ {i} : p = entries[j]
      BY DEF Table
    <3> QED
      BY <3>1, <3>2
  <2> QED
    BY <2>2
<1>3. lost \in SUBSET Table /\ \A p, q \in lost : p = q
  BY DEF Table
<1>4. UNCHANGED <<EntryHi, EntryLo, Shown>>
  BY DEF vtlb_write, Shown, Looked
<1> HIDE DEF lost
<1> QED
  BY <1>2, <1>3, <1>4 DEF Promise!Install, Table, Shown

(***************************************************************************)
(* Both modules read the bits of a page alike, and a translation answers as *)
(* one of the pages that are there and fit does.                            *)
(***************************************************************************)
LEMMA OutcomesAgree ==
    ASSUME NEW e \in [hi : Hi, lo : Lo], NEW mode
    PROVE  Outcome(e.lo, mode) = Promise!Outcome(e, mode)
<1>1. e.lo.v \in BOOLEAN /\ e.lo.d \in BOOLEAN
  BY DEF Lo
<1> QED
  BY <1>1 DEF Outcome, Promise!Outcome, Promise!Frame, Promise!Refill, Refill

LEMMA HitsAreMatches ==
    ASSUME NEW vpn
    PROVE  Promise!Hits(vpn) = {entries[i] : i \in Matches(vpn)}
  BY DEF Promise!Hits, Matches

LEMMA TranslateKeepsPromise ==
    ASSUME TypeOK, NEW vpn \in Vpn, NEW mode \in Mode, vtlb_translate(vpn, mode)
    PROVE  Promise!Translate(vpn, mode)
<1>1. PICK lo \in Found(vpn) :
        answer' = [vpn |-> vpn, mode |-> mode, out |-> Outcome(lo, mode)]
  BY DEF vtlb_translate
<1>2. UNCHANGED <<entries, EntryHi, EntryLo>>
  BY DEF vtlb_translate
<1>3. UNCHANGED <<Table, EntryHi, EntryLo>>
  BY <1>2 DEF Table
<1>4. Shown' = answer'
  <2>1. DOMAIN answer' = {"vpn", "mode", "out"}
    BY <1>1
  <2>2. ~ Looked'
    BY <2>1 DEF Looked
  <2> QED
    BY <2>2 DEF Shown
<1>5. CASE Matches(vpn) = {}
  <2>1. Outcome(lo, mode) \in Promise!Anything
    BY FoundInLo, OutcomeType, PromiseTypes DEF Promise!Anything
  <2>2. Promise!Hits(vpn) = {}
    BY <1>5, HitsAreMatches
  <2> QED
    BY <1>1, <1>3, <1>4, <2>1, <2>2 DEF Promise!Translate, Table, Shown
<1>6. CASE Matches(vpn) # {}
  <2> DEFINE m == Max(Matches(vpn))
  <2>1. m \in Matches(vpn) /\ lo = entries[m].lo
    BY <1>1, <1>6, MatchIsMatch DEF Found
  <2> HIDE DEF m
  <2>2. entries[m] \in Promise!Hits(vpn)
    BY <2>1, HitsAreMatches
  <2>3. Outcome(lo, mode) = Promise!Outcome(entries[m], mode)
    <3>1. entries[m] \in [hi : Hi, lo : Lo]
      BY <2>1, PagesAreLo DEF Matches, TypeOK
    <3> QED
      BY <2>1, <3>1, OutcomesAgree
  <2>4. Outcome(lo, mode) \in {Promise!Outcome(p, mode) : p \in Promise!Hits(vpn)}
    BY <2>2, <2>3
  <2> QED
    BY <1>1, <1>3, <1>4, <2>2, <2>4 DEF Promise!Translate, Table, Shown
<1> QED
  BY <1>5, <1>6

(***************************************************************************)
(* Every step of the TLB and its kernel is a step of the set of pages or    *)
(* leaves it as it is.                                                      *)
(***************************************************************************)
LEMMA StepsKeepPromise == TypeOK /\ [Next]_vars => [Promise!Next]_(Promise!vars)
<1> SUFFICES ASSUME TypeOK, [Next]_vars PROVE [Promise!Next]_(Promise!vars)
  OBVIOUS
<1>1. ASSUME UNCHANGED <<entries, answer>>, EntryHi' \in Hi, EntryLo' \in Lo
      PROVE  Promise!Next
  <2>1. UNCHANGED <<Table, Shown>>
    BY <1>1 DEF Table, Shown, Looked
  <2>2. Promise!Set
    BY <1>1, <2>1, PromiseTypes DEF Promise!Set, Table, Shown
  <2> QED
    BY <2>2 DEF Promise!Next
<1>2. CASE SetEntryHi
  BY <1>1, <1>2, PagesAreLo DEF SetEntryHi, TypeOK
<1>3. CASE SetEntryLo
  BY <1>1, <1>3, PagesAreLo DEF SetEntryLo, TypeOK
<1>4. CASE Probe
  <2>1. UNCHANGED <<entries, EntryHi, EntryLo>> /\ answer' = [index |-> vtlb_lookup]
    BY <1>4 DEF Probe
  <2>2. Shown' = [found |-> vtlb_lookup # NONE]
    <3>1. DOMAIN answer' = {"index"} /\ answer'.index = vtlb_lookup
      BY <2>1
    <3> QED
      BY <3>1 DEF Shown, Looked
  <2>3. (vtlb_lookup # NONE) = (\E page \in Table : page.hi = EntryHi)
    BY LookupIsRight DEF Table
  <2>4. UNCHANGED Table
    BY <2>1 DEF Table
  <2>5. Promise!Probe
    BY <2>1, <2>2, <2>3, <2>4 DEF Promise!Probe, Table, Shown
  <2> QED
    BY <2>5 DEF Promise!Next
<1>5. ASSUME NEW i \in Index, vtlb_write(i) PROVE Promise!Next
  BY <1>5, WriteInstalls DEF Promise!Next
<1>6. ASSUME NEW i \in Index, vtlb_read(i) PROVE Promise!Next
  BY <1>1, <1>6, PagesAreLo DEF vtlb_read, TypeOK
<1>7. ASSUME NEW vpn \in Vpn, NEW mode \in Mode, vtlb_translate(vpn, mode) PROVE Promise!Next
  BY <1>7, TranslateKeepsPromise DEF Promise!Next
<1>8. CASE UNCHANGED vars
  <2>1. UNCHANGED <<Table, Shown, EntryHi, EntryLo>>
    BY <1>8 DEF vars, Table, Shown, Looked
  <2> QED
    BY <2>1 DEF Promise!vars, Table, Shown
<1> QED
  BY <1>2, <1>3, <1>4, <1>5, <1>6, <1>7, <1>8 DEF Next

(***************************************************************************)
(* vtlb.c implements the set of pages for every kernel: where an entry      *)
(* lies, which victim is taken and that look-up and translation search in   *)
(* opposite directions cannot be told from outside.                         *)
(***************************************************************************)
THEOREM TlbImplementsTable == Spec => ImplementsTlb
  BY TypeInit, TypeInductive, InitKeepsPromise, StepsKeepPromise, PTL
     DEF Spec, ImplementsTlb, Promise!Tlb
=============================================================================
