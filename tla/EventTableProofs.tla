-------------------------- MODULE EventTableProofs --------------------------
(***************************************************************************)
(* What holds of the event table for any number of threads, events and      *)
(* handlers and whatever the threads call; and that it implements the       *)
(* shared registry of EventRegistry.                                        *)
(***************************************************************************)
EXTENDS EventTable, SequenceTheorems, TLAPS

Node == [name : Event \cup {NoName}, subs : Seq(Handler)]

(***************************************************************************)
(* EachOnce, of any list of events.                                         *)
(***************************************************************************)
Unique(l) ==
    /\ \A i, j \in 1 .. Len(l) : l[i].name = l[j].name => i = j
    /\ \A i \in 1 .. Len(l) : IsInjective(l[i].subs)

(***************************************************************************)
(* The elements of a list of events.                                        *)
(***************************************************************************)
LEMMA NodeFacts ==
    ASSUME NEW l \in Seq(Node), NEW i \in 1 .. Len(l)
    PROVE  /\ l[i] \in Node
           /\ l[i].name \in Event \cup {NoName}
           /\ l[i].subs \in Seq(Handler)
<1>1. l[i] \in Node
  OBVIOUS
<1> QED
  BY <1>1, SMT DEF Node

(***************************************************************************)
(* A list without one of its elements.                                      *)
(***************************************************************************)
LEMMA Without ==
    ASSUME NEW S, NEW s \in Seq(S), NEW i \in 1 .. Len(s)
    PROVE  /\ RemoveAt(s, i) \in Seq(S)
           /\ Len(RemoveAt(s, i)) = Len(s) - 1
           /\ \A j \in 1 .. (Len(s) - 1) :
                 RemoveAt(s, i)[j] = IF j < i THEN s[j] ELSE s[j + 1]
<1> DEFINE a == SubSeq(s, 1, i - 1)
           b == SubSeq(s, i + 1, Len(s))
<1>1. a \in Seq(S) /\ Len(a) = i - 1 /\ \A j \in 1 .. (i - 1) : a[j] = s[j]
  BY SMT
<1>2. /\ b \in Seq(S) /\ Len(b) = Len(s) - i
      /\ \A j \in 1 .. (Len(s) - i) : b[j] = s[i + j]
  BY SMT
<1> HIDE DEF a, b
<1>3. /\ a \o b \in Seq(S) /\ Len(a \o b) = Len(a) + Len(b)
      /\ \A j \in 1 .. Len(a) + Len(b) :
            (a \o b)[j] = IF j <= Len(a) THEN a[j] ELSE b[j - Len(a)]
  BY <1>1, <1>2, ConcatProperties, Zenon
<1>4. Len(s) \in Nat /\ i \in Int /\ i <= Len(s)
  BY SMT
<1>5. /\ a \o b \in Seq(S) /\ Len(a \o b) = Len(s) - 1
      /\ \A j \in 1 .. (i - 1) : (a \o b)[j] = a[j]
      /\ \A j \in i .. (Len(s) - 1) : (a \o b)[j] = b[j - (i - 1)]
  <2> DEFINE c == a \o b
  <2>2. (i - 1) + (Len(s) - i) = Len(s) - 1
    BY <1>4, SMT
  <2>1. /\ c \in Seq(S) /\ Len(c) = Len(s) - 1
        /\ \A j \in 1 .. (Len(s) - 1) :
              c[j] = IF j <= i - 1 THEN a[j] ELSE b[j - (i - 1)]
    BY <1>1, <1>2, <1>3, <2>2, Zenon
  <2> HIDE DEF a, b, c
  <2>3. \A j \in 1 .. (i - 1) : j \in 1 .. (Len(s) - 1) /\ j <= i - 1
    BY <1>4, SMT
  <2>4. \A j \in 1 .. (i - 1) : c[j] = a[j]
    BY <2>1, <2>3, Zenon
  <2>5. \A j \in i .. (Len(s) - 1) : j \in 1 .. (Len(s) - 1) /\ ~(j <= i - 1)
    BY <1>4, SMT
  <2>6. \A j \in i .. (Len(s) - 1) : c[j] = b[j - (i - 1)]
    BY <2>1, <2>5, Zenon
  <2> QED
    BY <2>1, <2>4, <2>6, Zenon DEF c
<1>6. \A j \in i .. (Len(s) - 1) :
         j - (i - 1) \in 1 .. (Len(s) - i) /\ i + (j - (i - 1)) = j + 1
  BY SMT
<1>7. \A j \in 1 .. (Len(s) - 1) : (a \o b)[j] = IF j < i THEN s[j] ELSE s[j + 1]
  BY <1>1, <1>2, <1>5, <1>6, SMT
<1> QED
  BY <1>5, <1>7 DEF RemoveAt, a, b

(***************************************************************************)
(* A list of distinct elements stays one when an element is taken out and   *)
(* when a new one is put at its end.                                        *)
(***************************************************************************)
LEMMA DistinctWithout ==
    ASSUME NEW S, NEW s \in Seq(S), IsInjective(s), NEW i \in 1 .. Len(s)
    PROVE  IsInjective(RemoveAt(s, i))
<1>1. \A a, b \in 1 .. Len(s) : s[a] = s[b] => a = b
  BY DEF IsInjective
<1> DEFINE r == RemoveAt(s, i)
<1>2. /\ r \in Seq(S) /\ Len(r) = Len(s) - 1
      /\ \A j \in 1 .. (Len(s) - 1) : r[j] = IF j < i THEN s[j] ELSE s[j + 1]
  BY Without
<1> HIDE DEF r
<1>3. DOMAIN r = 1 .. (Len(s) - 1)
  BY <1>2, SMT
<1>4. \A j \in 1 .. (Len(s) - 1) : j \in 1 .. Len(s) /\ j + 1 \in 1 .. Len(s)
  BY SMT
<1>5. IsInjective(r)
  BY <1>1, <1>2, <1>3, <1>4, SMTT(30) DEF IsInjective
<1> QED
  BY <1>5 DEF r

LEMMA DistinctAppend ==
    ASSUME NEW S, NEW s \in Seq(S), IsInjective(s), NEW h \in S, ~Contains(s, h)
    PROVE  Append(s, h) \in Seq(S) /\ IsInjective(Append(s, h))
<1>1. /\ \A a, b \in 1 .. Len(s) : s[a] = s[b] => a = b
      /\ \A a \in 1 .. Len(s) : s[a] # h
  BY DEF IsInjective, Contains
<1>2. /\ Append(s, h) \in Seq(S) /\ Len(Append(s, h)) = Len(s) + 1
      /\ DOMAIN Append(s, h) = 1 .. Len(s) + 1
      /\ \A a \in 1 .. Len(s) : Append(s, h)[a] = s[a]
      /\ Append(s, h)[Len(s) + 1] = h
  BY SMT
<1> QED
  BY <1>1, <1>2, SMT DEF IsInjective

(***************************************************************************)
(* The ways a list of events changes keep its events and handlers            *)
(* unique and give no event a name that was not there.                      *)
(***************************************************************************)
LEMMA NodeAppended ==
    ASSUME NEW l \in Seq(Node), Unique(l), NEW e \in Event,
           \A i \in 1 .. Len(l) : l[i].name # e
    PROVE  LET m == Append(l, [name |-> e, subs |-> <<>>])
           IN  /\ m \in Seq(Node) /\ Unique(m)
               /\ \A i \in 1 .. Len(m) : m[i].name = e \/ \E j \in 1 .. Len(l) : m[i].name = l[j].name
<1> DEFINE n == [name |-> e, subs |-> <<>>]
           m == Append(l, n)
<1>1. n \in Node /\ n.name = e /\ IsInjective(n.subs)
  BY SMT DEF Node, IsInjective
<1>2. /\ m \in Seq(Node) /\ Len(m) = Len(l) + 1
      /\ \A i \in 1 .. Len(l) : m[i] = l[i]
      /\ m[Len(l) + 1] = n
  BY <1>1, SMT
<1> HIDE DEF m, n
<1>3. Unique(m)
  BY <1>1, <1>2, SMTT(30) DEF Unique
<1>4. \A i \in 1 .. Len(m) : m[i].name = e \/ \E j \in 1 .. Len(l) : m[i].name = l[j].name
  BY <1>1, <1>2, SMT
<1> QED
  BY <1>2, <1>3, <1>4 DEF m, n

LEMMA NodeRemoved ==
    ASSUME NEW l \in Seq(Node), Unique(l), NEW k \in 1 .. Len(l)
    PROVE  LET m == RemoveAt(l, k)
           IN  /\ m \in Seq(Node) /\ Unique(m)
               /\ \A i \in 1 .. Len(m) : \E j \in 1 .. Len(l) : m[i].name = l[j].name
<1> DEFINE m == RemoveAt(l, k)
<1>1. /\ m \in Seq(Node) /\ Len(m) = Len(l) - 1
      /\ \A j \in 1 .. (Len(l) - 1) : m[j] = IF j < k THEN l[j] ELSE l[j + 1]
  BY Without
<1> DEFINE old(j) == IF j < k THEN j ELSE j + 1
<1>2. /\ \A j \in 1 .. (Len(l) - 1) : old(j) \in 1 .. Len(l)
      /\ \A i, j \in 1 .. (Len(l) - 1) : old(i) = old(j) => i = j
  BY SMT
<1>3. \A j \in 1 .. (Len(l) - 1) : m[j] = l[old(j)]
  BY <1>1, Zenon
<1> HIDE DEF m, old
<1>4. Unique(m)
  <2>1. ASSUME NEW i \in 1 .. (Len(l) - 1), NEW j \in 1 .. (Len(l) - 1), m[i].name = m[j].name
        PROVE  i = j
    <3>1. l[old(i)].name = l[old(j)].name
      BY <1>3, <2>1, Zenon
    <3>2. old(i) \in 1 .. Len(l) /\ old(j) \in 1 .. Len(l)
      BY <1>2, Zenon
    <3>3. old(i) = old(j)
      BY <3>1, <3>2, Zenon DEF Unique
    <3> QED
      BY <1>2, <3>3, Zenon
  <2>2. ASSUME NEW i \in 1 .. (Len(l) - 1)
        PROVE  IsInjective(m[i].subs)
    BY <1>2, <1>3, Zenon DEF Unique
  <2>3. Len(m) = Len(l) - 1
    BY <1>1
  <2> QED
    BY <2>1, <2>2, <2>3, Zenon DEF Unique
<1>5. \A i \in 1 .. Len(m) : \E j \in 1 .. Len(l) : m[i].name = l[j].name
  BY <1>1, <1>2, <1>3, Zenon
<1> QED
  BY <1>1, <1>4, <1>5 DEF m

LEMMA RootRemoved ==
    ASSUME NEW l \in Seq(Node), l # <<>>
    PROVE  Len(l) \in Nat \ {0} /\ Tail(l) = RemoveAt(l, 1)
  BY SMT DEF RemoveAt

With(l, k, n) == [l EXCEPT ![k] = n]

LEMMA NodeReplaced ==
    ASSUME NEW l \in Seq(Node), NEW k \in 1 .. Len(l), NEW n \in Node
    PROVE  /\ With(l, k, n) \in Seq(Node) /\ Len(With(l, k, n)) = Len(l)
           /\ \A i \in 1 .. Len(l) : With(l, k, n)[i] = IF i = k THEN n ELSE l[i]
  BY SMT DEF With

LEMMA FieldReplaced ==
    ASSUME NEW x \in Node
    PROVE  /\ \A s \in Seq(Handler) :
                 LET n == [x EXCEPT !.subs = s]
                 IN  n \in Node /\ n.name = x.name /\ n.subs = s
           /\ \A e \in Event :
                 LET n == [x EXCEPT !.name = e]
                 IN  n \in Node /\ n.name = e /\ n.subs = x.subs
  BY SMT DEF Node

WithSubs(l, k, s) == With(l, k, [l[k] EXCEPT !.subs = s])

LEMMA HandlersChanged ==
    ASSUME NEW l \in Seq(Node), Unique(l), NEW k \in 1 .. Len(l),
           NEW s \in Seq(Handler), IsInjective(s)
    PROVE  /\ WithSubs(l, k, s) \in Seq(Node) /\ Unique(WithSubs(l, k, s))
           /\ \A i \in 1 .. Len(WithSubs(l, k, s)) :
                 \E j \in 1 .. Len(l) : WithSubs(l, k, s)[i].name = l[j].name
<1> DEFINE n == [l[k] EXCEPT !.subs = s]
           m == With(l, k, n)
<1>1. n \in Node /\ n.name = l[k].name /\ n.subs = s
  <2>1. l[k] \in Node
    OBVIOUS
  <2> QED
    BY <2>1, FieldReplaced
<1> HIDE DEF n
<1>2. /\ m \in Seq(Node) /\ Len(m) = Len(l)
      /\ \A i \in 1 .. Len(l) : m[i] = IF i = k THEN n ELSE l[i]
  BY <1>1, NodeReplaced
<1> HIDE DEF m
<1>3. /\ \A i \in 1 .. Len(l) : m[i].name = l[i].name
      /\ \A i \in 1 .. Len(l) : m[i].subs = IF i = k THEN s ELSE l[i].subs
  BY <1>1, <1>2, SMT
<1>4. Unique(m)
  BY <1>2, <1>3, SMT DEF Unique
<1>5. \A i \in 1 .. Len(m) : \E j \in 1 .. Len(l) : m[i].name = l[j].name
  BY <1>2, <1>3, SMT
<1> QED
  BY <1>2, <1>4, <1>5, Zenon DEF WithSubs, m, n

-----------------------------------------------------------------------------
(***************************************************************************)
(* The inductive invariant: the properties, and that a root without a name  *)
(* is alone in the table until it has one.                                  *)
(***************************************************************************)
Holding == {"naming", "notifying", "reentered"}

RootAlone == \A t \in Thread : at[t] = "naming" => Len(table) = 1

IInv == TypeOK /\ HeldWhileNeeded /\ RootAlone /\ EachOnce /\ WalksALiveList

LEMMA UniqueTable ==
    ASSUME TypeOK
    PROVE  EachOnce <=> Unique(table)
<1>1. DOMAIN table = 1 .. Len(table)
  BY SMT DEF TypeOK
<1> QED
  BY <1>1, SMT DEF EachOnce, Unique, IsInjective

LEMMA UniqueTable2 ==
    ASSUME TypeOK'
    PROVE  EachOnce' <=> Unique(table')
<1>1. DOMAIN table' = 1 .. Len(table')
  BY SMT DEF TypeOK
<1> QED
  BY <1>1, SMT DEF EachOnce, Unique, IsInjective

(***************************************************************************)
(* The part of the invariant that no step of a thread needs the table for.  *)
(***************************************************************************)
Threads ==
    /\ mutex \in Thread \cup {Free}
    /\ call \in [Thread -> CallKind]
    /\ at \in [Thread -> {"idle", "lock", "naming", "peek", "compare", "lock_root",
                          "lock_walk", "notifying", "reentered"}]
    /\ answer \in [Thread -> 0 .. 3]
    /\ due \in [Thread -> Seq(Handler)]
    /\ status \in {"running", "crashed"}
    /\ HeldWhileNeeded

LEMMA Initially == Init => IInv
<1> SUFFICES ASSUME Init PROVE IInv
  OBVIOUS
<1>1. UNION Range(CallsOf) \subseteq CallKind
  BY EventAssumption, Zenon DEF Range
<1>2. call \in [Thread -> CallKind]
  BY <1>1, SMT DEF Init
<1>3. TypeOK
  BY <1>2, EventAssumption, SMT DEF Init, TypeOK
<1>4. HeldWhileNeeded /\ RootAlone /\ WalksALiveList
  BY EventAssumption, SMT DEF Init, HeldWhileNeeded, RootAlone, WalksALiveList
<1>5. EachOnce
  BY SMT DEF Init, EachOnce, IsInjective
<1> QED
  BY <1>3, <1>4, <1>5 DEF IInv

(***************************************************************************)
(* A step of a thread that leaves the table and the mutex alone and moves   *)
(* neither into the states that need the mutex nor out of them.             *)
(***************************************************************************)
LEMMA TableAlone ==
    ASSUME IInv, NEW t \in Thread, NEW s, UNCHANGED <<table, mutex>>,
           Goto(t, s), at[t] \notin Holding, s \notin Holding,
           \A u \in Thread \ {t} : call'[u] = call[u], due' = due,
           Threads'
    PROVE  IInv'
<1> USE DEF Holding
<1>1. \A u \in Thread \ {t} : at'[u] = at[u]
  BY SMT DEF Goto, IInv, TypeOK
<1>2. at'[t] = s
  BY SMT DEF Goto, IInv, TypeOK
<1>3. TypeOK'
  BY <1>1, <1>2, SMT DEF IInv, TypeOK, Threads
<1>4. RootAlone'
  BY <1>1, <1>2, SMT DEF IInv, RootAlone
<1>5. WalksALiveList'
  <2> SUFFICES ASSUME NEW u \in Thread, at'[u] \in {"notifying", "reentered"}
               PROVE  \E i \in DOMAIN table :
                         /\ table[i].name = call[u].event
                         /\ \E k \in 1 .. Len(table[i].subs) + 1 :
                               due[u] = SubSeq(table[i].subs, k, Len(table[i].subs))
    BY <1>2, Zenon DEF WalksALiveList
  <2> QED
    BY <1>1, <1>2, Zenon DEF IInv, WalksALiveList
<1>6. EachOnce'
  BY Zenon DEF IInv, EachOnce
<1> QED
  BY <1>3, <1>4, <1>5, <1>6 DEF IInv, Threads

(***************************************************************************)
(* A step under the mutex that changes the table and gives the mutex back.  *)
(***************************************************************************)
LEMMA TableChanged ==
    ASSUME IInv, NEW t \in Thread, mutex = Free, UNCHANGED mutex,
           NEW rc \in 0 .. 3, Return(t, rc), at[t] \notin Holding,
           table' \in Seq(Node), Unique(table'),
           \A i \in 1 .. Len(table') :
               \/ table'[i].name \in Event
               \/ \E j \in 1 .. Len(table) : table'[i].name = table[j].name
    PROVE  IInv'
<1> USE DEF Holding
<1>1. \A u \in Thread : at[u] \notin Holding
  BY EventAssumption, SMT DEF IInv, HeldWhileNeeded
<1>2. \A u \in Thread : at'[u] \notin Holding
  BY <1>1, SMT DEF Return, Goto, IInv, TypeOK
<1>3. Threads'
  BY <1>2, EventAssumption, SMT DEF IInv, TypeOK, Threads, HeldWhileNeeded, Return, Goto
<1>4. \A i \in 1 .. Len(table') : table'[i].name # NoName
  <2>1. \A j \in 1 .. Len(table) : table[j].name # NoName
    BY EventAssumption, SMT DEF IInv, TypeOK
  <2> QED
    BY <2>1, EventAssumption, Zenon
<1>5. TypeOK'
  <2>1. DOMAIN table' = 1 .. Len(table')
    BY SMT
  <2> QED
    BY <1>3, <1>4, <2>1, Zenon DEF TypeOK, Threads, Node
<1>6. RootAlone' /\ WalksALiveList'
  BY <1>2, Zenon DEF RootAlone, WalksALiveList
<1> QED
  BY <1>3, <1>5, <1>6, UniqueTable2 DEF IInv, Threads

(***************************************************************************)
(* The return of a call that changes nothing, as when there is no event.    *)
(***************************************************************************)
LEMMA TableKept ==
    ASSUME IInv, NEW t \in Thread, mutex = Free, at[t] = "lock",
           NEW rc \in 0 .. 3, Return(t, rc), UNCHANGED <<table, mutex>>
    PROVE  IInv'
<1>1. table \in Seq(Node) /\ Unique(table)
  BY UniqueTable DEF IInv, TypeOK, Node
<1> QED
  BY <1>1, TableChanged, SMT DEF Holding

LEMMA NotThere ==
    ASSUME IInv, NEW t \in Thread, mutex = Free, at[t] = "lock", NoSuchEvent(t)
    PROVE  IInv'
<1>1. PICK rc \in 0 .. 3 : Return(t, rc)
  BY SMT DEF NoSuchEvent
<1>2. UNCHANGED <<table, mutex>>
  BY DEF NoSuchEvent
<1> QED
  BY <1>1, <1>2, TableKept

(***************************************************************************)
(* The tail of an end of a list is an end of that list.                     *)
(***************************************************************************)
LEMMA SuffixTail ==
    ASSUME NEW S, NEW s \in Seq(S), NEW d \in Seq(S), d # <<>>,
           \E k \in 1 .. Len(s) + 1 : d = SubSeq(s, k, Len(s))
    PROVE  \E k \in 1 .. Len(s) + 1 : Tail(d) = SubSeq(s, k, Len(s))
<1>1. PICK k \in 1 .. Len(s) + 1 : d = SubSeq(s, k, Len(s))
  OBVIOUS
<1>2. k \in 1 .. Len(s)
  BY <1>1, SMT
<1>3. Tail(d) = SubSeq(s, k + 1, Len(s))
  BY <1>1, <1>2, SMT
<1>4. k + 1 \in 1 .. Len(s) + 1
  BY <1>2, SMT
<1> QED
  BY <1>3, <1>4, Zenon

LEMMA Invariance == IInv /\ [Next]_vars => IInv'
<1> SUFFICES ASSUME IInv, [Next]_vars PROVE IInv'
  OBVIOUS
<1> USE DEF Holding
<1>0. CASE UNCHANGED vars
  BY <1>0, Zenon DEF vars, IInv, TypeOK, HeldWhileNeeded, RootAlone, EachOnce, WalksALiveList
<1>1. ASSUME NEW t \in Thread, Invoke(t) PROVE IInv'
  <2>1. PICK c \in CallsOf[t] :
           /\ call' = [call EXCEPT ![t] = c]
           /\ Goto(t, IF c.op = "remove" THEN "peek" ELSE "lock")
    BY <1>1 DEF Invoke
  <2>2. c \in CallKind
    BY EventAssumption, SMT
  <2>3. /\ at[t] \notin Holding /\ UNCHANGED <<table, mutex, answer, due, status>>
    BY <1>1, SMT DEF Invoke
  <2>4. Threads'
    BY <2>1, <2>2, <2>3, SMT DEF IInv, TypeOK, Threads, HeldWhileNeeded, Goto
  <2>5. \A u \in Thread \ {t} : call'[u] = call[u]
    BY <2>1, SMT DEF IInv, TypeOK
  <2> QED
    BY <2>1, <2>3, <2>4, <2>5, TableAlone
<1>2. ASSUME NEW t \in Thread, create_root(t) PROVE IInv'
  <2>1. /\ mutex = Free /\ mutex' = t /\ at[t] = "lock" /\ Goto(t, "naming")
        /\ table = <<>> /\ table' = <<[name |-> NoName, subs |-> <<>>]>>
        /\ UNCHANGED <<call, answer, due, status>>
    BY <1>2 DEF create_root, LockedFor, Locked
  <2>2. /\ at'[t] = "naming" /\ \A u \in Thread \ {t} : at'[u] = at[u]
        /\ \A u \in Thread : at[u] \notin Holding
    BY <2>1, EventAssumption, SMT DEF Goto, IInv, TypeOK, HeldWhileNeeded
  <2>3. /\ table' \in Seq(Node) /\ Len(table') = 1 /\ DOMAIN table' = 1 .. 1
        /\ table'[1].name = NoName /\ table'[1].subs = <<>>
    BY <2>1, SMT DEF Node
  <2>4. TypeOK'
    <3>1. Threads'
      BY <2>1, <2>2, EventAssumption, SMT DEF IInv, TypeOK, Threads, HeldWhileNeeded, Goto
    <3> QED
      BY <2>1, <2>2, <2>3, <3>1, Zenon DEF Threads, TypeOK, Node
  <2>5. HeldWhileNeeded' /\ RootAlone' /\ WalksALiveList'
    BY <2>1, <2>2, <2>3, EventAssumption, SMT DEF HeldWhileNeeded, RootAlone, WalksALiveList
  <2>6. Unique(table')
    BY <2>3, SMT DEF Unique, IsInjective
  <2> QED
    BY <2>4, <2>5, <2>6, UniqueTable2 DEF IInv
<1>3. ASSUME NEW t \in Thread, name_root(t) PROVE IInv'
  <2>1. /\ at[t] = "naming" /\ mutex' = Free /\ Return(t, 0)
        /\ table' = [table EXCEPT ![1].name = call[t].event]
    BY <1>3 DEF name_root
  <2>2. /\ mutex = t /\ Len(table) = 1 /\ call[t].event \in Event
        /\ \A u \in Thread \ {t} : at[u] \notin Holding
    BY <2>1, SMT DEF IInv, TypeOK, HeldWhileNeeded, RootAlone, CallKind
  <2>3. \A u \in Thread : at'[u] \notin Holding
    BY <2>1, <2>2, SMT DEF Return, Goto, IInv, TypeOK
  <2>4. /\ table' \in Seq(Node) /\ Len(table') = 1 /\ DOMAIN table' = 1 .. 1
        /\ table'[1].name = call[t].event /\ table'[1].subs = table[1].subs
    <3>1. table \in Seq(Node) /\ table[1] \in Node
      <4>1. table \in Seq(Node) /\ 1 \in 1 .. Len(table)
        BY <2>2, SMT DEF IInv, TypeOK, Node
      <4> QED
        BY <4>1, NodeFacts
    <3> DEFINE n == [table[1] EXCEPT !.name = call[t].event]
    <3>2. n \in Node /\ n.name = call[t].event /\ n.subs = table[1].subs
      BY <2>2, <3>1, FieldReplaced, Zenon
    <3>3. table' = With(table, 1, n)
      BY <2>1, Zenon DEF With
    <3> HIDE DEF n
    <3>4. table' \in Seq(Node) /\ Len(table') = Len(table) /\ table'[1] = n
      <4>1. 1 \in 1 .. Len(table)
        BY <2>2, SMT
      <4>2. /\ With(table, 1, n) \in Seq(Node) /\ Len(With(table, 1, n)) = Len(table)
            /\ \A i \in 1 .. Len(table) :
                  With(table, 1, n)[i] = IF i = 1 THEN n ELSE table[i]
        BY <3>1, <3>2, <4>1, NodeReplaced
      <4>3. With(table, 1, n)[1] = n
        BY <4>1, <4>2, Zenon
      <4> QED
        BY <3>3, <4>2, <4>3, Zenon
    <3>5. DOMAIN table' = 1 .. 1
      BY <2>2, <3>4, SMT
    <3> QED
      BY <2>2, <3>2, <3>4, <3>5, Zenon
  <2>5. Threads'
    BY <2>1, <2>3, EventAssumption, SMT DEF IInv, TypeOK, Threads, HeldWhileNeeded, Return, Goto
  <2>6. TypeOK'
    <3>1. table'[1].name # NoName
      BY <2>2, <2>4, EventAssumption
    <3>2. \A i \in DOMAIN table' : table'[i].name # NoName
      BY <2>4, <3>1, SMT
    <3> QED
      BY <2>4, <2>5, <3>2, Zenon DEF Threads, TypeOK, Node
  <2>7. RootAlone' /\ WalksALiveList'
    BY <2>3, Zenon DEF RootAlone, WalksALiveList
  <2>8. Unique(table')
    BY <2>2, <2>4, SMT DEF Unique, IInv, EachOnce, IsInjective, TypeOK
  <2> QED
    BY <2>5, <2>6, <2>7, <2>8, UniqueTable2 DEF IInv, Threads
<1>4. ASSUME NEW t \in Thread, event_create(t) PROVE IInv'
  <2>1. /\ mutex = Free /\ UNCHANGED mutex /\ at[t] = "lock"
        /\ call[t].event \in Event
    BY <1>4, SMT DEF event_create, LockedFor, Locked, IInv, TypeOK, CallKind
  <2>2. table \in Seq(Node) /\ Unique(table)
    BY UniqueTable DEF IInv, TypeOK, Node
  <2>3. CASE UNCHANGED table /\ Return(t, 1)
    <3>1. 1 \in 0 .. 3
      BY SMT
    <3> QED
      BY <2>1, <2>3, <3>1, TableKept
  <2>4. CASE /\ ~NameTaken(call[t].event)
             /\ table' = Append(table, [name |-> call[t].event, subs |-> <<>>])
             /\ Return(t, 0)
    <3>1. \A i \in 1 .. Len(table) : table[i].name # call[t].event
      BY <2>2, <2>4, SMT DEF NameTaken, find_event
    <3>2. /\ table' \in Seq(Node) /\ Unique(table')
          /\ \A i \in 1 .. Len(table') :
                \/ table'[i].name = call[t].event
                \/ \E j \in 1 .. Len(table) : table'[i].name = table[j].name
      BY <2>1, <2>2, <2>4, <3>1, NodeAppended, Zenon
    <3> QED
      BY <2>1, <2>4, <3>2, TableChanged, SMT
  <2> QED
    BY <1>4, <2>3, <2>4 DEF event_create
<1>5. ASSUME NEW t \in Thread, peek(t) PROVE IInv'
  <2>1. at[t] = "peek" /\ UNCHANGED <<table, mutex, call, due, status>>
    BY <1>5 DEF peek, Return
  <2>2. PICK s \in {"idle", "compare"} : Goto(t, s)
    BY <1>5, Zenon DEF peek, Return
  <2>3. answer' \in [Thread -> 0 .. 3]
    <3>1. answer' = [answer EXCEPT ![t] = 1] \/ UNCHANGED answer
      BY <1>5, Zenon DEF peek, Return
    <3>2. answer \in [Thread -> 0 .. 3]
      BY DEF IInv, TypeOK
    <3> QED
      BY <3>1, <3>2, SMT
  <2>4. Threads'
    <3>1. at' = [at EXCEPT ![t] = s]
      BY <2>2 DEF Goto
    <3>2. HeldWhileNeeded'
      BY <2>1, <3>1, SMT DEF IInv, TypeOK, HeldWhileNeeded
    <3> QED
      BY <2>1, <2>3, <3>1, <3>2, SMT DEF IInv, TypeOK, Threads
  <2> QED
    BY <2>1, <2>2, <2>4, TableAlone, Zenon
<1>6. ASSUME NEW t \in Thread, compare(t) PROVE IInv'
  <2>1. at[t] = "compare" /\ UNCHANGED <<table, mutex, call, answer, due, status>>
    BY <1>6 DEF compare
  <2>2. PICK s \in {"lock_root", "lock_walk"} : Goto(t, s)
    BY <1>6, Zenon DEF compare
  <2>3. Threads'
    BY <2>1, <2>2, SMT DEF IInv, TypeOK, Threads, HeldWhileNeeded, Goto
  <2> QED
    BY <2>1, <2>2, <2>3, TableAlone, Zenon
<1>7. ASSUME NEW t \in Thread, remove_root(t) PROVE IInv'
  <2>1. /\ mutex = Free /\ UNCHANGED mutex /\ at[t] = "lock_root" /\ Return(t, 0)
        /\ table # <<>> /\ table' = Tail(table)
    BY <1>7 DEF remove_root, Locked
  <2>2. table \in Seq(Node) /\ Unique(table)
    BY UniqueTable DEF IInv, TypeOK, Node
  <2>3. 1 \in 1 .. Len(table) /\ table' = RemoveAt(table, 1)
    BY <2>1, <2>2, RootRemoved, SMT
  <2>4. /\ table' \in Seq(Node) /\ Unique(table')
        /\ \A j \in 1 .. Len(table') :
              \E m \in 1 .. Len(table) : table'[j].name = table[m].name
    BY <2>2, <2>3, NodeRemoved, Zenon
  <2>5. 0 \in 0 .. 3 /\ at[t] \notin Holding
    BY <2>1, SMT
  <2> QED
    BY <2>1, <2>4, <2>5, TableChanged, Zenon
<1>8. ASSUME NEW t \in Thread, remove_behind(t) PROVE IInv'
  <2>1. /\ mutex = Free /\ UNCHANGED mutex /\ at[t] = "lock_walk" /\ Return(t, 0)
    BY <1>8 DEF remove_behind, Locked
  <2>2. table \in Seq(Node) /\ Unique(table)
    BY UniqueTable DEF IInv, TypeOK, Node
  <2>3. PICK i \in 1 .. Len(table) : table' = RemoveAt(table, i)
    BY <1>8, <2>2, SMT DEF remove_behind, Behind, find_event
  <2>4. /\ table' \in Seq(Node) /\ Unique(table')
        /\ \A j \in 1 .. Len(table') :
              \E m \in 1 .. Len(table) : table'[j].name = table[m].name
    BY <2>2, <2>3, NodeRemoved, Zenon
  <2>5. 0 \in 0 .. 3 /\ at[t] \notin Holding
    BY <2>1, SMT
  <2> QED
    BY <2>1, <2>4, <2>5, TableChanged, Zenon
<1>9. ASSUME NEW t \in Thread, remove_follows_null(t) PROVE IInv'
  BY <1>9, Zenon DEF remove_follows_null, Crash, IInv, TypeOK, HeldWhileNeeded, RootAlone,
                     EachOnce, WalksALiveList
<1>10. ASSUME NEW t \in Thread, event_subscribe(t) PROVE IInv'
  <2>1. /\ mutex = Free /\ at[t] = "lock"
        /\ call[t].event \in Event /\ call[t].handler \in Handler
    BY <1>10, SMT DEF event_subscribe, LockedFor, Locked, IInv, TypeOK, CallKind
  <2>2. table \in Seq(Node) /\ Unique(table)
    BY UniqueTable DEF IInv, TypeOK, Node
  <2>3. CASE NoSuchEvent(t)
    BY <2>1, <2>2, <2>3, NotThere
  <2>4. ASSUME NEW i \in find_event(call[t].event), UNCHANGED mutex,
               Contains(table[i].subs, call[t].handler), UNCHANGED table, Return(t, 3)
        PROVE  IInv'
    <3>1. 3 \in 0 .. 3
      BY SMT
    <3> QED
      BY <2>1, <2>4, <3>1, TableKept, Zenon
  <2>5. ASSUME NEW i \in find_event(call[t].event), UNCHANGED mutex, Return(t, 0),
               ~Contains(table[i].subs, call[t].handler),
               table' = [table EXCEPT ![i].subs = Append(@, call[t].handler)]
        PROVE  IInv'
    <3>1. /\ i \in 1 .. Len(table) /\ table[i].subs \in Seq(Handler)
          /\ IsInjective(table[i].subs)
      <4>1. i \in 1 .. Len(table)
        BY <2>2, SMT DEF find_event
      <4> QED
        BY <2>2, <4>1, NodeFacts, Zenon DEF Unique
    <3> DEFINE s == Append(table[i].subs, call[t].handler)
    <3>2. s \in Seq(Handler) /\ IsInjective(s)
      BY <2>1, <2>5, <3>1, DistinctAppend
    <3>3. table' = WithSubs(table, i, s)
      BY <2>5, Zenon DEF WithSubs, With
    <3> HIDE DEF s
    <3>4. /\ table' \in Seq(Node) /\ Unique(table')
          /\ \A j \in 1 .. Len(table') :
                \E m \in 1 .. Len(table) : table'[j].name = table[m].name
      BY <2>2, <3>1, <3>2, <3>3, HandlersChanged, Zenon
    <3>5. 0 \in 0 .. 3 /\ at[t] \notin Holding
      BY <2>1, SMT
    <3> QED
      BY <2>1, <2>5, <3>4, <3>5, TableChanged, Zenon
  <2> QED
    BY <1>10, <2>3, <2>4, <2>5 DEF event_subscribe
<1>11. ASSUME NEW t \in Thread, event_unsubscribe(t) PROVE IInv'
  <2>1. mutex = Free /\ at[t] = "lock"
    BY <1>11 DEF event_unsubscribe, LockedFor, Locked
  <2>2. table \in Seq(Node) /\ Unique(table)
    BY UniqueTable DEF IInv, TypeOK, Node
  <2>3. CASE NoSuchEvent(t)
    BY <2>1, <2>2, <2>3, NotThere
  <2>4. ASSUME UNCHANGED <<table, mutex>>, Return(t, 3) PROVE IInv'
    <3>1. 3 \in 0 .. 3
      BY SMT
    <3> QED
      BY <2>1, <2>4, <3>1, TableKept, Zenon
  <2>5. ASSUME NEW i \in find_event(call[t].event), NEW k \in DOMAIN table[i].subs,
               UNCHANGED mutex, Return(t, 0),
               table' = [table EXCEPT ![i].subs = RemoveAt(@, k)]
        PROVE  IInv'
    <3>1. /\ i \in 1 .. Len(table) /\ table[i].subs \in Seq(Handler)
          /\ IsInjective(table[i].subs) /\ k \in 1 .. Len(table[i].subs)
      <4>1. i \in 1 .. Len(table)
        BY <2>2, SMT DEF find_event
      <4>2. table[i].subs \in Seq(Handler)
        BY <2>2, <4>1, NodeFacts, Zenon
      <4>3. k \in 1 .. Len(table[i].subs)
        BY <4>2, SMT
      <4> QED
        BY <2>2, <4>1, <4>2, <4>3, Zenon DEF Unique
    <3> DEFINE s == RemoveAt(table[i].subs, k)
    <3>2. s \in Seq(Handler) /\ IsInjective(s)
      BY <3>1, Without, DistinctWithout
    <3>3. table' = WithSubs(table, i, s)
      BY <2>5, Zenon DEF WithSubs, With
    <3> HIDE DEF s
    <3>4. /\ table' \in Seq(Node) /\ Unique(table')
          /\ \A j \in 1 .. Len(table') :
                \E m \in 1 .. Len(table) : table'[j].name = table[m].name
      BY <2>2, <3>1, <3>2, <3>3, HandlersChanged, Zenon
    <3>5. 0 \in 0 .. 3 /\ at[t] \notin Holding
      BY <2>1, SMT
    <3> QED
      BY <2>1, <2>5, <3>4, <3>5, TableChanged, Zenon
  <2> QED
    BY <1>11, <2>3, <2>4, <2>5 DEF event_unsubscribe
<1>12. ASSUME NEW t \in Thread, event_notify(t) PROVE IInv'
  <2>1. mutex = Free /\ at[t] = "lock"
    BY <1>12 DEF event_notify, LockedFor, Locked
  <2>2. table \in Seq(Node) /\ Unique(table)
    BY UniqueTable DEF IInv, TypeOK, Node
  <2>3. CASE NoSuchEvent(t)
    BY <2>1, <2>2, <2>3, NotThere
  <2>4. ASSUME NEW i \in find_event(call[t].event), mutex' = t, Goto(t, "notifying"),
               due' = [due EXCEPT ![t] = table[i].subs],
               UNCHANGED <<table, call, answer, status>>
        PROVE  IInv'
    <3>1. /\ i \in DOMAIN table /\ table[i].name = call[t].event
          /\ table[i].subs \in Seq(Handler)
      <4>1. i \in 1 .. Len(table)
        BY <2>2, SMT DEF find_event
      <4> QED
        BY <2>2, <4>1, NodeFacts, Zenon DEF find_event
    <3>2. /\ at'[t] = "notifying" /\ \A u \in Thread \ {t} : at'[u] = at[u]
          /\ \A u \in Thread : at[u] \notin Holding
          /\ due'[t] = table[i].subs
      BY <2>1, <2>4, EventAssumption, SMT DEF Goto, IInv, TypeOK, HeldWhileNeeded
    <3>3. Threads'
      BY <2>4, <3>1, <3>2, EventAssumption, SMT DEF IInv, TypeOK, Threads, HeldWhileNeeded, Goto
    <3>4. \A j \in DOMAIN table : table[j].name # NoName
      BY <2>1, EventAssumption, SMT DEF IInv, TypeOK
    <3>5. TypeOK' /\ RootAlone' /\ EachOnce'
      BY <2>4, <3>2, <3>3, <3>4, Zenon DEF IInv, TypeOK, Threads, RootAlone, EachOnce, Holding
    <3>6. due'[t] = SubSeq(table[i].subs, 1, Len(table[i].subs))
          /\ 1 \in 1 .. Len(table[i].subs) + 1
      BY <3>1, <3>2, SMT
    <3>7. WalksALiveList'
      BY <2>4, <3>1, <3>2, <3>6, Zenon DEF WalksALiveList, Holding
    <3> QED
      BY <3>3, <3>5, <3>7 DEF IInv, Threads
  <2> QED
    BY <1>12, <2>3, <2>4 DEF event_notify
<1>13. ASSUME NEW t \in Thread, call_handler(t) PROVE IInv'
  <2>1. /\ at[t] = "notifying" /\ due[t] # <<>>
        /\ UNCHANGED <<table, mutex, call, answer, status>>
    BY <1>13 DEF call_handler
  <2>2. \/ Goto(t, "reentered") /\ UNCHANGED due
        \/ UNCHANGED at /\ due' = [due EXCEPT ![t] = Tail(@)]
    BY <1>13 DEF call_handler
  <2>3. mutex = t /\ \A u \in Thread \ {t} : at[u] \notin Holding
    BY <2>1, SMT DEF IInv, HeldWhileNeeded
  <2>4. /\ at'[t] \in {"notifying", "reentered"}
        /\ \A u \in Thread \ {t} : at'[u] = at[u]
    BY <2>1, <2>2, SMT DEF Goto, IInv, TypeOK
  <2>5. due[t] \in Seq(Handler) /\ Tail(due[t]) \in Seq(Handler)
    BY <2>1, HeadTailProperties, SMT DEF IInv, TypeOK
  <2>6. Threads'
    <3>1. due' \in [Thread -> Seq(Handler)]
      <4>1. due \in [Thread -> Seq(Handler)]
        BY DEF IInv, TypeOK
      <4>2. due' = due \/ due' = [due EXCEPT ![t] = Tail(@)]
        BY <2>2
      <4> QED
        BY <2>5, <4>1, <4>2, SMTT(30)
    <3>2. at' \in [Thread -> {"idle", "lock", "naming", "peek", "compare", "lock_root",
                              "lock_walk", "notifying", "reentered"}]
      <4>1. at' = at \/ at' = [at EXCEPT ![t] = "reentered"]
        BY <2>2 DEF Goto
      <4>2. at \in [Thread -> {"idle", "lock", "naming", "peek", "compare", "lock_root",
                               "lock_walk", "notifying", "reentered"}]
        BY DEF IInv, TypeOK
      <4> QED
        BY <4>1, <4>2, SMT
    <3> QED
      BY <2>1, <2>3, <2>4, <3>1, <3>2, SMT DEF IInv, TypeOK, Threads, HeldWhileNeeded, Goto
  <2>7. \A j \in DOMAIN table : table[j].name # NoName
    BY <2>1, <2>3, SMT DEF IInv, TypeOK
  <2>8. TypeOK' /\ RootAlone' /\ EachOnce'
    BY <2>1, <2>4, <2>6, <2>7, Zenon DEF IInv, TypeOK, Threads, RootAlone, EachOnce
  <2>9. WalksALiveList'
    <3>1. PICK i \in DOMAIN table :
             /\ table[i].name = call[t].event
             /\ \E k \in 1 .. Len(table[i].subs) + 1 :
                   due[t] = SubSeq(table[i].subs, k, Len(table[i].subs))
      BY <2>1, Zenon DEF IInv, WalksALiveList
    <3>2. table[i].subs \in Seq(Handler)
      <4>1. table \in Seq(Node) /\ i \in 1 .. Len(table)
        BY SMT DEF IInv, TypeOK, Node
      <4> QED
        BY <4>1, NodeFacts, Zenon
    <3>3. \E k \in 1 .. Len(table[i].subs) + 1 :
             due'[t] = SubSeq(table[i].subs, k, Len(table[i].subs))
      <4>1. due'[t] = due[t] \/ due'[t] = Tail(due[t])
        BY <2>2, SMT DEF IInv, TypeOK
      <4>2. \E k \in 1 .. Len(table[i].subs) + 1 :
               Tail(due[t]) = SubSeq(table[i].subs, k, Len(table[i].subs))
        BY <2>1, <2>5, <3>1, <3>2, SuffixTail
      <4> QED
        BY <3>1, <4>1, <4>2, Zenon
    <3> QED
      BY <2>1, <2>3, <2>4, <3>1, <3>3, Zenon DEF WalksALiveList
  <2> QED
    BY <2>6, <2>8, <2>9 DEF IInv, Threads
<1>14. ASSUME NEW t \in Thread, notified(t) PROVE IInv'
  <2>1. at[t] = "notifying" /\ mutex' = Free /\ UNCHANGED table /\ Return(t, 0)
    BY <1>14 DEF notified
  <2>2. mutex = t /\ \A u \in Thread \ {t} : at[u] \notin Holding
    BY <2>1, SMT DEF IInv, HeldWhileNeeded
  <2>3. \A u \in Thread : at'[u] \notin Holding
    BY <2>1, <2>2, SMT DEF Return, Goto, IInv, TypeOK
  <2>4. Threads'
    BY <2>1, <2>3, EventAssumption, SMT DEF IInv, TypeOK, Threads, HeldWhileNeeded, Return, Goto
  <2>5. \A j \in DOMAIN table : table[j].name # NoName
    BY <2>1, <2>2, SMT DEF IInv, TypeOK
  <2>6. TypeOK' /\ EachOnce'
    BY <2>1, <2>4, <2>5, Zenon DEF IInv, TypeOK, Threads, EachOnce
  <2>7. RootAlone' /\ WalksALiveList'
    BY <2>3, Zenon DEF RootAlone, WalksALiveList
  <2> QED
    BY <2>4, <2>6, <2>7 DEF IInv, Threads
<1> QED
  BY <1>0, <1>1, <1>2, <1>3, <1>4, <1>5, <1>6, <1>7, <1>8, <1>9, <1>10, <1>11,
     <1>12, <1>13, <1>14 DEF Next, Proceed

-----------------------------------------------------------------------------
(***************************************************************************)
(* The threads and the table always have their types, and a root that has   *)
(* no name yet is alone and under the mutex of the thread that names it     *)
(* (event_create).                                                          *)
(***************************************************************************)
THEOREM TypeCorrectEvents == Spec => []TypeOK
<1>1. IInv => TypeOK
  BY DEF IInv
<1> QED
  BY Initially, Invariance, <1>1, PTL DEF Spec

(***************************************************************************)
(* No call returns with the mutex of the event table, whatever it finds,    *)
(* and none names a root or calls handlers without it.                      *)
(***************************************************************************)
THEOREM MutexDiscipline == Spec => []HeldWhileNeeded
<1>1. IInv => HeldWhileNeeded
  BY DEF IInv
<1> QED
  BY Initially, Invariance, <1>1, PTL DEF Spec

(***************************************************************************)
(* Any number of threads that create and subscribe at once leave one event  *)
(* per name and one subscription per handler.                               *)
(***************************************************************************)
THEOREM EventsAreUnique == Spec => []EachOnce
<1>1. IInv => EachOnce
  BY DEF IInv
<1> QED
  BY Initially, Invariance, <1>1, PTL DEF Spec

(***************************************************************************)
(* event_notify never walks a list that another thread has unlinked or      *)
(* changed, however long its handlers take.                                 *)
(***************************************************************************)
THEOREM NotifyWalksTheTable == Spec => []WalksALiveList
<1>1. IInv => WalksALiveList
  BY DEF IInv
<1> QED
  BY Initially, Invariance, <1>1, PTL DEF Spec

-----------------------------------------------------------------------------
(***************************************************************************)
(* That the table implements what threads that share it are promised.  To   *)
(* that end: where a thread is tells what it called, and a root is blank    *)
(* until it has its name.                                                   *)
(***************************************************************************)
Looks == {"peek", "compare", "lock_root", "lock_walk"}

OpsInPlace ==
    \A t \in Thread :
        /\ at[t] # "idle" => call[t] \in CallsOf[t]
        /\ at[t] \in Looks => call[t].op = "remove"
        /\ at[t] = "naming" => call[t].op = "create"

Blank == [name |-> NoName, subs |-> <<>>]

RootBlank == \A t \in Thread : at[t] = "naming" => table = <<Blank>>

PlaceInv == OpsInPlace /\ RootBlank

LEMMA PlaceInit == Init => PlaceInv
  BY DEF Init, PlaceInv, OpsInPlace, RootBlank, Looks

LEMMA OpsKept ==
    ASSUME IInv, PlaceInv, NEW t \in Thread, Invoke(t) \/ Proceed(t)
    PROVE  OpsInPlace'
<1>1. at \in [Thread -> {"idle", "lock", "naming", "peek", "compare", "lock_root",
                         "lock_walk", "notifying", "reentered"}]
      /\ call \in [Thread -> CallKind]
  BY DEF IInv, TypeOK
<1>2. ASSUME Invoke(t) PROVE OpsInPlace'
  <2>1. PICK c \in CallsOf[t] :
           /\ call' = [call EXCEPT ![t] = c]
           /\ at' = [at EXCEPT ![t] = IF c.op = "remove" THEN "peek" ELSE "lock"]
    BY <1>2 DEF Invoke, Goto
  <2> QED
    BY <1>1, <2>1 DEF PlaceInv, OpsInPlace, Looks
<1>3. ASSUME NEW s, Goto(t, s), call' = call, at[t] # "idle",
             s \in Looks => at[t] \in Looks, s = "naming" => call[t].op = "create"
      PROVE  OpsInPlace'
  BY <1>1, <1>3 DEF PlaceInv, OpsInPlace, Goto
<1>4. ASSUME NEW s, Goto(t, s), call' = call, at[t] # "idle", s \notin Looks, s # "naming"
      PROVE  OpsInPlace'
  BY <1>3, <1>4
<1>5. ASSUME Proceed(t) PROVE OpsInPlace'
  <2>1. ASSUME NEW rc, Return(t, rc), at[t] # "idle" PROVE OpsInPlace'
    BY <1>4, <2>1 DEF Return, Looks
  <2>2. CASE create_root(t)
    BY <1>3, <2>2 DEF create_root, LockedFor, Locked, Looks
  <2>3. CASE name_root(t) \/ event_create(t) \/ remove_root(t) \/ remove_behind(t) \/ notified(t)
    BY <2>1, <2>3 DEF name_root, event_create, remove_root, remove_behind, notified,
                      LockedFor, Locked
  <2>4. CASE peek(t) \/ compare(t)
    BY <1>3, <2>1, <2>4 DEF peek, compare, Looks
  <2>5. CASE remove_follows_null(t)
    BY <2>5 DEF remove_follows_null, Crash, PlaceInv, OpsInPlace
  <2>6. CASE event_subscribe(t) \/ event_unsubscribe(t)
    BY <2>1, <2>6 DEF event_subscribe, event_unsubscribe, NoSuchEvent, LockedFor, Locked
  <2>7. CASE event_notify(t)
    BY <1>4, <2>1, <2>7 DEF event_notify, NoSuchEvent, LockedFor, Locked, Looks
  <2>8. CASE call_handler(t)
    <3>1. CASE UNCHANGED <<at, call>>
      BY <3>1 DEF PlaceInv, OpsInPlace
    <3> QED
      BY <1>4, <2>8, <3>1 DEF call_handler, Looks
  <2> QED
    BY <1>5, <2>2, <2>3, <2>4, <2>5, <2>6, <2>7, <2>8 DEF Proceed
<1> QED
  BY <1>2, <1>5

LEMMA BlankKept ==
    ASSUME IInv, PlaceInv, NEW t \in Thread, Invoke(t) \/ Proceed(t)
    PROVE  RootBlank'
<1>1. /\ at \in [Thread -> {"idle", "lock", "naming", "peek", "compare", "lock_root",
                            "lock_walk", "notifying", "reentered"}]
      /\ Free \notin Thread
  BY EventAssumption DEF IInv, TypeOK
<1>2. ASSUME NEW u \in Thread, at'[u] = "naming", at[u] = "naming" PROVE table' = <<Blank>>
  <2>1. mutex = u /\ mutex # Free /\ table = <<Blank>>
    BY <1>1, <1>2 DEF IInv, HeldWhileNeeded, PlaceInv, RootBlank
  <2>2. CASE table' = table
    BY <2>1, <2>2
  <2>3. CASE name_root(t)
    <3>1. u = t
      BY <2>1, <2>3 DEF name_root, IInv, HeldWhileNeeded
    <3>2. at'[t] = "idle"
      BY <1>1, <2>3 DEF name_root, Return, Goto
    <3> QED
      BY <1>2, <3>1, <3>2
  <2> QED
    BY <2>1, <2>2, <2>3 DEF Invoke, Proceed, create_root, event_create, peek, compare,
         remove_root, remove_behind, remove_follows_null, Crash, event_subscribe,
         event_unsubscribe, event_notify, NoSuchEvent, call_handler, notified, LockedFor, Locked
<1>3. ASSUME NEW u \in Thread, at'[u] = "naming", at[u] # "naming" PROVE table' = <<Blank>>
  <2>1. at' # at
    BY <1>3
  <2>2. create_root(t)
    <3>1. ASSUME NEW s, s # "naming", Goto(t, s) PROVE FALSE
      BY <1>1, <1>3, <3>1 DEF Goto
    <3>2. ASSUME NEW rc, Return(t, rc) PROVE FALSE
      BY <3>1, <3>2 DEF Return
    <3>3. ~Invoke(t)
      BY <3>1 DEF Invoke
    <3>4. ~(name_root(t) \/ event_create(t) \/ remove_root(t) \/ remove_behind(t) \/ notified(t))
      BY <3>2 DEF name_root, event_create, remove_root, remove_behind, notified
    <3>5. ~(peek(t) \/ compare(t) \/ remove_follows_null(t))
      BY <2>1, <3>1, <3>2 DEF peek, compare, remove_follows_null, Crash
    <3>6. ~(event_subscribe(t) \/ event_unsubscribe(t) \/ event_notify(t) \/ call_handler(t))
      BY <2>1, <3>1, <3>2 DEF event_subscribe, event_unsubscribe, event_notify, NoSuchEvent,
                               call_handler
    <3> QED
      BY <3>3, <3>4, <3>5, <3>6 DEF Proceed
  <2> QED
    BY <2>2 DEF create_root, Blank
<1> QED
  BY <1>2, <1>3 DEF RootBlank

(***************************************************************************)
(* The registry of any list of events, and what becomes of it.              *)
(***************************************************************************)
NamedIn(l) == {i \in DOMAIN l : l[i].name # NoName}
NamesOf(l) == {l[i].name : i \in NamedIn(l)}
RegistryOf(l) ==
    [e \in NamesOf(l) |-> l[CHOOSE i \in NamedIn(l) : l[i].name = e].subs]

LEMMA RegistryIs ==
    ASSUME NEW l \in Seq(Node), Unique(l)
    PROVE  /\ DOMAIN RegistryOf(l) = NamesOf(l)
           /\ RegistryOf(l) = [e \in NamesOf(l) |-> RegistryOf(l)[e]]
           /\ \A i \in NamedIn(l) : /\ l[i].name \in NamesOf(l)
                                    /\ RegistryOf(l)[l[i].name] = l[i].subs
<1>1. DOMAIN RegistryOf(l) = NamesOf(l)
  BY Zenon DEF RegistryOf
<1>2. RegistryOf(l) = [e \in NamesOf(l) |-> RegistryOf(l)[e]]
  <2> DEFINE h(e) == l[CHOOSE i \in NamedIn(l) : l[i].name = e].subs
  <2>1. PICK r : r = [e \in NamesOf(l) |-> h(e)]
    OBVIOUS
  <2>2. r = RegistryOf(l)
    BY <2>1 DEF RegistryOf
  <2> HIDE DEF h
  <2>3. r = [e \in NamesOf(l) |-> r[e]]
    BY <2>1
  <2> QED
    BY <2>2, <2>3
<1>3. ASSUME NEW i \in NamedIn(l)
      PROVE  l[i].name \in NamesOf(l) /\ RegistryOf(l)[l[i].name] = l[i].subs
  <2>1. l[i].name \in NamesOf(l)
    BY Zenon DEF NamesOf
  <2>0. \A e \in NamesOf(l) :
           RegistryOf(l)[e] = l[CHOOSE k \in NamedIn(l) : l[k].name = e].subs
    BY Zenon DEF RegistryOf
  <2>2. PICK j : /\ j = CHOOSE k \in NamedIn(l) : l[k].name = l[i].name
                 /\ RegistryOf(l)[l[i].name] = l[j].subs
    BY <2>0, <2>1
  <2>3. j \in NamedIn(l) /\ l[j].name = l[i].name
    BY <2>2, Zenon
  <2>4. i \in 1 .. Len(l) /\ j \in 1 .. Len(l)
    BY <2>3 DEF NamedIn
  <2>5. i = j
    BY <2>3, <2>4, Zenon DEF Unique
  <2> QED
    BY <2>1, <2>2, <2>5
<1> QED
  BY <1>1, <1>2, <1>3

LEMMA RegistryEquals ==
    ASSUME NEW l \in Seq(Node), Unique(l), NEW g, NEW S, g = [e \in S |-> g[e]],
           S = NamesOf(l), \A i \in NamedIn(l) : g[l[i].name] = l[i].subs
    PROVE  RegistryOf(l) = g
<1>1. \A e \in NamesOf(l) : \E i \in NamedIn(l) : e = l[i].name
  BY Zenon DEF NamesOf
<1>2. \A e \in NamesOf(l) : RegistryOf(l)[e] = g[e]
  <2> SUFFICES ASSUME NEW e \in NamesOf(l) PROVE RegistryOf(l)[e] = g[e]
    OBVIOUS
  <2>1. PICK i \in NamedIn(l) : e = l[i].name
    BY <1>1
  <2>2. RegistryOf(l)[l[i].name] = l[i].subs
    BY RegistryIs, Zenon
  <2> QED
    BY <2>1, <2>2, Zenon
<1> DEFINE r == RegistryOf(l)
<1>3. r = [e \in S |-> r[e]]
  BY RegistryIs, Zenon
<1> HIDE DEF r
<1>4. \A e \in S : r[e] = g[e]
  BY <1>2 DEF r
<1>5. r = g
  BY <1>3, <1>4
<1> QED
  BY <1>5 DEF r

LEMMA RegistryAppend ==
    ASSUME NEW l \in Seq(Node), Unique(l), NEW e \in Event,
           \A i \in 1 .. Len(l) : l[i].name # e
    PROVE  RegistryOf(Append(l, [name |-> e, subs |-> <<>>])) =
             [x \in NamesOf(l) \cup {e} |-> IF x = e THEN <<>> ELSE RegistryOf(l)[x]]
<1> DEFINE n == [name |-> e, subs |-> <<>>]
           m == Append(l, n)
           g == [x \in NamesOf(l) \cup {e} |-> IF x = e THEN <<>> ELSE RegistryOf(l)[x]]
<1>1. m \in Seq(Node) /\ Unique(m)
  BY NodeAppended
<1>2. /\ Len(m) = Len(l) + 1 /\ Len(l) \in Nat
      /\ \A i \in 1 .. Len(l) : m[i] = l[i]
      /\ m[Len(l) + 1] = n
  BY SMT DEF Node
<1>3. n.name = e /\ n.subs = <<>> /\ e # NoName
  BY EventAssumption
<1>4. DOMAIN m = 1 .. Len(l) + 1 /\ DOMAIN l = 1 .. Len(l)
  BY <1>1, <1>2
<1> HIDE DEF m, n
<1>5. NamedIn(m) = NamedIn(l) \cup {Len(l) + 1}
  BY <1>2, <1>3, <1>4 DEF NamedIn
<1>6. \A i \in NamedIn(l) : m[i] = l[i] /\ l[i].name # e
  BY <1>2, <1>4 DEF NamedIn
<1>7. NamesOf(m) = NamesOf(l) \cup {e}
  BY <1>2, <1>3, <1>5, <1>6 DEF NamesOf
<1>8. \A i \in NamedIn(l) : g[l[i].name] = l[i].subs
  BY <1>6, RegistryIs
<1>9. g[e] = <<>>
  OBVIOUS
<1>10. \A i \in NamedIn(m) : g[m[i].name] = m[i].subs
  <2> HIDE DEF g
  <2> QED
    BY <1>2, <1>3, <1>5, <1>6, <1>8, <1>9
<1>11. g = [x \in NamesOf(l) \cup {e} |-> g[x]]
  OBVIOUS
<1> HIDE DEF g
<1>12. RegistryOf(m) = g
  BY <1>1, <1>7, <1>10, <1>11, RegistryEquals
<1> QED
  BY <1>12 DEF g, m, n

LEMMA RegistryRemove ==
    ASSUME NEW l \in Seq(Node), Unique(l), NEW k \in 1 .. Len(l), l[k].name # NoName
    PROVE  RegistryOf(RemoveAt(l, k)) = Restrict(RegistryOf(l), NamesOf(l) \ {l[k].name})
<1> DEFINE m == RemoveAt(l, k)
           S == NamesOf(l) \ {l[k].name}
           g == Restrict(RegistryOf(l), S)
           old(j) == IF j < k THEN j ELSE j + 1
<1>1. m \in Seq(Node) /\ Unique(m)
  BY NodeRemoved
<1>2. /\ Len(m) = Len(l) - 1
      /\ \A j \in 1 .. (Len(l) - 1) : m[j] = IF j < k THEN l[j] ELSE l[j + 1]
  BY Without
<1>3. DOMAIN m = 1 .. (Len(l) - 1) /\ DOMAIN l = 1 .. Len(l) /\ Len(l) \in Nat
  BY <1>1, <1>2
<1>4. \A j \in DOMAIN m : old(j) \in DOMAIN l /\ old(j) # k /\ m[j] = l[old(j)]
  BY <1>2, <1>3
<1>5. \A i \in DOMAIN l : i # k => \E j \in DOMAIN m : i = old(j)
  <2> SUFFICES ASSUME NEW i \in 1 .. Len(l), i # k
               PROVE  \E j \in 1 .. (Len(l) - 1) : i = old(j)
    BY <1>3
  <2>1. CASE i < k
    <3>1. i \in 1 .. (Len(l) - 1) /\ i = old(i)
      BY <1>3, <2>1
    <3> QED
      BY <3>1
  <2>2. CASE i > k
    <3>1. i - 1 \in 1 .. (Len(l) - 1) /\ i = old(i - 1)
      BY <1>3, <2>2
    <3> QED
      BY <3>1
  <2> QED
    BY <2>1, <2>2, <1>3
<1> HIDE DEF m, old
<1>6. \A j \in NamedIn(m) : old(j) \in NamedIn(l) /\ old(j) # k /\ m[j] = l[old(j)]
  BY <1>4, Zenon DEF NamedIn
<1>7. \A i \in NamedIn(l) : i # k => \E j \in NamedIn(m) : m[j] = l[i]
  BY <1>4, <1>5, Zenon DEF NamedIn
<1>8. \A i \in NamedIn(l) : i # k => l[i].name # l[k].name
  BY <1>3, Zenon DEF Unique, NamedIn
<1>9. NamesOf(m) = S
  <2>1. \A x \in NamesOf(m) : x \in S
    BY <1>6, <1>8, Zenon DEF NamesOf
  <2>2. ASSUME NEW x \in S PROVE x \in NamesOf(m)
    <3>1. PICK i \in NamedIn(l) : x = l[i].name
      BY Zenon DEF NamesOf
    <3>2. i # k
      BY <3>1
    <3>3. PICK j \in NamedIn(m) : m[j] = l[i]
      BY <1>7, <3>2, Zenon
    <3> QED
      BY <3>1, <3>3, Zenon DEF NamesOf
  <2> QED
    BY <2>1, <2>2
<1>10. \A x \in S : g[x] = RegistryOf(l)[x]
  BY Zenon DEF Restrict
<1>11. g = [x \in S |-> g[x]]
  BY Zenon DEF Restrict
<1>12. \A j \in NamedIn(m) : m[j].name \in S
  BY <1>9, Zenon DEF NamesOf
<1> HIDE DEF g, S
<1>13. \A j \in NamedIn(m) : g[m[j].name] = m[j].subs
  <2> SUFFICES ASSUME NEW j \in NamedIn(m) PROVE g[m[j].name] = m[j].subs
    OBVIOUS
  <2>1. g[m[j].name] = RegistryOf(l)[m[j].name]
    BY <1>10, <1>12, Zenon
  <2>2. old(j) \in NamedIn(l) /\ m[j] = l[old(j)]
    BY <1>6, Zenon
  <2>3. RegistryOf(l)[l[old(j)].name] = l[old(j)].subs
    BY <2>2, RegistryIs, Zenon
  <2> QED
    BY <2>1, <2>2, <2>3, Zenon
<1>14. RegistryOf(m) = g
  BY <1>1, <1>9, <1>11, <1>13, RegistryEquals, Zenon
<1> QED
  BY <1>14 DEF g, m, S

LEMMA RegistrySubs ==
    ASSUME NEW l \in Seq(Node), Unique(l), NEW k \in NamedIn(l),
           NEW s \in Seq(Handler), IsInjective(s)
    PROVE  RegistryOf([l EXCEPT ![k].subs = s]) = [RegistryOf(l) EXCEPT ![l[k].name] = s]
<1>0. k \in 1 .. Len(l) /\ l[k] \in Node
  BY DEF NamedIn
<1>1. PICK n \in Node : n = [l[k] EXCEPT !.subs = s] /\ n.name = l[k].name /\ n.subs = s
  <2> DEFINE n == [l[k] EXCEPT !.subs = s]
  <2>1. n \in Node /\ n.name = l[k].name /\ n.subs = s
    BY <1>0, FieldReplaced
  <2> HIDE DEF n
  <2>2. n = [l[k] EXCEPT !.subs = s]
    BY DEF n
  <2> QED
    BY <2>1, <2>2
<1>2. PICK m : m = With(l, k, n)
  OBVIOUS
<1>3. [l EXCEPT ![k].subs = s] = m /\ m = WithSubs(l, k, s)
  BY <1>1, <1>2 DEF WithSubs, With
<1>4. m \in Seq(Node) /\ Unique(m)
  BY <1>0, <1>3, HandlersChanged
<1>5. Len(m) = Len(l) /\ \A i \in 1 .. Len(l) : m[i] = IF i = k THEN n ELSE l[i]
  <2>1. /\ Len(With(l, k, n)) = Len(l)
        /\ \A i \in 1 .. Len(l) : With(l, k, n)[i] = IF i = k THEN n ELSE l[i]
    BY <1>0, NodeReplaced
  <2> QED
    BY <1>2, <2>1
<1>6. DOMAIN m = 1 .. Len(l) /\ DOMAIN l = 1 .. Len(l)
  BY <1>4, <1>5
<1>7. \A i \in DOMAIN l : m[i].name = l[i].name
  BY <1>1, <1>5, <1>6
<1>8. NamedIn(m) = NamedIn(l)
  BY <1>6, <1>7 DEF NamedIn
<1>9. NamesOf(m) = NamesOf(l)
  BY <1>7, <1>8 DEF NamesOf, NamedIn
<1> DEFINE r == RegistryOf(l)
           g == [r EXCEPT ![l[k].name] = s]
<1>10. /\ DOMAIN r = NamesOf(l)
       /\ \A i \in NamedIn(l) : l[i].name \in NamesOf(l) /\ r[l[i].name] = l[i].subs
  BY RegistryIs, Zenon
<1> HIDE DEF r
<1>11. g = [x \in NamesOf(l) |-> g[x]] /\ \A x \in NamesOf(l) : g[x] = IF x = l[k].name THEN s ELSE r[x]
  BY <1>10
<1>12. \A i \in NamedIn(l) : i # k => l[i].name # l[k].name
  BY <1>6, Zenon DEF Unique, NamedIn
<1> HIDE DEF g
<1>13. ASSUME NEW i \in NamedIn(m) PROVE g[m[i].name] = m[i].subs
  <2>1. i \in NamedIn(l) /\ i \in DOMAIN l /\ m[i].name = l[i].name
    BY <1>7, <1>8 DEF NamedIn
  <2>2. CASE i = k
    <3>1. m[i].subs = s
      BY <1>1, <1>5, <1>6, <2>1, <2>2
    <3>2. g[l[k].name] = s
      BY <1>10, <1>11
    <3> QED
      BY <2>1, <2>2, <3>1, <3>2
  <2>3. CASE i # k
    <3>1. m[i] = l[i]
      BY <1>5, <1>6, <2>1, <2>3
    <3>2. g[l[i].name] = r[l[i].name]
      BY <1>10, <1>11, <1>12, <2>1, <2>3
    <3> QED
      BY <1>10, <2>1, <3>1, <3>2
  <2> QED
    BY <2>2, <2>3
<1>14. RegistryOf(m) = g
  <2>1. g = [x \in NamesOf(m) |-> g[x]]
    BY <1>9, <1>11
  <2> QED
    BY <1>4, <1>13, <2>1, RegistryEquals, Zenon
<1> QED
  BY <1>3, <1>14 DEF g, r

(***************************************************************************)
(* The two views of a state.                                                *)
(***************************************************************************)
LEMMA Views ==
    /\ registry = RegistryOf(table) /\ registry' = RegistryOf(table')
  BY DEF registry, Named, RegistryOf, NamesOf, NamedIn

PhaseOf(s) == IF s = "idle" THEN "idle"
              ELSE IF s \in {"notifying", "reentered"} THEN "notifying" ELSE "called"

LEMMA Phases ==
    ASSUME TypeOK
    PROVE  /\ \A t \in Thread : phase[t] = PhaseOf(at[t])
           /\ \A t \in Thread : \A s : Goto(t, s) => phase' = [phase EXCEPT ![t] = PhaseOf(s)]
           /\ at' = at => phase' = phase
<1>1. at \in [Thread -> {"idle", "lock", "naming", "peek", "compare", "lock_root",
                         "lock_walk", "notifying", "reentered"}]
  BY DEF TypeOK
<1>2. phase = [t \in Thread |-> PhaseOf(at[t])] /\ phase' = [t \in Thread |-> PhaseOf(at'[t])]
  BY DEF phase, PhaseOf
<1>3. ASSUME NEW t \in Thread, NEW s, Goto(t, s)
      PROVE  phase' = [phase EXCEPT ![t] = PhaseOf(s)]
  <2>1. \A u \in Thread : at'[u] = IF u = t THEN s ELSE at[u]
    BY <1>1, <1>3 DEF Goto
  <2>2. phase' = [u \in Thread |-> IF u = t THEN PhaseOf(s) ELSE PhaseOf(at[u])]
    BY <1>2, <2>1
  <2> QED
    BY <1>2, <2>2
<1> QED
  BY <1>2, <1>3

LEMMA Returns ==
    ASSUME TypeOK, NEW t \in Thread, NEW rc, Return(t, rc)
    PROVE  Promise!Return(t, rc)
<1>1. phase' = [phase EXCEPT ![t] = "idle"]
  BY Phases DEF Return, PhaseOf
<1> QED
  BY <1>1 DEF Return, Promise!Return

LEMMA IsCalled ==
    ASSUME TypeOK, NEW t \in Thread, status = "running", NEW op, call[t].op = op,
           at[t] \notin {"idle", "notifying", "reentered"}
    PROVE  Promise!Called(t, op)
  BY Phases DEF Promise!Called, PhaseOf

(***************************************************************************)
(* What a thread finds in the table and what there is in the registry.      *)
(***************************************************************************)
LEMMA InRegistry ==
    ASSUME IInv, NEW t \in Thread
    PROVE  /\ table \in Seq(Node) /\ Unique(table)
           /\ call[t].event \in Event /\ call[t].handler \in Handler
           /\ DOMAIN registry = NamesOf(table)
           /\ find_event(call[t].event) = {} <=> ~Promise!There(t)
           /\ \A i \in find_event(call[t].event) :
                 /\ i \in NamedIn(table) /\ i \in 1 .. Len(table)
                 /\ table[i].name = call[t].event
                 /\ registry[call[t].event] = table[i].subs
                 /\ table[i].subs \in Seq(Handler) /\ IsInjective(table[i].subs)
<1>1. table \in Seq(Node) /\ Unique(table)
  BY UniqueTable DEF IInv, TypeOK, Node
<1>2. call[t].event \in Event /\ call[t].handler \in Handler /\ call[t].event # NoName
  BY EventAssumption DEF IInv, TypeOK, CallKind
<1>3. DOMAIN registry = NamesOf(table)
  BY <1>1, RegistryIs, Views
<1>4. find_event(call[t].event) = {i \in NamedIn(table) : table[i].name = call[t].event}
  BY <1>2 DEF find_event, NamedIn
<1>5. call[t].event \in NamesOf(table) <=> \E i \in NamedIn(table) : table[i].name = call[t].event
  BY Zenon DEF NamesOf
<1>6. find_event(call[t].event) = {} <=> ~Promise!There(t)
  BY <1>3, <1>4, <1>5 DEF Promise!There
<1>7. ASSUME NEW i \in find_event(call[t].event)
      PROVE  /\ i \in NamedIn(table) /\ i \in 1 .. Len(table)
             /\ table[i].name = call[t].event
             /\ registry[call[t].event] = table[i].subs
             /\ table[i].subs \in Seq(Handler) /\ IsInjective(table[i].subs)
  <2>1. i \in NamedIn(table) /\ table[i].name = call[t].event /\ i \in 1 .. Len(table)
    BY <1>1, <1>4 DEF NamedIn
  <2>2. registry[table[i].name] = table[i].subs
    BY <1>1, <2>1, RegistryIs, Views
  <2>3. table[i].subs \in Seq(Handler) /\ IsInjective(table[i].subs)
    BY <1>1, <2>1, NodeFacts DEF Unique
  <2> QED
    BY <2>1, <2>2, <2>3
<1> QED
  BY <1>1, <1>2, <1>3, <1>6, <1>7

LEMMA AllNamed ==
    ASSUME IInv, mutex = Free
    PROVE  \A i \in DOMAIN table : table[i].name # NoName
  BY EventAssumption DEF IInv, TypeOK

LEMMA EmptyRegistry ==
    ASSUME IInv
    PROVE  /\ table = <<>> => registry = <<>>
           /\ (\E i \in DOMAIN table : table[i].name # NoName) => registry # <<>>
<1>1. table \in Seq(Node) /\ Unique(table)
  BY UniqueTable DEF IInv, TypeOK, Node
<1>2. DOMAIN registry = NamesOf(table) /\ registry = [e \in NamesOf(table) |-> registry[e]]
  BY <1>1, RegistryIs, Views
<1>3. ASSUME table = <<>> PROVE registry = <<>>
  <2>1. NamedIn(table) = {}
    BY <1>3 DEF NamedIn
  <2>2. NamesOf(table) = {}
    BY <2>1 DEF NamesOf
  <2> QED
    BY <1>2, <2>2
<1>4. ASSUME NEW i \in DOMAIN table, table[i].name # NoName PROVE registry # <<>>
  <2>1. NamesOf(table) # {}
    BY <1>4 DEF NamesOf, NamedIn
  <2> QED
    BY <1>2, <2>1
<1> QED
  BY <1>3, <1>4

LEMMA MissingCode ==
    ASSUME IInv, mutex = Free, NEW t \in Thread
    PROVE  Promise!Missing(t) = IF table = <<>> THEN 1 ELSE 2
<1>1. table # <<>> => registry # <<>>
  <2> SUFFICES ASSUME table # <<>> PROVE registry # <<>>
    OBVIOUS
  <2>1. 1 \in DOMAIN table
    BY RootRemoved DEF IInv, TypeOK, Node
  <2> QED
    BY <2>1, AllNamed, EmptyRegistry
<1> QED
  BY <1>1, EmptyRegistry DEF Promise!Missing

-----------------------------------------------------------------------------
(***************************************************************************)
(* Initial states map to initial states; each step maps to a step of the    *)
(* registry or to none.                                                     *)
(***************************************************************************)
LEMMA RegistryStart == Init => Promise!Start
<1> SUFFICES ASSUME Init PROVE Promise!Start
  OBVIOUS
<1>1. registry = <<>>
  BY Initially, EmptyRegistry DEF Init
<1>2. phase = [t \in Thread |-> "idle"]
  BY DEF Init, phase
<1> QED
  <2>1. /\ call \in [Thread -> UNION Range(CallsOf)]
        /\ answer = [t \in Thread |-> 0] /\ due = [t \in Thread |-> <<>>]
    BY DEF Init
  <2>2. Promise!Range(CallsOf) = Range(CallsOf)
    BY DEF Range, Promise!Range
  <2> QED
    BY <1>1, <1>2, <2>1, <2>2, Zenon DEF Promise!Start

Stays == UNCHANGED Promise!regVars

LEMMA StaysIf ==
    ASSUME TypeOK, NEW t \in Thread, NEW s, Goto(t, s), PhaseOf(s) = phase[t],
           UNCHANGED <<call, answer, due, status>>, registry' = registry
    PROVE  Stays
<1>1. phase \in [Thread -> {"idle", "called", "notifying"}]
  BY DEF phase, TypeOK
<1>2. phase' = phase
  BY <1>1, Phases
<1> QED
  BY <1>2 DEF Stays, Promise!regVars

LEMMA InvokeIsCall ==
    ASSUME IInv, NEW t \in Thread, Invoke(t)
    PROVE  Promise!Call(t)
<1>1. PICK c \in CallsOf[t] :
         /\ call' = [call EXCEPT ![t] = c]
         /\ Goto(t, IF c.op = "remove" THEN "peek" ELSE "lock")
  BY DEF Invoke
<1>2. phase[t] = "idle" /\ phase' = [phase EXCEPT ![t] = "called"]
  BY <1>1, Phases DEF Invoke, PhaseOf, IInv
<1>3. registry' = registry
  BY Views DEF Invoke
<1> QED
  BY <1>1, <1>2, <1>3 DEF Invoke, Promise!Call

LEMMA CreateRefines ==
    ASSUME IInv, IInv', PlaceInv, NEW t \in Thread, create_root(t) \/ name_root(t) \/ event_create(t)
    PROVE  Promise!Created(t) \/ Stays
<1>1. TypeOK /\ table' \in Seq(Node) /\ Unique(table')
  BY UniqueTable2 DEF IInv, TypeOK, Node
<1> DEFINE e == call[t].event
<1>2. CASE create_root(t)
  <2>1. at[t] = "lock" /\ table = <<>> /\ table' = <<Blank>>
    BY <1>2 DEF create_root, LockedFor, Locked, Blank
  <2>2. NamedIn(table') = {}
    BY <2>1 DEF NamedIn, Blank
  <2>3. NamesOf(table') = {}
    BY <2>2 DEF NamesOf
  <2>4. registry' = <<>>
    BY <1>1, <2>3, RegistryIs, Views
  <2>5. registry' = registry
    BY <2>1, <2>4, EmptyRegistry
  <2>6. PhaseOf("naming") = phase[t]
    BY <1>1, <2>1, Phases DEF PhaseOf
  <2> QED
    BY <1>1, <1>2, <2>5, <2>6, StaysIf DEF create_root
<1>3. CASE name_root(t)
  <2>1. at[t] = "naming" /\ status = "running" /\ call[t].op = "create" /\ table = <<Blank>>
    BY <1>3 DEF name_root, PlaceInv, OpsInPlace, RootBlank
  <2>2. e \in Event /\ e # NoName
    BY EventAssumption, InRegistry
  <2>3. table' = <<[name |-> e, subs |-> <<>>]>>
    BY <1>3, <2>1 DEF name_root, Blank
  <2>4. NamesOf(table) = {}
    BY <2>1 DEF NamesOf, NamedIn, Blank
  <2>5. ~Promise!There(t) /\ DOMAIN registry = {}
    BY <2>4, InRegistry DEF Promise!There
  <2>6. NamedIn(table') = {1} /\ table'[1].name = e /\ table'[1].subs = <<>>
    BY <2>2, <2>3 DEF NamedIn
  <2>7. NamesOf(table') = {e}
    BY <2>6 DEF NamesOf
  <2> DEFINE g == [x \in DOMAIN registry \cup {e} |-> IF x = e THEN <<>> ELSE registry[x]]
  <2>8. g = [x \in {e} |-> g[x]] /\ g[e] = <<>>
    BY <2>5
  <2> HIDE DEF g
  <2>a. \A i \in NamedIn(table') : g[table'[i].name] = table'[i].subs
    BY <2>6, <2>8
  <2>b. g = [x \in NamesOf(table') |-> g[x]]
    BY <2>7, <2>8
  <2>9. RegistryOf(table') = g
    BY <1>1, <2>a, <2>b, RegistryEquals, Zenon
  <2>10. Promise!Called(t, "create") /\ Promise!Return(t, 0)
    BY <1>1, <1>3, <2>1, IsCalled, Returns DEF name_root
  <2> QED
    BY <2>5, <2>9, <2>10, Views DEF Promise!Created, g
<1>4. CASE event_create(t)
  <2>1. Promise!Called(t, "create")
    BY <1>1, <1>4, IsCalled DEF event_create, LockedFor, Locked
  <2>2. CASE NameTaken(e) /\ UNCHANGED table /\ Return(t, 1)
    <3>1. Promise!There(t) /\ registry' = registry /\ Promise!Return(t, 1)
      BY <1>1, <2>2, InRegistry, Views, Returns DEF NameTaken
    <3> QED
      BY <2>1, <3>1 DEF Promise!Created
  <2>3. CASE /\ ~NameTaken(e)
             /\ table' = Append(table, [name |-> e, subs |-> <<>>])
             /\ Return(t, 0)
    <3>1. ~Promise!There(t) /\ Promise!Return(t, 0)
      BY <1>1, <2>3, InRegistry, Returns DEF NameTaken
    <3>2. \A i \in 1 .. Len(table) : table[i].name # e
      BY <2>3, InRegistry DEF NameTaken, find_event
    <3>3. RegistryOf(table') =
            [x \in NamesOf(table) \cup {e} |-> IF x = e THEN <<>> ELSE RegistryOf(table)[x]]
      BY <2>3, <3>2, InRegistry, RegistryAppend
    <3>4. registry' = [x \in DOMAIN registry \cup {e} |-> IF x = e THEN <<>> ELSE registry[x]]
      BY <3>3, InRegistry, Views
    <3> QED
      BY <2>1, <3>1, <3>4 DEF Promise!Created
  <2> QED
    BY <1>4, <2>2, <2>3 DEF event_create
<1> QED
  BY <1>2, <1>3, <1>4

LEMMA SameHelpers ==
    /\ \A s, h : Promise!Contains(s, h) <=> Contains(s, h)
    /\ \A s, k : Promise!RemoveAt(s, k) = RemoveAt(s, k)
    /\ \A f, S : Promise!Restrict(f, S) = Restrict(f, S)
  BY Zenon DEF Contains, Promise!Contains, RemoveAt, Promise!RemoveAt, Restrict, Promise!Restrict

LEMMA RemoveRefines ==
    ASSUME IInv, PlaceInv, NEW t \in Thread,
           peek(t) \/ compare(t) \/ remove_root(t) \/ remove_behind(t) \/ remove_follows_null(t)
    PROVE  Promise!RemovedOneOf(t, Event) \/ Stays
<1>1. TypeOK /\ table \in Seq(Node) /\ DOMAIN registry = NamesOf(table)
  BY InRegistry DEF IInv
<1> DEFINE e == call[t].event
<1>2. at[t] \in Looks /\ status = "running" /\ call[t].op = "remove"
  BY DEF peek, compare, remove_root, remove_behind, remove_follows_null, Locked, Looks,
         PlaceInv, OpsInPlace
<1>3. Promise!Called(t, "remove")
  BY <1>1, <1>2, IsCalled DEF Looks
<1>4. PhaseOf("compare") = phase[t] /\ PhaseOf("lock_root") = phase[t] /\ PhaseOf("lock_walk") = phase[t]
  BY <1>1, <1>2, Phases DEF PhaseOf, Looks
<1>5. CASE peek(t)
  <2>1. registry' = registry
    BY <1>5, Views DEF peek
  <2>2. CASE table = <<>>
    <3>1. registry = <<>> /\ Promise!Return(t, 1)
      BY <1>1, <1>5, <2>2, EmptyRegistry, Returns DEF peek
    <3>2. NamesOf(table) = {}
      BY <2>2 DEF NamesOf, NamedIn
    <3>3. ~Promise!There(t) /\ Promise!Missing(t) = 1
      BY <1>1, <3>1, <3>2 DEF Promise!There, Promise!Missing
    <3> QED
      BY <1>3, <2>1, <3>1, <3>3 DEF Promise!RemovedOneOf
  <2>3. CASE table # <<>>
    BY <1>1, <1>4, <1>5, <2>1, <2>3, StaysIf DEF peek
  <2> QED
    BY <2>2, <2>3
<1>6. CASE compare(t)
  <2>1. registry' = registry
    BY <1>6, Views DEF compare
  <2> QED
    BY <1>1, <1>4, <1>6, <2>1, StaysIf DEF compare
<1>7. ASSUME NEW k \in 1 .. Len(table), mutex = Free, table' = RemoveAt(table, k), Return(t, 0)
      PROVE  Promise!RemovedOneOf(t, Event)
  <2> DEFINE f == table[k].name
  <2>1. Unique(table) /\ f # NoName /\ k \in NamedIn(table)
    BY <1>1, <1>7, AllNamed, InRegistry DEF NamedIn
  <2>2. f \in Event /\ f \in DOMAIN registry
    BY <1>1, <1>7, <2>1, NodeFacts DEF NamesOf, Node
  <2>3. registry' = Restrict(registry, NamesOf(table) \ {f})
    BY <1>1, <1>7, <2>1, RegistryRemove, Views
  <2> HIDE DEF f
  <2>4. Promise!Drop(f)
    BY <1>1, <2>3, SameHelpers DEF Promise!Drop
  <2>5. Promise!Return(t, 0)
    BY <1>1, <1>7, Returns
  <2> QED
    BY <1>3, <2>2, <2>4, <2>5 DEF Promise!RemovedOneOf
<1>8. CASE remove_root(t)
  <2>1. mutex = Free /\ table # <<>> /\ table' = Tail(table) /\ Return(t, 0)
    BY <1>8 DEF remove_root, Locked
  <2>2. 1 \in 1 .. Len(table) /\ table' = RemoveAt(table, 1)
    BY <1>1, <2>1, RootRemoved
  <2> QED
    BY <1>7, <2>1, <2>2
<1>9. CASE remove_behind(t)
  <2>1. PICK k \in find_event(e) : table' = RemoveAt(table, k)
    BY <1>9 DEF remove_behind, Behind
  <2>2. k \in 1 .. Len(table) /\ mutex = Free /\ Return(t, 0)
    BY <1>9, <2>1, InRegistry DEF remove_behind, Locked
  <2> QED
    BY <1>7, <2>1, <2>2
<1>10. CASE remove_follows_null(t)
  <2>1. registry' = registry /\ phase' = phase /\ UNCHANGED <<call, answer, due>>
    BY <1>1, <1>10, Views, Phases DEF remove_follows_null, Crash
  <2> QED
    BY <2>1 DEF Stays, Promise!regVars
<1> QED
  BY <1>5, <1>6, <1>8, <1>9, <1>10

LEMMA NoSuchRefines ==
    ASSUME IInv, NEW t \in Thread, mutex = Free, NoSuchEvent(t)
    PROVE  ~Promise!There(t) /\ registry' = registry /\ Promise!Return(t, Promise!Missing(t))
<1>1. ~Promise!There(t) /\ registry' = registry
  BY InRegistry, Views DEF NoSuchEvent
<1>2. Promise!Return(t, IF table = <<>> THEN 1 ELSE 2)
  BY Returns DEF NoSuchEvent, IInv
<1> QED
  BY <1>1, <1>2, MissingCode

LEMMA SubscribeRefines ==
    ASSUME IInv, NEW t \in Thread, event_subscribe(t)
    PROVE  Promise!Subscribed(t)
<1> DEFINE e == call[t].event
           h == call[t].handler
<1>1. TypeOK /\ Promise!Called(t, "subscribe") /\ mutex = Free
  BY IsCalled DEF event_subscribe, LockedFor, Locked, IInv
<1>2. CASE NoSuchEvent(t)
  <2>1. ~Promise!There(t) /\ registry' = registry /\ Promise!Return(t, Promise!Missing(t))
    BY <1>1, <1>2, NoSuchRefines
  <2> QED
    BY <1>1, <2>1 DEF Promise!Subscribed
<1>3. ASSUME NEW i \in find_event(e), Contains(table[i].subs, h), UNCHANGED table, Return(t, 3)
      PROVE  Promise!Subscribed(t)
  <2>1. Promise!There(t) /\ registry[e] = table[i].subs
    BY <1>3, InRegistry
  <2>2. Promise!Contains(registry[e], h)
    BY <1>3, <2>1, SameHelpers, Zenon
  <2>3. registry' = registry /\ Promise!Return(t, 3)
    BY <1>1, <1>3, Views, Returns
  <2> QED
    BY <1>1, <2>1, <2>2, <2>3 DEF Promise!Subscribed
<1>4. ASSUME NEW i \in find_event(e), ~Contains(table[i].subs, h),
             table' = [table EXCEPT ![i].subs = Append(@, h)], Return(t, 0)
      PROVE  Promise!Subscribed(t)
  <2>1. Promise!There(t) /\ registry[e] = table[i].subs /\ table[i].name = e
    BY <1>4, InRegistry
  <2>2. ~Promise!Contains(registry[e], h)
    BY <1>4, <2>1, SameHelpers, Zenon
  <2>3. Append(table[i].subs, h) \in Seq(Handler) /\ IsInjective(Append(table[i].subs, h))
    BY <1>4, InRegistry, DistinctAppend
  <2>4. RegistryOf([table EXCEPT ![i].subs = Append(table[i].subs, h)])
          = [RegistryOf(table) EXCEPT ![table[i].name] = Append(table[i].subs, h)]
    <3>1. i \in NamedIn(table) /\ table \in Seq(Node) /\ Unique(table)
      BY <1>4, InRegistry
    <3> QED
      BY <2>3, <3>1, RegistrySubs, Zenon
  <2>5. registry' = [registry EXCEPT ![e] = Append(@, h)]
    BY <1>4, <2>1, <2>4, Views
  <2>6. Promise!Return(t, 0)
    BY <1>1, <1>4, Returns
  <2> QED
    BY <1>1, <2>1, <2>2, <2>5, <2>6 DEF Promise!Subscribed
<1> QED
  BY <1>2, <1>3, <1>4 DEF event_subscribe

LEMMA UnsubscribeRefines ==
    ASSUME IInv, NEW t \in Thread, event_unsubscribe(t)
    PROVE  Promise!Unsubscribed(t)
<1> DEFINE e == call[t].event
           h == call[t].handler
<1>1. TypeOK /\ Promise!Called(t, "unsubscribe") /\ mutex = Free
  BY IsCalled DEF event_unsubscribe, LockedFor, Locked, IInv
<1>2. CASE NoSuchEvent(t)
  <2>1. ~Promise!There(t) /\ registry' = registry /\ Promise!Return(t, Promise!Missing(t))
    BY <1>1, <1>2, NoSuchRefines
  <2> QED
    BY <1>1, <2>1 DEF Promise!Unsubscribed
<1>3. ASSUME NEW i \in find_event(e), ~Contains(table[i].subs, h), UNCHANGED table, Return(t, 3)
      PROVE  Promise!Unsubscribed(t)
  <2>1. Promise!There(t) /\ registry[e] = table[i].subs
    BY <1>3, InRegistry
  <2>2. ~Promise!Contains(registry[e], h)
    BY <1>3, <2>1, SameHelpers, Zenon
  <2>3. registry' = registry /\ Promise!Return(t, 3)
    BY <1>1, <1>3, Views, Returns
  <2> QED
    BY <1>1, <2>1, <2>2, <2>3 DEF Promise!Unsubscribed
<1>4. ASSUME NEW i \in find_event(e), NEW k \in DOMAIN table[i].subs, table[i].subs[k] = h,
             table' = [table EXCEPT ![i].subs = RemoveAt(@, k)], Return(t, 0)
      PROVE  Promise!Unsubscribed(t)
  <2> DEFINE s == RemoveAt(table[i].subs, k)
  <2>1. /\ Promise!There(t) /\ registry[e] = table[i].subs /\ table[i].name = e
        /\ table[i].subs \in Seq(Handler) /\ IsInjective(table[i].subs)
    BY <1>4, InRegistry
  <2>2. k \in 1 .. Len(table[i].subs)
    BY <1>4, <2>1
  <2>3. s \in Seq(Handler) /\ IsInjective(s)
    BY <2>1, <2>2, Without, DistinctWithout
  <2>4. table' = [table EXCEPT ![i].subs = s]
    BY <1>4
  <2>5. s = Promise!RemoveAt(registry[e], k)
    BY <2>1, SameHelpers, Zenon
  <2> HIDE DEF s
  <2>6. RegistryOf([table EXCEPT ![i].subs = s]) = [RegistryOf(table) EXCEPT ![table[i].name] = s]
    <3>1. i \in NamedIn(table) /\ table \in Seq(Node) /\ Unique(table)
      BY <1>4, InRegistry
    <3> QED
      BY <2>3, <3>1, RegistrySubs, Zenon
  <2>7. registry' = [registry EXCEPT ![e] = s]
    BY <2>1, <2>4, <2>6, Views
  <2>8. registry' = [registry EXCEPT ![e] = Promise!RemoveAt(@, k)]
    BY <2>5, <2>7
  <2>9. Promise!Return(t, 0) /\ k \in DOMAIN registry[e] /\ registry[e][k] = h
    BY <1>1, <1>4, <2>1, Returns
  <2> QED
    BY <1>1, <2>1, <2>8, <2>9 DEF Promise!Unsubscribed
<1> QED
  BY <1>2, <1>3, <1>4 DEF event_unsubscribe

LEMMA NotifyRefines ==
    ASSUME IInv, NEW t \in Thread, event_notify(t) \/ call_handler(t) \/ notified(t)
    PROVE  Promise!Notifies(t) \/ Promise!HandlerCalled(t) \/ Promise!Notified(t) \/ Stays
<1>1. TypeOK
  BY DEF IInv
<1>2. registry' = registry
  BY Views DEF event_notify, NoSuchEvent, call_handler, notified
<1>3. CASE event_notify(t)
  <2>1. Promise!Called(t, "notify") /\ mutex = Free
    BY <1>1, <1>3, IsCalled DEF event_notify, LockedFor, Locked
  <2>2. CASE NoSuchEvent(t)
    <3>1. ~Promise!There(t) /\ Promise!Return(t, Promise!Missing(t))
      BY <2>1, <2>2, NoSuchRefines
    <3> QED
      BY <1>2, <2>1, <3>1 DEF Promise!Notifies
  <2>3. ASSUME NEW i \in find_event(call[t].event), due' = [due EXCEPT ![t] = table[i].subs],
               Goto(t, "notifying"), UNCHANGED <<table, call, answer, status>>
        PROVE  Promise!Notifies(t)
    <3>1. Promise!There(t) /\ registry[call[t].event] = table[i].subs
      BY <2>3, InRegistry
    <3>2. phase' = [phase EXCEPT ![t] = "notifying"]
      BY <1>1, <2>3, Phases DEF PhaseOf
    <3> QED
      BY <1>2, <2>1, <2>3, <3>1, <3>2 DEF Promise!Notifies
  <2> QED
    BY <1>3, <2>2, <2>3 DEF event_notify
<1>4. CASE call_handler(t)
  <2>1. status = "running" /\ at[t] = "notifying" /\ due[t] # <<>> /\ UNCHANGED <<call, answer, status>>
    BY <1>4 DEF call_handler
  <2>2. CASE Goto(t, "reentered") /\ UNCHANGED due
    <3>1. PhaseOf("reentered") = phase[t]
      BY <1>1, <2>1, Phases DEF PhaseOf
    <3> QED
      BY <1>1, <1>2, <2>1, <2>2, <3>1, StaysIf
  <2>3. CASE UNCHANGED at /\ due' = [due EXCEPT ![t] = Tail(@)]
    BY <1>1, <1>2, <2>1, <2>3, Phases DEF Promise!HandlerCalled
  <2> QED
    BY <1>4, <2>2, <2>3 DEF call_handler
<1>5. CASE notified(t)
  <2>1. status = "running" /\ at[t] = "notifying" /\ due[t] = <<>> /\ Promise!Return(t, 0)
    BY <1>1, <1>5, Returns DEF notified
  <2>2. phase[t] = "notifying"
    BY <1>1, <2>1, Phases DEF PhaseOf
  <2> QED
    BY <1>2, <2>1, <2>2 DEF Promise!Notified
<1> QED
  BY <1>3, <1>4, <1>5

(***************************************************************************)
(* Whatever the threads call and however their calls interleave, removals   *)
(* that look at the root without the mutex included, the event table        *)
(* (events.c) is the registry its callers share, for any number of threads, *)
(* events and handlers.                                                     *)
(***************************************************************************)
THEOREM TableImplementsRegistry == Spec => ImplementsSharedRegistry
<1>1. Spec => []IInv
  BY Initially, Invariance, PTL DEF Spec
<1>2. IInv /\ PlaceInv /\ [Next]_vars => PlaceInv'
  <2> SUFFICES ASSUME IInv, PlaceInv, [Next]_vars PROVE PlaceInv'
    OBVIOUS
  <2>1. CASE UNCHANGED vars
    BY <2>1 DEF vars, PlaceInv, OpsInPlace, RootBlank
  <2>2. ASSUME NEW t \in Thread, Invoke(t) \/ Proceed(t) PROVE PlaceInv'
    BY <2>2, OpsKept, BlankKept DEF PlaceInv
  <2> QED
    BY <2>1, <2>2 DEF Next
<1>3. IInv /\ IInv' /\ PlaceInv /\ [Next]_vars => [Promise!SharedNext]_(Promise!regVars)
  <2> SUFFICES ASSUME IInv, IInv', PlaceInv, [Next]_vars
               PROVE  [Promise!SharedNext]_(Promise!regVars)
    OBVIOUS
  <2>1. CASE UNCHANGED vars
    <3>1. registry' = registry /\ phase' = phase
      BY <2>1, Views, Phases DEF vars, IInv
    <3> QED
      BY <2>1, <3>1 DEF vars, Promise!regVars
  <2>2. ASSUME NEW t \in Thread, Invoke(t) \/ Proceed(t)
        PROVE  Promise!SharedNext \/ Stays
    BY <2>2, InvokeIsCall, CreateRefines, RemoveRefines, SubscribeRefines, UnsubscribeRefines,
       NotifyRefines DEF Proceed, Promise!SharedNext, Promise!OtherCall
  <2> QED
    BY <2>1, <2>2 DEF Next, Stays
<1> QED
  BY <1>1, <1>2, <1>3, PlaceInit, RegistryStart, PTL
     DEF Spec, ImplementsSharedRegistry, Promise!SharedRegistry
=============================================================================
