------------------------- MODULE DeviceTableProofs -------------------------
(***************************************************************************)
(* Proofs about the device table, for any number of readers, every capacity *)
(* and every width of the counters that can count it.                       *)
(***************************************************************************)
EXTENDS DeviceTable, TLAPS

(***************************************************************************)
(* The registrar.  The entry at place k has the id k + 1, or 0 if that is   *)
(* not a uint8_t any more; the counter is one ahead while an entry is being *)
(* written.                                                                 *)
(***************************************************************************)
IdsInOrder ==
    /\ \A k \in 0 .. next - 1 : start[k].device_id = Inc(k)
    /\ adding = "no" /\ next \in Index => device_id_count = Inc(next)
    /\ adding # "no" => /\ start[next].device_id = Inc(next)
                        /\ device_id_count = Inc(Inc(next))

(***************************************************************************)
(* The walk for a type.  What is copied are the entries of the type behind  *)
(* which the reader is; the count is 0 only if there are none, or if all of *)
(* a full table were counted.                                               *)
(***************************************************************************)
NoneOf(t, n) == \A k \in 0 .. n - 1 : start[k].device_type # t
AllOf(t, n)  == \A k \in 0 .. n - 1 : start[k].device_type = t

Counted(r) ==
    /\ num_found[r] <= i[r]
    /\ num_found[r] = i[r] => AllOf(asked[r], i[r])
    /\ num_found[r] = 0 => \/ NoneOf(asked[r], i[r])
                           \/ i[r] = BYTE /\ AllOf(asked[r], i[r])

Fresh == {"idle", "lock type", "lock id"}

StartsBlank(r) == at[r] \in Fresh => i[r] = 0 /\ found[r] = {} /\ num_found[r] = 0
WalksInStep(r) == at[r] = "walk" => found[r] = OfType(asked[r], i[r]) /\ Counted(r)
StaysInside(r) == /\ i[r] <= next /\ known[r] <= next
                  /\ at[r] = "compare" => i[r] < next
EndsAnswered(r) ==
    at[r] = "done" => \/ \E n \in known[r] .. next : found[r] = OfType(asked[r], n)
                      \/ found[r] = {} /\ next = BYTE /\ AllOf(asked[r], BYTE)

WalkHolds(r) == StartsBlank(r) /\ WalksInStep(r) /\ StaysInside(r) /\ EndsAnswered(r)

IInv == TypeOK /\ IdsInOrder /\ \A r \in Reader : WalkHolds(r)

(***************************************************************************)
(* Numbers.                                                                 *)
(***************************************************************************)
LEMMA Sizes ==
    /\ MAX_DEVICES \in Nat /\ BYTE \in Nat /\ BYTE > 1 /\ MAX_DEVICES <= BYTE
    /\ 0 \in Id /\ 1 \in Id
    /\ \A n \in Id : Inc(n) \in Id
    /\ Index \subseteq Id
  BY TableAssumption DEF Id, Index, Inc

LEMMA IncIsInjective ==
    ASSUME NEW j \in Index, NEW k \in Index, Inc(j) = Inc(k)
    PROVE  j = k
  BY Sizes DEF Inc, Id, Index

LEMMA IInvInit == Init => IInv
<1> SUFFICES ASSUME Init PROVE IInv
  OBVIOUS
<1>1. TypeOK
  <2>1. Blank \in Entry
    BY Sizes DEF Blank, Entry
  <2>2. Init!1 /\ Init!2 /\ device_id_count = 1
    BY DEF Init
  <2> QED
    BY <2>1, Sizes DEF Init, TypeOK
<1>2. IdsInOrder
  BY Sizes DEF Init, IdsInOrder, Inc
<1>3. ASSUME NEW r \in Reader PROVE WalkHolds(r)
  BY DEF Init, WalkHolds, StartsBlank, WalksInStep, StaysInside, EndsAnswered, Fresh
<1> QED
  BY <1>1, <1>2, <1>3 DEF IInv

(***************************************************************************)
(* Registration writes behind what is registered.                           *)
(***************************************************************************)
LEMMA WritesOneEntry ==
    ASSUME TypeOK, Registrar
    PROVE  /\ next \in Index /\ UNCHANGED readers
           /\ start' \in [Index -> Entry]
           /\ \A k \in Index : k # next => start'[k] = start[k]
           /\ \/ /\ adding = "no" /\ adding' = "type" /\ next' = next /\ type' \in Type
                 /\ start'[next].device_id = device_id_count
                 /\ device_id_count' = Inc(device_id_count)
              \/ /\ adding = "type" /\ adding' = "next" /\ UNCHANGED <<next, type, device_id_count>>
                 /\ start'[next].device_id = start[next].device_id
              \/ /\ adding = "next" /\ adding' = "no" /\ next' = next + 1
                 /\ UNCHANGED <<start, type, device_id_count>>
<1>1. next \in Index
  BY DEF TypeOK, Registrar, add_id, add_type, add_next
<1>2. start \in [Index -> Entry] /\ device_id_count \in Id /\ start[next] \in Entry
      /\ type \in Type \cup {0}
  BY <1>1 DEF TypeOK
<1>3. ASSUME NEW t \in Type, add_id(t)
      PROVE  /\ start' \in [Index -> Entry]
             /\ \A k \in Index : k # next => start'[k] = start[k]
             /\ start'[next].device_id = device_id_count
  <2>1. start' = [start EXCEPT ![next] = [start[next] EXCEPT !.device_id = device_id_count]]
    BY <1>3 DEF add_id
  <2>2. [start[next] EXCEPT !.device_id = device_id_count] \in Entry
    BY <1>2 DEF Entry
  <2>3. [start[next] EXCEPT !.device_id = device_id_count].device_id = device_id_count
    BY <1>2 DEF Entry
  <2> QED
    BY <1>1, <1>2, <2>1, <2>2, <2>3
<1>4. CASE add_type
  <2>1. start' = [start EXCEPT ![next] = [start[next] EXCEPT !.device_type = type]]
    BY <1>4 DEF add_type
  <2>2. [start[next] EXCEPT !.device_type = type] \in Entry
    BY <1>2 DEF Entry
  <2>3. [start[next] EXCEPT !.device_type = type].device_id = start[next].device_id
    BY <1>2 DEF Entry
  <2>4. /\ start' \in [Index -> Entry]
        /\ \A k \in Index : k # next => start'[k] = start[k]
        /\ start'[next].device_id = start[next].device_id
    BY <1>1, <1>2, <2>1, <2>2, <2>3
  <2> QED
    BY <1>1, <1>4, <2>4 DEF add_type
<1>5. CASE add_next
  BY <1>1, <1>2, <1>5 DEF add_next
<1> QED
  BY <1>1, <1>3, <1>4, <1>5 DEF Registrar, add_id

LEMMA RegistrarTypes == TypeOK /\ Registrar => TypeOK'
<1> SUFFICES ASSUME TypeOK, Registrar PROVE TypeOK'
  OBVIOUS
<1>1. next \in Nat /\ next \in Index /\ next + 1 \in 0 .. MAX_DEVICES /\ next \in 0 .. MAX_DEVICES
  BY WritesOneEntry, Sizes DEF Index
<1>2. next' \in 0 .. MAX_DEVICES
  BY <1>1, WritesOneEntry
<1>3. device_id_count' \in Id
  <2>1. device_id_count \in Id
    BY DEF TypeOK
  <2> QED
    BY <2>1, WritesOneEntry, Sizes
<1>4. /\ adding' \in {"no", "type", "next"} /\ type' \in Type \cup {0}
      /\ adding' # "no" => next' \in Index /\ type' \in Type
  <2>1. adding = "type" => type \in Type
    BY DEF TypeOK
  <2>2. type \in Type \cup {0}
    BY DEF TypeOK
  <2> QED
    BY <1>1, <2>1, <2>2, WritesOneEntry
<1>5. UNCHANGED readers /\ start' \in [Index -> Entry]
  BY WritesOneEntry
<1> QED
  BY <1>2, <1>3, <1>4, <1>5 DEF TypeOK, readers

LEMMA WritesBehind ==
    ASSUME TypeOK, Registrar
    PROVE  /\ next \in Nat /\ next' \in Nat /\ next <= next'
           /\ \A k \in 0 .. next - 1 : start'[k] = start[k]
<1>1. \A k \in 0 .. next - 1 : k \in Index /\ k # next
  BY WritesOneEntry, Sizes DEF Index
<1>2. next \in Nat
  BY WritesOneEntry, Sizes DEF Index
<1>3. \A k \in 0 .. next - 1 : start'[k] = start[k]
  BY <1>1, WritesOneEntry
<1>4. next' = next \/ next' = next + 1
  BY WritesOneEntry
<1> QED
  BY <1>2, <1>3, <1>4

LEMMA RegistrarIds == TypeOK /\ IdsInOrder /\ Registrar => IdsInOrder'
<1> SUFFICES ASSUME TypeOK, IdsInOrder, Registrar PROVE IdsInOrder'
  OBVIOUS
<1>i. next \in Nat /\ next \in Index /\ \A k \in 0 .. next - 1 : start'[k] = start[k]
  BY WritesBehind, WritesOneEntry
<1>1. \A k \in 0 .. next - 1 : start'[k].device_id = Inc(k)
  BY <1>i DEF IdsInOrder
<1>2. CASE adding = "no" /\ adding' = "type"
  <2>1. device_id_count = Inc(next)
    BY <1>i, <1>2 DEF IdsInOrder
  <2>2. /\ next' = next /\ start'[next].device_id = device_id_count
        /\ device_id_count' = Inc(device_id_count)
    BY <1>2, WritesOneEntry
  <2> QED
    BY <1>1, <1>2, <2>1, <2>2 DEF IdsInOrder
<1>3. CASE adding = "type" /\ adding' = "next"
  <2>1. start[next].device_id = Inc(next) /\ device_id_count = Inc(Inc(next))
    BY <1>3 DEF IdsInOrder
  <2>2. /\ next' = next /\ start'[next].device_id = start[next].device_id
        /\ device_id_count' = device_id_count
    BY <1>3, WritesOneEntry
  <2> QED
    BY <1>1, <1>3, <2>1, <2>2 DEF IdsInOrder
<1>4. CASE adding = "next" /\ adding' = "no"
  <2>1. next' = next + 1 /\ UNCHANGED <<start, device_id_count>>
    BY <1>4, WritesOneEntry
  <2>2. start[next].device_id = Inc(next) /\ device_id_count = Inc(Inc(next))
    BY <1>4 DEF IdsInOrder
  <2>3. next + 1 \in Index => Inc(next) = next + 1
    BY <1>i, Sizes DEF Inc, Index
  <2>4. \A k \in 0 .. next' - 1 : k \in 0 .. next - 1 \/ k = next
    BY <1>i, <2>1
  <2>5. \A k \in 0 .. next' - 1 : start'[k].device_id = Inc(k)
    BY <1>1, <2>1, <2>2, <2>4
  <2> QED
    BY <1>4, <2>1, <2>2, <2>3, <2>5 DEF IdsInOrder
<1> QED
  BY <1>2, <1>3, <1>4, WritesOneEntry

(***************************************************************************)
(* What a walk has seen does not change under it.                           *)
(***************************************************************************)
LEMMA SeenIsStable ==
    ASSUME TypeOK, Registrar, NEW t, NEW n \in Nat, n <= next
    PROVE  OfType(t, n)' = OfType(t, n) /\ AllOf(t, n)' = AllOf(t, n) /\ NoneOf(t, n)' = NoneOf(t, n)
<1>1. \A k \in 0 .. n - 1 : start'[k] = start[k]
  BY WritesBehind
<1> QED
  BY <1>1 DEF OfType, AllOf, NoneOf

LEMMA OfTypeGrows ==
    ASSUME NEW t, NEW n \in Nat
    PROVE  /\ OfType(t, n + 1) = IF start[n].device_type = t
                                 THEN OfType(t, n) \cup {<<n, start[n]>>} ELSE OfType(t, n)
           /\ AllOf(t, n + 1) <=> AllOf(t, n) /\ start[n].device_type = t
           /\ NoneOf(t, n + 1) <=> NoneOf(t, n) /\ start[n].device_type # t
<1>1. 0 .. (n + 1) - 1 = (0 .. n - 1) \cup {n}
  OBVIOUS
<1>2. AllOf(t, n + 1) <=> AllOf(t, n) /\ start[n].device_type = t
  BY <1>1, Zenon DEF AllOf
<1>3. NoneOf(t, n + 1) <=> NoneOf(t, n) /\ start[n].device_type # t
  BY <1>1, Zenon DEF NoneOf
<1>4. OfType(t, n + 1) = IF start[n].device_type = t
                         THEN OfType(t, n) \cup {<<n, start[n]>>} ELSE OfType(t, n)
  <2> DEFINE S == {k \in 0 .. n - 1 : start[k].device_type = t}
  <2>1. {k \in 0 .. (n + 1) - 1 : start[k].device_type = t}
          = IF start[n].device_type = t THEN S \cup {n} ELSE S
    BY <1>1, Zenon
  <2>2. {<<k, start[k]>> : k \in S \cup {n}} = {<<k, start[k]>> : k \in S} \cup {<<n, start[n]>>}
    BY Zenon
  <2> QED
    BY <2>1, <2>2, Zenon DEF OfType
<1> QED
  BY <1>2, <1>3, <1>4

LEMMA NothingOfType ==
    ASSUME NEW t, NEW n, NoneOf(t, n)
    PROVE  OfType(t, n) = {}
  BY Zenon DEF NoneOf, OfType

LEMMA RegistrarWalks ==
    ASSUME TypeOK, Registrar, NEW r \in Reader, WalkHolds(r)
    PROVE  WalkHolds(r)'
<1>1. UNCHANGED <<at[r], asked[r], i[r], found[r], num_found[r], known[r]>>
  BY WritesOneEntry DEF readers
<1>2. /\ i[r] \in Nat /\ known[r] \in Nat /\ next \in Nat /\ next' \in Nat
      /\ i[r] <= next /\ known[r] <= next /\ next <= next'
  <2>1. i[r] \in 0 .. MAX_DEVICES /\ known[r] \in 0 .. MAX_DEVICES
    BY DEF TypeOK
  <2>2. i[r] <= next /\ known[r] <= next
    BY DEF WalkHolds, StartsBlank, WalksInStep, StaysInside, EndsAnswered
  <2> QED
    BY <2>1, <2>2, WritesBehind, Sizes
<1>3. /\ OfType(asked[r], i[r])' = OfType(asked[r], i[r])
      /\ Counted(r)' = Counted(r)
  <2>1. /\ \A k \in 0 .. i[r] - 1 : start'[k] = start[k]
    BY <1>2, WritesBehind
  <2> QED
    BY <1>1, <2>1 DEF OfType, Counted, AllOf, NoneOf
<1>4. ASSUME at[r] = "done"
      PROVE  \E n \in (known[r] .. next)' : found'[r] = OfType(asked[r], n)'
  <2>1. next # BYTE
    BY WritesOneEntry, Sizes DEF Index
  <2>2. PICK n \in known[r] .. next : found[r] = OfType(asked[r], n)
    BY <1>4, <2>1 DEF WalkHolds, StartsBlank, WalksInStep, StaysInside, EndsAnswered
  <2>3. \A k \in 0 .. n - 1 : start'[k] = start[k]
    BY <1>2, <2>2, WritesBehind
  <2>4. {<<k, start'[k]>> : k \in {k \in 0 .. n - 1 : start'[k].device_type = asked[r]}}
          = OfType(asked[r], n)
    BY <2>3 DEF OfType
  <2>5. n \in known[r] .. next'
    BY <1>2, <2>2
  <2> QED
    BY <1>1, <2>2, <2>4, <2>5 DEF OfType
<1>5. StartsBlank(r)'
  BY <1>1 DEF WalkHolds, StartsBlank, Fresh
<1>6. WalksInStep(r)'
  BY <1>1, <1>3 DEF WalkHolds, WalksInStep
<1>7. StaysInside(r)'
  <2>1. at[r] = "compare" => i[r] < next
    BY DEF WalkHolds, StartsBlank, WalksInStep, StaysInside, EndsAnswered
  <2> QED
    BY <1>1, <1>2, <2>1 DEF StaysInside
<1>8. EndsAnswered(r)'
  BY <1>1, <1>4 DEF EndsAnswered
<1> QED
  BY <1>5, <1>6, <1>7, <1>8 DEF WalkHolds

(***************************************************************************)
(* A look-up changes its own locals and the mutex.                          *)
(***************************************************************************)
LEMMA QueryTypes ==
    ASSUME TypeOK, NEW r \in Reader, WalkHolds(r), Query(r)
    PROVE  TypeOK' /\ UNCHANGED table
<1>t. /\ start \in [Index -> Entry] /\ next \in Nat /\ next <= MAX_DEVICES
      /\ i \in [Reader -> 0 .. MAX_DEVICES] /\ num_found \in [Reader -> Id]
      /\ found \in [Reader -> SUBSET (Index \X Entry)]
  <2>1. next \in 0 .. MAX_DEVICES
    BY DEF TypeOK
  <2>2. next \in Nat /\ next <= MAX_DEVICES
    BY <2>1, Sizes
  <2> QED
    BY <2>2, Zenon DEF TypeOK
<1>b. i[r] \in Nat /\ i[r] <= next /\ (at[r] = "compare" => i[r] < next)
  BY <1>t, Sizes DEF WalkHolds, StartsBlank, WalksInStep, StaysInside, EndsAnswered
<1>1. UNCHANGED table
  BY DEF Query, Walks, device_table_read_type, device_table_read_id, call, lock, walk_type,
         end_type, test_id, end_id, compare_differs, compare_equals, return
<1>2. /\ mutex' \in Reader \cup {Free}
      /\ at' \in [Reader -> {"idle", "lock type", "lock id", "walk", "id", "compare",
                             "done", "hit", "missed"}]
  <2>1. mutex' = mutex \/ mutex' = r \/ mutex' = Free
    BY DEF Query, Walks, device_table_read_type, device_table_read_id, call, lock,
         walk_type, end_type, test_id, end_id, compare_differs, compare_equals, return
  <2>2. at' = at \/ \E from, to \in {"idle", "lock type", "lock id", "walk", "id", "compare",
                             "done", "hit", "missed"} : Move(r, from, to)
    BY DEF Query, Walks, device_table_read_type, device_table_read_id, call, lock,
         walk_type, end_type, test_id, end_id, compare_differs, compare_equals, return
  <2> QED
    BY <2>1, <2>2 DEF TypeOK, Move
<1>3. asked' \in [Reader -> Nat] /\ known' \in [Reader -> 0 .. MAX_DEVICES]
  <2>1. Type \subseteq Nat /\ Id \subseteq Nat /\ 0 \in Nat /\ next \in 0 .. MAX_DEVICES
        /\ 0 \in 0 .. MAX_DEVICES
    BY TableAssumption, <1>t, Sizes DEF Id
  <2>2. \/ UNCHANGED <<asked, known>>
        \/ \E x \in Nat : asked' = [asked EXCEPT ![r] = x] /\ known' = [known EXCEPT ![r] = next]
        \/ asked' = [asked EXCEPT ![r] = 0] /\ known' = [known EXCEPT ![r] = 0]
    BY <2>1 DEF Query, Walks, device_table_read_type, device_table_read_id, call, lock,
         walk_type, end_type, test_id, end_id, compare_differs, compare_equals, return
  <2> QED
    BY <2>1, <2>2 DEF TypeOK
<1>4. /\ i' \in [Reader -> 0 .. MAX_DEVICES] /\ num_found' \in [Reader -> Id]
      /\ found' \in [Reader -> SUBSET (Index \X Entry)]
  <2>1. CASE walk_type(r)
    <3>1. i[r] \in Index /\ i[r] + 1 \in 0 .. MAX_DEVICES
      BY <1>t, <1>b, <2>1, Sizes DEF walk_type, Index
    <3>2. <<i[r], start[i[r]]>> \in Index \X Entry /\ Inc(num_found[r]) \in Id
      BY <1>t, <3>1, Sizes
    <3>3. found[r] \cup {<<i[r], start[i[r]]>>} \in SUBSET (Index \X Entry)
      BY <1>t, <3>2
    <3> QED
      BY <1>t, <2>1, <3>1, <3>2, <3>3, Zenon DEF walk_type
  <2>2. CASE end_type(r)
    BY <1>t, <2>2 DEF end_type
  <2>3. CASE compare_differs(r)
    <3>1. i[r] + 1 \in 0 .. MAX_DEVICES
      BY <1>t, <1>b, <2>3, Sizes DEF compare_differs, Move
    <3> QED
      BY <1>t, <2>3, <3>1 DEF compare_differs
  <2>4. CASE return(r)
    BY <1>t, <2>4, Sizes DEF return
  <2>5. CASE UNCHANGED <<i, found, num_found>>
    BY <1>t, <2>5
  <2> QED
    BY <2>1, <2>2, <2>3, <2>4, <2>5
       DEF Query, Walks, device_table_read_type, device_table_read_id, call, lock,
           test_id, end_id, compare_equals
<1> QED
  BY <1>1, <1>2, <1>3, <1>4 DEF TypeOK, table

LEMMA QueryIsLocal ==
    ASSUME TypeOK, NEW r \in Reader, Query(r), NEW s \in Reader \ {r}
    PROVE  UNCHANGED <<at[s], asked[s], i[s], found[s], num_found[s], known[s]>>
<1>t. /\ DOMAIN at = Reader /\ DOMAIN asked = Reader /\ DOMAIN i = Reader
      /\ DOMAIN found = Reader /\ DOMAIN num_found = Reader /\ DOMAIN known = Reader
  BY DEF TypeOK
<1>1. UNCHANGED <<at[s], asked[s], known[s]>>
  BY <1>t DEF Query, Walks, Move, device_table_read_type, device_table_read_id, call, lock,
      walk_type, end_type, test_id, end_id, compare_differs, compare_equals, return
<1>2. UNCHANGED <<i[s], found[s], num_found[s]>>
  BY <1>t DEF Query, Walks, device_table_read_type, device_table_read_id, call, lock,
      walk_type, end_type, test_id, end_id, compare_differs, compare_equals, return
<1> QED
  BY <1>1, <1>2

LEMMA OthersWalk ==
    ASSUME NEW s \in Reader, WalkHolds(s),
           UNCHANGED <<at[s], asked[s], i[s], found[s], num_found[s], known[s], start, next>>
    PROVE  WalkHolds(s)'
<1>1. UNCHANGED <<at[s], asked[s], i[s], found[s], num_found[s], known[s], start, next>>
  OBVIOUS
<1>3. OfType(asked[s], i[s])' = OfType(asked[s], i[s]) /\ Counted(s)' = Counted(s)
  BY <1>1 DEF OfType, AllOf, NoneOf, Counted
<1>4. StartsBlank(s)' /\ WalksInStep(s)' /\ StaysInside(s)'
  BY <1>1, <1>3 DEF WalkHolds, StartsBlank, WalksInStep, StaysInside, Fresh
<1>5. EndsAnswered(s)'
  BY <1>1 DEF WalkHolds, EndsAnswered, OfType, AllOf
<1> QED
  BY <1>4, <1>5 DEF WalkHolds

(***************************************************************************)
(* A step of the walk: the next entry is looked at, and the count keeps     *)
(* telling whether there was one.                                           *)
(***************************************************************************)
LEMMA WalksOn ==
    ASSUME TypeOK, NEW r \in Reader, WalkHolds(r), walk_type(r)
    PROVE  WalkHolds(r)'
<1> DEFINE n == i[r]
           t == asked[r]
           m == num_found[r]
<1>1. /\ n \in Nat /\ n < next /\ next \in Nat /\ next <= BYTE /\ m \in Id
      /\ known[r] <= next /\ found[r] = OfType(t, n) /\ Counted(r)
  <2>1. next \in 0 .. MAX_DEVICES /\ i[r] \in 0 .. MAX_DEVICES /\ num_found[r] \in Id
    BY DEF TypeOK
  <2>2. /\ i[r] <= next /\ i[r] # next /\ known[r] <= next
        /\ found[r] = OfType(asked[r], i[r]) /\ Counted(r)
    BY DEF WalkHolds, StartsBlank, WalksInStep, StaysInside, EndsAnswered, walk_type
  <2> QED
    BY <2>1, <2>2, Sizes
<1>2. /\ at'[r] = "walk" /\ asked'[r] = t /\ i'[r] = n + 1 /\ known'[r] = known[r]
      /\ UNCHANGED <<start, next>>
  BY DEF walk_type, table, TypeOK
<1>3. IF start[n].device_type = t
      THEN found'[r] = found[r] \cup {<<n, start[n]>>} /\ num_found'[r] = Inc(m)
      ELSE found'[r] = found[r] /\ num_found'[r] = m
  BY DEF walk_type, TypeOK
<1>4. found'[r] = OfType(t, n + 1)
  <2>1. CASE start[n].device_type = t
    <3>1. OfType(t, n + 1) = OfType(t, n) \cup {<<n, start[n]>>}
      BY <1>1, <2>1, OfTypeGrows, Zenon
    <3> QED
      BY <1>1, <1>3, <2>1, <3>1
  <2>2. CASE start[n].device_type # t
    BY <1>1, <1>3, <2>2, OfTypeGrows
  <2> QED
    BY <2>1, <2>2
<1>5. /\ num_found'[r] <= n + 1
      /\ num_found'[r] = n + 1 => AllOf(t, n + 1)
      /\ num_found'[r] = 0 => NoneOf(t, n + 1) \/ (n + 1 = BYTE /\ AllOf(t, n + 1))
  <2>1. /\ m <= n /\ (m = n => AllOf(t, n))
        /\ (m = 0 => NoneOf(t, n) \/ (n = BYTE /\ AllOf(t, n)))
    BY <1>1 DEF Counted
  <2>2. CASE start[n].device_type = t
    <3>1. num_found'[r] = Inc(m) /\ (AllOf(t, n) => AllOf(t, n + 1))
      BY <1>1, <1>3, <2>2, OfTypeGrows
    <3>2. CASE m = BYTE - 1
      BY <1>1, <2>1, <3>1, <3>2, Sizes DEF Inc
    <3>3. CASE m # BYTE - 1
      BY <1>1, <2>1, <3>1, <3>3, Sizes DEF Inc, Id
    <3> QED
      BY <3>2, <3>3
  <2>3. CASE start[n].device_type # t
    <3>1. num_found'[r] = m /\ (NoneOf(t, n) => NoneOf(t, n + 1))
      BY <1>1, <1>3, <2>3, OfTypeGrows
    <3> QED
      BY <1>1, <2>1, <3>1, Sizes DEF Id
  <2> QED
    BY <2>2, <2>3
<1>6. (found[r] = OfType(asked[r], i[r]))'
  BY <1>2, <1>4 DEF OfType
<1>7. Counted(r)'
  BY <1>2, <1>5 DEF Counted, AllOf, NoneOf
<1> QED
  <2>1. StartsBlank(r)' /\ EndsAnswered(r)'
    BY <1>2 DEF StartsBlank, EndsAnswered, Fresh
  <2>2. WalksInStep(r)'
    BY <1>6, <1>7 DEF WalksInStep
  <2>3. StaysInside(r)'
    BY <1>1, <1>2 DEF StaysInside
  <2> QED
    BY <2>1, <2>2, <2>3 DEF WalkHolds

(***************************************************************************)
(* The end of the walk: the copied entries are those of the type now.       *)
(***************************************************************************)
LEMMA WalkEnds ==
    ASSUME TypeOK, NEW r \in Reader, WalkHolds(r), end_type(r)
    PROVE  WalkHolds(r)'
<1> DEFINE t == asked[r]
<1>1. /\ next \in Nat /\ known[r] \in Nat /\ known[r] <= next /\ i[r] = next
      /\ found[r] = OfType(t, next) /\ Counted(r)
  <2>1. next \in 0 .. MAX_DEVICES /\ known[r] \in 0 .. MAX_DEVICES
    BY DEF TypeOK
  <2>2. /\ at[r] = "walk" /\ i[r] = next
    BY DEF end_type, Move
  <2>3. known[r] <= next /\ found[r] = OfType(asked[r], i[r]) /\ Counted(r)
    BY <2>2 DEF WalkHolds, StartsBlank, WalksInStep, StaysInside, EndsAnswered
  <2> QED
    BY <2>1, <2>2, <2>3, Sizes
<1>2. /\ at'[r] = "done" /\ asked'[r] = t /\ i'[r] = next /\ known'[r] = known[r]
      /\ found'[r] = IF num_found[r] = 0 THEN {} ELSE found[r]
      /\ UNCHANGED <<start, next>>
  BY <1>1 DEF end_type, Move, table, TypeOK
<1>3. \/ found'[r] = OfType(t, next)
      \/ found'[r] = {} /\ next = BYTE /\ AllOf(t, BYTE)
  <2>1. CASE num_found[r] # 0
    BY <1>1, <1>2, <2>1
  <2>2. CASE num_found[r] = 0
    <3>1. NoneOf(t, next) \/ (next = BYTE /\ AllOf(t, next))
      BY <1>1, <2>2 DEF Counted
    <3> QED
      BY <1>2, <2>2, <3>1, NothingOfType
  <2> QED
    BY <2>1, <2>2
<1>4. EndsAnswered(r)'
  <2>1. next \in known[r] .. next
    BY <1>1
  <2> QED
    BY <1>2, <1>3, <2>1 DEF EndsAnswered, OfType, AllOf
<1> QED
  BY <1>1, <1>2, <1>4 DEF WalkHolds, StartsBlank, WalksInStep, StaysInside, Fresh

(***************************************************************************)
(* The other steps of a look-up.                                            *)
(***************************************************************************)
LEMMA QueryHolds ==
    ASSUME TypeOK, NEW r \in Reader, WalkHolds(r), Query(r)
    PROVE  WalkHolds(r)'
<1>t. /\ next \in Nat /\ i[r] \in Nat /\ known[r] \in Nat
      /\ i[r] <= next /\ known[r] <= next
      /\ DOMAIN at = Reader /\ DOMAIN asked = Reader /\ DOMAIN i = Reader
      /\ DOMAIN found = Reader /\ DOMAIN num_found = Reader /\ DOMAIN known = Reader
  <2>1. next \in 0 .. MAX_DEVICES /\ i[r] \in 0 .. MAX_DEVICES /\ known[r] \in 0 .. MAX_DEVICES
    BY DEF TypeOK
  <2>2. i[r] <= next /\ known[r] <= next
    BY DEF WalkHolds, StartsBlank, WalksInStep, StaysInside, EndsAnswered
  <2>3. /\ DOMAIN at = Reader /\ DOMAIN asked = Reader /\ DOMAIN i = Reader
        /\ DOMAIN found = Reader /\ DOMAIN num_found = Reader /\ DOMAIN known = Reader
    BY DEF TypeOK
  <2> QED
    BY <2>1, <2>2, <2>3, Sizes
<1>1. CASE device_table_read_type(r) \/ device_table_read_id(r)
  <2>1. /\ at[r] = "idle" /\ at'[r] \in {"lock type", "lock id"} /\ at'[r] # "compare"
        /\ i'[r] = i[r] /\ found'[r] = found[r] /\ num_found'[r] = num_found[r]
        /\ known'[r] = next /\ next' = next
    BY <1>t, <1>1 DEF device_table_read_type, device_table_read_id, call, Move, table
  <2>2. StartsBlank(r)'
    BY <1>t, <2>1 DEF WalkHolds, StartsBlank, Fresh
  <2>3. WalksInStep(r)' /\ EndsAnswered(r)'
    BY <1>t, <2>1 DEF WalksInStep, EndsAnswered
  <2>4. StaysInside(r)'
    <3>1. i'[r] = i[r] /\ known'[r] = next /\ next' = next /\ at'[r] # "compare"
      BY <2>1
    <3>2. i'[r] <= next'
      BY <1>t, <3>1
    <3>3. known'[r] <= next'
      BY <1>t, <3>1
    <3> QED
      BY <3>1, <3>2, <3>3 DEF StaysInside
  <2> QED
    BY <2>2, <2>3, <2>4 DEF WalkHolds
<1>2. CASE lock(r)
  <2>1. /\ at[r] \in Fresh /\ at'[r] \in {"walk", "id"}
        /\ i'[r] = i[r] /\ found'[r] = found[r] /\ num_found'[r] = num_found[r]
        /\ known'[r] = known[r] /\ next' = next
    BY <1>t, <1>2 DEF lock, Move, table, Fresh
  <2>2. i[r] = 0 /\ found[r] = {} /\ num_found[r] = 0
    BY <2>1 DEF WalkHolds, StartsBlank, WalksInStep, StaysInside, EndsAnswered
  <2>3. NoneOf(asked[r], 0)' /\ AllOf(asked[r], 0)'
    BY DEF NoneOf, AllOf
  <2>4. OfType(asked[r], 0)' = {}
    BY <2>3 DEF OfType, NoneOf
  <2>5. Counted(r)'
    BY <2>1, <2>2, <2>3 DEF Counted
  <2> QED
    BY <1>t, <2>1, <2>2, <2>4, <2>5
       DEF WalkHolds, StartsBlank, WalksInStep, StaysInside, EndsAnswered, Fresh
<1>3. CASE test_id(r) \/ end_id(r) \/ compare_equals(r)
  <2>1. /\ at'[r] \in {"compare", "missed", "hit"} /\ (at'[r] = "compare" => i[r] # next)
        /\ i'[r] = i[r] /\ known'[r] = known[r] /\ next' = next
    BY <1>t, <1>3 DEF test_id, end_id, compare_equals, Move, table
  <2>2. StartsBlank(r)'
    BY <1>t, <2>1 DEF WalkHolds, StartsBlank, Fresh
  <2>3. WalksInStep(r)' /\ EndsAnswered(r)'
    BY <1>t, <2>1 DEF WalksInStep, EndsAnswered
  <2>4. StaysInside(r)'
    BY <1>t, <2>1 DEF StaysInside
  <2> QED
    BY <2>2, <2>3, <2>4 DEF WalkHolds
<1>4. CASE compare_differs(r)
  <2>1. /\ at[r] = "compare" /\ at'[r] = "id"
        /\ i'[r] = i[r] + 1 /\ known'[r] = known[r] /\ next' = next
    BY <1>t, <1>4 DEF compare_differs, Move, table
  <2>2. i[r] < next
    BY <2>1 DEF WalkHolds, StartsBlank, WalksInStep, StaysInside, EndsAnswered
  <2>3. StartsBlank(r)'
    BY <1>t, <2>1, <2>2 DEF WalkHolds, StartsBlank, Fresh
  <2>4. WalksInStep(r)' /\ EndsAnswered(r)'
    BY <1>t, <2>1, <2>2 DEF WalksInStep, EndsAnswered
  <2>5. StaysInside(r)'
    BY <1>t, <2>1, <2>2 DEF StaysInside
  <2> QED
    BY <2>3, <2>4, <2>5 DEF WalkHolds
<1>5. CASE return(r)
  <2>1. /\ at'[r] = "idle" /\ i'[r] = 0 /\ known'[r] = 0 /\ found'[r] = {}
        /\ num_found'[r] = 0 /\ next' = next
    BY <1>t, <1>5 DEF return, Move, table
  <2>2. StartsBlank(r)'
    BY <1>t, <2>1 DEF WalkHolds, StartsBlank, Fresh
  <2>3. WalksInStep(r)' /\ EndsAnswered(r)'
    BY <1>t, <2>1 DEF WalksInStep, EndsAnswered
  <2>4. StaysInside(r)'
    BY <1>t, <2>1 DEF StaysInside
  <2> QED
    BY <2>2, <2>3, <2>4 DEF WalkHolds
<1> QED
  BY <1>1, <1>2, <1>3, <1>4, <1>5, WalksOn, WalkEnds DEF Query, Walks

LEMMA IInvNext == IInv /\ [Next]_vars => IInv'
<1> SUFFICES ASSUME IInv, [Next]_vars PROVE IInv'
  OBVIOUS
<1>i. TypeOK /\ IdsInOrder /\ \A r \in Reader : WalkHolds(r)
  BY DEF IInv
<1>1. CASE Registrar
  BY <1>1, <1>i, RegistrarTypes, RegistrarIds, RegistrarWalks DEF IInv
<1>2. ASSUME NEW r \in Reader, Query(r) PROVE IInv'
  <2>1. TypeOK' /\ UNCHANGED table
    BY <1>2, <1>i, QueryTypes
  <2>2. IdsInOrder'
    BY <2>1, <1>i DEF table, IdsInOrder
  <2>3. ASSUME NEW s \in Reader PROVE WalkHolds(s)'
    <3>1. CASE s = r
      BY <3>1, <1>2, <1>i, QueryHolds
    <3>2. CASE s # r
      <4>1. UNCHANGED <<at[s], asked[s], i[s], found[s], num_found[s], known[s]>>
        BY <3>2, <1>2, <1>i, QueryIsLocal
      <4> QED
        BY <4>1, <1>i, <2>1, OthersWalk DEF table
    <3> QED
      BY <3>1, <3>2
  <2> QED
    BY <2>1, <2>2, <2>3 DEF IInv
<1>3. CASE UNCHANGED vars
  <2>1. TypeOK'
    BY <1>3, <1>i DEF vars, table, readers, TypeOK
  <2>2. IdsInOrder'
    BY <1>3, <1>i DEF vars, table, IdsInOrder
  <2>3. ASSUME NEW s \in Reader PROVE WalkHolds(s)'
    BY <1>3, <1>i, OthersWalk DEF vars, table, readers
  <2> QED
    BY <2>1, <2>2, <2>3 DEF IInv
<1> QED
  BY <1>1, <1>2, <1>3 DEF Next

LEMMA TableInvariant == Spec => []IInv
  BY IInvInit, IInvNext, PTL DEF Spec

(***************************************************************************)
(* device_table_t and the locals of both look-ups keep their types, and a   *)
(* walk its bounds, though the table grows under it.                        *)
(***************************************************************************)
THEOREM TypeCorrectTable == Spec => []TypeOK
<1>1. IInv => TypeOK
  BY DEF IInv
<1> QED
  BY <1>1, TableInvariant, PTL

(***************************************************************************)
(* No device_id is given twice: the counter, a uint8_t that starts at 1,    *)
(* comes back to 1 only behind the last entry of the largest table.         *)
(***************************************************************************)
THEOREM IdsStayUnique == Spec => []IdsAreUnique
<1>1. IInv => IdsAreUnique
  <2> SUFFICES ASSUME IInv, NEW j \in 0 .. next - 1, NEW k \in 0 .. next - 1,
                      start[j].device_id = start[k].device_id
               PROVE  j = k
    BY DEF IdsAreUnique
  <2>1. next \in 0 .. MAX_DEVICES
    BY DEF IInv, TypeOK
  <2>2. j \in Index /\ k \in Index
    BY <2>1, Sizes DEF Index
  <2>3. Inc(j) = Inc(k)
    BY DEF IInv, IdsInOrder
  <2> QED
    BY <2>2, <2>3, IncIsInjective
<1> QED
  BY <1>1, TableInvariant, PTL

(***************************************************************************)
(* What device_table_read_type gives is the table as it was at one moment   *)
(* of the call, although device_table_add takes no mutex.                   *)
(***************************************************************************)
THEOREM LookUpsAreSnapshots == Spec => []Snapshot
<1>1. IInv => Snapshot
  <2> SUFFICES ASSUME IInv, NEW r \in Reader, at[r] = "done"
               PROVE  \/ \E n \in known[r] .. next : found[r] = OfType(asked[r], n)
                      \/ /\ found[r] = {} /\ next = BYTE
                         /\ \A k \in Index : start[k].device_type = asked[r]
    BY DEF Snapshot
  <2>1. \/ \E n \in known[r] .. next : found[r] = OfType(asked[r], n)
        \/ found[r] = {} /\ next = BYTE /\ AllOf(asked[r], BYTE)
    BY DEF IInv, WalkHolds, EndsAnswered
  <2>2. Index \subseteq 0 .. BYTE - 1
    BY Sizes DEF Index
  <2> QED
    BY <2>1, <2>2 DEF AllOf
<1> QED
  BY <1>1, TableInvariant, PTL
=============================================================================
