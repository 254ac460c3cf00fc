---------------------------- MODULE DeviceTable ----------------------------
(***************************************************************************)
(* The device table, common/device_table (the same file in v1.0 and v2.0).  *)
(* A thread registers devices; others look them up.  The look-ups hold the  *)
(* mutex; device_table_add does not, so that what it does shows statement   *)
(* by statement.  Both programs register from main alone and look nothing   *)
(* up yet.                                                                  *)
(*                                                                          *)
(* An entry keeps its id and its type; device_running is written as the     *)
(* zero it is, and belongs to the device afterwards.  The statements of     *)
(* device_table_add take effect in their order: the build does not optimise.*)
(***************************************************************************)
EXTENDS Naturals

CONSTANTS Reader,         \* the threads that look devices up
          Type,           \* the device types, numbers from 1 on
          MAX_DEVICES, BYTE,     \* 256 and 256 in the program
          Free

ASSUME TableAssumption == /\ Type \subseteq Nat \ {0}
                          /\ MAX_DEVICES \in Nat /\ BYTE \in Nat /\ BYTE > 1
                          /\ MAX_DEVICES <= BYTE
                          /\ Free \notin Reader

Index == 0 .. MAX_DEVICES - 1
Id    == 0 .. BYTE - 1
Entry == [device_id : Id, device_type : Type \cup {0}]
Blank == [device_id |-> 0, device_type |-> 0]

VARIABLES start, next, device_id_count,   \* the table
          adding, type,                   \* where device_table_add is, its argument
          mutex,
          at, asked,                      \* of each reader: where it is, what it asks for
          i,                              \* the entry it is at
          found, num_found,               \* what it copied (place, entry), and how many
          known                           \* how many were registered when it called

table   == <<start, next, device_id_count, adding, type>>
readers == <<mutex, at, asked, i, found, num_found, known>>
vars    == <<table, readers>>

\* device_table_init
Init ==
    /\ start = [k \in Index |-> Blank] /\ next = 0 /\ device_id_count = 1
    /\ adding = "no" /\ type = 0
    /\ mutex = Free
    /\ at = [r \in Reader |-> "idle"] /\ asked = [r \in Reader |-> 0]
    /\ i = [r \in Reader |-> 0] /\ found = [r \in Reader |-> {}]
    /\ num_found = [r \in Reader |-> 0] /\ known = [r \in Reader |-> 0]

(***************************************************************************)
(* device_table_add.  No caller registers more than MAX_DEVICES devices;    *)
(* the code does not count.                                                 *)
(***************************************************************************)
IncUnwrapped(n) == n + 1                          \* slip: the counter is an int

Inc(n) == IF n = BYTE - 1 THEN 0 ELSE n + 1       \* uint8_t

add_id_uncounted(t) ==            \* slip: the id is not counted on
    /\ adding = "no" /\ next \in Index
    /\ start' = [start EXCEPT ![next].device_id = device_id_count]
    /\ adding' = "type" /\ type' = t
    /\ UNCHANGED <<next, device_id_count, readers>>

add_id(t) ==
    /\ adding = "no" /\ next \in Index
    /\ start' = [start EXCEPT ![next].device_id = device_id_count]
    /\ device_id_count' = Inc(device_id_count)
    /\ adding' = "type" /\ type' = t
    /\ UNCHANGED <<next, readers>>

add_type ==
    /\ adding = "type"
    /\ start' = [start EXCEPT ![next].device_type = type]
    /\ adding' = "next"
    /\ UNCHANGED <<next, device_id_count, type, readers>>

add_next ==
    /\ adding = "next"
    /\ next' = next + 1
    /\ adding' = "no"
    /\ UNCHANGED <<start, device_id_count, type, readers>>

(***************************************************************************)
(* The look-ups: "idle", "lock", then for a type "walk" and for an id "id"  *)
(* and "compare", and "done".                                               *)
(***************************************************************************)
Move(r, from, to) == at[r] = from /\ at' = [at EXCEPT ![r] = to]

call(r, kind, x) ==
    /\ Move(r, "idle", kind)
    /\ asked' = [asked EXCEPT ![r] = x] /\ known' = [known EXCEPT ![r] = next]
    /\ UNCHANGED <<table, mutex, i, found, num_found>>

device_table_read_type(r) == \E t \in Type : call(r, "lock type", t)
device_table_read_id(r)   == \E d \in Id : call(r, "lock id", d)

lock(r) ==
    /\ Move(r, "lock type", "walk") \/ Move(r, "lock id", "id")
    /\ mutex = Free /\ mutex' = r
    /\ UNCHANGED <<table, asked, i, found, num_found, known>>

walk_type(r) ==
    /\ at[r] = "walk" /\ i[r] # next
    /\ IF start[i[r]].device_type = asked[r]
       THEN /\ found' = [found EXCEPT ![r] = @ \cup {<<i[r], start[i[r]]>>}]
            /\ num_found' = [num_found EXCEPT ![r] = Inc(@)]
       ELSE UNCHANGED <<found, num_found>>
    /\ i' = [i EXCEPT ![r] = @ + 1]
    /\ UNCHANGED <<table, mutex, at, asked, known>>

end_type_early(r) ==              \* slip: the loop stops before the last entry
    /\ i[r] + 1 = next /\ Move(r, "walk", "done")
    /\ found' = [found EXCEPT ![r] = IF num_found[r] = 0 THEN {} ELSE @]
    /\ mutex' = Free
    /\ UNCHANGED <<table, asked, i, num_found, known>>

\* Nothing is given if the count is 0, which it is again after 256 entries.
end_type(r) ==
    /\ i[r] = next /\ Move(r, "walk", "done")
    /\ found' = [found EXCEPT ![r] = IF num_found[r] = 0 THEN {} ELSE @]
    /\ mutex' = Free
    /\ UNCHANGED <<table, asked, i, num_found, known>>

test_id(r) ==
    /\ i[r] # next /\ Move(r, "id", "compare")
    /\ UNCHANGED <<table, mutex, asked, i, found, num_found, known>>

end_id(r) ==
    /\ i[r] = next /\ Move(r, "id", "missed")
    /\ mutex' = Free
    /\ UNCHANGED <<table, asked, i, found, num_found, known>>

(***************************************************************************)
(* It compares the entry at next, where none is yet; behind a full table    *)
(* lies anything.                                                           *)
(***************************************************************************)
compare_differs(r) ==
    /\ Move(r, "compare", "id")
    /\ next \in Index => start[next].device_id # asked[r]
    /\ i' = [i EXCEPT ![r] = @ + 1]
    /\ UNCHANGED <<table, mutex, asked, found, num_found, known>>

compare_equals_locked(r) ==       \* slip: the early return keeps the mutex
    /\ Move(r, "compare", "hit")
    /\ next \in Index => start[next].device_id = asked[r]
    /\ UNCHANGED <<table, mutex, asked, i, found, num_found, known>>

compare_equals(r) ==
    /\ Move(r, "compare", "hit")
    /\ next \in Index => start[next].device_id = asked[r]
    /\ mutex' = Free
    /\ UNCHANGED <<table, asked, i, found, num_found, known>>

\* The locals of a look-up end with it.
return(r) ==
    /\ Move(r, "done", "idle") \/ Move(r, "hit", "idle") \/ Move(r, "missed", "idle")
    /\ asked' = [asked EXCEPT ![r] = 0] /\ known' = [known EXCEPT ![r] = 0]
    /\ i' = [i EXCEPT ![r] = 0] /\ num_found' = [num_found EXCEPT ![r] = 0]
    /\ found' = [found EXCEPT ![r] = {}]
    /\ UNCHANGED <<table, mutex>>

Registrar == (\E t \in Type : add_id(t)) \/ add_type \/ add_next

Walks(r) == \/ walk_type(r) \/ end_type(r) \/ test_id(r) \/ end_id(r)
            \/ compare_differs(r) \/ compare_equals(r)

Query(r) == \/ device_table_read_type(r) \/ device_table_read_id(r) \/ lock(r)
            \/ Walks(r) \/ return(r)

Next == Registrar \/ \E r \in Reader : Query(r)

(***************************************************************************)
(* A reader that has the mutex goes on: its loop has no other wait.         *)
(***************************************************************************)
Spec == Init /\ [][Next]_vars /\ \A r \in Reader : WF_vars(Walks(r))
-----------------------------------------------------------------------------
TypeOK ==
    /\ start \in [Index -> Entry] /\ next \in 0 .. MAX_DEVICES
    /\ device_id_count \in Id
    /\ adding \in {"no", "type", "next"} /\ type \in Type \cup {0}
    /\ adding # "no" => next \in Index /\ type \in Type
    /\ mutex \in Reader \cup {Free}
    /\ at \in [Reader -> {"idle", "lock type", "lock id", "walk", "id", "compare",
                          "done", "hit", "missed"}]
    /\ asked \in [Reader -> Nat] /\ known \in [Reader -> 0 .. MAX_DEVICES]
    /\ i \in [Reader -> 0 .. MAX_DEVICES]
    /\ found \in [Reader -> SUBSET (Index \X Entry)] /\ num_found \in [Reader -> Id]

(***************************************************************************)
(* device_table.c:63 and :77, though nothing keeps a registration out of    *)
(* the walk: what device_table_read_type gives are the entries of the type  *)
(* as they were all at one moment of the call, none half registered, none   *)
(* of those left out that were registered before it.  Only a table that is  *)
(* full of one type is reported empty, if it is as large as the count.      *)
(***************************************************************************)
OfType(t, n) == {<<k, start[k]>> : k \in {k \in 0 .. n - 1 : start[k].device_type = t}}

Snapshot ==
    \A r \in Reader : at[r] = "done" =>
        \/ \E n \in known[r] .. next : found[r] = OfType(asked[r], n)
        \/ /\ found[r] = {} /\ next = BYTE
           /\ \A k \in Index : start[k].device_type = asked[r]

(***************************************************************************)
(* device_table.c:33, only one entry per device_id: ids stay unique to the  *)
(* last entry, although the counter wraps and starts at 1.                  *)
(***************************************************************************)
IdsAreUnique ==
    \A j, k \in 0 .. next - 1 : start[j].device_id = start[k].device_id => j = k

(***************************************************************************)
(* Whoever looks up gives the mutex back on each of its returns, also while *)
(* the table grows under the walk (device_table.c:47-57 and :79-87).        *)
(***************************************************************************)
MutexComesBack == \A r \in Reader : mutex = r ~> mutex # r
=============================================================================
