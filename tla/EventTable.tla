----------------------------- MODULE EventTable -----------------------------
(***************************************************************************)
(* events.c: the table of events, a linked list under one mutex, and the    *)
(* threads that call it.  What runs under the mutex is a step, with three   *)
(* exceptions: event_notify calls the handlers under it, event_create puts  *)
(* the root in place before the root has its name, and event_remove looks   *)
(* at the root before it takes the mutex.                                   *)
(*                                                                          *)
(* A list is the sequence of its nodes (an unlinked node is never freed).   *)
(* The handlers are the callers' code: one returns, or (Reentrant) calls    *)
(* the table itself and waits for the mutex its own thread holds, which is  *)
(* not recursive.  The process is "crashed" where it follows a NULL.        *)
(***************************************************************************)
EXTENDS Naturals, SequencesExt, Functions

CONSTANTS Thread, Event, Handler,
          Reentrant,   \* the handlers that call the table
          CallsOf,     \* the calls a thread may make
          Free,        \* the mutex nobody holds
          NoName       \* the name of a root between malloc and strcpy

CallKind == [op : {"create", "remove", "notify", "subscribe", "unsubscribe"},
             event : Event, handler : Handler]

ASSUME EventAssumption ==
    /\ Free \notin Thread /\ NoName \notin Event
    /\ Reentrant \subseteq Handler
    /\ CallsOf \in [Thread -> SUBSET CallKind]

VARIABLES table,       \* the events, the root first
          mutex,
          call, at, answer,   \* what a thread called, where it is, what it was told
          due,         \* the subscriptions event_notify has yet to walk
          status

vars == <<table, mutex, call, at, answer, due, status>>

Init ==
    /\ table = <<>> /\ mutex = Free
    /\ call \in [Thread -> UNION Range(CallsOf)]
    /\ at = [t \in Thread |-> "idle"]
    /\ answer = [t \in Thread |-> 0]
    /\ due = [t \in Thread |-> <<>>]
    /\ status = "running"

Goto(t, s) == at' = [at EXCEPT ![t] = s]

Return(t, rc) ==
    /\ Goto(t, "idle")
    /\ answer' = [answer EXCEPT ![t] = rc]
    /\ UNCHANGED <<call, due, status>>

Crash == status' = "crashed" /\ UNCHANGED <<table, mutex, call, at, answer, due>>

Invoke(t) ==
    /\ status = "running" /\ at[t] = "idle"
    /\ \E c \in CallsOf[t] :
          /\ call' = [call EXCEPT ![t] = c]
          /\ Goto(t, IF c.op = "remove" THEN "peek" ELSE "lock")
    /\ UNCHANGED <<table, mutex, answer, due, status>>

(***************************************************************************)
(* A thread that has got the mutex for its call; one step later it has      *)
(* given it back unless the action says otherwise.  The walks stop at the   *)
(* first event with the name, the only one there is (EachOnce).             *)
(***************************************************************************)
Locked(t, s) == status = "running" /\ at[t] = s /\ mutex = Free

LockedFor(t, op) == Locked(t, "lock") /\ call[t].op = op

find_event(e) == {i \in DOMAIN table : table[i].name = e}

NameTakenBehindRoot(e) == find_event(e) \ {1} # {}     \* slip: the root is not compared

NameTaken(e) == find_event(e) # {}

create_root_unlocked(t) ==     \* slip: the mutex is given back before the name is there
    /\ LockedFor(t, "create") /\ table = <<>>
    /\ table' = <<[name |-> NoName, subs |-> <<>>]>>
    /\ Goto(t, "naming")
    /\ UNCHANGED <<mutex, call, answer, due, status>>

create_root(t) ==
    /\ LockedFor(t, "create") /\ table = <<>>
    /\ table' = <<[name |-> NoName, subs |-> <<>>]>>
    /\ mutex' = t /\ Goto(t, "naming")
    /\ UNCHANGED <<call, answer, due, status>>

name_root(t) ==
    /\ status = "running" /\ at[t] = "naming"
    /\ table' = [table EXCEPT ![1].name = call[t].event]
    /\ mutex' = Free /\ Return(t, 0)

event_create(t) ==
    /\ LockedFor(t, "create") /\ table # <<>>
    /\ \/ NameTaken(call[t].event) /\ UNCHANGED table /\ Return(t, 1)
       \/ /\ ~NameTaken(call[t].event)
          /\ table' = Append(table, [name |-> call[t].event, subs |-> <<>>])
          /\ Return(t, 0)
    /\ UNCHANGED mutex

(***************************************************************************)
(* event_remove: two looks at the root without the mutex.  The name of a    *)
(* root that has none yet is whatever malloc left there.                    *)
(***************************************************************************)
peek(t) ==
    /\ status = "running" /\ at[t] = "peek"
    /\ IF table = <<>>
       THEN Return(t, 1)
       ELSE Goto(t, "compare") /\ UNCHANGED <<call, answer, due, status>>
    /\ UNCHANGED <<table, mutex>>

compare(t) ==
    /\ status = "running" /\ at[t] = "compare" /\ table # <<>>
    /\ \/ /\ table[1].name \in {call[t].event, NoName}
          /\ Goto(t, "lock_root")
       \/ /\ table[1].name # call[t].event
          /\ Goto(t, "lock_walk")
    /\ UNCHANGED <<table, mutex, call, answer, due, status>>

remove_root_unlocked(t) ==     \* slip: the mutex is not taken
    /\ status = "running" /\ at[t] = "lock_root" /\ table # <<>>
    /\ table' = Tail(table)
    /\ Return(t, 0) /\ UNCHANGED mutex

remove_root_loses_list(t) ==     \* slip: the next event does not become the root
    /\ Locked(t, "lock_root") /\ table # <<>>
    /\ table' = <<>>
    /\ Return(t, 0) /\ UNCHANGED mutex

remove_root(t) ==
    /\ Locked(t, "lock_root") /\ table # <<>>
    /\ table' = Tail(table)
    /\ Return(t, 0) /\ UNCHANGED mutex

(***************************************************************************)
(* The walk compares the names behind the root and unlinks the match.       *)
(***************************************************************************)
Behind(e) == find_event(e) \ {1}

remove_behind(t) ==
    /\ Locked(t, "lock_walk")
    /\ \E i \in Behind(call[t].event) : table' = RemoveAt(table, i)
    /\ Return(t, 0) /\ UNCHANGED mutex

(***************************************************************************)
(* The root gone since the look at it, or, the while condition compares     *)
(* before it checks for NULL, a walk to the end of the list.                *)
(***************************************************************************)
remove_follows_null(t) ==
    /\ \/ status = "running" /\ at[t] = "compare" /\ table = <<>>
       \/ Locked(t, "lock_root") /\ table = <<>>
       \/ Locked(t, "lock_walk") /\ Behind(call[t].event) = {}
    /\ Crash

NoSuchEventKeepsMutex(t) ==     \* slip: this return path does not unlock
    /\ find_event(call[t].event) = {}
    /\ mutex' = t /\ UNCHANGED table
    /\ Return(t, IF table = <<>> THEN 1 ELSE 2)

NoSuchEvent(t) ==
    /\ find_event(call[t].event) = {}
    /\ UNCHANGED <<table, mutex>>
    /\ Return(t, IF table = <<>> THEN 1 ELSE 2)

event_subscribe(t) ==
    /\ LockedFor(t, "subscribe")
    /\ \/ NoSuchEvent(t)
       \/ \E i \in find_event(call[t].event) :
             /\ IF Contains(table[i].subs, call[t].handler)
                THEN UNCHANGED table /\ Return(t, 3)
                ELSE /\ table' = [table EXCEPT ![i].subs = Append(@, call[t].handler)]
                     /\ Return(t, 0)
             /\ UNCHANGED mutex

event_unsubscribe(t) ==
    /\ LockedFor(t, "unsubscribe")
    /\ \/ NoSuchEvent(t)
       \/ \E i \in find_event(call[t].event) :
             /\ \/ /\ ~Contains(table[i].subs, call[t].handler)
                   /\ UNCHANGED table /\ Return(t, 3)
                \/ \E k \in DOMAIN table[i].subs :
                      /\ table[i].subs[k] = call[t].handler
                      /\ table' = [table EXCEPT ![i].subs = RemoveAt(@, k)]
                      /\ Return(t, 0)
             /\ UNCHANGED mutex

event_notify(t) ==
    /\ LockedFor(t, "notify")
    /\ \/ NoSuchEvent(t)
       \/ \E i \in find_event(call[t].event) :
             /\ due' = [due EXCEPT ![t] = table[i].subs]
             /\ mutex' = t /\ Goto(t, "notifying")
             /\ UNCHANGED <<table, call, answer, status>>

call_handler(t) ==
    /\ status = "running" /\ at[t] = "notifying" /\ due[t] # <<>>
    /\ IF Head(due[t]) \in Reentrant
       THEN Goto(t, "reentered") /\ UNCHANGED due
       ELSE UNCHANGED at /\ due' = [due EXCEPT ![t] = Tail(@)]
    /\ UNCHANGED <<table, mutex, call, answer, status>>

notified(t) ==
    /\ status = "running" /\ at[t] = "notifying" /\ due[t] = <<>>
    /\ mutex' = Free
    /\ UNCHANGED table /\ Return(t, 0)

(***************************************************************************)
(* A thread that is scheduled goes on with its call; a mutex of glibc is    *)
(* not fair, so no thread is promised to get it before the others.          *)
(***************************************************************************)
Proceed(t) ==
    \/ create_root(t) \/ name_root(t) \/ event_create(t)
    \/ peek(t) \/ compare(t) \/ remove_root(t) \/ remove_behind(t)
    \/ remove_follows_null(t)
    \/ event_subscribe(t) \/ event_unsubscribe(t)
    \/ event_notify(t) \/ call_handler(t) \/ notified(t)

Next == \E t \in Thread : Invoke(t) \/ Proceed(t)

Spec == Init /\ [][Next]_vars
FairSpec == Spec /\ \A t \in Thread : WF_vars(Proceed(t))
-----------------------------------------------------------------------------
(***************************************************************************)
(* The types, and: an event without a name is the root, alone in the table, *)
(* and the thread that is about to name it holds the mutex.                 *)
(***************************************************************************)
TypeOK ==
    /\ table \in Seq([name : Event \cup {NoName}, subs : Seq(Handler)])
    /\ mutex \in Thread \cup {Free}
    /\ call \in [Thread -> CallKind]
    /\ at \in [Thread -> {"idle", "lock", "naming", "peek", "compare", "lock_root",
                          "lock_walk", "notifying", "reentered"}]
    /\ answer \in [Thread -> 0 .. 3]
    /\ due \in [Thread -> Seq(Handler)]
    /\ status \in {"running", "crashed"}
    /\ \A i \in DOMAIN table : table[i].name = NoName =>
          Len(table) = 1 /\ \E t \in Thread : mutex = t /\ at[t] = "naming"

(***************************************************************************)
(* No return path of a call forgets the mutex and nobody works without it:  *)
(* it is held exactly by the thread that names a root or is in its handlers. *)
(***************************************************************************)
HeldWhileNeeded ==
    \A t \in Thread : mutex = t <=> at[t] \in {"naming", "notifying", "reentered"}

(***************************************************************************)
(* However the calls interleave, creations find every event there is: no    *)
(* two events have a name, and no handler is twice in the list of an event. *)
(***************************************************************************)
EachOnce ==
    /\ IsInjective([i \in DOMAIN table |-> table[i].name])
    /\ \A i \in DOMAIN table : IsInjective(table[i].subs)

(***************************************************************************)
(* The node a notification stands on stays linked: what it has yet to walk  *)
(* is the end of the list its event has now, whatever other threads create, *)
(* remove, subscribe or unsubscribe meanwhile.                              *)
(***************************************************************************)
WalksALiveList ==
    \A t \in Thread : at[t] \in {"notifying", "reentered"} =>
        \E i \in DOMAIN table : /\ table[i].name = call[t].event
                                /\ LET s == table[i].subs
                                   IN  \E k \in 1 .. Len(s) + 1 :
                                          due[t] = SubSeq(s, k, Len(s))

(***************************************************************************)
(* Every thread that gets the mutex gives it back, also when it is in the   *)
(* handlers, unless one of them calls the table: no thread locks out the    *)
(* rest.                                                                    *)
(***************************************************************************)
MutexComesBack ==
    \A t \in Thread :
        mutex = t ~> (mutex # t \/ at[t] = "reentered" \/ status = "crashed")

(***************************************************************************)
(* The events and handlers callers see, a root without a name left out.     *)
(***************************************************************************)
Named == {i \in DOMAIN table : table[i].name # NoName}

registry ==
    [e \in {table[i].name : i \in Named} |->
       table[CHOOSE i \in Named : table[i].name = e].subs]

phase ==
    [t \in Thread |-> CASE at[t] = "idle" -> "idle"
                        [] at[t] \in {"notifying", "reentered"} -> "notifying"
                        [] OTHER -> "called"]

Promise == INSTANCE EventRegistry

(***************************************************************************)
(* Whatever the threads call, the mutex and the looks of event_remove past  *)
(* it give what SharedRegistry says: every call but a removal takes effect  *)
(* at once and returns the right code, a notification calls the handlers of *)
(* one instant, each once, in order, and a removal that returns 0 has cost  *)
(* exactly one event its place.                                             *)
(***************************************************************************)
ImplementsSharedRegistry == Promise!SharedRegistry

(***************************************************************************)
(* "Removes event with event_name.  Returns 0 if event found" (events.c:84, *)
(* 86): a removal costs no other event its place.                           *)
(***************************************************************************)
ImplementsRegistry == Promise!Registry
=============================================================================
