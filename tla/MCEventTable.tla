---------------------------- MODULE MCEventTable ----------------------------
(***************************************************************************)
(* Two threads, main and another, two events and two handlers.  Both create *)
(* and remove every event and notify; main subscribes and unsubscribes      *)
(* everything, the other thread h2 at e1.                                   *)
(***************************************************************************)
EXTENDS EventTable

CONSTANTS e1, e2, h1, h2, main, t1

C(op, e, h) == [op |-> op, event |-> e, handler |-> h]

MCEvent == {e1, e2}
MCHandler == {h1, h2}

EventCalls == {C(op, e, h1) : op \in {"create", "remove", "notify"}, e \in Event}
HandlerCalls(es, hs) ==
    {C(op, e, h) : op \in {"subscribe", "unsubscribe"}, e \in es, h \in hs}

MCCallsOf ==
    [t \in Thread |-> EventCalls \cup (IF t = main THEN HandlerCalls(Event, Handler)
                                                  ELSE HandlerCalls({e1}, {h2}))]

(***************************************************************************)
(* For the run that refutes ImplementsRegistry: nobody compares a root that *)
(* has no name yet, so that what malloc left there plays no part.           *)
(***************************************************************************)
RootsAreNamed ==
    \A t \in Thread : at[t] = "compare" => \A i \in DOMAIN table : table[i].name # NoName
=============================================================================
