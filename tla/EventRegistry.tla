--------------------------- MODULE EventRegistry ---------------------------
(***************************************************************************)
(* What the event table of events.c promises its callers, threads that may  *)
(* call at any time.  Every call that returns has taken effect at one       *)
(* instant since its invocation and returns the code its comment lists.  A  *)
(* notification has its handlers, those subscribed at that instant and in   *)
(* the order they subscribed, called one after the other before it returns. *)
(* Registry is what the comments say; SharedRegistry is weaker: a removal   *)
(* may cost another event its place.                                        *)
(***************************************************************************)
EXTENDS Sequences, SequencesExt, Functions

CONSTANTS Thread, Event, Handler,
          CallsOf      \* the calls a thread may make

VARIABLES registry,    \* the handlers of every event there is
          call, phase, answer,   \* the last call of a thread, what it returned
          due          \* the handlers a notification has yet to call

regVars == <<registry, call, phase, answer, due>>

Start ==
    /\ registry = <<>>
    /\ call \in [Thread -> UNION Range(CallsOf)]
    /\ phase = [t \in Thread |-> "idle"]
    /\ answer = [t \in Thread |-> 0]
    /\ due = [t \in Thread |-> <<>>]

Call(t) ==
    /\ phase[t] = "idle"
    /\ \E c \in CallsOf[t] : call' = [call EXCEPT ![t] = c]
    /\ phase' = [phase EXCEPT ![t] = "called"]
    /\ UNCHANGED <<registry, answer, due>>

Called(t, op) == phase[t] = "called" /\ call[t].op = op

Return(t, rc) ==
    /\ phase' = [phase EXCEPT ![t] = "idle"]
    /\ answer' = [answer EXCEPT ![t] = rc]
    /\ UNCHANGED <<call, due>>

There(t) == call[t].event \in DOMAIN registry

Missing(t) == IF registry = <<>> THEN 1 ELSE 2

Created(t) ==
    /\ Called(t, "create")
    /\ IF There(t)
       THEN UNCHANGED registry /\ Return(t, 1)
       ELSE /\ registry' = [e \in DOMAIN registry \cup {call[t].event} |->
                              IF e = call[t].event THEN <<>> ELSE registry[e]]
            /\ Return(t, 0)

Drop(e) == registry' = Restrict(registry, DOMAIN registry \ {e})

\* A removal that costs one of the events es its place, or finds nothing.
RemovedOneOf(t, es) ==
    /\ Called(t, "remove")
    /\ \/ /\ \E e \in es \cap DOMAIN registry : Drop(e)
          /\ Return(t, 0)
       \/ /\ ~There(t)
          /\ UNCHANGED registry /\ Return(t, Missing(t))

Removed(t) == RemovedOneOf(t, {call[t].event})

Subscribed(t) ==
    /\ Called(t, "subscribe")
    /\ LET e == call[t].event  h == call[t].handler
       IN  IF There(t) /\ ~Contains(registry[e], h)
           THEN registry' = [registry EXCEPT ![e] = Append(@, h)] /\ Return(t, 0)
           ELSE UNCHANGED registry /\ Return(t, IF There(t) THEN 3 ELSE Missing(t))

Unsubscribed(t) ==
    /\ Called(t, "unsubscribe")
    /\ LET e == call[t].event  h == call[t].handler
       IN  \/ /\ There(t)
              /\ \E k \in DOMAIN registry[e] :
                    /\ registry[e][k] = h
                    /\ registry' = [registry EXCEPT ![e] = RemoveAt(@, k)]
              /\ Return(t, 0)
           \/ /\ ~(There(t) /\ Contains(registry[e], h))
              /\ UNCHANGED registry
              /\ Return(t, IF There(t) THEN 3 ELSE Missing(t))

Notifies(t) ==
    /\ Called(t, "notify")
    /\ UNCHANGED registry
    /\ IF There(t)
       THEN /\ due' = [due EXCEPT ![t] = registry[call[t].event]]
            /\ phase' = [phase EXCEPT ![t] = "notifying"]
            /\ UNCHANGED <<call, answer>>
       ELSE Return(t, Missing(t))

HandlerCalled(t) ==
    /\ due[t] # <<>>
    /\ due' = [due EXCEPT ![t] = Tail(@)]
    /\ UNCHANGED <<registry, call, phase, answer>>

Notified(t) ==
    /\ phase[t] = "notifying" /\ due[t] = <<>>
    /\ UNCHANGED registry /\ Return(t, 0)

\* Everything but the removals.
OtherCall(t) ==
    \/ Call(t) \/ Created(t) \/ Subscribed(t) \/ Unsubscribed(t)
    \/ Notifies(t) \/ HandlerCalled(t) \/ Notified(t)

RegistryNext == \E t \in Thread : OtherCall(t) \/ Removed(t)
SharedNext   == \E t \in Thread : OtherCall(t) \/ RemovedOneOf(t, Event)

Registry       == Start /\ [][RegistryNext]_regVars
SharedRegistry == Start /\ [][SharedNext]_regVars
=============================================================================
