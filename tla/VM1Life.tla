------------------------------ MODULE VM1Life ------------------------------
(***************************************************************************)
(* The life of the v1.0 process: main.c brings four devices up, starts the  *)
(* threads of three of them, waits for a key and shuts the devices down,    *)
(* while the threads go on.  What they share is not the buses (VM1) but the *)
(* logs, the flags device_running and the interrupt event (vnvic).          *)
(*                                                                          *)
(* main is a list of operations still to do.  A thread is followed from one *)
(* log call to the next; how many calls a cycle makes is left open.  A log  *)
(* call takes the log's mutex and writes; fclose does not take it.  Writing *)
(* to a closed file is undefined: the bytes are lost or the process dies.   *)
(***************************************************************************)
EXTENDS Naturals, Sequences

CONSTANTS Orders,          \* the orders in which main may initialise the devices
          HANDLERS_SIZE,   \* INTERRUPT_EVENT_HANDLERS_SIZE, 80 bytes in the program
          HANDLER_SIZE     \* sizeof(InterruptHandler_t), 24 bytes in the program

ASSUME SizeAssumption == /\ HANDLER_SIZE \in Nat /\ HANDLERS_SIZE \in Nat
                         /\ HANDLER_SIZE <= HANDLERS_SIZE

Device == {"vmemory", "vcpu", "vclock"}      \* those with a thread

\* main initialises each of them once.
ASSUME OrdersAssumption ==
    \A order \in Orders : /\ order \in Seq(Device) /\ Len(order) = 3
                          /\ \A d \in Device : \E k \in 1 .. 3 : order[k] = d

Log    == {"vmemory", "vcpu", "vmemory_controller", "vclock"}
Thread == {"main", "memory", "cpu", "clock"}
Free   == "free"

VARIABLES todo,            \* what main has still to do
          file, owner,     \* of each log, the file and who holds the mutex
          running,         \* device_running
          halted,          \* CTL.halt_exec
          handlers, event, \* the subscribers' logs and the mutex of the interrupt event
          due,             \* the handlers the clock has yet to call
          at, log, then,   \* where a thread is, the log it uses, where it returns to
          status

shared == <<file, owner, running, halted, handlers, event, due>>
local  == <<at, log, then>>
vars   == <<todo, shared, local, status>>

(***************************************************************************)
(* The operations of main.                                                  *)
(***************************************************************************)
Do(op, dev) == [op |-> op, dev |-> dev]

vmemory_init == << Do("open", "vmemory"), Do("log", "vmemory") >>

vcpu_init_subscribes_first ==     \* slip: log_trace comes before logger_init
    << Do("subscribe", "vcpu"), Do("log", "vcpu"), Do("open", "vcpu"),
       Do("open", "vmemory_controller"), Do("log", "vmemory_controller") >>

vcpu_init ==
    << Do("open", "vcpu"), Do("log", "vcpu"), Do("subscribe", "vcpu"), Do("log", "vcpu"),
       Do("open", "vmemory_controller"), Do("log", "vmemory_controller") >>

vclock_init == << Do("open", "vclock"), Do("log", "vclock") >>

init_of == [vmemory |-> vmemory_init, vcpu |-> vcpu_init, vclock |-> vclock_init]

start == << Do("log", "vmemory"), Do("start", "vmemory"),
            Do("log", "vcpu"),    Do("start", "vcpu"),
            Do("log", "vclock"),  Do("start", "vclock") >>

shutdown == << Do("log", "vclock"), Do("close", "vclock"),
               Do("log", "vmemory_controller"), Do("close", "vmemory_controller"),
               Do("log", "vcpu"), Do("stop", "vcpu"), Do("close", "vcpu"),
               Do("log", "vmemory"), Do("stop", "vmemory"), Do("close", "vmemory") >>

main(order) ==
    init_of[order[1]] \o init_of[order[2]] \o init_of[order[3]]
      \o start \o << Do("key", "none") >> \o shutdown

Init ==
    /\ \E order \in Orders : todo = main(order)
    /\ file = [l \in Log |-> "unopened"] /\ owner = [l \in Log |-> Free]
    /\ running = [l \in Log |-> FALSE] /\ halted = FALSE
    /\ handlers = <<>> /\ event = Free /\ due = <<>>
    /\ at = [t \in Thread |-> IF t = "main" THEN "ready" ELSE "none"]
    /\ log = [t \in Thread |-> "vcpu"] /\ then = [t \in Thread |-> "none"]
    /\ status = "running"

At(t, s)   == status = "running" /\ at[t] = s
Goto(t, s) == at' = [at EXCEPT ![t] = s] /\ UNCHANGED <<log, then>>

(***************************************************************************)
(* log_info, log_trace, log_event: from here a thread goes to "lock", to    *)
(* "write" and back to where then says.                                     *)
(***************************************************************************)
Logs(t, l, s) ==
    /\ at'   = [at EXCEPT ![t] = "lock"]
    /\ log'  = [log EXCEPT ![t] = l]
    /\ then' = [then EXCEPT ![t] = s]

lock_log_unlocked(t) ==           \* slip: the mutex is not taken
    /\ At(t, "lock")
    /\ Goto(t, "write")
    /\ UNCHANGED <<todo, shared, status>>

lock_log(t) ==
    /\ At(t, "lock") /\ owner[log[t]] = Free
    /\ owner' = [owner EXCEPT ![log[t]] = t]
    /\ Goto(t, "write")
    /\ UNCHANGED <<todo, file, running, halted, handlers, event, due, status>>

log_write(t) ==
    /\ At(t, "write") /\ file[log[t]] \in {"open", "closed"}
    /\ owner' = [owner EXCEPT ![log[t]] = Free]
    /\ Goto(t, then[t])
    /\ UNCHANGED <<todo, file, running, halted, handlers, event, due, status>>

log_write_faults(t) ==
    /\ At(t, "write") /\ file[log[t]] # "open"
    /\ status' = "crashed" /\ UNCHANGED <<todo, shared, local>>

(***************************************************************************)
(* main.  logger_init reports a file it cannot open and every caller        *)
(* ignores it.  The mutex of the interrupt event is nobody's while main     *)
(* subscribes: its threads do not run yet.                                  *)
(***************************************************************************)
MainDoes(op) ==
    /\ At("main", "ready") /\ todo # <<>> /\ Head(todo).op = op
    /\ todo' = Tail(todo)
    /\ UNCHANGED status

Dev == Head(todo).dev

main_logs == MainDoes("log") /\ Logs("main", Dev, "ready") /\ UNCHANGED shared

logger_init ==
    /\ MainDoes("open")
    /\ \E f \in {"open", "none"} : file' = [file EXCEPT ![Dev] = f]
    /\ UNCHANGED <<owner, running, halted, handlers, event, due, local>>

interrupt_event_subscribe ==
    /\ MainDoes("subscribe") /\ event = Free
    /\ handlers' = Append(handlers, Dev)
    /\ UNCHANGED <<file, owner, running, halted, event, due, local>>

\* device_running, then pthread_create.
ThreadOf == [vmemory |-> "memory", vcpu |-> "cpu", vclock |-> "clock"]

device_start ==
    /\ MainDoes("start")
    /\ running' = [running EXCEPT ![Dev] = TRUE]
    /\ at' = [at EXCEPT ![ThreadOf[Dev]] = "born"]
    /\ UNCHANGED <<file, owner, halted, handlers, event, due, log, then>>

key_pressed == MainDoes("key") /\ UNCHANGED <<shared, local>>

device_stop ==
    /\ MainDoes("stop")
    /\ running' = [running EXCEPT ![Dev] = FALSE]
    /\ UNCHANGED <<file, owner, halted, handlers, event, due, local>>

logger_shutdown ==
    /\ MainDoes("close")
    /\ file' = [file EXCEPT ![Dev] = "closed"]
    /\ UNCHANGED <<owner, running, halted, handlers, event, due, local>>

main_returns_joined ==            \* slip: main joins its threads, one of which loops for ever
    /\ At("main", "ready") /\ todo = <<>>
    /\ \A t \in Thread \ {"main"} : at[t] = "done"
    /\ status' = "exited" /\ UNCHANGED <<todo, shared, local>>

main_returns ==
    /\ At("main", "ready") /\ todo = <<>>
    /\ status' = "exited" /\ UNCHANGED <<todo, shared, local>>

(***************************************************************************)
(* vmemory_loop, which runs whatever device_running says: log calls for     *)
(* every packet; a poll that finds none does nothing here.                  *)
(***************************************************************************)
vmemory_loop ==
    /\ At("memory", "born") \/ At("memory", "poll")
    /\ Logs("memory", "vmemory", "poll")
    /\ UNCHANGED <<todo, shared, status>>

(***************************************************************************)
(* vcpu_loop: the log calls of a cycle go to two logs; one of its           *)
(* instructions may halt.                                                   *)
(***************************************************************************)
vcpu_born ==
    /\ At("cpu", "born") /\ Logs("cpu", "vcpu", "check")
    /\ UNCHANGED <<todo, shared, status>>

vcpu_checks ==
    /\ At("cpu", "check")
    /\ Goto("cpu", IF running["vcpu"] /\ ~halted THEN "cycle" ELSE "done")
    /\ UNCHANGED <<todo, shared, status>>

vcpu_cycle_subscribes ==          \* slip: every cycle subscribes again
    /\ At("cpu", "cycle") /\ Goto("cpu", "check")
    /\ handlers' = Append(handlers, "vcpu")
    /\ UNCHANGED <<todo, file, owner, running, halted, event, due, status>>

vcpu_cycle ==
    /\ At("cpu", "cycle")
    /\ \/ /\ \E l \in {"vcpu", "vmemory_controller"} : Logs("cpu", l, "cycle")
          /\ UNCHANGED halted
       \/ halted' = TRUE /\ Logs("cpu", "vcpu", "cycle")
       \/ Goto("cpu", "check") /\ UNCHANGED halted
    /\ UNCHANGED <<todo, file, owner, running, handlers, event, due, status>>

(***************************************************************************)
(* vclock_loop and interrupt_event_trigger, which logs into the log of each *)
(* subscriber and calls its handler, all under the event's mutex.           *)
(***************************************************************************)
vclock_born ==
    /\ At("clock", "born") /\ Logs("clock", "vclock", "check")
    /\ UNCHANGED <<todo, shared, status>>

vclock_checks ==
    /\ At("clock", "check")
    /\ IF running["vclock"] THEN Logs("clock", "vclock", "trigger")
       ELSE Goto("clock", "done")
    /\ UNCHANGED <<todo, shared, status>>

interrupt_event_trigger ==
    /\ At("clock", "trigger") /\ event = Free
    /\ event' = "clock" /\ due' = handlers
    /\ Goto("clock", "handlers")
    /\ UNCHANGED <<todo, file, owner, running, halted, handlers, status>>

next_handler ==
    /\ At("clock", "handlers") /\ due # <<>>
    /\ Logs("clock", Head(due), "call")
    /\ UNCHANGED <<todo, shared, status>>

handle_interrupts ==
    /\ At("clock", "call")
    /\ due' = Tail(due)
    /\ Goto("clock", "handlers")
    /\ UNCHANGED <<todo, file, owner, running, halted, handlers, event, status>>

trigger_returns_locked ==         \* slip: the event's mutex is not given back
    /\ At("clock", "handlers") /\ due = <<>>
    /\ Goto("clock", "check")
    /\ UNCHANGED <<todo, file, owner, running, halted, handlers, event, due, status>>

trigger_returns ==
    /\ At("clock", "handlers") /\ due = <<>>
    /\ event' = Free /\ Goto("clock", "check")
    /\ UNCHANGED <<todo, file, owner, running, halted, handlers, due, status>>

Main == \/ main_logs \/ logger_init \/ interrupt_event_subscribe \/ device_start
        \/ device_stop \/ logger_shutdown \/ main_returns

Clock == \/ vclock_born \/ vclock_checks \/ interrupt_event_trigger \/ next_handler
         \/ handle_interrupts \/ trigger_returns

Writes(t) == log_write(t) \/ log_write_faults(t)

Next == \/ Main \/ key_pressed
        \/ vmemory_loop \/ vcpu_born \/ vcpu_checks \/ vcpu_cycle \/ Clock
        \/ \E t \in Thread : lock_log(t) \/ Writes(t)

Spec == Init /\ [][Next]_vars

(***************************************************************************)
(* A thread is scheduled again and again.  Every thread sleeps for a second *)
(* or more in each round without a mutex, so that a log's mutex is free for *)
(* long and whoever waits gets it.  Nobody has to press the key.            *)
(***************************************************************************)
FairSpec ==
    /\ Spec
    /\ WF_vars(Main) /\ WF_vars(Clock)
    /\ \A t \in Thread : WF_vars(Writes(t)) /\ SF_vars(lock_log(t))
-----------------------------------------------------------------------------
TypeOK ==
    /\ file \in [Log -> {"unopened", "open", "none", "closed"}]
    /\ owner \in [Log -> Thread \cup {Free}]
    /\ running \in [Log -> BOOLEAN] /\ halted \in BOOLEAN
    /\ handlers \in Seq(Log) /\ Len(handlers) * HANDLER_SIZE <= HANDLERS_SIZE
    /\ event \in {Free, "clock"}
    /\ at \in [Thread -> {"none", "ready", "born", "poll", "check", "cycle", "trigger",
                          "handlers", "call", "lock", "write", "done"}]
    /\ log \in [Thread -> Log]
    /\ status \in {"running", "crashed", "exited"}

KeyPressed == \A i \in DOMAIN todo : todo[i].op # "key"

(***************************************************************************)
(* Whatever the order in which the devices are initialised (main.c:67), and *)
(* though the clock's thread writes into the log of the vCPU, until the key *)
(* is pressed no thread uses a log that is not open, but for the first line *)
(* after an fopen that failed.                                              *)
(***************************************************************************)
LogsAreOpen ==
    \A t \in Thread : at[t] = "write" /\ ~KeyPressed =>
        \/ file[log[t]] = "open"
        \/ file[log[t]] = "none" /\ t = "main" /\ \A l \in Log : ~running[l]

(***************************************************************************)
(* A line of a log is written by one thread at a time, also where two       *)
(* threads use one log; and the one that has the mutex is the writer, so    *)
(* that none is held over a sleep.                                          *)
(***************************************************************************)
OneWriter ==
    \A t \in Thread, l \in Log : owner[l] = t <=> at[t] = "write" /\ log[t] = l

(***************************************************************************)
(* interrupt_event_trigger is not stopped by the shutdown of what it calls: *)
(* as long as the process lives every round of the clock reaches the vCPU's *)
(* handler.                                                                 *)
(***************************************************************************)
InterruptsAreHandled ==
    at["clock"] = "check" ~> (at["clock"] = "call" \/ status # "running")

(***************************************************************************)
(* The process ends once the key is pressed, though its threads do not, and *)
(* though main waits for mutexes they hold while they write.                *)
(***************************************************************************)
ShutdownEnds == KeyPressed ~> status # "running"
=============================================================================
