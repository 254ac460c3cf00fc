------------------------------ MODULE VMachine ------------------------------
(***************************************************************************)
(* MIPS-vm v2.0 around its vCPU: main.c brings the machine up and hands its *)
(* only thread to the clock, which flips the edge, notifies edge_changed,   *)
(* and sleeps for what is left of half a period (vclock.c).  What the       *)
(* handler does is VCpu; here it takes some time and returns, or, at a      *)
(* rising edge, ends the process.                                           *)
(*                                                                          *)
(* Time is counted in units of which SECOND are a second.  flip_edge        *)
(* measures it on the wall clock (TIME_UTC), which somebody may set;        *)
(* nanosleep does not mind (on Linux), and no signal interrupts it, since   *)
(* the program catches none.                                                *)
(***************************************************************************)
EXTENDS Integers, Sequences

CONSTANTS SECOND,               \* 10^9 in the program
          freq,                 \* what main passes to vclock_init, 1
          RESET_VECTOR_PADDR, VMEMORY_SIZE,
          RomSizes,             \* the sizes the ROM's file may have
          LONG                  \* the longest time told from longer ones

ASSUME ClockAssumption == /\ SECOND \in Nat \ {0} /\ freq \in 1 .. 255
                          /\ LONG \in Nat /\ LONG >= SECOND
                          /\ RESET_VECTOR_PADDR \in Nat /\ VMEMORY_SIZE \in Nat
                          /\ RomSizes \subseteq Nat

Device == {"vclock", "vcpu", "vmemory"}

VARIABLES todo,                 \* what main has still to do
          devices, file,        \* the device table, of each log the file
          edge_changed,         \* the event: none, created, subscribed
          rom, pc,              \* the size of the ROM in the RAM, the vCPU's pc
          edge, at,             \* the clock
          since, wall,          \* time since start_ts: real, and by the wall clock
          rise,                 \* real time since the last rising edge
          left,                 \* what nanosleep has yet to sleep
          wall_clock,           \* whether somebody set it since start_ts, or before
          status

boot  == <<todo, devices, file, edge_changed, rom, pc>>
clock == <<edge, at, left>>
time  == <<since, wall, rise, wall_clock>>
vars  == <<boot, clock, time, status>>

(***************************************************************************)
(* main: its operations up to vclock_start, which never returns, so that    *)
(* shutdown is never reached.  The log level is set first, so that all that *)
(* the devices log is written.  What events_init and vtlb_init allocate     *)
(* plays no part here.                                                      *)
(***************************************************************************)
Do(op, dev) == [op |-> op, dev |-> dev]

device_init(dev) == << Do("add", dev), Do("open", dev), Do("log", dev) >>

init_devices_first ==           \* slip: the device table comes after its devices
    device_init("vclock") \o device_init("vcpu") \o device_init("vmemory")
      \o << Do("table", "none"), Do("calloc", "vmemory") >>

init == << Do("table", "none") >> \o device_init("vclock") \o device_init("vcpu")
          \o device_init("vmemory") \o << Do("calloc", "vmemory") >>

configure_subscribes_first ==   \* slip: there is no event to subscribe to
    << Do("subscribe", "vcpu"), Do("create", "none"), Do("flash", "none") >>

configure == << Do("create", "none"), Do("subscribe", "vcpu"), Do("flash", "none") >>

main == init \o configure \o << Do("reset", "vcpu"), Do("start", "vclock") >>

Init ==
    /\ todo = main
    /\ devices = [made |-> FALSE, ids |-> <<>>]
    /\ file = [d \in Device |-> "unopened"]
    /\ edge_changed = "none" /\ rom = -1 /\ pc = "unset"
    /\ edge = 0 /\ at = "boot" /\ left = 0
    /\ since = LONG /\ wall = 0 /\ rise = LONG /\ wall_clock = "untouched"
    /\ status = "running"

MainDoes(op) ==
    /\ status = "running" /\ at = "boot"
    /\ todo # <<>> /\ Head(todo).op = op
    /\ todo' = Tail(todo)

Dev == Head(todo).dev

End(s) == status' = s /\ UNCHANGED <<devices, file, edge_changed, rom, pc, clock>>

device_table_init ==
    /\ MainDoes("table")
    /\ devices' = [made |-> TRUE, ids |-> <<>>]
    /\ UNCHANGED <<file, edge_changed, rom, pc, clock, time, status>>

\* Ids count from 1, in the order of registration.
device_table_add ==
    /\ MainDoes("add")
    /\ IF devices.made
       THEN /\ devices' = [devices EXCEPT !.ids = Append(@, Dev)]
            /\ UNCHANGED <<file, edge_changed, rom, pc, clock, status>>
       ELSE End("crashed")
    /\ UNCHANGED time

\* Every device ignores what logger_init returns.
logger_init ==
    /\ MainDoes("open")
    /\ \E f \in {"open", "none"} : file' = [file EXCEPT ![Dev] = f]
    /\ UNCHANGED <<devices, edge_changed, rom, pc, clock, time, status>>

log_info ==
    /\ MainDoes("log")
    /\ IF file[Dev] = "open" THEN UNCHANGED <<devices, file, edge_changed, rom, pc, clock, status>>
       ELSE End("crashed")
    /\ UNCHANGED time

vmemory_calloc ==
    /\ MainDoes("calloc")
    /\ \/ UNCHANGED <<devices, file, edge_changed, rom, pc, clock, status>>
       \/ End("no memory")
    /\ UNCHANGED time

event_create ==
    /\ MainDoes("create")
    /\ edge_changed' = "created"
    /\ UNCHANGED <<devices, file, rom, pc, clock, time, status>>

\* It reports a missing event, and configure ignores what it returns.
event_subscribe ==
    /\ MainDoes("subscribe")
    /\ edge_changed' = IF edge_changed = "none" THEN "none" ELSE "subscribed"
    /\ UNCHANGED <<devices, file, rom, pc, clock, time, status>>

(***************************************************************************)
(* loader_flash_rom: no file, or one that does not fit the RAM, ends the    *)
(* process.  How much of it fread gives is not looked at.                   *)
(***************************************************************************)
loader_flash_rom ==
    /\ MainDoes("flash")
    /\ \/ \E size \in RomSizes :
             IF RESET_VECTOR_PADDR + size > VMEMORY_SIZE THEN End("no rom")
             ELSE rom' \in 0 .. size /\ UNCHANGED <<devices, file, edge_changed, pc, clock, status>>
       \/ End("no rom")
    /\ UNCHANGED time

vcpu_reset ==
    /\ MainDoes("reset")
    /\ pc' = "RESET_VECTOR_VADDR"
    /\ UNCHANGED <<devices, file, edge_changed, rom, clock, time, status>>

vclock_start ==
    /\ MainDoes("start")
    /\ at' = "loop"
    /\ UNCHANGED <<devices, file, edge_changed, rom, pc, edge, left, time, status>>

Boot == \/ device_table_init \/ device_table_add \/ logger_init \/ log_info
        \/ vmemory_calloc \/ event_create \/ event_subscribe \/ loader_flash_rom \/ vcpu_reset
        \/ vclock_start

(***************************************************************************)
(* vclock_init: edge_frequency_ns.  1 / freq is an integer division.        *)
(***************************************************************************)
edge_frequency_ns == ((1 \div freq) * SECOND) \div 2

ClockAt(s) == status = "running" /\ at = s

\* The first line of flip_edge reads the clock.
read_clock ==
    /\ ClockAt("loop")
    /\ at' = "turn"
    /\ since' = 0 /\ wall' = 0
    /\ wall_clock' = IF wall_clock = "set" THEN "earlier" ELSE "untouched"
    /\ UNCHANGED <<boot, edge, left, rise, status>>

flip_edge_rises_only ==         \* slip: the edge is set, not flipped
    /\ ClockAt("turn")
    /\ edge' = 1 /\ at' = "notify" /\ rise' = 0
    /\ UNCHANGED <<boot, left, since, wall, wall_clock, status>>

\* The edge itself, up to the handler of its notification.
flip_edge ==
    /\ ClockAt("turn")
    /\ edge' = 1 - edge /\ at' = "notify"
    /\ rise' = IF edge = 0 THEN 0 ELSE rise
    /\ UNCHANGED <<boot, left, since, wall, wall_clock, status>>

(***************************************************************************)
(* The handler, vcpu_update, may end the process when it handles a rising   *)
(* edge: a word that is no instruction, one without executer, or an access  *)
(* to a cache (VCpu).                                                       *)
(***************************************************************************)
handler_ends ==
    /\ ClockAt("notify") /\ edge = 1 /\ edge_changed = "subscribed"
    /\ status' = "guest"
    /\ UNCHANGED <<boot, clock, time>>

delay_of_half_an_edge == edge_frequency_ns \div 2 - wall    \* slip: halved twice

delay == edge_frequency_ns - wall

(***************************************************************************)
(* The handler has returned; nanosleep refuses a second or more.            *)
(***************************************************************************)
event_notified_unchecked ==     \* slip: a delay that is over is slept, too
    /\ ClockAt("notify")
    /\ IF delay >= SECOND THEN status' = "no delay" /\ UNCHANGED <<at, left>>
                          ELSE at' = "sleep" /\ left' = delay /\ UNCHANGED status
    /\ UNCHANGED <<boot, edge, time>>

event_notified ==
    /\ ClockAt("notify")
    /\ \/ delay <= 0 /\ at' = "loop" /\ UNCHANGED <<left, status>>
       \/ delay \in 1 .. SECOND - 1 /\ at' = "sleep" /\ left' = delay /\ UNCHANGED status
       \/ delay >= SECOND /\ status' = "no delay" /\ UNCHANGED <<at, left>>
    /\ UNCHANGED <<boot, edge, time>>

wake ==
    /\ ClockAt("sleep") /\ left = 0
    /\ at' = "loop"
    /\ UNCHANGED <<boot, edge, left, time, status>>

(***************************************************************************)
(* Time passes, and somebody sets the wall clock.                           *)
(***************************************************************************)
Tick ==
    /\ status = "running" /\ at # "boot"
    /\ since < LONG \/ rise < LONG \/ left > 0
    /\ since' = IF since < LONG THEN since + 1 ELSE LONG
    /\ wall' = IF wall < LONG THEN wall + 1 ELSE LONG
    /\ rise' = IF rise < LONG THEN rise + 1 ELSE LONG
    /\ left' = IF left = 0 THEN 0 ELSE left - 1
    /\ UNCHANGED <<boot, edge, at, wall_clock, status>>

SetWallClock ==
    /\ status = "running" /\ at # "boot"
    /\ wall' \in (-LONG .. LONG) \ {wall} /\ wall_clock' = "set"
    /\ UNCHANGED <<boot, clock, since, rise, status>>

Proceed == read_clock \/ flip_edge \/ handler_ends \/ event_notified \/ wake

Next == Boot \/ Proceed \/ Tick \/ SetWallClock

(***************************************************************************)
(* One thread does it all and every handler returns or ends the process     *)
(* (VCpu); time passes.                                                     *)
(***************************************************************************)
Spec == Init /\ [][Next]_vars /\ WF_vars(Boot) /\ WF_vars(Proceed) /\ WF_vars(Tick)
-----------------------------------------------------------------------------
TypeOK ==
    /\ devices \in [made : BOOLEAN, ids : Seq(Device)]
    /\ file \in [Device -> {"unopened", "open", "none"}]
    /\ edge_changed \in {"none", "created", "subscribed"} /\ rom \in -1 .. VMEMORY_SIZE
    /\ edge \in {0, 1} /\ at \in {"boot", "loop", "turn", "notify", "sleep"}
    /\ since \in 0 .. LONG /\ wall \in -LONG .. LONG /\ rise \in 0 .. LONG
    /\ left \in 0 .. SECOND - 1 /\ wall_clock \in {"untouched", "set", "earlier"}

(***************************************************************************)
(* What ends the machine.  Before the clock runs, the host: a log it cannot *)
(* open (the devices go on to write to it), memory or a ROM it does not     *)
(* give.  After that, as long as nobody sets the wall clock while the       *)
(* handlers run (vclock.c:71), the guest's words only, at a rising edge.    *)
(***************************************************************************)
EndsByHostOrGuest ==
    /\ status = "crashed" => \E d \in Device : file[d] = "none"
    /\ at = "boot" => status \in {"running", "crashed", "no memory", "no rom"}
    /\ at # "boot" /\ status # "running" =>
          wall_clock = "set" \/ (status = "guest" /\ edge = 1)

(***************************************************************************)
(* Whatever main puts in order, the first edge finds the vCPU subscribed,   *)
(* its pc at the reset vector, the ROM, or what fread gave of it, in place, *)
(* every log open.                                                          *)
(***************************************************************************)
EdgesFindTheMachine ==
    at # "boot" => /\ edge_changed = "subscribed" /\ pc = "RESET_VECTOR_VADDR" /\ rom >= 0
                   /\ \A d \in Device : file[d] = "open"
                   /\ devices.ids = <<"vclock", "vcpu", "vmemory">>

(***************************************************************************)
(* The edges that drive the vCPU: from one rise to the next there is half a *)
(* period or more, however long the handlers take and wherever the thread   *)
(* is preempted, unless somebody has set the wall clock in between.  (A     *)
(* whole period, README.md:29, is not kept, nor half of one between rise    *)
(* and fall: a thread that loses the processor between the reading of the   *)
(* clock and the edge flips it late, and the next edge comes in time.)      *)
(***************************************************************************)
CyclesKeepDistance ==
    [][flip_edge /\ edge = 0 /\ wall_clock = "untouched"
         => rise >= SECOND \div (2 * freq)]_vars

(***************************************************************************)
(* The clock goes on: the edge rises and falls for ever, also when the wall *)
(* clock is set again and again, unless the machine ends.                   *)
(***************************************************************************)
EdgesGoOn ==
    \A e \in {0, 1} : at # "boot" /\ edge = e ~> edge # e \/ status # "running"
=============================================================================
