--------------------------- MODULE VMachineProofs ---------------------------
(***************************************************************************)
(* Proofs about the clock of VMachine, for every length of a second, every  *)
(* size of the ROM and of the memory, and any LONG.                         *)
(***************************************************************************)
EXTENDS VMachine, SequenceTheorems, TLAPS

ClockTypeOK ==
    /\ at \in {"boot", "loop", "turn", "notify", "sleep"} /\ edge \in {0, 1}
    /\ since \in 0 .. LONG /\ wall \in -LONG .. LONG /\ rise \in 0 .. LONG
    /\ left \in Nat /\ wall_clock \in {"untouched", "set", "earlier"}

(***************************************************************************)
(* While nobody sets the wall clock it shows the real time since start_ts,  *)
(* so that what is left to sleep is what is left of the half period.  The   *)
(* clock is read for a fall after the rise before it, and for a rise half a *)
(* period after it was read for that fall.                                  *)
(***************************************************************************)
Falling == (edge = 1 /\ at = "turn") \/ (edge = 0 /\ at # "turn")

ClockInv ==
    /\ ClockTypeOK
    /\ at # "sleep" => left = 0
    /\ at = "boot" => since = LONG /\ rise = LONG
    /\ at \in {"turn", "notify"} /\ wall_clock # "set" => wall = since
    /\ at = "sleep" /\ wall_clock # "set" => since + left >= edge_frequency_ns \/ since = LONG
    /\ at = "loop" /\ wall_clock # "set" => since >= edge_frequency_ns
    /\ Falling => rise >= since
    /\ at = "turn" /\ edge = 0 /\ wall_clock = "untouched" => rise >= edge_frequency_ns

(***************************************************************************)
(* Half a period is at most LONG, whatever the frequency: vclock_init's     *)
(* integer division gives one second or nothing.                            *)
(***************************************************************************)
LEMMA HalfPeriod ==
    /\ edge_frequency_ns \in 0 .. LONG
    /\ freq = 1 => edge_frequency_ns = SECOND \div (2 * freq)
<1>1. freq = 1 \/ (freq > 1 /\ freq \in Nat)
  BY ClockAssumption
<1>2. CASE freq = 1
  <2>1. 1 \div freq = 1
    BY <1>2
  <2>2. edge_frequency_ns = SECOND \div 2 /\ SECOND \div (2 * freq) = SECOND \div 2
    BY <2>1, <1>2, ClockAssumption DEF edge_frequency_ns
  <2>3. SECOND \div 2 \in 0 .. LONG
    BY ClockAssumption
  <2> QED
    BY <2>2, <2>3
<1>3. CASE freq > 1 /\ freq \in Nat
  <2>1. 1 \div freq = 0
    BY <1>3
  <2>2. 0 * SECOND = 0 /\ 0 \div 2 = 0
    BY ClockAssumption
  <2>3. edge_frequency_ns = 0
    BY <2>1, <2>2 DEF edge_frequency_ns
  <2> QED
    BY <2>3, <1>3, ClockAssumption
<1> QED
  BY <1>1, <1>2, <1>3

LEMMA EdgeIsShort == edge_frequency_ns \in Nat /\ edge_frequency_ns < SECOND
<1>1. CASE freq = 1
  <2>1. 1 \div freq = 1
    BY <1>1
  <2> QED
    BY <2>1, ClockAssumption DEF edge_frequency_ns
<1>2. CASE freq > 1
  <2>1. 1 \div freq = 0 /\ 0 * SECOND = 0
    BY <1>2, ClockAssumption
  <2> QED
    BY <2>1, ClockAssumption DEF edge_frequency_ns
<1> QED
  BY <1>1, <1>2, ClockAssumption

LEMMA ClockInit == Init => ClockInv
<1> SUFFICES ASSUME Init PROVE ClockInv
  OBVIOUS
<1>1. /\ at = "boot" /\ edge = 0 /\ left = 0 /\ since = LONG /\ wall = 0 /\ rise = LONG
      /\ wall_clock = "untouched"
  BY DEF Init
<1> QED
  BY <1>1, ClockAssumption DEF ClockInv, ClockTypeOK, Falling

(***************************************************************************)
(* main reaches the clock only when it starts it, long after time zero.     *)
(***************************************************************************)
LEMMA BootKeepsTime == ClockInv /\ Boot => ClockInv'
<1> SUFFICES ASSUME ClockInv, Boot PROVE ClockInv'
  OBVIOUS
<1>1. UNCHANGED time
  BY DEF Boot, device_table_init, device_table_add, logger_init, log_info, vmemory_calloc,
         event_create, event_subscribe, loader_flash_rom, vcpu_reset, vclock_start, time
<1>2. edge_frequency_ns' = edge_frequency_ns
  BY DEF edge_frequency_ns
<1>3. CASE vclock_start
  <2>1. at = "boot" /\ at' = "loop" /\ left' = left /\ edge' = edge
    BY <1>3 DEF vclock_start, MainDoes
  <2>2. since' = LONG /\ rise' = LONG /\ left' = 0
    BY <1>1, <2>1 DEF ClockInv, time
  <2> QED
    BY <1>1, <1>2, <2>1, <2>2, HalfPeriod DEF ClockInv, ClockTypeOK, Falling, time
<1>4. CASE ~vclock_start
  <2>1. UNCHANGED clock
    <3>1. CASE device_table_init \/ logger_init \/ event_create \/ event_subscribe \/ vcpu_reset
      BY <3>1 DEF device_table_init, logger_init, event_create, event_subscribe, vcpu_reset
    <3>2. CASE device_table_add \/ log_info \/ vmemory_calloc \/ loader_flash_rom
      BY <3>2 DEF device_table_add, log_info, vmemory_calloc, loader_flash_rom, End
    <3> QED
      BY <1>4, <3>1, <3>2 DEF Boot
  <2> QED
    BY <1>1, <1>2, <2>1 DEF ClockInv, ClockTypeOK, Falling, clock, time
<1> QED
  BY <1>3, <1>4

(***************************************************************************)
(* Every step of the clock, of time, and of whoever sets the wall clock.    *)
(***************************************************************************)
LEMMA ClockInductive == ClockInv /\ [Next]_vars => ClockInv'
<1> SUFFICES ASSUME ClockInv, [Next]_vars PROVE ClockInv'
  OBVIOUS
<1>e. edge_frequency_ns' = edge_frequency_ns /\ edge_frequency_ns \in Nat
      /\ edge_frequency_ns <= LONG
  BY HalfPeriod, ClockAssumption DEF edge_frequency_ns
<1>1. CASE Boot
  BY <1>1, BootKeepsTime
<1>2. CASE read_clock
  <2>1. /\ at = "loop" /\ at' = "turn" /\ since' = 0 /\ wall' = 0 /\ UNCHANGED <<edge, left, rise>>
        /\ wall_clock' = IF wall_clock = "set" THEN "earlier" ELSE "untouched"
    BY <1>2 DEF read_clock, ClockAt
  <2>2. ClockTypeOK'
    BY <2>1, ClockAssumption DEF ClockInv, ClockTypeOK
  <2>3. edge = 0 /\ wall_clock # "set" => rise >= edge_frequency_ns
    BY <2>1, <1>e, ClockAssumption DEF ClockInv, ClockTypeOK, Falling
  <2> QED
    BY <1>e, <2>1, <2>2, <2>3 DEF ClockInv, ClockTypeOK, Falling
<1>3. CASE flip_edge
  <2>1. /\ at = "turn" /\ at' = "notify" /\ edge' = 1 - edge
        /\ rise' = (IF edge = 0 THEN 0 ELSE rise)
        /\ UNCHANGED <<left, since, wall, wall_clock>>
    BY <1>3 DEF flip_edge, ClockAt
  <2>2. ClockTypeOK'
    BY <2>1, ClockAssumption DEF ClockInv, ClockTypeOK
  <2> QED
    BY <1>e, <2>1, <2>2 DEF ClockInv, ClockTypeOK, Falling
<1>4. CASE handler_ends
  BY <1>4, <1>e DEF handler_ends, clock, time, ClockInv, ClockTypeOK, Falling
<1>5. CASE event_notified
  <2>1. at = "notify" /\ left = 0 /\ UNCHANGED <<edge, since, wall, rise, wall_clock>>
    BY <1>5 DEF event_notified, ClockAt, ClockInv, time
  <2>2. delay \in Int /\ delay = edge_frequency_ns - wall
    BY <1>e, ClockAssumption DEF delay, ClockInv, ClockTypeOK
  <2>3. CASE delay <= 0 /\ at' = "loop" /\ left' = left
    BY <2>1, <2>2, <2>3, <1>e, ClockAssumption DEF ClockInv, ClockTypeOK, Falling
  <2>4. CASE delay \in 1 .. SECOND - 1 /\ at' = "sleep" /\ left' = delay
    BY <2>1, <2>2, <2>4, <1>e, ClockAssumption DEF ClockInv, ClockTypeOK, Falling
  <2>5. CASE UNCHANGED <<at, left>>
    BY <2>1, <2>5, <1>e DEF ClockInv, ClockTypeOK, Falling
  <2> QED
    BY <1>5, <2>3, <2>4, <2>5 DEF event_notified
<1>6. CASE wake
  BY <1>6, <1>e, ClockAssumption DEF wake, ClockAt, ClockInv, ClockTypeOK, Falling, time
<1>7. CASE Tick
  <2>1. /\ at # "boot" /\ UNCHANGED <<at, edge, wall_clock>>
        /\ since' = IF since < LONG THEN since + 1 ELSE LONG
        /\ wall' = IF wall < LONG THEN wall + 1 ELSE LONG
        /\ rise' = IF rise < LONG THEN rise + 1 ELSE LONG
        /\ left' = IF left = 0 THEN 0 ELSE left - 1
    BY <1>7 DEF Tick
  <2>2. ClockTypeOK'
    BY <2>1, ClockAssumption DEF ClockInv, ClockTypeOK
  <2>3. Falling' => rise' >= since'
    BY <2>1, ClockAssumption DEF ClockInv, ClockTypeOK, Falling
  <2>4. at' = "sleep" /\ wall_clock' # "set" => since' + left' >= edge_frequency_ns \/ since' = LONG
    BY <1>e, <2>1, ClockAssumption DEF ClockInv, ClockTypeOK
  <2> QED
    BY <1>e, <2>1, <2>2, <2>3, <2>4, ClockAssumption DEF ClockInv, ClockTypeOK
<1>8. CASE SetWallClock
  BY <1>8, <1>e, ClockAssumption DEF SetWallClock, clock, ClockInv, ClockTypeOK, Falling
<1>9. CASE UNCHANGED vars
  BY <1>9, <1>e DEF vars, clock, time, ClockInv, ClockTypeOK, Falling
<1> QED
  BY <1>1, <1>2, <1>3, <1>4, <1>5, <1>6, <1>7, <1>8, <1>9 DEF Next, Proceed

(***************************************************************************)
(* What the clock promises at the 1 Hz it is run with, for every length of  *)
(* the handlers and wherever the thread is preempted: two rising edges are  *)
(* half a second apart unless the wall clock was set in between             *)
(* (vclock.c:59).                                                           *)
(***************************************************************************)
THEOREM HalfASecondApart ==
    ASSUME freq = 1
    PROVE  Spec => CyclesKeepDistance
<1>1. ClockInv => [flip_edge /\ edge = 0 /\ wall_clock = "untouched"
                     => rise >= SECOND \div (2 * freq)]_vars
  BY HalfPeriod DEF flip_edge, ClockAt, ClockInv
<1> QED
  BY <1>1, ClockInit, ClockInductive, PTL DEF Spec, CyclesKeepDistance

LEMMA DelayIsShort ==
    ASSUME ClockInv, at = "notify", wall_clock # "set"
    PROVE  ~(delay >= SECOND)
<1>1. wall = since /\ since \in Nat
  BY ClockAssumption DEF ClockInv, ClockTypeOK
<1> QED
  BY <1>1, EdgeIsShort, ClockAssumption DEF delay

(***************************************************************************)
(* What ends the machine once the clock runs: the third part of             *)
(* EndsByHostOrGuest.                                                       *)
(***************************************************************************)
ClockEnds ==
    at # "boot" /\ status # "running" =>
        wall_clock = "set" \/ (status = "guest" /\ edge = 1)

LEMMA ClockEndsIsInvariant == Spec => []ClockEnds
<1>1. Init => ClockEnds
  BY DEF Init, ClockEnds
<1>2. ClockInv /\ ClockEnds /\ [Next]_vars => ClockEnds'
  <2> SUFFICES ASSUME ClockInv, ClockEnds, [Next]_vars, at' # "boot", status' # "running"
               PROVE  wall_clock' = "set" \/ (status' = "guest" /\ edge' = 1)
    BY DEF ClockEnds
  <2>1. CASE Boot
    BY <2>1 DEF Boot, device_table_init, device_table_add, logger_init, log_info,
       vmemory_calloc, event_create, event_subscribe, loader_flash_rom, vcpu_reset,
       vclock_start, MainDoes, End, clock
  <2>2. CASE event_notified
    <3>1. at = "notify" /\ status = "running" /\ wall_clock' = wall_clock
      BY <2>2 DEF event_notified, ClockAt, time
    <3>2. delay >= SECOND
      BY <2>2, <3>1 DEF event_notified
    <3>3. wall_clock = "set"
      BY <3>1, <3>2, DelayIsShort
    <3> QED
      BY <3>1, <3>3
  <2>3. CASE handler_ends
    BY <2>3 DEF handler_ends, clock
  <2>4. CASE read_clock \/ flip_edge \/ wake \/ Tick \/ SetWallClock
    BY <2>4 DEF read_clock, flip_edge, wake, Tick, SetWallClock, ClockAt
  <2>5. CASE UNCHANGED vars
    BY <2>5 DEF vars, clock, time, ClockEnds
  <2> QED
    BY <2>1, <2>2, <2>3, <2>4, <2>5 DEF Next, Proceed
<1> QED
  BY <1>1, <1>2, ClockInit, ClockInductive, PTL DEF Spec
-----------------------------------------------------------------------------
(***************************************************************************)
(* The boot.  An operation of main, and the list of them.                   *)
(***************************************************************************)
Item == [op : {"table", "add", "open", "log", "calloc", "create", "subscribe", "flash", "reset", "start"},
         dev : Device \cup {"none"}]

(***************************************************************************)
(* A list of operations followed by another of at most three.               *)
(***************************************************************************)
LEMMA Follow ==
    ASSUME NEW s \in Seq(Item), NEW t \in Seq(Item), NEW n \in Nat, Len(s) = n
    PROVE  /\ s \o t \in Seq(Item) /\ Len(s \o t) = n + Len(t)
           /\ \A i \in 1 .. n : (s \o t)[i] = s[i]
           /\ Len(t) >= 1 => (s \o t)[n + 1] = t[1]
           /\ Len(t) >= 2 => (s \o t)[n + 2] = t[2]
           /\ Len(t) >= 3 => (s \o t)[n + 3] = t[3]
  OBVIOUS

(***************************************************************************)
(* What main does, in order.                                                *)
(***************************************************************************)
LEMMA MainList ==
  /\ main \in Seq(Item) /\ Len(main) = 16
  /\ main[1]  = Do("table", "none")
  /\ main[2]  = Do("add", "vclock")  /\ main[3]  = Do("open", "vclock")    /\ main[4]  = Do("log", "vclock")
  /\ main[5]  = Do("add", "vcpu")    /\ main[6]  = Do("open", "vcpu")      /\ main[7]  = Do("log", "vcpu")
  /\ main[8]  = Do("add", "vmemory") /\ main[9]  = Do("open", "vmemory")   /\ main[10] = Do("log", "vmemory")
  /\ main[11] = Do("calloc", "vmemory")
  /\ main[12] = Do("create", "none") /\ main[13] = Do("subscribe", "vcpu") /\ main[14] = Do("flash", "none")
  /\ main[15] = Do("reset", "vcpu")  /\ main[16] = Do("start", "vclock")
<1>1. /\ Do("table", "none") \in Item /\ Do("create", "none") \in Item /\ Do("flash", "none") \in Item
      /\ Do("calloc", "vmemory") \in Item /\ Do("subscribe", "vcpu") \in Item
      /\ Do("reset", "vcpu") \in Item /\ Do("start", "vclock") \in Item
  BY DEF Do, Item, Device
<1>2. ASSUME NEW s \in Seq(Item), NEW n \in Nat, Len(s) = n, NEW dev \in Device
      PROVE  /\ s \o device_init(dev) \in Seq(Item) /\ Len(s \o device_init(dev)) = n + 3
             /\ \A i \in 1 .. n : (s \o device_init(dev))[i] = s[i]
             /\ (s \o device_init(dev))[n + 1] = Do("add", dev)
             /\ (s \o device_init(dev))[n + 2] = Do("open", dev)
             /\ (s \o device_init(dev))[n + 3] = Do("log", dev)
  <2>1. Do("add", dev) \in Item /\ Do("open", dev) \in Item /\ Do("log", dev) \in Item
    BY DEF Do, Item
  <2> DEFINE t == device_init(dev)
  <2>2. /\ t \in Seq(Item) /\ Len(t) = 3
        /\ t[1] = Do("add", dev) /\ t[2] = Do("open", dev) /\ t[3] = Do("log", dev)
    BY <2>1 DEF device_init
  <2> HIDE DEF t
  <2>3. /\ s \o t \in Seq(Item) /\ Len(s \o t) = n + Len(t)
        /\ \A i \in 1 .. n : (s \o t)[i] = s[i]
        /\ Len(t) >= 1 => (s \o t)[n + 1] = t[1]
        /\ Len(t) >= 2 => (s \o t)[n + 2] = t[2]
        /\ Len(t) >= 3 => (s \o t)[n + 3] = t[3]
    BY <1>2, <2>2, Follow, Zenon
  <2> DEFINE r == s \o t
  <2> HIDE DEF r
  <2>4. r[n + 1] = Do("add", dev) /\ r[n + 2] = Do("open", dev) /\ r[n + 3] = Do("log", dev)
    BY <2>2, <2>3 DEF r
  <2> QED
    BY <2>2, <2>3, <2>4 DEF r, t
<1>3. "vclock" \in Device /\ "vcpu" \in Device /\ "vmemory" \in Device
  BY DEF Device
<1>n. 1 \in Nat /\ 4 \in Nat /\ 7 \in Nat /\ 10 \in Nat /\ 11 \in Nat /\ 14 \in Nat
  OBVIOUS
<1> DEFINE a == << Do("table", "none") >>
           b == a \o device_init("vclock")
           c == b \o device_init("vcpu")
           d == c \o device_init("vmemory")
           e == d \o << Do("calloc", "vmemory") >>
           f == e \o configure
<1>4. a \in Seq(Item) /\ Len(a) = 1 /\ a[1] = Do("table", "none")
  BY <1>1
<1> HIDE DEF a
<1>5. /\ b \in Seq(Item) /\ Len(b) = 4 /\ (\A i \in 1 .. 1 : b[i] = a[i])
      /\ b[2] = Do("add", "vclock") /\ b[3] = Do("open", "vclock") /\ b[4] = Do("log", "vclock")
  <2>1. /\ b \in Seq(Item) /\ Len(b) = 1 + 3 /\ (\A i \in 1 .. 1 : b[i] = a[i])
        /\ b[1 + 1] = Do("add", "vclock") /\ b[1 + 2] = Do("open", "vclock") /\ b[1 + 3] = Do("log", "vclock")
    BY <1>2, <1>3, <1>4, <1>n, ZenonT(60)
  <2> HIDE DEF b
  <2> QED
    BY <2>1
<1> HIDE DEF b
<1>6. /\ c \in Seq(Item) /\ Len(c) = 7 /\ (\A i \in 1 .. 4 : c[i] = b[i])
      /\ c[5] = Do("add", "vcpu") /\ c[6] = Do("open", "vcpu") /\ c[7] = Do("log", "vcpu")
  <2>1. /\ c \in Seq(Item) /\ Len(c) = 4 + 3 /\ (\A i \in 1 .. 4 : c[i] = b[i])
        /\ c[4 + 1] = Do("add", "vcpu") /\ c[4 + 2] = Do("open", "vcpu") /\ c[4 + 3] = Do("log", "vcpu")
    BY <1>2, <1>3, <1>5, <1>n, ZenonT(60)
  <2> HIDE DEF c
  <2> QED
    BY <2>1
<1> HIDE DEF c
<1>7. /\ d \in Seq(Item) /\ Len(d) = 10 /\ (\A i \in 1 .. 7 : d[i] = c[i])
      /\ d[8] = Do("add", "vmemory") /\ d[9] = Do("open", "vmemory") /\ d[10] = Do("log", "vmemory")
  <2>1. /\ d \in Seq(Item) /\ Len(d) = 7 + 3 /\ (\A i \in 1 .. 7 : d[i] = c[i])
        /\ d[7 + 1] = Do("add", "vmemory") /\ d[7 + 2] = Do("open", "vmemory") /\ d[7 + 3] = Do("log", "vmemory")
    BY <1>2, <1>3, <1>6, <1>n, ZenonT(60)
  <2> HIDE DEF d
  <2> QED
    BY <2>1
<1> HIDE DEF d
<1>8. /\ e \in Seq(Item) /\ Len(e) = 11 /\ (\A i \in 1 .. 10 : e[i] = d[i])
      /\ e[11] = Do("calloc", "vmemory")
  <2> DEFINE t == << Do("calloc", "vmemory") >>
  <2>1. t \in Seq(Item) /\ Len(t) = 1 /\ t[1] = Do("calloc", "vmemory")
    BY <1>1
  <2> HIDE DEF t
  <2>2. /\ d \o t \in Seq(Item) /\ Len(d \o t) = 10 + Len(t)
        /\ \A i \in 1 .. 10 : (d \o t)[i] = d[i]
        /\ Len(t) >= 1 => (d \o t)[10 + 1] = t[1]
    BY <1>7, <2>1, <1>n, Follow, Zenon
  <2>3. e = d \o t
    BY DEF t
  <2>4. /\ e \in Seq(Item) /\ Len(e) = 10 + Len(t) /\ \A i \in 1 .. 10 : e[i] = d[i]
        /\ Len(t) >= 1 => e[10 + 1] = t[1]
    BY <2>2, <2>3, Zenon
  <2> HIDE DEF e
  <2> QED
    BY <2>1, <2>4
<1> HIDE DEF e
<1>9. /\ f \in Seq(Item) /\ Len(f) = 14 /\ (\A i \in 1 .. 11 : f[i] = e[i])
      /\ f[12] = Do("create", "none") /\ f[13] = Do("subscribe", "vcpu") /\ f[14] = Do("flash", "none")
  <2>1. /\ configure \in Seq(Item) /\ Len(configure) = 3 /\ configure[1] = Do("create", "none")
        /\ configure[2] = Do("subscribe", "vcpu") /\ configure[3] = Do("flash", "none")
    BY <1>1 DEF configure
  <2>2. /\ f \in Seq(Item) /\ Len(f) = 11 + Len(configure)
        /\ \A i \in 1 .. 11 : f[i] = e[i]
        /\ Len(configure) >= 1 => f[11 + 1] = configure[1]
        /\ Len(configure) >= 2 => f[11 + 2] = configure[2]
        /\ Len(configure) >= 3 => f[11 + 3] = configure[3]
    BY <1>8, <2>1, <1>n, Follow, Zenon
  <2> HIDE DEF f
  <2> QED
    BY <2>1, <2>2
<1>10. main = f \o << Do("reset", "vcpu"), Do("start", "vclock") >>
  BY Zenon DEF main, init, f, e, d, c, b, a
<1> HIDE DEF f
<1>11. /\ main \in Seq(Item) /\ Len(main) = 16 /\ (\A i \in 1 .. 14 : main[i] = f[i])
       /\ main[15] = Do("reset", "vcpu") /\ main[16] = Do("start", "vclock")
  <2> DEFINE t == << Do("reset", "vcpu"), Do("start", "vclock") >>
  <2>1. t \in Seq(Item) /\ Len(t) = 2 /\ t[1] = Do("reset", "vcpu") /\ t[2] = Do("start", "vclock")
    BY <1>1
  <2>2. main = f \o t
    BY <1>10
  <2> HIDE DEF t
  <2>3. /\ f \o t \in Seq(Item) /\ Len(f \o t) = 14 + Len(t)
        /\ \A i \in 1 .. 14 : (f \o t)[i] = f[i]
        /\ Len(t) >= 1 => (f \o t)[14 + 1] = t[1]
        /\ Len(t) >= 2 => (f \o t)[14 + 2] = t[2]
    BY <1>9, <2>1, <1>n, Follow, ZenonT(60)
  <2>4. /\ main \in Seq(Item) /\ Len(main) = 14 + Len(t) /\ \A i \in 1 .. 14 : main[i] = f[i]
        /\ Len(t) >= 1 => main[14 + 1] = t[1]
        /\ Len(t) >= 2 => main[14 + 2] = t[2]
    BY <2>2, <2>3, Zenon
  <2> QED
    BY <2>1, <2>4
<1> QED
  BY <1>4, <1>5, <1>6, <1>7, <1>8, <1>9, <1>11

(***************************************************************************)
(* Which operation comes after the first n.                                 *)
(***************************************************************************)
LEMMA Operations ==
    ASSUME NEW n \in 0 .. 15
    PROVE  LET op == main[n + 1].op
               dev == main[n + 1].dev
           IN  /\ op = "table" => n = 0
               /\ op = "add"  => (n = 1 /\ dev = "vclock") \/ (n = 4 /\ dev = "vcpu") \/ (n = 7 /\ dev = "vmemory")
               /\ op = "open" => (n = 2 /\ dev = "vclock") \/ (n = 5 /\ dev = "vcpu") \/ (n = 8 /\ dev = "vmemory")
               /\ op = "log"  => (n = 3 /\ dev = "vclock") \/ (n = 6 /\ dev = "vcpu") \/ (n = 9 /\ dev = "vmemory")
               /\ op = "calloc" => n = 10
               /\ op = "create" => n = 11
               /\ op = "subscribe" => n = 12
               /\ op = "flash" => n = 13
               /\ op = "reset" => n = 14
               /\ op = "start" => n = 15
<1> DEFINE op == main[n + 1].op
           dev == main[n + 1].dev
<1>0. /\ n = 0 => op = "table" /\ dev = "none"
      /\ n = 1 => op = "add" /\ dev = "vclock"
      /\ n = 2 => op = "open" /\ dev = "vclock"
      /\ n = 3 => op = "log" /\ dev = "vclock"
      /\ n = 4 => op = "add" /\ dev = "vcpu"
      /\ n = 5 => op = "open" /\ dev = "vcpu"
      /\ n = 6 => op = "log" /\ dev = "vcpu"
      /\ n = 7 => op = "add" /\ dev = "vmemory"
      /\ n = 8 => op = "open" /\ dev = "vmemory"
      /\ n = 9 => op = "log" /\ dev = "vmemory"
      /\ n = 10 => op = "calloc" /\ dev = "vmemory"
      /\ n = 11 => op = "create" /\ dev = "none"
      /\ n = 12 => op = "subscribe" /\ dev = "vcpu"
      /\ n = 13 => op = "flash" /\ dev = "none"
      /\ n = 14 => op = "reset" /\ dev = "vcpu"
      /\ n = 15 => op = "start" /\ dev = "vclock"
  <2>1. n = 0 => main[n + 1] = Do("table", "none")
    BY MainList
  <2>2. n = 1 => main[n + 1] = Do("add", "vclock")
    BY MainList
  <2>3. n = 2 => main[n + 1] = Do("open", "vclock")
    BY MainList
  <2>4. n = 3 => main[n + 1] = Do("log", "vclock")
    BY MainList
  <2>5. n = 4 => main[n + 1] = Do("add", "vcpu")
    BY MainList
  <2>6. n = 5 => main[n + 1] = Do("open", "vcpu")
    BY MainList
  <2>7. n = 6 => main[n + 1] = Do("log", "vcpu")
    BY MainList
  <2>8. n = 7 => main[n + 1] = Do("add", "vmemory")
    BY MainList
  <2>9. n = 8 => main[n + 1] = Do("open", "vmemory")
    BY MainList
  <2>10. n = 9 => main[n + 1] = Do("log", "vmemory")
    BY MainList
  <2>11. n = 10 => main[n + 1] = Do("calloc", "vmemory")
    BY MainList
  <2>12. n = 11 => main[n + 1] = Do("create", "none")
    BY MainList
  <2>13. n = 12 => main[n + 1] = Do("subscribe", "vcpu")
    BY MainList
  <2>14. n = 13 => main[n + 1] = Do("flash", "none")
    BY MainList
  <2>15. n = 14 => main[n + 1] = Do("reset", "vcpu")
    BY MainList
  <2>16. n = 15 => main[n + 1] = Do("start", "vclock")
    BY MainList
  <2> QED
    BY <2>1, <2>2, <2>3, <2>4, <2>5, <2>6, <2>7, <2>8, <2>9, <2>10, <2>11, <2>12, <2>13, <2>14, <2>15, <2>16 DEF Do
<1> HIDE DEF op, dev
<1>1. n = 0 \/ n = 1 \/ n = 2 \/ n = 3 \/ n = 4 \/ n = 5 \/ n = 6 \/ n = 7 \/ n = 8 \/ n = 9 \/ n = 10 \/ n = 11 \/ n = 12 \/ n = 13 \/ n = 14 \/ n = 15
  OBVIOUS
<1>2. op = "add" => (n = 1 /\ dev = "vclock") \/ (n = 4 /\ dev = "vcpu") \/ (n = 7 /\ dev = "vmemory")
  BY <1>0, <1>1
<1>3. op = "open" => (n = 2 /\ dev = "vclock") \/ (n = 5 /\ dev = "vcpu") \/ (n = 8 /\ dev = "vmemory")
  BY <1>0, <1>1
<1>4. op = "log" => (n = 3 /\ dev = "vclock") \/ (n = 6 /\ dev = "vcpu") \/ (n = 9 /\ dev = "vmemory")
  BY <1>0, <1>1
<1>5. /\ op = "table" => n = 0
      /\ op = "calloc" => n = 10
      /\ op = "create" => n = 11
      /\ op = "subscribe" => n = 12
      /\ op = "flash" => n = 13
      /\ op = "reset" => n = 14
      /\ op = "start" => n = 15
  BY <1>0, <1>1
<1> QED
  BY <1>2, <1>3, <1>4, <1>5 DEF op, dev

LEMMA MainStays == main' = main
  BY DEF main, init, configure, device_init, Do

(***************************************************************************)
(* What is still to do is the end of main's list.                           *)
(***************************************************************************)
Done == 16 - Len(todo)

BootOrder ==
    /\ todo \in Seq(Item) /\ Len(todo) \in 0 .. 16
    /\ \A i \in 1 .. Len(todo) : todo[i] = main[Done + i]

(***************************************************************************)
(* An operation of main is the next of the list.                            *)
(***************************************************************************)
LEMMA NextOperation ==
    ASSUME BootOrder, NEW op, MainDoes(op)
    PROVE  /\ BootOrder' /\ Done \in 0 .. 15 /\ Done' = Done + 1
           /\ main[Done + 1].op = op /\ main[Done + 1].dev = Dev
<1>1. todo # <<>> /\ todo' = Tail(todo) /\ Head(todo).op = op
  BY DEF MainDoes
<1>2. /\ todo \in Seq(Item) /\ Len(todo) \in 0 .. 16
      /\ \A i \in 1 .. Len(todo) : todo[i] = main[Done + i]
  BY DEF BootOrder
<1>3. PICK k \in 1 .. 16 : Len(todo) = k
  <2>1. todo \in Seq(Item) /\ todo # <<>> => Len(todo) # 0
    OBVIOUS
  <2> QED
    BY <1>1, <1>2, <2>1
<1>4. /\ todo' \in Seq(Item) /\ Len(todo') = k - 1 /\ Head(todo) = todo[1]
      /\ \A i \in 1 .. k - 1 : todo'[i] = todo[i + 1]
  BY <1>1, <1>2, <1>3
<1>5. Done = 16 - k /\ Done' = 16 - (k - 1)
  BY <1>3, <1>4 DEF Done
<1>6. main' = main
  BY MainStays
<1>7. ASSUME NEW i \in 1 .. k - 1 PROVE todo'[i] = main[Done' + i]
  <2>1. i + 1 \in 1 .. k /\ Done + (i + 1) = Done' + i
    BY <1>5
  <2>2. todo[i + 1] = main[Done + (i + 1)]
    BY <1>2, <1>3, <2>1
  <2> QED
    BY <1>4, <2>1, <2>2
<1>8. BootOrder'
  <2>1. todo' \in Seq(Item) /\ Len(todo') \in 0 .. 16
    BY <1>4
  <2> QED
    BY <2>1, <1>4, <1>6, <1>7, Zenon DEF BootOrder
<1>9. Head(todo) = main[Done + 1]
  BY <1>2, <1>3, <1>4
<1> QED
  BY <1>1, <1>5, <1>8, <1>9 DEF Dev

(***************************************************************************)
(* What main has brought about after its first operations: the table, each  *)
(* device's registration, file and first line, the event with the vCPU's    *)
(* handler, the ROM, the pc, and at last the clock.                         *)
(***************************************************************************)
BootTypeOK ==
    /\ devices \in [made : BOOLEAN, ids : Seq(Device)]
    /\ file \in [Device -> {"unopened", "open", "none"}]
    /\ edge_changed \in {"none", "created", "subscribed"} /\ rom \in -1 .. VMEMORY_SIZE

Brought ==
    /\ Done >= 1 => devices.made = TRUE
    /\ Done \in 0 .. 1 => devices.ids = <<>>
    /\ Done \in 2 .. 4 => devices.ids = <<"vclock">>
    /\ Done \in 5 .. 7 => devices.ids = <<"vclock", "vcpu">>
    /\ Done >= 8 => devices.ids = <<"vclock", "vcpu", "vmemory">>
    /\ Done >= 3 => file["vclock"] # "unopened"
    /\ Done >= 4 => file["vclock"] = "open"
    /\ Done >= 6 => file["vcpu"] # "unopened"
    /\ Done >= 7 => file["vcpu"] = "open"
    /\ Done >= 9 => file["vmemory"] # "unopened"
    /\ Done >= 10 => file["vmemory"] = "open"
    /\ Done >= 12 => edge_changed # "none"
    /\ Done >= 13 => edge_changed = "subscribed"
    /\ Done >= 14 => rom >= 0
    /\ Done >= 15 => pc = "RESET_VECTOR_VADDR"
    /\ Done = 16 <=> at # "boot"

BootInv ==
    /\ BootTypeOK /\ BootOrder
    /\ status = "running" \/ at # "boot" => Brought
    /\ status = "crashed" => \E d \in Device : file[d] = "none"
    /\ at = "boot" => status \in {"running", "crashed", "no memory", "no rom"}

LEMMA BootInit == Init => BootInv
<1> SUFFICES ASSUME Init PROVE BootInv
  OBVIOUS
<1>1. todo = main /\ Len(todo) = 16 /\ Done = 0
  BY MainList DEF Init, Done
<1>2. BootOrder
  <2>1. todo \in Seq(Item) /\ Len(todo) \in 0 .. 16
    BY <1>1, MainList
  <2>2. \A i \in 1 .. 16 : 0 + i = i
    OBVIOUS
  <2> QED
    BY <1>1, <2>1, <2>2 DEF BootOrder
<1>3. BootTypeOK
  BY ClockAssumption DEF Init, BootTypeOK
<1>4. Brought
  BY <1>1 DEF Init, Brought
<1> QED
  BY <1>2, <1>3, <1>4 DEF Init, BootInv

(***************************************************************************)
(* The ids of two and of three devices.                                     *)
(***************************************************************************)
LEMMA Two == ASSUME NEW S, NEW a \in S, NEW b \in S PROVE Append(<<a>>, b) = <<a, b>>
<1> DEFINE s == Append(<<a>>, b)
           t == <<a, b>>
<1>1. s \in Seq(S) /\ t \in Seq(S) /\ Len(s) = 2 /\ Len(t) = 2
  OBVIOUS
<1>2. s[1] = a /\ s[2] = b /\ t[1] = a /\ t[2] = b
  OBVIOUS
<1> HIDE DEF s, t
<1>3. \A i \in 1 .. 2 : s[i] = t[i]
  BY <1>2
<1>4. s = t
  BY <1>1, <1>3, SeqEqual
<1> QED
  BY <1>4 DEF s, t

LEMMA Three == ASSUME NEW S, NEW a \in S, NEW b \in S, NEW c \in S PROVE Append(<<a, b>>, c) = <<a, b, c>>
<1> DEFINE s == Append(<<a, b>>, c)
           t == <<a, b, c>>
<1>1. s \in Seq(S) /\ t \in Seq(S) /\ Len(s) = 3 /\ Len(t) = 3
  OBVIOUS
<1>2. s[1] = a /\ s[2] = b /\ s[3] = c /\ t[1] = a /\ t[2] = b /\ t[3] = c
  OBVIOUS
<1> HIDE DEF s, t
<1>3. \A i \in 1 .. 3 : s[i] = t[i]
  BY <1>2
<1>4. s = t
  BY <1>1, <1>3, SeqEqual
<1> QED
  BY <1>4 DEF s, t

(***************************************************************************)
(* An operation of main finds what the ones before it have brought about.   *)
(***************************************************************************)
LEMMA BootInductive == BootInv /\ Boot => BootInv'
<1> SUFFICES ASSUME BootInv, Boot PROVE BootInv'
  OBVIOUS
<1>1. PICK op : MainDoes(op)
  BY DEF Boot, device_table_init, device_table_add, logger_init, log_info, vmemory_calloc,
         event_create, event_subscribe, loader_flash_rom, vcpu_reset, vclock_start
<1>2. status = "running" /\ at = "boot" /\ BootTypeOK /\ BootOrder /\ Brought
  BY <1>1 DEF MainDoes, BootInv
<1>3. BootOrder' /\ Done \in 0 .. 15 /\ Done' = Done + 1
      /\ main[Done + 1].op = op /\ main[Done + 1].dev = Dev
  BY <1>1, <1>2, NextOperation
<1> DEFINE n == Done
<1>4. /\ n \in 0 .. 15
      /\ MainDoes("table") => n = 0
      /\ MainDoes("add")  => (n = 1 /\ Dev = "vclock") \/ (n = 4 /\ Dev = "vcpu") \/ (n = 7 /\ Dev = "vmemory")
      /\ MainDoes("open") => (n = 2 /\ Dev = "vclock") \/ (n = 5 /\ Dev = "vcpu") \/ (n = 8 /\ Dev = "vmemory")
      /\ MainDoes("log")  => (n = 3 /\ Dev = "vclock") \/ (n = 6 /\ Dev = "vcpu") \/ (n = 9 /\ Dev = "vmemory")
      /\ MainDoes("calloc") => n = 10
      /\ MainDoes("create") => n = 11
      /\ MainDoes("subscribe") => n = 12
      /\ MainDoes("flash") => n = 13
      /\ MainDoes("reset") => n = 14
      /\ MainDoes("start") => n = 15
  <2>1. \A o : MainDoes(o) => o = op
    BY <1>1 DEF MainDoes
  <2> QED
    BY <1>3, <2>1, Operations
<1>5. CASE device_table_init
  <2>1. n = 0 /\ Done' = 1
    BY <1>3, <1>4, <1>5 DEF device_table_init
  <2>2. /\ devices' = [made |-> TRUE, ids |-> <<>>]
        /\ UNCHANGED <<file, edge_changed, rom, pc, at, status>>
    BY <1>5 DEF device_table_init, clock
  <2>3. Brought'
    BY <1>2, <2>1, <2>2 DEF Brought
  <2>4. BootTypeOK'
    BY <1>2, <2>2 DEF BootTypeOK
  <2> QED
    BY <1>2, <1>3, <2>2, <2>3, <2>4 DEF BootInv
<1>6. CASE device_table_add
  <2>1. MainDoes("add") /\ Dev \in Device
    BY <1>4, <1>6 DEF device_table_add, Device
  <2>2. devices.made = TRUE
    BY <1>2, <1>4, <2>1 DEF Brought
  <2>3. /\ devices' = [devices EXCEPT !.ids = Append(@, Dev)]
        /\ UNCHANGED <<file, edge_changed, rom, pc, at, status>>
    BY <1>6, <2>2 DEF device_table_add, clock
  <2>4. devices'.made = TRUE /\ devices'.ids = Append(devices.ids, Dev)
    BY <1>2, <2>2, <2>3 DEF BootTypeOK
  <2>5. Brought'
    <3>1. CASE n = 1 /\ Dev = "vclock"
      <4>1. devices.ids = <<>> /\ Done' = 2
        BY <1>2, <1>3, <3>1 DEF Brought
      <4>2. devices'.ids = <<"vclock">>
        BY <2>4, <3>1, <4>1
      <4> QED
        BY <1>2, <2>3, <2>4, <3>1, <4>1, <4>2 DEF Brought
    <3>2. CASE n = 4 /\ Dev = "vcpu"
      <4>1. devices.ids = <<"vclock">> /\ Done' = 5
        BY <1>2, <1>3, <3>2 DEF Brought
      <4>2. devices'.ids = <<"vclock", "vcpu">>
        <5>1. "vclock" \in Device /\ "vcpu" \in Device
          BY DEF Device
        <5>2. Append(<<"vclock">>, "vcpu") = <<"vclock", "vcpu">>
          BY <5>1, Two, Zenon
        <5> QED
          BY <2>4, <3>2, <4>1, <5>2, Zenon
      <4> QED
        BY <1>2, <2>3, <2>4, <3>2, <4>1, <4>2 DEF Brought
    <3>3. CASE n = 7 /\ Dev = "vmemory"
      <4>1. devices.ids = <<"vclock", "vcpu">> /\ Done' = 8
        BY <1>2, <1>3, <3>3 DEF Brought
      <4>2. devices'.ids = <<"vclock", "vcpu", "vmemory">>
        <5>1. "vclock" \in Device /\ "vcpu" \in Device /\ "vmemory" \in Device
          BY DEF Device
        <5>2. Append(<<"vclock", "vcpu">>, "vmemory") = <<"vclock", "vcpu", "vmemory">>
          BY <5>1, Three, Zenon
        <5> QED
          BY <2>4, <3>3, <4>1, <5>2, Zenon
      <4> QED
        BY <1>2, <2>3, <2>4, <3>3, <4>1, <4>2 DEF Brought
    <3> QED
      BY <1>4, <2>1, <3>1, <3>2, <3>3
  <2>6. BootTypeOK'
    BY <1>2, <2>1, <2>3 DEF BootTypeOK
  <2> QED
    BY <1>2, <1>3, <2>3, <2>5, <2>6 DEF BootInv
<1>7. CASE logger_init
  <2>1. MainDoes("open") /\ Dev \in Device
    BY <1>4, <1>7 DEF logger_init, Device
  <2>2. PICK f \in {"open", "none"} : file' = [file EXCEPT ![Dev] = f]
    BY <1>7 DEF logger_init
  <2>3. UNCHANGED <<devices, edge_changed, rom, pc, at, status>>
    BY <1>7 DEF logger_init, clock
  <2>4. file \in [Device -> {"unopened", "open", "none"}]
    BY <1>2 DEF BootTypeOK
  <2>5. file' \in [Device -> {"unopened", "open", "none"}] /\ file'[Dev] # "unopened"
        /\ \A d \in Device : d # Dev => file'[d] = file[d]
    BY <2>1, <2>2, <2>4
  <2>6. Brought'
    <3>1. CASE n = 2 /\ Dev = "vclock"
      BY <1>2, <1>3, <2>3, <2>5, <3>1 DEF Brought, Device
    <3>2. CASE n = 5 /\ Dev = "vcpu"
      BY <1>2, <1>3, <2>3, <2>5, <3>2 DEF Brought, Device
    <3>3. CASE n = 8 /\ Dev = "vmemory"
      BY <1>2, <1>3, <2>3, <2>5, <3>3 DEF Brought, Device
    <3> QED
      BY <1>4, <2>1, <3>1, <3>2, <3>3
  <2>7. BootTypeOK'
    BY <1>2, <2>3, <2>5 DEF BootTypeOK
  <2> QED
    BY <1>2, <1>3, <2>3, <2>6, <2>7 DEF BootInv
<1>8. CASE log_info
  <2>1. MainDoes("log") /\ Dev \in Device
    BY <1>4, <1>8 DEF log_info, Device
  <2>2. UNCHANGED <<devices, file, edge_changed, rom, pc, at>>
    BY <1>8 DEF log_info, End, clock
  <2>3. BootTypeOK'
    BY <1>2, <1>8, <2>2 DEF BootTypeOK, log_info, End
  <2>4. CASE file[Dev] = "open"
    <3>1. status' = "running"
      BY <1>2, <1>8, <2>4 DEF log_info
    <3>2. Brought'
      <4>1. CASE n = 3 /\ Dev = "vclock"
        BY <1>2, <1>3, <2>2, <2>4, <4>1 DEF Brought
      <4>2. CASE n = 6 /\ Dev = "vcpu"
        BY <1>2, <1>3, <2>2, <2>4, <4>2 DEF Brought
      <4>3. CASE n = 9 /\ Dev = "vmemory"
        BY <1>2, <1>3, <2>2, <2>4, <4>3 DEF Brought
      <4> QED
        BY <1>4, <2>1, <4>1, <4>2, <4>3
    <3> QED
      BY <1>3, <2>3, <3>1, <3>2 DEF BootInv
  <2>5. CASE file[Dev] # "open"
    <3>1. status' = "crashed" /\ at' = "boot"
      BY <1>2, <1>8, <2>2, <2>5 DEF log_info, End
    <3>2. file[Dev] # "unopened"
      BY <1>2, <1>4, <2>1 DEF Brought
    <3>3. file'[Dev] = "none"
      BY <1>2, <2>1, <2>2, <2>5, <3>2 DEF BootTypeOK
    <3> QED
      BY <1>3, <2>1, <2>3, <3>1, <3>3 DEF BootInv
  <2> QED
    BY <2>4, <2>5
<1>9. CASE vmemory_calloc
  <2>0. MainDoes("calloc") /\ UNCHANGED <<devices, file, edge_changed, rom, pc, at>>
    BY <1>9 DEF vmemory_calloc, End, clock
  <2>1. n = 10 /\ Done' = 11 /\ UNCHANGED <<devices, file, edge_changed, rom, pc, at>>
    BY <1>3, <1>4, <2>0
  <2>2. status' = "running" \/ status' = "no memory"
    BY <1>2, <1>9 DEF vmemory_calloc, End
  <2>3. BootTypeOK'
    BY <1>2, <2>1, <2>2 DEF BootTypeOK
  <2>4. Brought'
    BY <1>2, <2>1 DEF Brought
  <2> QED
    BY <1>2, <1>3, <2>1, <2>2, <2>3, <2>4 DEF BootInv
<1>10. CASE event_create
  <2>1. n = 11 /\ Done' = 12 /\ edge_changed' = "created" /\ UNCHANGED <<devices, file, rom, pc, at, status>>
    BY <1>3, <1>4, <1>10 DEF event_create, clock
  <2>2. BootTypeOK'
    BY <1>2, <2>1 DEF BootTypeOK
  <2>3. Brought'
    BY <1>2, <2>1 DEF Brought
  <2> QED
    BY <1>2, <1>3, <2>1, <2>2, <2>3 DEF BootInv
<1>11. CASE event_subscribe
  <2>1. n = 12 /\ Done' = 13
    BY <1>3, <1>4, <1>11 DEF event_subscribe
  <2>2. edge_changed # "none"
    BY <1>2, <2>1 DEF Brought
  <2>3. edge_changed' = "subscribed" /\ UNCHANGED <<devices, file, rom, pc, at, status>>
    BY <1>11, <2>2 DEF event_subscribe, clock
  <2>4. BootTypeOK'
    BY <1>2, <2>3 DEF BootTypeOK
  <2>5. Brought'
    BY <1>2, <2>1, <2>3 DEF Brought
  <2> QED
    BY <1>2, <1>3, <2>3, <2>4, <2>5 DEF BootInv
<1>12. CASE loader_flash_rom
  <2>0. MainDoes("flash")
    BY <1>12 DEF loader_flash_rom
  <2>1. n = 13 /\ Done' = 14
    BY <1>3, <1>4, <2>0
  <2>2. UNCHANGED <<devices, file, edge_changed, pc, at>>
    BY <1>12 DEF loader_flash_rom, End, clock
  <2>3. CASE status' = "no rom" /\ rom' = rom
    <3>1. BootTypeOK'
      BY <1>2, <2>2, <2>3 DEF BootTypeOK
    <3> QED
      BY <1>2, <1>3, <2>2, <2>3, <3>1 DEF BootInv
  <2>4. CASE rom' \in 0 .. VMEMORY_SIZE /\ status' = status
    <3>1. BootTypeOK'
      BY <1>2, <2>2, <2>4 DEF BootTypeOK
    <3>2. rom' >= 0
      BY <2>4
    <3>3. Brought'
      BY <1>2, <2>1, <2>2, <3>2 DEF Brought
    <3> QED
      BY <1>2, <1>3, <2>2, <2>4, <3>1, <3>3 DEF BootInv
  <2>5. ASSUME NEW size \in RomSizes, RESET_VECTOR_PADDR + size <= VMEMORY_SIZE
        PROVE  0 .. size \subseteq 0 .. VMEMORY_SIZE
    BY <2>5, ClockAssumption
  <2>6. ASSUME NEW size \in RomSizes, ~(RESET_VECTOR_PADDR + size > VMEMORY_SIZE)
        PROVE  RESET_VECTOR_PADDR + size <= VMEMORY_SIZE
    BY <2>6, ClockAssumption
  <2> QED
    BY <1>12, <2>3, <2>4, <2>5, <2>6 DEF loader_flash_rom, End
<1>13. CASE vcpu_reset
  <2>1. n = 14 /\ Done' = 15 /\ pc' = "RESET_VECTOR_VADDR"
        /\ UNCHANGED <<devices, file, edge_changed, rom, at, status>>
    BY <1>3, <1>4, <1>13 DEF vcpu_reset, clock
  <2>2. BootTypeOK'
    BY <1>2, <2>1 DEF BootTypeOK
  <2>3. Brought'
    BY <1>2, <2>1 DEF Brought
  <2> QED
    BY <1>2, <1>3, <2>1, <2>2, <2>3 DEF BootInv
<1>14. CASE vclock_start
  <2>1. n = 15 /\ Done' = 16 /\ at' = "loop"
        /\ UNCHANGED <<devices, file, edge_changed, rom, pc, status>>
    BY <1>3, <1>4, <1>14 DEF vclock_start
  <2>2. BootTypeOK'
    BY <1>2, <2>1 DEF BootTypeOK
  <2>3. Brought'
    BY <1>2, <2>1 DEF Brought
  <2> QED
    BY <1>2, <1>3, <2>1, <2>2, <2>3 DEF BootInv
<1> QED
  BY <1>5, <1>6, <1>7, <1>8, <1>9, <1>10, <1>11, <1>12, <1>13, <1>14 DEF Boot

(***************************************************************************)
(* The clock and time leave alone what main has brought about.              *)
(***************************************************************************)
LEMMA BootStays == BootInv /\ [Next]_vars => BootInv'
<1> SUFFICES ASSUME BootInv, [Next]_vars PROVE BootInv'
  OBVIOUS
<1>1. CASE Boot
  BY <1>1, BootInductive
<1>2. CASE Proceed \/ Tick \/ SetWallClock
  <2>1. UNCHANGED boot /\ status = "running" /\ at # "boot" /\ at' # "boot"
    BY <1>2 DEF Proceed, read_clock, flip_edge, handler_ends, event_notified, wake, Tick,
                SetWallClock, ClockAt, clock
  <2>2. status' \in {"running", "no delay", "guest"}
    BY <1>2, <2>1 DEF Proceed, read_clock, flip_edge, handler_ends, event_notified, wake, Tick,
                      SetWallClock
  <2>3. UNCHANGED <<todo, devices, file, edge_changed, rom, pc>>
    BY <2>1 DEF boot
  <2>4. BootTypeOK'
    BY <2>2, <2>3 DEF BootInv, BootTypeOK
  <2>5. BootOrder'
    BY <2>3, MainStays DEF BootInv, BootOrder, Done
  <2>6. Brought'
    BY <2>1, <2>3 DEF BootInv, Brought, Done
  <2> QED
    BY <2>1, <2>2, <2>4, <2>5, <2>6 DEF BootInv
<1>3. CASE UNCHANGED vars
  <2>1. UNCHANGED <<todo, devices, file, edge_changed, rom, pc, at, status>>
    BY <1>3 DEF vars, boot, clock
  <2>2. BootTypeOK'
    BY <2>1 DEF BootInv, BootTypeOK
  <2>3. BootOrder'
    BY <2>1, MainStays DEF BootInv, BootOrder, Done
  <2>4. Brought' <=> Brought
    BY <2>1 DEF Brought, Done
  <2> QED
    BY <2>1, <2>2, <2>3, <2>4 DEF BootInv
<1> QED
  BY <1>1, <1>2, <1>3 DEF Next

LEMMA BootIsInvariant == Spec => []BootInv
  BY BootInit, BootStays, PTL DEF Spec

(***************************************************************************)
(* However the files open and whatever the ROM, the first edge finds the    *)
(* vCPU subscribed and reset, the ROM flashed, every log open and the       *)
(* devices registered in order (main.c's order of calls).                   *)
(***************************************************************************)
THEOREM TheMachineIsFound == Spec => []EdgesFindTheMachine
<1>1. BootInv => EdgesFindTheMachine
  <2> SUFFICES ASSUME BootInv, at # "boot" PROVE EdgesFindTheMachine
    BY DEF EdgesFindTheMachine
  <2>1. Brought /\ Done = 16
    BY DEF BootInv, Brought
  <2>2. edge_changed = "subscribed" /\ pc = "RESET_VECTOR_VADDR" /\ rom >= 0
    BY <2>1 DEF Brought
  <2>3. \A d \in Device : file[d] = "open"
    BY <2>1 DEF Brought, Device
  <2>4. devices.ids = <<"vclock", "vcpu", "vmemory">>
    BY <2>1 DEF Brought
  <2> QED
    BY <2>2, <2>3, <2>4 DEF EdgesFindTheMachine
<1> QED
  BY <1>1, BootIsInvariant, PTL

(***************************************************************************)
(* What is left to sleep is less than a second, and the edge is a bit.      *)
(***************************************************************************)
Pulse == edge \in {0, 1} /\ left \in 0 .. SECOND - 1

LEMMA PulseIsInvariant == Spec => []Pulse
<1>1. Init => Pulse
  BY ClockAssumption DEF Init, Pulse
<1>2. ClockInv /\ Pulse /\ [Next]_vars => Pulse'
  <2> SUFFICES ASSUME ClockInv, Pulse, [Next]_vars PROVE Pulse'
    OBVIOUS
  <2>1. CASE Boot
    <3>1. UNCHANGED <<edge, left>>
      BY <2>1 DEF Boot, device_table_init, device_table_add, logger_init, log_info, vmemory_calloc,
         event_create, event_subscribe, loader_flash_rom, vcpu_reset, vclock_start, End, clock
    <3> QED
      BY <3>1 DEF Pulse
  <2>2. CASE read_clock \/ flip_edge \/ handler_ends
    BY <2>2 DEF read_clock, flip_edge, handler_ends, clock, Pulse
  <2>3. CASE event_notified
    <3>1. edge' = edge
      BY <2>3 DEF event_notified
    <3>2. left' = left \/ (left' = delay /\ delay \in 1 .. SECOND - 1)
      BY <2>3 DEF event_notified
    <3> QED
      BY <3>1, <3>2, ClockAssumption DEF Pulse
  <2>4. CASE wake
    BY <2>4 DEF wake, Pulse
  <2>5. CASE Tick
    <3>1. edge' = edge /\ left' = IF left = 0 THEN 0 ELSE left - 1
      BY <2>5 DEF Tick
    <3> QED
      BY <3>1, ClockAssumption DEF Pulse
  <2>6. CASE SetWallClock \/ UNCHANGED vars
    BY <2>6 DEF SetWallClock, vars, clock, Pulse
  <2> QED
    BY <2>1, <2>2, <2>3, <2>4, <2>5, <2>6 DEF Next, Proceed
<1> QED
  BY <1>1, <1>2, ClockInit, ClockInductive, PTL DEF Spec

(***************************************************************************)
(* Every variable keeps its type; above all, the time left to sleep is one  *)
(* nanosleep takes.                                                         *)
(***************************************************************************)
THEOREM TypeCorrect == Spec => []TypeOK
<1>1. BootInv /\ ClockInv /\ Pulse => TypeOK
  BY DEF BootInv, BootTypeOK, ClockInv, ClockTypeOK, Pulse, TypeOK
<1>2. Spec => []ClockInv
  BY ClockInit, ClockInductive, PTL DEF Spec
<1> QED
  BY <1>1, <1>2, BootIsInvariant, PulseIsInvariant, PTL

(***************************************************************************)
(* The process (main.c, vclock.c) ends for what its host does, or, once its *)
(* clock runs, for the guest's words, and then at a rising edge.            *)
(***************************************************************************)
THEOREM HostOrGuestEndsIt == Spec => []EndsByHostOrGuest
<1>1. BootInv /\ ClockEnds => EndsByHostOrGuest
  BY DEF BootInv, ClockEnds, EndsByHostOrGuest
<1> QED
  BY <1>1, BootIsInvariant, ClockEndsIsInvariant, PTL
=============================================================================
