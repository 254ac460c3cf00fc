--------------------------- MODULE VM1LifeProofs ---------------------------
(***************************************************************************)
(* Proofs about the life of the v1.0 process, for every set of orders in    *)
(* which main may initialise the devices.                                   *)
(*                                                                          *)
(* None of the three invariants is inductive: that a log is open when a     *)
(* thread writes to it follows from how far main is in its list.  Placed    *)
(* says what all the lists have in common, MainIsPlaced shows it of each,   *)
(* and Life relates the logs, the flags, the threads and the subscribers to *)
(* the operations main has done.                                            *)
(***************************************************************************)
EXTENDS VM1Life, SequenceTheorems, TLAPS

\* An operation of main.
Item == [op : {"open", "log", "subscribe", "start", "key", "close", "stop"}, dev : Log \cup {"none"}]

LEMMA Join ==
    ASSUME NEW s \in Seq(Item), NEW t \in Seq(Item), NEW n \in Nat, Len(s) = n
    PROVE  /\ s \o t \in Seq(Item) /\ Len(s \o t) = n + Len(t)
           /\ \A i \in 1 .. n : (s \o t)[i] = s[i]
           /\ \A i \in 1 .. Len(t) : (s \o t)[n + i] = t[i]
  OBVIOUS

LEMMA ItemIsItem ==
    ASSUME NEW op \in {"open", "log", "subscribe", "start", "key", "close", "stop"}, NEW dev \in Log \cup {"none"}
    PROVE  Do(op, dev) \in Item
  BY DEF Do, Item

LEMMA InitOfMemory ==
    /\ init_of["vmemory"] \in Seq(Item) /\ Len(init_of["vmemory"]) = 2
    /\ init_of["vmemory"][1] = Do("open", "vmemory") /\ init_of["vmemory"][2] = Do("log", "vmemory")
<1>1. Do("open", "vmemory") \in Item /\ Do("log", "vmemory") \in Item
  BY ItemIsItem DEF Log
<1>2. init_of["vmemory"] = vmemory_init
  BY DEF init_of
<1> QED
  BY <1>1, <1>2 DEF vmemory_init

LEMMA InitOfClock ==
    /\ init_of["vclock"] \in Seq(Item) /\ Len(init_of["vclock"]) = 2
    /\ init_of["vclock"][1] = Do("open", "vclock") /\ init_of["vclock"][2] = Do("log", "vclock")
<1>1. Do("open", "vclock") \in Item /\ Do("log", "vclock") \in Item
  BY ItemIsItem DEF Log
<1>2. init_of["vclock"] = vclock_init
  BY DEF init_of
<1> QED
  BY <1>1, <1>2 DEF vclock_init

LEMMA InitOfCpu ==
    /\ init_of["vcpu"] \in Seq(Item) /\ Len(init_of["vcpu"]) = 6
    /\ init_of["vcpu"][1] = Do("open", "vcpu") /\ init_of["vcpu"][2] = Do("log", "vcpu")
    /\ init_of["vcpu"][3] = Do("subscribe", "vcpu") /\ init_of["vcpu"][4] = Do("log", "vcpu")
    /\ init_of["vcpu"][5] = Do("open", "vmemory_controller") /\ init_of["vcpu"][6] = Do("log", "vmemory_controller")
<1>1. /\ Do("open", "vcpu") \in Item /\ Do("log", "vcpu") \in Item /\ Do("subscribe", "vcpu") \in Item
      /\ Do("open", "vmemory_controller") \in Item /\ Do("log", "vmemory_controller") \in Item
  BY ItemIsItem DEF Log
<1>2. init_of["vcpu"] = vcpu_init
  BY DEF init_of
<1> QED
  BY <1>1, <1>2 DEF vcpu_init

LEMMA Rest ==
    /\ start \in Seq(Item) /\ Len(start) = 6
    /\ start[1] = Do("log", "vmemory") /\ start[2] = Do("start", "vmemory")
    /\ start[3] = Do("log", "vcpu") /\ start[4] = Do("start", "vcpu")
    /\ start[5] = Do("log", "vclock") /\ start[6] = Do("start", "vclock")
    /\ << Do("key", "none") >> \in Seq(Item) /\ Len(<< Do("key", "none") >>) = 1 /\ << Do("key", "none") >>[1] = Do("key", "none")
<1>1. /\ Do("log", "vmemory") \in Item /\ Do("start", "vmemory") \in Item /\ Do("log", "vcpu") \in Item
      /\ Do("start", "vcpu") \in Item /\ Do("log", "vclock") \in Item /\ Do("start", "vclock") \in Item
      /\ Do("key", "none") \in Item
  BY ItemIsItem DEF Log
<1> QED
  BY <1>1 DEF start

LEMMA Shutdown ==
    /\ shutdown \in Seq(Item) /\ Len(shutdown) = 10
    /\ shutdown[1] = Do("log", "vclock") /\ shutdown[2] = Do("close", "vclock")
    /\ shutdown[3] = Do("log", "vmemory_controller") /\ shutdown[4] = Do("close", "vmemory_controller")
    /\ shutdown[5] = Do("log", "vcpu") /\ shutdown[6] = Do("stop", "vcpu") /\ shutdown[7] = Do("close", "vcpu")
    /\ shutdown[8] = Do("log", "vmemory") /\ shutdown[9] = Do("stop", "vmemory") /\ shutdown[10] = Do("close", "vmemory")
<1>1. /\ Do("log", "vclock") \in Item /\ Do("close", "vclock") \in Item
      /\ Do("log", "vmemory_controller") \in Item /\ Do("close", "vmemory_controller") \in Item
      /\ Do("log", "vcpu") \in Item /\ Do("stop", "vcpu") \in Item /\ Do("close", "vcpu") \in Item
      /\ Do("log", "vmemory") \in Item /\ Do("stop", "vmemory") \in Item /\ Do("close", "vmemory") \in Item
  BY ItemIsItem DEF Log
<1> QED
  BY <1>1 DEF shutdown

(***************************************************************************)
(* Where the initialisation of each device starts, in each order.           *)
(***************************************************************************)
Bases(m, c, k) ==
    \/ m = 0 /\ c = 2 /\ k = 8
    \/ m = 0 /\ k = 2 /\ c = 4
    \/ c = 0 /\ m = 6 /\ k = 8
    \/ c = 0 /\ k = 6 /\ m = 8
    \/ k = 0 /\ m = 2 /\ c = 4
    \/ k = 0 /\ c = 2 /\ m = 8

Initialised(order) == init_of[order[1]] \o init_of[order[2]] \o init_of[order[3]]

LEMMA SixOrders ==
    ASSUME NEW order \in Orders
    PROVE  \/ order[1] = "vmemory" /\ order[2] = "vcpu" /\ order[3] = "vclock"
           \/ order[1] = "vmemory" /\ order[2] = "vclock" /\ order[3] = "vcpu"
           \/ order[1] = "vcpu" /\ order[2] = "vmemory" /\ order[3] = "vclock"
           \/ order[1] = "vcpu" /\ order[2] = "vclock" /\ order[3] = "vmemory"
           \/ order[1] = "vclock" /\ order[2] = "vmemory" /\ order[3] = "vcpu"
           \/ order[1] = "vclock" /\ order[2] = "vcpu" /\ order[3] = "vmemory"
<1>1. /\ order[1] \in Device /\ order[2] \in Device /\ order[3] \in Device
      /\ \A d \in Device : order[1] = d \/ order[2] = d \/ order[3] = d
  <2>1. order \in Seq(Device) /\ Len(order) = 3 /\ \A d \in Device : \E i \in 1 .. 3 : order[i] = d
    BY OrdersAssumption
  <2>2. \A i \in 1 .. 3 : i = 1 \/ i = 2 \/ i = 3
    OBVIOUS
  <2>3. order[1] \in Device /\ order[2] \in Device /\ order[3] \in Device
    BY <2>1
  <2>4. \A d \in Device : order[1] = d \/ order[2] = d \/ order[3] = d
    BY <2>1, <2>2, Zenon
  <2> QED
    BY <2>3, <2>4
<1> QED
  BY <1>1 DEF Device

Sized(s, n) == n \in Nat /\ s \in Seq(Item) /\ Len(s) = n

Joined(s, t, u, i, j, n) ==
    /\ s \o t \o u \in Seq(Item) /\ Len(s \o t \o u) = i + j + n
    /\ \A q \in 1 .. i : (s \o t \o u)[q] = s[q]
    /\ \A q \in 1 .. j : (s \o t \o u)[i + q] = t[q]
    /\ \A q \in 1 .. n : (s \o t \o u)[i + j + q] = u[q]

LEMMA Parts ==
    ASSUME NEW s, NEW t, NEW u, NEW i, NEW j, NEW n, Sized(s, i), Sized(t, j), Sized(u, n)
    PROVE  Joined(s, t, u, i, j, n)
<1> USE DEF Sized
<1> DEFINE v == s \o t
           r == v \o u
<1>1. /\ v \in Seq(Item) /\ Len(v) = i + j
      /\ \A q \in 1 .. i : v[q] = s[q]
      /\ \A q \in 1 .. j : v[i + q] = t[q]
  BY Join
<1> HIDE DEF v
<1>2. /\ r \in Seq(Item) /\ Len(r) = i + j + n
      /\ \A q \in 1 .. i + j : r[q] = v[q]
      /\ \A q \in 1 .. n : r[i + j + q] = u[q]
  <2>1. i + j \in Nat
    OBVIOUS
  <2>2. /\ r \in Seq(Item) /\ Len(r) = (i + j) + Len(u)
        /\ \A q \in 1 .. i + j : r[q] = v[q]
        /\ \A q \in 1 .. Len(u) : r[(i + j) + q] = u[q]
    BY <1>1, <2>1, Join, Zenon
  <2> QED
    BY <2>2
<1> HIDE DEF r
<1>3. \A q \in 1 .. i : r[q] = s[q]
  BY <1>1, <1>2
<1>4. \A q \in 1 .. j : r[i + q] = t[q]
  <2> TAKE q \in 1 .. j
  <2>1. i + q \in 1 .. i + j
    OBVIOUS
  <2> QED
    BY <1>1, <1>2, <2>1
<1> QED
  BY <1>2, <1>3, <1>4 DEF r, v, Joined

(***************************************************************************)
(* Where the operations of main are, in any order of initialisation: log l  *)
(* is opened by operation o[l] and first used by operation w[l], the vCPU   *)
(* subscribes in operation s, and the threads start in a fixed order.       *)
(***************************************************************************)
Placed(L, o, w, s) ==
    /\ L \in Seq(Item) /\ Len(L) = 27
    /\ o \in [Log -> 1 .. 9] /\ w \in [Log -> 2 .. 10] /\ s \in 1 .. 10
    /\ \A l \in Log : L[o[l]] = Do("open", l) /\ L[w[l]] = Do("log", l) /\ o[l] < w[l]
    /\ \A i \in 1 .. 27 :
        /\ L[i].op = "open" => L[i].dev \in Log /\ i = o[L[i].dev]
        /\ L[i].op = "log" => L[i].dev \in Log /\ i >= w[L[i].dev]
        /\ L[i].op = "subscribe" => L[i].dev = "vcpu" /\ i = s
        /\ L[i].op = "start" => \/ L[i].dev = "vmemory" /\ i = 12
                                \/ L[i].dev = "vcpu" /\ i = 14
                                \/ L[i].dev = "vclock" /\ i = 16
        /\ L[i].op = "key" <=> i = 17
        /\ L[i].op \in {"close", "stop"} => L[i].dev \in Log /\ i > 17

Busy == {"lock", "write"}

(***************************************************************************)
(* main is past its first p operations.                                     *)
(***************************************************************************)
Follows(L, p) ==
    /\ p \in 0 .. 27 /\ todo \in Seq(Item) /\ Len(todo) = 27 - p
    /\ \A i \in 1 .. 27 - p : todo[i] = L[p + i]

Typed ==
    /\ file \in [Log -> {"unopened", "open", "none", "closed"}]
    /\ owner \in [Log -> Thread \cup {Free}]
    /\ running \in [Log -> BOOLEAN] /\ halted \in BOOLEAN
    /\ due \in {<<>>, <<"vcpu">>} /\ event \in {Free, "clock"}
    /\ status \in {"running", "crashed", "exited"}

Places(t) ==
    CASE t = "main"   -> {"ready"} \cup Busy
      [] t = "memory" -> {"none", "born", "poll"} \cup Busy
      [] t = "cpu"    -> {"none", "born", "check", "cycle", "done"} \cup Busy
      [] t = "clock"  -> {"none", "born", "check", "trigger", "handlers", "call", "done"} \cup Busy

Returns(t) ==
    CASE t = "main"   -> {"ready"}
      [] t = "memory" -> {"poll"}
      [] t = "cpu"    -> {"check", "cycle"}
      [] t = "clock"  -> {"check", "trigger", "call"}

Threads ==
    /\ at \in [Thread -> {"none", "ready", "born", "poll", "check", "cycle", "trigger",
                          "handlers", "call", "lock", "write", "done"}]
    /\ log \in [Thread -> Log]
    /\ then \in [Thread -> {"none", "ready", "poll", "check", "cycle", "trigger", "call"}]
    /\ \A t \in Thread : /\ at[t] \in Places(t)
                         /\ at[t] \in Busy => then[t] \in Returns(t)
    /\ at["clock"] = "call" \/ (at["clock"] \in Busy /\ then["clock"] = "call") => due # <<>>

Subscribed(s, p) ==
    /\ handlers \in {<<>>, <<"vcpu">>}
    /\ p < s => handlers = <<>>

Started(p) ==
    /\ p < 12 => at["memory"] = "none" /\ ~running["vmemory"]
    /\ p < 14 => at["cpu"] = "none" /\ ~running["vcpu"]
    /\ p < 16 => at["clock"] = "none" /\ ~running["vclock"]
    /\ ~running["vmemory_controller"]

MainUses(l) == at["main"] \in Busy /\ log["main"] = l

Opened(o, w, p) ==
    p < 17 =>
        /\ \A l \in Log : /\ p >= o[l] => file[l] \in {"open", "none"}
                          /\ p >= w[l] => file[l] = "open" \/ MainUses(l)
                          /\ MainUses(l) => p >= w[l]
                          /\ p >= 12 => file[l] = "open"

Now(L, o, w, s, p) ==
    /\ Follows(L, p) /\ Typed /\ Threads /\ OneWriter
    /\ Subscribed(s, p) /\ Started(p) /\ Opened(o, w, p)

Life == \E L \in Seq(Item), o \in [Log -> 1 .. 9], w \in [Log -> 2 .. 10], s \in 1 .. 10, p \in 0 .. 27 :
            Placed(L, o, w, s) /\ Now(L, o, w, s, p)

(***************************************************************************)
(* a initialises the devices, each from its base on.                        *)
(***************************************************************************)
Blocks(a, m, c, k) ==
    /\ a \in Seq(Item) /\ Len(a) = 10
    /\ \A q \in 1 .. 2 : a[m + q] = init_of["vmemory"][q]
    /\ \A q \in 1 .. 6 : a[c + q] = init_of["vcpu"][q]
    /\ \A q \in 1 .. 2 : a[k + q] = init_of["vclock"][q]

LEMMA InBlocks ==
    ASSUME NEW order \in Orders
    PROVE  \E m, c, k \in 0 .. 8 : Bases(m, c, k) /\ Blocks(Initialised(order), m, c, k)
<1>a. Sized(init_of["vmemory"], 2)
  BY InitOfMemory DEF Sized
<1>b. Sized(init_of["vcpu"], 6)
  BY InitOfCpu DEF Sized
<1>c. Sized(init_of["vclock"], 2)
  BY InitOfClock DEF Sized
<1>1. CASE order[1] = "vmemory" /\ order[2] = "vcpu" /\ order[3] = "vclock"
  <2>0. Joined(init_of["vmemory"], init_of["vcpu"], init_of["vclock"], 2, 6, 2)
    BY <1>a, <1>b, <1>c, Parts, Zenon
  <2> DEFINE a == init_of["vmemory"] \o init_of["vcpu"] \o init_of["vclock"]
  <2>1. /\ a \in Seq(Item) /\ Len(a) = 2 + 6 + 2
        /\ \A q \in 1 .. 2 : a[q] = init_of["vmemory"][q]
        /\ \A q \in 1 .. 6 : a[2 + q] = init_of["vcpu"][q]
        /\ \A q \in 1 .. 2 : a[2 + 6 + q] = init_of["vclock"][q]
    BY <2>0 DEF Joined
  <2>2. Initialised(order) = a
    BY <1>1 DEF Initialised
  <2> HIDE DEF a
  <2>3. Blocks(a, 0, 2, 8)
    BY <2>1 DEF Blocks
  <2> QED
    BY <2>2, <2>3 DEF Bases
<1>2. CASE order[1] = "vmemory" /\ order[2] = "vclock" /\ order[3] = "vcpu"
  <2>0. Joined(init_of["vmemory"], init_of["vclock"], init_of["vcpu"], 2, 2, 6)
    BY <1>a, <1>b, <1>c, Parts, Zenon
  <2> DEFINE a == init_of["vmemory"] \o init_of["vclock"] \o init_of["vcpu"]
  <2>1. /\ a \in Seq(Item) /\ Len(a) = 2 + 2 + 6
        /\ \A q \in 1 .. 2 : a[q] = init_of["vmemory"][q]
        /\ \A q \in 1 .. 2 : a[2 + q] = init_of["vclock"][q]
        /\ \A q \in 1 .. 6 : a[2 + 2 + q] = init_of["vcpu"][q]
    BY <2>0 DEF Joined
  <2>2. Initialised(order) = a
    BY <1>2 DEF Initialised
  <2> HIDE DEF a
  <2>3. Blocks(a, 0, 4, 2)
    BY <2>1 DEF Blocks
  <2> QED
    BY <2>2, <2>3 DEF Bases
<1>3. CASE order[1] = "vcpu" /\ order[2] = "vmemory" /\ order[3] = "vclock"
  <2>0. Joined(init_of["vcpu"], init_of["vmemory"], init_of["vclock"], 6, 2, 2)
    BY <1>a, <1>b, <1>c, Parts, Zenon
  <2> DEFINE a == init_of["vcpu"] \o init_of["vmemory"] \o init_of["vclock"]
  <2>1. /\ a \in Seq(Item) /\ Len(a) = 6 + 2 + 2
        /\ \A q \in 1 .. 6 : a[q] = init_of["vcpu"][q]
        /\ \A q \in 1 .. 2 : a[6 + q] = init_of["vmemory"][q]
        /\ \A q \in 1 .. 2 : a[6 + 2 + q] = init_of["vclock"][q]
    BY <2>0 DEF Joined
  <2>2. Initialised(order) = a
    BY <1>3 DEF Initialised
  <2> HIDE DEF a
  <2>3. Blocks(a, 6, 0, 8)
    BY <2>1 DEF Blocks
  <2> QED
    BY <2>2, <2>3 DEF Bases
<1>4. CASE order[1] = "vcpu" /\ order[2] = "vclock" /\ order[3] = "vmemory"
  <2>0. Joined(init_of["vcpu"], init_of["vclock"], init_of["vmemory"], 6, 2, 2)
    BY <1>a, <1>b, <1>c, Parts, Zenon
  <2> DEFINE a == init_of["vcpu"] \o init_of["vclock"] \o init_of["vmemory"]
  <2>1. /\ a \in Seq(Item) /\ Len(a) = 6 + 2 + 2
        /\ \A q \in 1 .. 6 : a[q] = init_of["vcpu"][q]
        /\ \A q \in 1 .. 2 : a[6 + q] = init_of["vclock"][q]
        /\ \A q \in 1 .. 2 : a[6 + 2 + q] = init_of["vmemory"][q]
    BY <2>0 DEF Joined
  <2>2. Initialised(order) = a
    BY <1>4 DEF Initialised
  <2> HIDE DEF a
  <2>3. Blocks(a, 8, 0, 6)
    BY <2>1 DEF Blocks
  <2> QED
    BY <2>2, <2>3 DEF Bases
<1>5. CASE order[1] = "vclock" /\ order[2] = "vmemory" /\ order[3] = "vcpu"
  <2>0. Joined(init_of["vclock"], init_of["vmemory"], init_of["vcpu"], 2, 2, 6)
    BY <1>a, <1>b, <1>c, Parts, Zenon
  <2> DEFINE a == init_of["vclock"] \o init_of["vmemory"] \o init_of["vcpu"]
  <2>1. /\ a \in Seq(Item) /\ Len(a) = 2 + 2 + 6
        /\ \A q \in 1 .. 2 : a[q] = init_of["vclock"][q]
        /\ \A q \in 1 .. 2 : a[2 + q] = init_of["vmemory"][q]
        /\ \A q \in 1 .. 6 : a[2 + 2 + q] = init_of["vcpu"][q]
    BY <2>0 DEF Joined
  <2>2. Initialised(order) = a
    BY <1>5 DEF Initialised
  <2> HIDE DEF a
  <2>3. Blocks(a, 2, 4, 0)
    BY <2>1 DEF Blocks
  <2> QED
    BY <2>2, <2>3 DEF Bases
<1>6. CASE order[1] = "vclock" /\ order[2] = "vcpu" /\ order[3] = "vmemory"
  <2>0. Joined(init_of["vclock"], init_of["vcpu"], init_of["vmemory"], 2, 6, 2)
    BY <1>a, <1>b, <1>c, Parts, Zenon
  <2> DEFINE a == init_of["vclock"] \o init_of["vcpu"] \o init_of["vmemory"]
  <2>1. /\ a \in Seq(Item) /\ Len(a) = 2 + 6 + 2
        /\ \A q \in 1 .. 2 : a[q] = init_of["vclock"][q]
        /\ \A q \in 1 .. 6 : a[2 + q] = init_of["vcpu"][q]
        /\ \A q \in 1 .. 2 : a[2 + 6 + q] = init_of["vmemory"][q]
    BY <2>0 DEF Joined
  <2>2. Initialised(order) = a
    BY <1>6 DEF Initialised
  <2> HIDE DEF a
  <2>3. Blocks(a, 8, 2, 0)
    BY <2>1 DEF Blocks
  <2> QED
    BY <2>2, <2>3 DEF Bases
<1> QED
  BY <1>1, <1>2, <1>3, <1>4, <1>5, <1>6, SixOrders

LEMMA WhatMainDoes ==
    ASSUME NEW order \in Orders
    PROVE  /\ main(order) \in Seq(Item) /\ Len(main(order)) = 27
           /\ \A q \in 1 .. 10 : main(order)[q] = Initialised(order)[q]
           /\ \A q \in 1 .. 6 : main(order)[10 + q] = start[q]
           /\ main(order)[17] = Do("key", "none")
           /\ \A q \in 1 .. 10 : main(order)[17 + q] = shutdown[q]
<1> DEFINE a   == Initialised(order)
           key == << Do("key", "none") >>
           b   == a \o start \o key
           L   == b \o shutdown
<1>1. a \in Seq(Item) /\ Len(a) = 10
  BY InBlocks DEF Blocks
<1>2. /\ start \in Seq(Item) /\ Len(start) = 6
      /\ key \in Seq(Item) /\ Len(key) = 1 /\ key[1] = Do("key", "none")
      /\ shutdown \in Seq(Item) /\ Len(shutdown) = 10
  BY Rest, Shutdown
<1>3. main(order) = L
  BY DEF main, Initialised
<1> HIDE DEF a, key
<1>a. Sized(a, 10) /\ Sized(start, 6) /\ Sized(key, 1)
  BY <1>1, <1>2 DEF Sized
<1>c. Joined(a, start, key, 10, 6, 1)
  BY <1>a, Parts, Zenon
<1>b. shutdown \in Seq(Item) /\ Len(shutdown) = 10
  BY <1>2
<1>4. 17 \in Nat
  OBVIOUS
<1>5. /\ b \in Seq(Item) /\ Len(b) = 10 + 6 + 1
      /\ \A q \in 1 .. 10 : b[q] = a[q]
      /\ \A q \in 1 .. 6 : b[10 + q] = start[q]
      /\ \A q \in 1 .. 1 : b[10 + 6 + q] = key[q]
  BY <1>c DEF Joined
<1> HIDE DEF b
<1>6. b \in Seq(Item) /\ Len(b) = 17
  BY <1>5
<1>7. /\ L \in Seq(Item) /\ Len(L) = 17 + Len(shutdown)
      /\ \A q \in 1 .. 17 : L[q] = b[q]
      /\ \A q \in 1 .. Len(shutdown) : L[17 + q] = shutdown[q]
  BY <1>b, <1>4, <1>6, Join, ZenonT(60)
<1> HIDE DEF L
<1>8. \A q \in 1 .. 10 : L[q] = a[q]
  BY <1>5, <1>7
<1>9. \A q \in 1 .. 6 : L[10 + q] = start[q]
  <2> TAKE q \in 1 .. 6
  <2>1. 10 + q \in 1 .. 17
    OBVIOUS
  <2> QED
    BY <1>5, <1>7, <2>1
<1>10. L[17] = Do("key", "none")
  BY <1>2, <1>5, <1>7
<1> QED
  BY <1>2, <1>3, <1>7, <1>8, <1>9, <1>10 DEF a

LEMMA MainIsPlaced ==
    ASSUME NEW order \in Orders
    PROVE  \E o \in [Log -> 1 .. 9], w \in [Log -> 2 .. 10], s \in 1 .. 10 : Placed(main(order), o, w, s)
<1>1. PICK m \in 0 .. 8, c \in 0 .. 8, k \in 0 .. 8 : Bases(m, c, k) /\ Blocks(Initialised(order), m, c, k)
  BY InBlocks
<1> DEFINE o == [l \in Log |-> CASE l = "vmemory" -> m + 1 [] l = "vcpu" -> c + 1
                                [] l = "vclock" -> k + 1 [] OTHER -> c + 5]
           w == [l \in Log |-> CASE l = "vmemory" -> m + 2 [] l = "vcpu" -> c + 2
                                [] l = "vclock" -> k + 2 [] OTHER -> c + 6]
           s == c + 3
           L == main(order)
<1>2. /\ L \in Seq(Item) /\ Len(L) = 27
      /\ \A q \in 1 .. 10 : L[q] = Initialised(order)[q]
      /\ \A q \in 1 .. 6 : L[10 + q] = start[q]
      /\ L[17] = Do("key", "none")
      /\ \A q \in 1 .. 10 : L[17 + q] = shutdown[q]
  BY WhatMainDoes
<1> HIDE DEF L
<1>3. c <= 4 /\ m <= 8 /\ k <= 8
  BY <1>1 DEF Bases
<1>4. /\ o["vmemory"] = m + 1 /\ o["vcpu"] = c + 1 /\ o["vclock"] = k + 1 /\ o["vmemory_controller"] = c + 5
      /\ w["vmemory"] = m + 2 /\ w["vcpu"] = c + 2 /\ w["vclock"] = k + 2 /\ w["vmemory_controller"] = c + 6
  BY DEF Log
<1>5. o \in [Log -> 1 .. 9] /\ w \in [Log -> 2 .. 10] /\ s \in 1 .. 10
  BY <1>3, <1>1 DEF Log
<1>6. /\ L[m + 1] = Do("open", "vmemory") /\ L[m + 2] = Do("log", "vmemory")
      /\ L[k + 1] = Do("open", "vclock") /\ L[k + 2] = Do("log", "vclock")
  <2>1. \A q \in 1 .. 2 : m + q \in 1 .. 10 /\ k + q \in 1 .. 10
    BY <1>3
  <2>2. \A q \in 1 .. 2 : L[m + q] = init_of["vmemory"][q] /\ L[k + q] = init_of["vclock"][q]
    BY <1>1, <1>2, <2>1, Zenon DEF Blocks
  <2>3. 1 \in 1 .. 2 /\ 2 \in 1 .. 2
    OBVIOUS
  <2> QED
    BY <2>2, <2>3, InitOfMemory, InitOfClock, Zenon
<1>7. /\ L[c + 1] = Do("open", "vcpu") /\ L[c + 2] = Do("log", "vcpu")
      /\ L[c + 3] = Do("subscribe", "vcpu") /\ L[c + 4] = Do("log", "vcpu")
      /\ L[c + 5] = Do("open", "vmemory_controller") /\ L[c + 6] = Do("log", "vmemory_controller")
  <2>1. \A q \in 1 .. 6 : c + q \in 1 .. 10
    BY <1>3
  <2>2. \A q \in 1 .. 6 : L[c + q] = init_of["vcpu"][q]
    BY <1>1, <1>2, <2>1, Zenon DEF Blocks
  <2>3. 1 \in 1 .. 6 /\ 2 \in 1 .. 6 /\ 3 \in 1 .. 6 /\ 4 \in 1 .. 6 /\ 5 \in 1 .. 6 /\ 6 \in 1 .. 6
    OBVIOUS
  <2> QED
    BY <2>2, <2>3, InitOfCpu, Zenon
<1>8. /\ L[11] = Do("log", "vmemory") /\ L[12] = Do("start", "vmemory")
      /\ L[13] = Do("log", "vcpu") /\ L[14] = Do("start", "vcpu")
      /\ L[15] = Do("log", "vclock") /\ L[16] = Do("start", "vclock")
  BY <1>2, Rest
<1>9. /\ L[18] = Do("log", "vclock") /\ L[19] = Do("close", "vclock")
      /\ L[20] = Do("log", "vmemory_controller") /\ L[21] = Do("close", "vmemory_controller")
      /\ L[22] = Do("log", "vcpu") /\ L[23] = Do("stop", "vcpu") /\ L[24] = Do("close", "vcpu")
      /\ L[25] = Do("log", "vmemory") /\ L[26] = Do("stop", "vmemory") /\ L[27] = Do("close", "vmemory")
  BY <1>2, Shutdown
<1> HIDE DEF o, w, s
<1> DEFINE Fits(i) ==
        /\ L[i].op = "open" => L[i].dev \in Log /\ i = o[L[i].dev]
        /\ L[i].op = "log" => L[i].dev \in Log /\ i >= w[L[i].dev]
        /\ L[i].op = "subscribe" => L[i].dev = "vcpu" /\ i = s
        /\ L[i].op = "start" => \/ L[i].dev = "vmemory" /\ i = 12
                                \/ L[i].dev = "vcpu" /\ i = 14
                                \/ L[i].dev = "vclock" /\ i = 16
        /\ L[i].op = "key" <=> i = 17
        /\ L[i].op \in {"close", "stop"} => L[i].dev \in Log /\ i > 17
<1>10. Fits(m + 1) /\ Fits(m + 2) /\ Fits(k + 1) /\ Fits(k + 2)
  BY <1>3, <1>4, <1>6 DEF Do, Log
<1>11. Fits(c + 1) /\ Fits(c + 2) /\ Fits(c + 3) /\ Fits(c + 4) /\ Fits(c + 5) /\ Fits(c + 6)
  BY <1>3, <1>4, <1>7 DEF Do, Log, s
<1>12. \A i \in 11 .. 17 : Fits(i)
  <2>1. w["vmemory"] <= 10 /\ w["vcpu"] <= 10 /\ w["vclock"] <= 10
    BY <1>3, <1>4
  <2>2. Fits(11) /\ Fits(12) /\ Fits(13) /\ Fits(14)
    BY <1>8, <2>1, <1>5 DEF Do, Log
  <2>3. Fits(15) /\ Fits(16)
    BY <1>8, <2>1, <1>5 DEF Do, Log
  <2>4. Fits(17)
    BY <1>2 DEF Do
  <2> QED
    BY <2>2, <2>3, <2>4
<1>13. \A i \in 18 .. 27 : Fits(i)
  <2>1. w["vmemory"] <= 10 /\ w["vcpu"] <= 10 /\ w["vclock"] <= 10 /\ w["vmemory_controller"] <= 10
    BY <1>3, <1>4
  <2>2. Fits(18) /\ Fits(19) /\ Fits(20) /\ Fits(21) /\ Fits(22)
    BY <1>9, <2>1, <1>5 DEF Do, Log
  <2>3. Fits(23) /\ Fits(24) /\ Fits(25) /\ Fits(26) /\ Fits(27)
    BY <1>9, <2>1, <1>5 DEF Do, Log
  <2> QED
    BY <2>2, <2>3
<1>14. \A i \in 1 .. 10 : \/ i \in {m + 1, m + 2, k + 1, k + 2}
                          \/ i \in {c + 1, c + 2, c + 3, c + 4, c + 5, c + 6}
  BY <1>1 DEF Bases
<1> HIDE DEF Fits
<1>15. \A i \in 1 .. 27 : Fits(i)
  <2> TAKE i \in 1 .. 27
  <2>1. i \in 1 .. 10 \/ i \in 11 .. 17 \/ i \in 18 .. 27
    OBVIOUS
  <2>2. ASSUME i \in 1 .. 10 PROVE Fits(i)
    BY <2>2, <1>14, <1>10, <1>11, Zenon
  <2> QED
    BY <2>1, <2>2, <1>12, <1>13, Zenon
<1>16. \A l \in Log : L[o[l]] = Do("open", l) /\ L[w[l]] = Do("log", l) /\ o[l] < w[l]
  <2> TAKE l \in Log
  <2>1. l = "vmemory" \/ l = "vcpu" \/ l = "vclock" \/ l = "vmemory_controller"
    BY DEF Log
  <2>2. L[o[l]] = Do("open", l) /\ L[w[l]] = Do("log", l)
    BY <2>1, <1>4, <1>6, <1>7, Zenon
  <2>3. o[l] < w[l]
    BY <2>1, <1>4
  <2> QED
    BY <2>2, <2>3
<1>17. Placed(L, o, w, s)
  BY <1>2, <1>5, <1>15, <1>16 DEF Placed, Fits
<1> QED
  BY <1>5, <1>17 DEF L

LEMMA LifeInit == Init => Life
<1> SUFFICES ASSUME Init PROVE Life
  OBVIOUS
<1>1. PICK order \in Orders : todo = main(order)
  BY DEF Init
<1>2. PICK o \in [Log -> 1 .. 9], w \in [Log -> 2 .. 10], s \in 1 .. 10 : Placed(main(order), o, w, s)
  BY MainIsPlaced
<1> DEFINE L == main(order)
<1>3. L \in Seq(Item) /\ Len(L) = 27
  BY <1>2 DEF Placed
<1>4. Follows(L, 0)
  <2> HIDE DEF L
  <2>1. todo = L
    BY <1>1 DEF L
  <2> QED
    BY <1>3, <2>1 DEF Follows
<1>5. Typed
  BY DEF Init, Typed
<1>6. Threads
  BY DEF Init, Threads, Places, Returns, Busy, Thread, Log
<1>7. OneWriter
  BY DEF Init, OneWriter, Thread, Free
<1>8. Subscribed(s, 0)
  BY DEF Init, Subscribed
<1>9. Started(0)
  BY DEF Init, Started, Thread, Log
<1>10. Opened(o, w, 0)
  BY DEF Init, Opened, MainUses, Busy, Thread
<1>11. Now(L, o, w, s, 0)
  BY <1>4, <1>5, <1>6, <1>7, <1>8, <1>9, <1>10 DEF Now
<1>12. 0 \in 0 .. 27
  OBVIOUS
<1> HIDE DEF L
<1> QED
  BY <1>2, <1>3, <1>11, <1>12 DEF Life, L

(***************************************************************************)
(* The next operation of main, and where it leaves the list.                *)
(***************************************************************************)
LEMMA NextToDo ==
    ASSUME NEW L, NEW o, NEW w, NEW s, NEW p, Placed(L, o, w, s), Follows(L, p), todo # <<>>
    PROVE  /\ p \in 0 .. 26 /\ p + 1 \in 1 .. 27 /\ Head(todo) = L[p + 1] /\ Head(todo) \in Item
           /\ todo' = Tail(todo) => Follows(L, p + 1)'
<1>1. p \in 0 .. 27 /\ todo \in Seq(Item) /\ Len(todo) = 27 - p /\ \A i \in 1 .. 27 - p : todo[i] = L[p + i]
  BY DEF Follows
<1>2. p # 27
  BY <1>1
<1>3. Len(todo) \in Nat \ {0} /\ Head(todo) = todo[1] /\ Head(todo) \in Item /\ todo[1] = L[p + 1]
  BY <1>1, <1>2
<1>4. ASSUME todo' = Tail(todo) PROVE Follows(L, p + 1)'
  <2>1. Tail(todo) \in Seq(Item) /\ Len(Tail(todo)) = 27 - (p + 1)
    BY <1>1, <1>2
  <2>2. \A i \in 1 .. 27 - (p + 1) : Tail(todo)[i] = todo[i + 1]
    BY <1>1, <1>2
  <2>3. \A i \in 1 .. 27 - (p + 1) : i + 1 \in 1 .. 27 - p /\ p + (i + 1) = (p + 1) + i
    BY <1>1
  <2>4. \A i \in 1 .. 27 - (p + 1) : Tail(todo)[i] = L[(p + 1) + i]
    <3> TAKE i \in 1 .. 27 - (p + 1)
    <3>1. Tail(todo)[i] = L[p + (i + 1)]
      BY <1>1, <2>2, <2>3, Zenon
    <3> QED
      BY <2>3, <3>1
  <2>5. p + 1 \in 0 .. 27
    BY <1>1, <1>2
  <2> QED
    BY <1>4, <2>1, <2>4, <2>5 DEF Follows
<1> QED
  BY <1>1, <1>2, <1>3, <1>4

(***************************************************************************)
(* A thread that neither has nor takes a log's mutex moves.                 *)
(***************************************************************************)
LEMMA Moves ==
    ASSUME NEW t \in Thread, NEW x, Threads, OneWriter, at[t] # "write", x # "write",
           at' = [at EXCEPT ![t] = x], owner' = owner,
           \A u \in Thread : u # t => log'[u] = log[u]
    PROVE  OneWriter'
<1>1. \A u \in Thread : u # t => at'[u] = at[u]
  BY DEF Threads
<1>2. at'[t] = x
  BY DEF Threads
<1> SUFFICES ASSUME NEW u \in Thread, NEW l \in Log
             PROVE  owner'[l] = u <=> at'[u] = "write" /\ log'[u] = l
  BY DEF OneWriter
<1>3. owner[l] = u <=> at[u] = "write" /\ log[u] = l
  BY DEF OneWriter
<1>4. CASE u = t
  BY <1>2, <1>3, <1>4
<1>5. CASE u # t
  BY <1>1, <1>3, <1>5
<1> QED
  BY <1>4, <1>5

LEMMA LogCall ==
    ASSUME NEW t \in Thread, NEW l \in Log, NEW r \in Returns(t), Threads, OneWriter,
           at[t] # "write", Logs(t, l, r), owner' = owner, due' = due, r = "call" => due # <<>>
    PROVE  /\ Threads' /\ OneWriter'
           /\ at'[t] = "lock" /\ log'[t] = l
           /\ \A u \in Thread : u # t => at'[u] = at[u] /\ log'[u] = log[u]
<1>1. /\ at'[t] = "lock" /\ log'[t] = l /\ then'[t] = r
      /\ \A u \in Thread : u # t => at'[u] = at[u] /\ log'[u] = log[u] /\ then'[u] = then[u]
  BY DEF Threads, Logs
<1>2. OneWriter'
  BY <1>1, Moves, Zenon DEF Logs
<1>3. "lock" \in Places(t) /\ r \in {"none", "ready", "poll", "check", "cycle", "trigger", "call"}
  BY DEF Places, Returns, Busy, Thread
<1>4. /\ at' \in [Thread -> {"none", "ready", "born", "poll", "check", "cycle", "trigger",
                              "handlers", "call", "lock", "write", "done"}]
      /\ log' \in [Thread -> Log]
      /\ then' \in [Thread -> {"none", "ready", "poll", "check", "cycle", "trigger", "call"}]
  BY <1>3 DEF Threads, Logs
<1>5. \A u \in Thread : at'[u] \in Places(u) /\ (at'[u] \in Busy => then'[u] \in Returns(u))
  <2> TAKE u \in Thread
  <2> QED
    BY <1>1, <1>3, Zenon DEF Threads
<1>6. at'["clock"] = "call" \/ (at'["clock"] \in Busy /\ then'["clock"] = "call") => due' # <<>>
  <2>1. "clock" \in Thread
    BY DEF Thread
  <2>2. CASE t = "clock"
    BY <1>1, <2>2
  <2>3. CASE t # "clock"
    BY <1>1, <2>1, <2>3 DEF Threads
  <2> QED
    BY <2>2, <2>3
<1> QED
  BY <1>1, <1>2, <1>4, <1>5, <1>6 DEF Threads

LEMMA Step ==
    ASSUME NEW t \in Thread, NEW x \in Places(t), x \notin Busy, Threads, OneWriter,
           at[t] # "write", Goto(t, x), owner' = owner, x # "call", t = "clock" \/ due' = due
    PROVE  /\ Threads' /\ OneWriter'
           /\ at'[t] = x /\ \A u \in Thread : u # t => at'[u] = at[u]
           /\ log' = log
<1>1. /\ at'[t] = x /\ log' = log /\ then' = then
      /\ \A u \in Thread : u # t => at'[u] = at[u]
  BY DEF Threads, Goto
<1>2. x # "write"
  BY DEF Busy
<1>3. OneWriter'
  BY <1>1, <1>2, Moves, Zenon DEF Goto
<1>4. x \in {"none", "ready", "born", "poll", "check", "cycle", "trigger",
              "handlers", "call", "lock", "write", "done"}
  BY DEF Places, Busy, Thread
<1>5. at' \in [Thread -> {"none", "ready", "born", "poll", "check", "cycle", "trigger",
                          "handlers", "call", "lock", "write", "done"}]
  BY <1>4 DEF Threads, Goto
<1>6. \A u \in Thread : at'[u] \in Places(u) /\ (at'[u] \in Busy => then'[u] \in Returns(u))
  <2> TAKE u \in Thread
  <2> QED
    BY <1>1, Zenon DEF Threads
<1>7. at'["clock"] = "call" \/ (at'["clock"] \in Busy /\ then'["clock"] = "call") => due' # <<>>
  <2>1. "clock" \in Thread
    BY DEF Thread
  <2>2. CASE t = "clock"
    BY <1>1, <2>2
  <2>3. CASE t # "clock"
    BY <1>1, <2>1, <2>3 DEF Threads
  <2> QED
    BY <2>2, <2>3
<1> QED
  BY <1>1, <1>3, <1>5, <1>6, <1>7 DEF Threads

(***************************************************************************)
(* What no thread but main can disturb: the list, the flags, the files and  *)
(* the subscribers.                                                         *)
(***************************************************************************)
LEMMA Aside ==
    ASSUME NEW L, NEW o, NEW w, NEW s, NEW p, Now(L, o, w, s, p),
           todo' = todo, file' = file, running' = running, handlers' = handlers,
           Typed', Threads', OneWriter',
           NEW t \in Thread \ {"main"}, at[t] # "none",
           \A u \in Thread : u # t => at'[u] = at[u] /\ log'[u] = log[u]
    PROVE  Now(L, o, w, s, p)'
<1>1. at'["main"] = at["main"] /\ log'["main"] = log["main"]
  BY DEF Thread
<1>2. Follows(L, p)'
  BY DEF Now, Follows
<1>3. Subscribed(s, p)'
  BY DEF Now, Subscribed
<1>4. Started(p)'
  <2>1. "memory" \in Thread /\ "cpu" \in Thread /\ "clock" \in Thread
    BY DEF Thread
  <2>2. \A u \in Thread : at[u] = "none" => at'[u] = "none"
    BY Zenon
  <2> QED
    BY <2>1, <2>2 DEF Now, Started
<1>5. Opened(o, w, p)'
  BY <1>1, Zenon DEF Now, Opened, MainUses
<1> QED
  BY <1>2, <1>3, <1>4, <1>5 DEF Now

(***************************************************************************)
(* The same for main, which moves on in its list.                           *)
(***************************************************************************)
LEMMA OpenedStays ==
    ASSUME NEW L, NEW o, NEW w, NEW s, NEW p, Placed(L, o, w, s), Now(L, o, w, s, p),
           p \in 0 .. 26, at["main"] = "ready", L[p + 1].op # "open", file' = file,
           \A l \in Log : L[p + 1] = Do("log", l) => MainUses(l)',
           \A l \in Log : MainUses(l)' => p + 1 >= w[l]
    PROVE  Opened(o, w, p + 1)'
<1> SUFFICES ASSUME p + 1 < 17, NEW l \in Log
             PROVE  /\ p + 1 >= o[l] => file[l] \in {"open", "none"}
                    /\ p + 1 >= w[l] => file[l] = "open" \/ MainUses(l)'
                    /\ p + 1 >= 12 => file[l] = "open"
  BY DEF Opened
<1>1. /\ p >= o[l] => file[l] \in {"open", "none"}
      /\ p >= w[l] => file[l] = "open" \/ MainUses(l)
  BY DEF Now, Opened
<1>2. ~MainUses(l)
  BY DEF MainUses, Busy
<1>3. /\ o[l] \in 1 .. 9 /\ w[l] \in 2 .. 10 /\ L[o[l]] = Do("open", l) /\ L[w[l]] = Do("log", l)
  BY DEF Placed
<1>4. p + 1 # o[l]
  BY <1>3 DEF Do
<1>5. p + 1 = w[l] => MainUses(l)'
  BY <1>3
<1> QED
  BY <1>1, <1>2, <1>3, <1>4, <1>5

LEMMA MainLogs ==
    ASSUME NEW L, NEW o, NEW w, NEW s, NEW p, Placed(L, o, w, s), Now(L, o, w, s, p), main_logs
    PROVE  p + 1 \in 0 .. 27 /\ Now(L, o, w, s, p + 1)'
<1> DEFINE d == L[p + 1].dev
<1>1. /\ at["main"] = "ready" /\ todo # <<>> /\ Head(todo).op = "log"
      /\ todo' = Tail(todo) /\ status' = status /\ Logs("main", Dev, "ready")
      /\ file' = file /\ owner' = owner /\ running' = running /\ halted' = halted
      /\ handlers' = handlers /\ event' = event /\ due' = due
  BY DEF main_logs, MainDoes, At, shared
<1>2. p \in 0 .. 26 /\ p + 1 \in 1 .. 27 /\ Head(todo) = L[p + 1] /\ Follows(L, p + 1)'
  BY <1>1, NextToDo DEF Now
<1>3. d \in Log /\ p + 1 >= w[d] /\ Dev = d
  BY <1>1, <1>2 DEF Placed, Dev
<1>4. "main" \in Thread /\ "ready" \in Returns("main")
  BY DEF Thread, Returns
<1> HIDE DEF d
<1>5. /\ Threads' /\ OneWriter' /\ at'["main"] = "lock" /\ log'["main"] = d
      /\ \A u \in Thread : u # "main" => at'[u] = at[u] /\ log'[u] = log[u]
  <2>1. Threads /\ OneWriter /\ at["main"] # "write"
    BY <1>1 DEF Now
  <2>2. Logs("main", d, "ready") /\ "ready" # "call"
    BY <1>1, <1>3
  <2> QED
    BY <1>1, <1>3, <1>4, <2>1, <2>2, LogCall, Zenon
<1>6. Typed'
  BY <1>1 DEF Now, Typed
<1>7. Subscribed(s, p + 1)'
  BY <1>1, <1>2 DEF Placed, Now, Subscribed
<1>8. Started(p + 1)'
  BY <1>1, <1>2, <1>5 DEF Now, Started, Thread
<1>9. Opened(o, w, p + 1)'
  <2>1. MainUses(d)' /\ \A l \in Log : MainUses(l)' => l = d
    BY <1>5 DEF MainUses, Busy
  <2>2. \A l \in Log : L[p + 1] = Do("log", l) => l = d
    BY DEF d, Do
  <2> QED
    BY <1>1, <1>2, <1>3, <2>1, <2>2, OpenedStays
<1> QED
  BY <1>2, <1>5, <1>6, <1>7, <1>8, <1>9 DEF Now

LEMMA LoggerInit ==
    ASSUME NEW L, NEW o, NEW w, NEW s, NEW p, Placed(L, o, w, s), Now(L, o, w, s, p), logger_init
    PROVE  p + 1 \in 0 .. 27 /\ Now(L, o, w, s, p + 1)'
<1> DEFINE d == L[p + 1].dev
<1>1. /\ at["main"] = "ready" /\ todo # <<>> /\ Head(todo).op = "open"
      /\ todo' = Tail(todo) /\ status' = status
      /\ owner' = owner /\ running' = running /\ halted' = halted
      /\ handlers' = handlers /\ event' = event /\ due' = due
      /\ at' = at /\ log' = log /\ then' = then
  BY DEF logger_init, MainDoes, At, local
<1>2. p \in 0 .. 26 /\ p + 1 \in 1 .. 27 /\ Head(todo) = L[p + 1] /\ Follows(L, p + 1)'
  BY <1>1, NextToDo DEF Now
<1>3. d \in Log /\ p + 1 = o[d] /\ Dev = d
  BY <1>1, <1>2 DEF Placed, Dev
<1>4. PICK f \in {"open", "none"} : file' = [file EXCEPT ![d] = f]
  BY <1>3 DEF logger_init
<1> HIDE DEF d
<1>5. Threads' /\ OneWriter'
  BY <1>1 DEF Now, Threads, OneWriter
<1>6. Typed'
  BY <1>1, <1>3, <1>4 DEF Now, Typed
<1>7. Subscribed(s, p + 1)'
  BY <1>1, <1>2 DEF Placed, Now, Subscribed
<1>8. Started(p + 1)'
  BY <1>1, <1>2 DEF Now, Started
<1>9. Opened(o, w, p + 1)'
  <2>1. o[d] \in 1 .. 9 /\ w[d] \in 2 .. 10 /\ o[d] < w[d]
    BY <1>3 DEF Placed
  <2>2. p + 1 < 12
    BY <1>2, <1>3, <2>1
  <2> SUFFICES ASSUME NEW l \in Log
               PROVE  /\ p + 1 >= o[l] => file'[l] \in {"open", "none"}
                      /\ p + 1 >= w[l] => file'[l] = "open"
                      /\ ~MainUses(l)'
    BY <1>2, <2>2 DEF Opened
  <2>3. ~MainUses(l) /\ ~MainUses(l)'
    BY <1>1 DEF MainUses, Busy
  <2>4. /\ p >= o[l] => file[l] \in {"open", "none"}
        /\ p >= w[l] => file[l] = "open"
    BY <1>2, <2>2, <2>3 DEF Now, Opened
  <2>5. CASE l = d
    <3>1. file'[l] = f
      BY <1>3, <1>4, <2>5 DEF Now, Typed
    <3>2. ~(p + 1 >= w[l])
      BY <1>2, <1>3, <2>1, <2>5
    <3> QED
      BY <2>3, <3>1, <3>2
  <2>6. CASE l # d
    <3>1. file'[l] = file[l]
      BY <1>4, <2>6 DEF Now, Typed
    <3>2. o[l] \in 1 .. 9 /\ w[l] \in 2 .. 10 /\ L[o[l]] = Do("open", l) /\ L[w[l]] = Do("log", l)
      BY DEF Placed
    <3>3. p + 1 # o[l]
      BY <2>6, <3>2 DEF Do, d
    <3>4. p + 1 # w[l]
      BY <1>1, <1>2, <3>2 DEF Do
    <3> QED
      BY <1>2, <2>3, <2>4, <3>1, <3>2, <3>3, <3>4
  <2> QED
    BY <2>5, <2>6
<1> QED
  BY <1>2, <1>5, <1>6, <1>7, <1>8, <1>9 DEF Now

LEMMA InterruptEventSubscribe ==
    ASSUME NEW L, NEW o, NEW w, NEW s, NEW p, Placed(L, o, w, s), Now(L, o, w, s, p),
           interrupt_event_subscribe
    PROVE  p + 1 \in 0 .. 27 /\ Now(L, o, w, s, p + 1)'
<1>1. /\ at["main"] = "ready" /\ todo # <<>> /\ Head(todo).op = "subscribe"
      /\ todo' = Tail(todo) /\ status' = status
      /\ owner' = owner /\ running' = running /\ halted' = halted
      /\ file' = file /\ event' = event /\ due' = due
      /\ at' = at /\ log' = log /\ then' = then /\ handlers' = Append(handlers, Dev)
  BY DEF interrupt_event_subscribe, MainDoes, At, local
<1>2. p \in 0 .. 26 /\ p + 1 \in 1 .. 27 /\ Head(todo) = L[p + 1] /\ Follows(L, p + 1)'
  BY <1>1, NextToDo DEF Now
<1>3. Dev = "vcpu" /\ p + 1 = s
  BY <1>1, <1>2 DEF Placed, Dev
<1>4. handlers' = <<"vcpu">>
  <2>1. handlers = <<>>
    BY <1>2, <1>3 DEF Now, Subscribed
  <2> QED
    BY <1>1, <1>3, <2>1
<1>5. Threads' /\ OneWriter'
  BY <1>1 DEF Now, Threads, OneWriter
<1>6. Typed'
  BY <1>1 DEF Now, Typed
<1>7. Subscribed(s, p + 1)'
  BY <1>2, <1>3, <1>4 DEF Subscribed
<1>8. Started(p + 1)'
  BY <1>1, <1>2 DEF Now, Started
<1>9. Opened(o, w, p + 1)'
  <2>1. \A l \in Log : ~MainUses(l)' /\ L[p + 1] # Do("log", l)
    BY <1>1, <1>2 DEF MainUses, Busy, Do
  <2> QED
    BY <1>1, <1>2, <2>1, OpenedStays
<1> QED
  BY <1>2, <1>5, <1>6, <1>7, <1>8, <1>9 DEF Now

LEMMA DeviceStart ==
    ASSUME NEW L, NEW o, NEW w, NEW s, NEW p, Placed(L, o, w, s), Now(L, o, w, s, p), device_start
    PROVE  p + 1 \in 0 .. 27 /\ Now(L, o, w, s, p + 1)'
<1> DEFINE t == ThreadOf[Dev]
<1>1. /\ at["main"] = "ready" /\ todo # <<>> /\ Head(todo).op = "start"
      /\ todo' = Tail(todo) /\ status' = status
      /\ owner' = owner /\ running' = [running EXCEPT ![Dev] = TRUE] /\ halted' = halted
      /\ file' = file /\ event' = event /\ due' = due /\ handlers' = handlers
      /\ at' = [at EXCEPT ![t] = "born"] /\ log' = log /\ then' = then
  BY DEF device_start, MainDoes, At
<1>2. p \in 0 .. 26 /\ p + 1 \in 1 .. 27 /\ Head(todo) = L[p + 1] /\ Follows(L, p + 1)'
  BY <1>1, NextToDo DEF Now
<1>3. \/ Dev = "vmemory" /\ p + 1 = 12 /\ t = "memory"
      \/ Dev = "vcpu" /\ p + 1 = 14 /\ t = "cpu"
      \/ Dev = "vclock" /\ p + 1 = 16 /\ t = "clock"
  <2>1. \/ Dev = "vmemory" /\ p + 1 = 12
        \/ Dev = "vcpu" /\ p + 1 = 14
        \/ Dev = "vclock" /\ p + 1 = 16
    <3>1. L[p + 1].op = "start" /\ Dev = L[p + 1].dev /\ p + 1 \in 1 .. 27
      BY <1>1, <1>2 DEF Dev
    <3> QED
      BY <3>1 DEF Placed
  <2>2. ThreadOf["vmemory"] = "memory" /\ ThreadOf["vcpu"] = "cpu" /\ ThreadOf["vclock"] = "clock"
    BY DEF ThreadOf
  <2> QED
    BY <2>1, <2>2, Zenon
<1> HIDE DEF t
<1>4. t \in Thread \ {"main"} /\ "born" \in Places(t) /\ "born" \notin Busy /\ at[t] = "none" /\ Dev \in Log
  <2>1. t \in Thread \ {"main"} /\ Dev \in Log
    BY <1>3 DEF Thread, Log
  <2>2. "born" \in Places(t)
    BY <1>3 DEF Places
  <2>3. at[t] = "none"
    BY <1>2, <1>3 DEF Now, Started
  <2> QED
    BY <2>1, <2>2, <2>3 DEF Busy
<1>5. Threads' /\ OneWriter' /\ at'[t] = "born" /\ \A u \in Thread : u # t => at'[u] = at[u]
  <2>1. Threads /\ OneWriter /\ at[t] # "write" /\ Goto(t, "born") /\ "born" # "call"
    BY <1>1, <1>4 DEF Now, Goto
  <2> QED
    BY <1>1, <1>4, <2>1, Step, Zenon
<1>6. Typed'
  BY <1>1, <1>4 DEF Now, Typed
<1>7. Subscribed(s, p + 1)'
  <2>1. handlers' = handlers
    BY <1>1
  <2>2. s \in 1 .. 10
    BY DEF Placed
  <2> QED
    BY <1>2, <2>1, <2>2 DEF Now, Subscribed
<1>8. Started(p + 1)'
  <2>1. running' \in [Log -> BOOLEAN] /\ \A l \in Log : l # Dev => running'[l] = running[l]
    BY <1>1, <1>4 DEF Now, Typed
  <2>2. "memory" \in Thread /\ "cpu" \in Thread /\ "clock" \in Thread
    BY DEF Thread
  <2>3. "vmemory" \in Log /\ "vcpu" \in Log /\ "vclock" \in Log /\ "vmemory_controller" \in Log
    BY DEF Log
  <2>4. CASE Dev = "vmemory"
    BY <1>2, <1>3, <1>5, <2>1, <2>2, <2>3, <2>4 DEF Now, Started
  <2>5. CASE Dev = "vcpu"
    BY <1>2, <1>3, <1>5, <2>1, <2>2, <2>3, <2>5 DEF Now, Started
  <2>6. CASE Dev = "vclock"
    BY <1>2, <1>3, <1>5, <2>1, <2>2, <2>3, <2>6 DEF Now, Started
  <2> QED
    BY <1>3, <2>4, <2>5, <2>6
<1>9. Opened(o, w, p + 1)'
  <2>1. at'["main"] = "ready"
    BY <1>1, <1>4, <1>5 DEF Thread
  <2>2. \A l \in Log : ~MainUses(l)' /\ L[p + 1] # Do("log", l)
    BY <1>1, <1>2, <2>1 DEF MainUses, Busy, Do
  <2> QED
    BY <1>1, <1>2, <2>2, OpenedStays
<1> QED
  BY <1>2, <1>5, <1>6, <1>7, <1>8, <1>9 DEF Now

LEMMA KeyIsPressed ==
    ASSUME NEW L, NEW o, NEW w, NEW s, NEW p, Placed(L, o, w, s), Now(L, o, w, s, p), key_pressed
    PROVE  p + 1 \in 0 .. 27 /\ Now(L, o, w, s, p + 1)'
<1>1. /\ at["main"] = "ready" /\ todo # <<>> /\ Head(todo).op = "key"
      /\ todo' = Tail(todo) /\ status' = status
      /\ owner' = owner /\ running' = running /\ halted' = halted
      /\ file' = file /\ event' = event /\ due' = due /\ handlers' = handlers
      /\ at' = at /\ log' = log /\ then' = then
  BY DEF key_pressed, MainDoes, At, local, shared
<1>2. p \in 0 .. 26 /\ p + 1 \in 1 .. 27 /\ Head(todo) = L[p + 1] /\ Follows(L, p + 1)'
  BY <1>1, NextToDo DEF Now
<1>3. p + 1 = 17
  BY <1>1, <1>2 DEF Placed
<1>4. Threads' /\ OneWriter'
  BY <1>1 DEF Now, Threads, OneWriter
<1>5. Typed'
  BY <1>1 DEF Now, Typed
<1>6. Subscribed(s, p + 1)'
  BY <1>1, <1>2 DEF Placed, Now, Subscribed
<1>7. Started(p + 1)'
  BY <1>1, <1>2 DEF Now, Started
<1>8. Opened(o, w, p + 1)'
  BY <1>3 DEF Opened
<1> QED
  BY <1>2, <1>4, <1>5, <1>6, <1>7, <1>8 DEF Now

LEMMA ShutsDown ==
    ASSUME NEW L, NEW o, NEW w, NEW s, NEW p, Placed(L, o, w, s), Now(L, o, w, s, p),
           device_stop \/ logger_shutdown
    PROVE  p + 1 \in 0 .. 27 /\ Now(L, o, w, s, p + 1)'
<1>1. /\ at["main"] = "ready" /\ todo # <<>> /\ Head(todo).op \in {"stop", "close"}
      /\ todo' = Tail(todo) /\ status' = status
      /\ owner' = owner /\ halted' = halted
      /\ event' = event /\ due' = due /\ handlers' = handlers
      /\ at' = at /\ log' = log /\ then' = then
      /\ running' \in {running, [running EXCEPT ![Dev] = FALSE]}
      /\ file' \in {file, [file EXCEPT ![Dev] = "closed"]}
  BY DEF device_stop, logger_shutdown, MainDoes, At, local, shared
<1>2. p \in 0 .. 26 /\ p + 1 \in 1 .. 27 /\ Head(todo) = L[p + 1] /\ Follows(L, p + 1)'
  BY <1>1, NextToDo DEF Now
<1>3. p + 1 > 17 /\ Dev \in Log
  BY <1>1, <1>2 DEF Placed, Dev
<1>4. Threads' /\ OneWriter'
  BY <1>1 DEF Now, Threads, OneWriter
<1>5. Typed'
  BY <1>1, <1>3 DEF Now, Typed
<1>6. Subscribed(s, p + 1)'
  BY <1>1, <1>2 DEF Placed, Now, Subscribed
<1>7. Started(p + 1)'
  <2>1. ~running'["vmemory_controller"]
    BY <1>1, <1>3 DEF Now, Started, Typed, Log
  <2> QED
    BY <1>2, <1>3, <2>1 DEF Started
<1>8. Opened(o, w, p + 1)'
  BY <1>2, <1>3 DEF Opened
<1> QED
  BY <1>2, <1>4, <1>5, <1>6, <1>7, <1>8 DEF Now

LEMMA Ends ==
    ASSUME NEW L, NEW o, NEW w, NEW s, NEW p, Now(L, o, w, s, p),
           todo' = todo, UNCHANGED <<shared, local>>, status' \in {"running", "crashed", "exited"}
    PROVE  Now(L, o, w, s, p)'
<1>1. /\ file' = file /\ owner' = owner /\ running' = running /\ halted' = halted
      /\ event' = event /\ due' = due /\ handlers' = handlers
      /\ at' = at /\ log' = log /\ then' = then
  BY DEF local, shared
<1>2. Follows(L, p)' /\ Threads' /\ OneWriter'
  BY <1>1 DEF Now, Follows, Threads, OneWriter
<1>3. Typed' /\ Subscribed(s, p)' /\ Started(p)' /\ Opened(o, w, p)'
  BY <1>1 DEF Now, Typed, Subscribed, Started, Opened, MainUses
<1> QED
  BY <1>2, <1>3 DEF Now

(***************************************************************************)
(* A log call of main or of a thread.                                       *)
(***************************************************************************)
LEMMA LockLog ==
    ASSUME NEW L, NEW o, NEW w, NEW s, NEW p, Now(L, o, w, s, p), NEW t \in Thread, lock_log(t)
    PROVE  Now(L, o, w, s, p)'
<1>1. /\ at[t] = "lock" /\ owner[log[t]] = Free /\ owner' = [owner EXCEPT ![log[t]] = t]
      /\ at' = [at EXCEPT ![t] = "write"] /\ log' = log /\ then' = then /\ todo' = todo
      /\ file' = file /\ running' = running /\ halted' = halted /\ handlers' = handlers
      /\ event' = event /\ due' = due /\ status' = status
  BY DEF lock_log, At, Goto
<1>2. /\ at'[t] = "write" /\ \A u \in Thread : u # t => at'[u] = at[u]
      /\ log[t] \in Log /\ owner'[log[t]] = t /\ \A l \in Log : l # log[t] => owner'[l] = owner[l]
  BY <1>1 DEF Now, Threads, Typed
<1>3. OneWriter'
  <2> SUFFICES ASSUME NEW u \in Thread, NEW l \in Log
               PROVE  owner'[l] = u <=> at'[u] = "write" /\ log[u] = l
    BY <1>1 DEF OneWriter
  <2>1. owner[l] = u <=> at[u] = "write" /\ log[u] = l
    BY DEF Now, OneWriter
  <2>2. owner[log[t]] # u
    BY <1>1 DEF Free, Thread
  <2>3. CASE u = t
    BY <1>1, <1>2, <2>1, <2>3
  <2>4. CASE u # t
    BY <1>1, <1>2, <2>1, <2>2, <2>4
  <2> QED
    BY <2>3, <2>4
<1>4. Threads'
  <2>1. "write" \in Places(t) /\ at[t] \in Busy
    BY <1>1 DEF Places, Busy, Thread
  <2>2. \A u \in Thread : at'[u] \in Places(u) /\ (at'[u] \in Busy => then'[u] \in Returns(u))
    BY <1>1, <1>2, <2>1, Zenon DEF Now, Threads
  <2>3. at'["clock"] = "call" \/ (at'["clock"] \in Busy /\ then'["clock"] = "call") => due' # <<>>
    BY <1>1, <1>2 DEF Now, Threads, Busy, Thread
  <2> QED
    BY <1>1, <2>2, <2>3 DEF Now, Threads
<1>5. Typed'
  BY <1>1, <1>2 DEF Now, Typed
<1>6. CASE t # "main"
  BY <1>1, <1>2, <1>3, <1>4, <1>5, <1>6, Aside
<1>7. CASE t = "main"
  <2>1. Follows(L, p)' /\ Subscribed(s, p)'
    BY <1>1 DEF Now, Follows, Subscribed
  <2>2. Started(p)'
    BY <1>1, <1>2, <1>7 DEF Now, Started, Thread
  <2>3. \A l \in Log : MainUses(l)' <=> MainUses(l)
    BY <1>1, <1>2, <1>7 DEF MainUses, Busy
  <2>4. Opened(o, w, p)'
    BY <1>1, <2>3 DEF Now, Opened
  <2> QED
    BY <1>3, <1>4, <1>5, <2>1, <2>2, <2>4 DEF Now
<1> QED
  BY <1>6, <1>7

LEMMA LogWrite ==
    ASSUME NEW L, NEW o, NEW w, NEW s, NEW p, Placed(L, o, w, s), Now(L, o, w, s, p),
           NEW t \in Thread, log_write(t)
    PROVE  Now(L, o, w, s, p)'
<1>1. /\ at[t] = "write" /\ file[log[t]] \in {"open", "closed"} /\ owner' = [owner EXCEPT ![log[t]] = Free]
      /\ at' = [at EXCEPT ![t] = then[t]] /\ log' = log /\ then' = then /\ todo' = todo
      /\ file' = file /\ running' = running /\ halted' = halted /\ handlers' = handlers
      /\ event' = event /\ due' = due /\ status' = status
  BY DEF log_write, At, Goto
<1>2. /\ at'[t] = then[t] /\ \A u \in Thread : u # t => at'[u] = at[u]
      /\ log[t] \in Log /\ owner'[log[t]] = Free /\ \A l \in Log : l # log[t] => owner'[l] = owner[l]
  BY <1>1 DEF Now, Threads, Typed
<1>3. then[t] \in Returns(t) /\ then[t] \in Places(t) /\ then[t] \notin Busy
  <2>1. then[t] \in Returns(t)
    BY <1>1 DEF Now, Threads, Busy
  <2> QED
    BY <2>1 DEF Returns, Places, Busy, Thread
<1>4. OneWriter'
  <2> SUFFICES ASSUME NEW u \in Thread, NEW l \in Log
               PROVE  owner'[l] = u <=> at'[u] = "write" /\ log[u] = l
    BY <1>1 DEF OneWriter
  <2>1. owner[l] = u <=> at[u] = "write" /\ log[u] = l
    BY DEF Now, OneWriter
  <2>2. owner[log[t]] = t /\ Free # u
    BY <1>1, <1>2 DEF Now, OneWriter, Free, Thread
  <2>3. then[t] # "write"
    BY <1>3 DEF Busy
  <2>4. CASE u = t
    BY <1>1, <1>2, <2>1, <2>2, <2>3, <2>4
  <2>5. CASE u # t
    BY <1>1, <1>2, <2>1, <2>2, <2>5
  <2> QED
    BY <2>4, <2>5
<1>5. Threads'
  <2>1. \A u \in Thread : at'[u] \in Places(u) /\ (at'[u] \in Busy => then'[u] \in Returns(u))
    BY <1>1, <1>2, <1>3, Zenon DEF Now, Threads
  <2>2. then[t] \in {"none", "ready", "born", "poll", "check", "cycle", "trigger",
                     "handlers", "call", "lock", "write", "done"}
    BY <1>3 DEF Returns, Thread
  <2>3. at'["clock"] = "call" \/ (at'["clock"] \in Busy /\ then'["clock"] = "call") => due' # <<>>
    BY <1>1, <1>2 DEF Now, Threads, Busy, Thread
  <2> QED
    BY <1>1, <2>1, <2>2, <2>3 DEF Now, Threads
<1>6. Typed'
  BY <1>1, <1>2 DEF Now, Typed
<1>7. CASE t # "main"
  BY <1>1, <1>2, <1>4, <1>5, <1>6, <1>7, Aside
<1>8. CASE t = "main"
  <2>1. Follows(L, p)' /\ Subscribed(s, p)'
    BY <1>1 DEF Now, Follows, Subscribed
  <2>2. Started(p)'
    BY <1>1, <1>2, <1>8 DEF Now, Started, Thread
  <2>3. \A l \in Log : ~MainUses(l)' /\ (MainUses(l) <=> l = log["main"])
    BY <1>1, <1>2, <1>3, <1>8 DEF MainUses, Busy
  <2>4. Opened(o, w, p)'
    <3> SUFFICES ASSUME p < 17, NEW l \in Log
                 PROVE  /\ p >= o[l] => file[l] \in {"open", "none"}
                        /\ p >= w[l] => file[l] = "open"
                        /\ p >= 12 => file[l] = "open"
      BY <1>1, <2>3 DEF Opened
    <3>1. /\ p >= o[l] => file[l] \in {"open", "none"}
          /\ p >= w[l] => file[l] = "open" \/ MainUses(l)
          /\ p >= 12 => file[l] = "open"
      BY DEF Now, Opened
    <3>2. p \in 0 .. 27 /\ o[l] \in 1 .. 9 /\ w[l] \in 2 .. 10 /\ o[l] < w[l]
      BY DEF Now, Follows, Placed
    <3>3. CASE l = log["main"]
      BY <1>1, <1>8, <3>1, <3>2, <3>3
    <3>4. CASE l # log["main"]
      BY <2>3, <3>1, <3>4
    <3> QED
      BY <3>3, <3>4
  <2> QED
    BY <1>4, <1>5, <1>6, <2>1, <2>2, <2>4 DEF Now
<1> QED
  BY <1>7, <1>8

(***************************************************************************)
(* The threads.                                                             *)
(***************************************************************************)
LEMMA ThreadLogs ==
    ASSUME NEW L, NEW o, NEW w, NEW s, NEW p, Now(L, o, w, s, p),
           NEW t \in Thread \ {"main"}, NEW l \in Log, NEW r \in Returns(t), at[t] \notin Busy \cup {"none"},
           Logs(t, l, r), r = "call" => due # <<>>, halted' \in BOOLEAN,
           UNCHANGED <<todo, file, owner, running, handlers, event, due, status>>
    PROVE  Now(L, o, w, s, p)'
<1>1. Threads /\ OneWriter /\ at[t] # "write" /\ t \in Thread /\ owner' = owner /\ at[t] # "none" /\ due' = due
  BY DEF Now, Busy
<1>2. Threads' /\ OneWriter' /\ \A u \in Thread : u # t => at'[u] = at[u] /\ log'[u] = log[u]
  BY <1>1, LogCall, Zenon
<1>3. Typed'
  BY DEF Now, Typed
<1> QED
  BY <1>1, <1>2, <1>3, Aside

LEMMA ThreadSteps ==
    ASSUME NEW L, NEW o, NEW w, NEW s, NEW p, Now(L, o, w, s, p),
           NEW t \in Thread \ {"main"}, NEW x \in Places(t), x \notin Busy, at[t] \notin Busy \cup {"none"},
           Goto(t, x), x # "call", t = "clock" \/ due' = due, due' \in {<<>>, <<"vcpu">>}, event' \in {Free, "clock"},
           UNCHANGED <<todo, file, owner, running, halted, handlers, status>>
    PROVE  Now(L, o, w, s, p)'
<1>1. Threads /\ OneWriter /\ at[t] # "write" /\ t \in Thread /\ owner' = owner /\ at[t] # "none"
  BY DEF Now, Busy
<1>2. Threads' /\ OneWriter' /\ log' = log /\ \A u \in Thread : u # t => at'[u] = at[u]
  BY <1>1, Step, Zenon
<1>3. Typed'
  BY DEF Now, Typed
<1> QED
  BY <1>1, <1>2, <1>3, Aside

LEMMA MemoryMoves ==
    ASSUME NEW L, NEW o, NEW w, NEW s, NEW p, Now(L, o, w, s, p), vmemory_loop
    PROVE  Now(L, o, w, s, p)'
<1>1. "memory" \in Thread \ {"main"} /\ "vmemory" \in Log /\ "poll" \in Returns("memory") /\ "poll" # "call"
  BY DEF Thread, Log, Returns
<1>2. /\ at["memory"] \notin Busy \cup {"none"} /\ Logs("memory", "vmemory", "poll")
      /\ halted' \in BOOLEAN /\ UNCHANGED <<todo, file, owner, running, handlers, event, due, status>>
  BY DEF vmemory_loop, At, shared, Busy, Now, Typed
<1> QED
  BY <1>1, <1>2, ThreadLogs, Zenon

LEMMA CpuMoves ==
    ASSUME NEW L, NEW o, NEW w, NEW s, NEW p, Now(L, o, w, s, p), vcpu_born \/ vcpu_checks \/ vcpu_cycle
    PROVE  Now(L, o, w, s, p)'
<1>1. /\ "cpu" \in Thread \ {"main"} /\ "vcpu" \in Log /\ "vmemory_controller" \in Log
      /\ "check" \in Returns("cpu") /\ "cycle" \in Returns("cpu")
      /\ {"check", "cycle", "done"} \subseteq Places("cpu") \ Busy
      /\ "check" # "call" /\ "cycle" # "call"
  BY DEF Thread, Log, Returns, Places, Busy
<1>2. halted \in BOOLEAN /\ due \in {<<>>, <<"vcpu">>} /\ event \in {Free, "clock"}
  BY DEF Now, Typed
<1>3. CASE vcpu_born
  <2>1. /\ at["cpu"] \notin Busy \cup {"none"} /\ Logs("cpu", "vcpu", "check")
        /\ halted' \in BOOLEAN /\ UNCHANGED <<todo, file, owner, running, handlers, event, due, status>>
    BY <1>2, <1>3 DEF vcpu_born, At, shared, Busy
  <2> QED
    BY <1>1, <2>1, ThreadLogs, Zenon
<1>4. CASE vcpu_checks
  <2>1. PICK x \in {"cycle", "done"} : Goto("cpu", x)
    BY <1>4 DEF vcpu_checks
  <2>2. /\ at["cpu"] \notin Busy \cup {"none"} /\ due' = due /\ due' \in {<<>>, <<"vcpu">>} /\ event' \in {Free, "clock"}
        /\ UNCHANGED <<todo, file, owner, running, halted, handlers, status>>
    BY <1>2, <1>4 DEF vcpu_checks, At, shared, Busy
  <2>3. x \in Places("cpu") /\ x \notin Busy /\ x # "call"
    BY <1>1
  <2> QED
    BY <1>1, <2>1, <2>2, <2>3, ThreadSteps, Zenon
<1>5. CASE vcpu_cycle
  <2>1. /\ at["cpu"] \notin Busy \cup {"none"} /\ halted' \in BOOLEAN
        /\ UNCHANGED <<todo, file, owner, running, handlers, event, due, status>>
    BY <1>2, <1>5 DEF vcpu_cycle, At, Busy
  <2>2. CASE \E l \in {"vcpu", "vmemory_controller"} : Logs("cpu", l, "cycle")
    BY <1>1, <2>1, <2>2, ThreadLogs, Zenon
  <2>3. CASE Goto("cpu", "check") /\ UNCHANGED halted
    <3>1. /\ due' = due /\ due' \in {<<>>, <<"vcpu">>} /\ event' \in {Free, "clock"}
          /\ "check" \in Places("cpu") /\ "check" \notin Busy
      BY <1>1, <1>2, <2>1
    <3>2. UNCHANGED <<todo, file, owner, running, halted, handlers, status>>
      BY <2>1, <2>3
    <3> QED
      BY <1>1, <2>1, <2>3, <3>1, <3>2, ThreadSteps, Zenon
  <2> QED
    BY <1>5, <2>2, <2>3 DEF vcpu_cycle
<1> QED
  BY <1>3, <1>4, <1>5

LEMMA ClockMoves ==
    ASSUME NEW L, NEW o, NEW w, NEW s, NEW p, Now(L, o, w, s, p), Clock
    PROVE  Now(L, o, w, s, p)'
<1>1. /\ "clock" \in Thread \ {"main"} /\ "vclock" \in Log /\ "vcpu" \in Log
      /\ "check" \in Returns("clock") /\ "trigger" \in Returns("clock") /\ "call" \in Returns("clock")
      /\ "check" \in Places("clock") /\ "handlers" \in Places("clock") /\ "done" \in Places("clock")
      /\ "check" \notin Busy /\ "handlers" \notin Busy /\ "done" \notin Busy
      /\ "check" # "call" /\ "trigger" # "call" /\ "handlers" # "call" /\ "done" # "call"
  BY DEF Thread, Log, Returns, Places, Busy
<1>2. halted \in BOOLEAN /\ due \in {<<>>, <<"vcpu">>} /\ event \in {Free, "clock"} /\ handlers \in {<<>>, <<"vcpu">>}
  BY DEF Now, Typed, Subscribed
<1>3. CASE vclock_born
  <2>1. /\ at["clock"] \notin Busy \cup {"none"} /\ Logs("clock", "vclock", "check")
        /\ halted' \in BOOLEAN /\ UNCHANGED <<todo, file, owner, running, handlers, event, due, status>>
    BY <1>2, <1>3 DEF vclock_born, At, shared, Busy
  <2> QED
    BY <1>1, <2>1, ThreadLogs, Zenon
<1>4. CASE vclock_checks /\ running["vclock"]
  <2>1. /\ at["clock"] \notin Busy \cup {"none"} /\ Logs("clock", "vclock", "trigger")
        /\ halted' \in BOOLEAN /\ UNCHANGED <<todo, file, owner, running, handlers, event, due, status>>
    BY <1>2, <1>4 DEF vclock_checks, At, shared, Busy
  <2> QED
    BY <1>1, <2>1, ThreadLogs, Zenon
<1>5. CASE vclock_checks /\ ~running["vclock"]
  <2>1. /\ at["clock"] \notin Busy \cup {"none"} /\ Goto("clock", "done")
        /\ due' \in {<<>>, <<"vcpu">>} /\ event' \in {Free, "clock"}
        /\ UNCHANGED <<todo, file, owner, running, halted, handlers, status>>
    BY <1>2, <1>5 DEF vclock_checks, At, shared, Busy
  <2> QED
    BY <1>1, <2>1, ThreadSteps, Zenon
<1>6. CASE interrupt_event_trigger
  <2>1. /\ at["clock"] \notin Busy \cup {"none"} /\ Goto("clock", "handlers")
        /\ due' \in {<<>>, <<"vcpu">>} /\ event' \in {Free, "clock"}
        /\ UNCHANGED <<todo, file, owner, running, halted, handlers, status>>
    BY <1>2, <1>6 DEF interrupt_event_trigger, At, Busy
  <2> QED
    BY <1>1, <2>1, ThreadSteps, Zenon
<1>7. CASE next_handler
  <2>1. due = <<"vcpu">> /\ Head(due) = "vcpu"
    BY <1>2, <1>7 DEF next_handler
  <2>2. /\ at["clock"] \notin Busy \cup {"none"} /\ Logs("clock", "vcpu", "call") /\ due # <<>>
        /\ halted' \in BOOLEAN /\ UNCHANGED <<todo, file, owner, running, handlers, event, due, status>>
    BY <1>2, <1>7, <2>1 DEF next_handler, At, shared, Busy
  <2> QED
    BY <1>1, <2>2, ThreadLogs, Zenon
<1>8. CASE handle_interrupts
  <2>1. Tail(due) = <<>>
    <3>1. due = <<"vcpu">>
      BY <1>2, <1>8 DEF handle_interrupts, At, Now, Threads
    <3> QED
      BY <3>1
  <2>2. /\ at["clock"] \notin Busy \cup {"none"} /\ Goto("clock", "handlers")
        /\ due' \in {<<>>, <<"vcpu">>} /\ event' \in {Free, "clock"}
        /\ UNCHANGED <<todo, file, owner, running, halted, handlers, status>>
    BY <1>2, <1>8, <2>1 DEF handle_interrupts, At, Busy
  <2> QED
    BY <1>1, <2>2, ThreadSteps, Zenon
<1>9. CASE trigger_returns
  <2>1. /\ at["clock"] \notin Busy \cup {"none"} /\ Goto("clock", "check")
        /\ due' \in {<<>>, <<"vcpu">>} /\ event' \in {Free, "clock"}
        /\ UNCHANGED <<todo, file, owner, running, halted, handlers, status>>
    BY <1>2, <1>9 DEF trigger_returns, At, Busy
  <2> QED
    BY <1>1, <2>1, ThreadSteps, Zenon
<1> QED
  BY <1>3, <1>4, <1>5, <1>6, <1>7, <1>8, <1>9 DEF Clock

LEMMA LifeInductive == Life /\ [Next]_vars => Life'
<1> SUFFICES ASSUME Life, [Next]_vars PROVE Life'
  OBVIOUS
<1>1. PICK L \in Seq(Item), o \in [Log -> 1 .. 9], w \in [Log -> 2 .. 10], s \in 1 .. 10, p \in 0 .. 27 :
         Placed(L, o, w, s) /\ Now(L, o, w, s, p)
  BY DEF Life
<1>2. SUFFICES \E q \in 0 .. 27 : Now(L, o, w, s, q)'
  BY <1>1 DEF Life
<1>3. CASE main_logs
  BY <1>1, <1>3, MainLogs
<1>4. CASE logger_init
  BY <1>1, <1>4, LoggerInit
<1>5. CASE interrupt_event_subscribe
  BY <1>1, <1>5, InterruptEventSubscribe
<1>6. CASE device_start
  BY <1>1, <1>6, DeviceStart
<1>7. CASE device_stop \/ logger_shutdown
  BY <1>1, <1>7, ShutsDown
<1>8. CASE key_pressed
  BY <1>1, <1>8, KeyIsPressed
<1>9. CASE main_returns
  <2>1. todo' = todo /\ UNCHANGED <<shared, local>> /\ status' \in {"running", "crashed", "exited"}
    BY <1>9 DEF main_returns
  <2> QED
    BY <1>1, <2>1, Ends
<1>10. CASE vmemory_loop
  BY <1>1, <1>10, MemoryMoves
<1>11. CASE vcpu_born \/ vcpu_checks \/ vcpu_cycle
  BY <1>1, <1>11, CpuMoves
<1>12. CASE Clock
  BY <1>1, <1>12, ClockMoves
<1>13. ASSUME NEW t \in Thread, lock_log(t) PROVE \E q \in 0 .. 27 : Now(L, o, w, s, q)'
  BY <1>1, <1>13, LockLog
<1>14. ASSUME NEW t \in Thread, log_write(t) PROVE \E q \in 0 .. 27 : Now(L, o, w, s, q)'
  BY <1>1, <1>14, LogWrite
<1>15. ASSUME NEW t \in Thread, log_write_faults(t) PROVE \E q \in 0 .. 27 : Now(L, o, w, s, q)'
  <2>1. todo' = todo /\ UNCHANGED <<shared, local>> /\ status' \in {"running", "crashed", "exited"}
    BY <1>15 DEF log_write_faults
  <2> QED
    BY <1>1, <2>1, Ends
<1>16. CASE UNCHANGED vars
  <2>1. todo' = todo /\ UNCHANGED <<shared, local>> /\ status' \in {"running", "crashed", "exited"}
    BY <1>1, <1>16 DEF vars, Now, Typed
  <2> QED
    BY <1>1, <2>1, Ends
<1> QED
  BY <1>3, <1>4, <1>5, <1>6, <1>7, <1>8, <1>9, <1>10, <1>11, <1>12, <1>13, <1>14, <1>15, <1>16, Zenon
     DEF Next, Main, Writes

LEMMA LifeIsInvariant == Spec => []Life
  BY LifeInit, LifeInductive, PTL DEF Spec

(***************************************************************************)
(* However main orders the devices, the vCPU subscribes once, so that its   *)
(* handler fits any table that holds one (interrupt_event.c); the logs,     *)
(* their mutexes and the threads keep their types.                          *)
(***************************************************************************)
THEOREM TypeCorrect == Spec => []TypeOK
<1>1. Life => TypeOK
  <2> SUFFICES ASSUME Life PROVE TypeOK
    OBVIOUS
  <2>1. Typed /\ Threads /\ handlers \in {<<>>, <<"vcpu">>}
    BY DEF Life, Now, Subscribed
  <2>2. "vcpu" \in Log
    BY DEF Log
  <2>3. handlers \in Seq(Log) /\ (Len(handlers) = 0 \/ Len(handlers) = 1)
    <3>1. CASE handlers = <<>>
      BY <3>1
    <3>2. CASE handlers = <<"vcpu">>
      BY <2>2, <3>2
    <3> QED
      BY <2>1, <3>1, <3>2
  <2>4. Len(handlers) * HANDLER_SIZE <= HANDLERS_SIZE
    <3>1. 0 * HANDLER_SIZE <= HANDLERS_SIZE /\ 1 * HANDLER_SIZE <= HANDLERS_SIZE
      BY SizeAssumption
    <3> QED
      BY <2>3, <3>1, Zenon
  <2> QED
    BY <2>1, <2>3, <2>4 DEF Typed, Threads, TypeOK
<1> QED
  BY <1>1, LifeIsInvariant, PTL

(***************************************************************************)
(* A line of a log is written by the one thread that has the log's mutex,   *)
(* and no thread keeps a mutex past its line (logger.c: log_write between   *)
(* pthread_mutex_lock and pthread_mutex_unlock).                            *)
(***************************************************************************)
THEOREM OneWriterAtATime == Spec => []OneWriter
<1>1. Life => OneWriter
  BY DEF Life, Now
<1> QED
  BY <1>1, LifeIsInvariant, PTL

(***************************************************************************)
(* Until the key is pressed no thread writes to a log that is not open,     *)
(* except main the first line after an fopen that failed (main.c:67-113,    *)
(* logger.c: logger_init).                                                  *)
(***************************************************************************)
THEOREM NoUseBeforeOpen == Spec => []LogsAreOpen
<1>1. Life => LogsAreOpen
  <2> SUFFICES ASSUME Life, NEW t \in Thread, at[t] = "write", ~KeyPressed
               PROVE  \/ file[log[t]] = "open"
                      \/ file[log[t]] = "none" /\ t = "main" /\ \A l \in Log : ~running[l]
    BY DEF LogsAreOpen
  <2>1. PICK L \in Seq(Item), o \in [Log -> 1 .. 9], w \in [Log -> 2 .. 10], s \in 1 .. 10, p \in 0 .. 27 :
           Placed(L, o, w, s) /\ Now(L, o, w, s, p)
    BY DEF Life
  <2>2. p < 17
    <3>1. PICK i \in DOMAIN todo : todo[i].op = "key"
      BY DEF KeyPressed
    <3>2. i \in 1 .. 27 - p /\ todo[i] = L[p + i]
      <4>1. todo \in Seq(Item) /\ Len(todo) = 27 - p /\ \A j \in 1 .. 27 - p : todo[j] = L[p + j]
        BY <2>1 DEF Now, Follows
      <4> QED
        BY <3>1, <4>1
    <3>3. p + i \in 1 .. 27 /\ L[p + i].op = "key"
      <4>0. \A j \in 1 .. 27 - p : p + j \in 1 .. 27
        OBVIOUS
      <4>1. p + i \in 1 .. 27
        BY <3>2, <4>0, Zenon
      <4>2. L[p + i].op = "key"
        BY <3>1, <3>2, Zenon
      <4> QED
        BY <4>1, <4>2
    <3>4. p + i = 17
      BY <2>1, <3>3 DEF Placed
    <3> QED
      BY <3>2, <3>4
  <2>3. log[t] \in Log
    BY <2>1 DEF Now, Threads
  <2>4. CASE p >= 12
    BY <2>1, <2>2, <2>3, <2>4 DEF Now, Opened
  <2>5. CASE p < 12
    <3>1. at["memory"] = "none" /\ at["cpu"] = "none" /\ at["clock"] = "none" /\ \A l \in Log : ~running[l]
      BY <2>1, <2>5 DEF Now, Started, Log
    <3>2. t = "main"
      BY <3>1 DEF Thread
    <3>3. MainUses(log[t])
      BY <3>2 DEF MainUses, Busy
    <3>4. p >= w[log[t]]
      BY <2>1, <2>2, <2>3, <3>3 DEF Now, Opened
    <3>5. p >= o[log[t]]
      <4>1. o[log[t]] \in 1 .. 9 /\ w[log[t]] \in 2 .. 10 /\ o[log[t]] < w[log[t]]
        BY <2>1, <2>3 DEF Placed
      <4> QED
        BY <3>4, <4>1
    <3>6. file[log[t]] \in {"open", "none"}
      BY <2>1, <2>2, <2>3, <3>5 DEF Now, Opened
    <3> QED
      BY <3>1, <3>2, <3>6
  <2> QED
    BY <2>4, <2>5
<1> QED
  BY <1>1, LifeIsInvariant, PTL
=============================================================================
