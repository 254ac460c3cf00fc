# A TLA+ model of MIPS-vm

MIPS-vm is two virtual machines in C. **v1.0** is an 8-bit machine whose vCPU, memory and clock are
threads that exchange packets over shared buses. **v2.0** is a 32-bit MIPS machine: one thread drives a
five-stage pipeline through an event that a clock notifies on every edge. This directory holds TLA+
modules of the parts with interesting behaviour, TLC configurations that check them on small instances,
and proofs, checked by TLAPS, of the main properties for every instance.

Paths below are relative to the repository; `v2` stands for `MIPS-vm-v2.0/src/guest`, `v1` for
`MIPS-vm-v1.0/src`.

## 1. Inventory

| Component | State | Operations | Interaction | What is hard about it |
|---|---|---|---|---|
| vCPU pipeline, `v2/devices/vcpu` | 32 registers, `pc`, buffers `IF_ID`, `ID_EX`, `EX_MEM`, `MEM_WB` | `vcpu_reset`, `vcpu_update` and the five stages | called by the clock's event; calls the memory map, memory and caches | the stages pass state through shared buffers, last stage first; no stall, no forwarding, no flush; unchecked indices; self-modifying code |
| memory map, `v2/devices/vmemory/mapping.c` | none | `address_translation` | used by vCPU and loader | segment boundaries, masks |
| vMemory, `v2/devices/vmemory/vmemory.c` | the RAM | word and byte reads and writes | used by vCPU and loader | byte order |
| vCache, `v2/devices/vmemory/vcache.c` | lines | load, store, init, destroy | called by the vCPU, never initialised | search past the end, empty store |
| vTLB, `v2/devices/vmemory/vtlb.c` | 64 entries, MMU registers | translate, write, read, lookup | called by the memory map if `TLB_PRESENT`; a guest kernel would manage it | two look-ups with two rules; a miss is never recognised; a register number beyond the array |
| vCP0, `v2/devices/vcp0` | none | none (register numbers) | – | – |
| vClock, `v2/devices/vclock` | the edge, the timing | `flip_edge` in an endless loop | notifies `edge_changed` | progress; a delay measured on a wall clock that may be set |
| event table, `v2/common/events` and `v1/events` | linked lists of events and subscriptions, a mutex | create, remove, notify, subscribe, unsubscribe | any thread calls it; it calls handlers | looks at shared state outside the mutex, handlers under the mutex, many return paths, list walks |
| device table, `*/device_table` | entries, an id counter | add, read by id or type | called by every device's init | add is not locked; look-up reads the wrong entry |
| loader, `v2/common/loader` | none | flash a ROM, load an ELF file | writes the RAM before the clock starts | bounds, indexing |
| logger, `*/logger` | files, a mutex | log, shutdown | called by everyone | lifetime of the files in v1.0 |
| main, v2.0 | none | init, configure, reset, start | all devices, on one thread | order of initialisation; return codes ignored |
| vCPU, `v1/vcpu` | R0–R3, PC, IR, MAR, MDR, CTL | fetch, decode, execute in a loop, own thread | memory controller | null decoders, ignored return codes, halting with stores under way |
| memory controller, `v1/vmemory_controller` | – | fetch page (write, then poll), write page | the buses IN and OUT | matching replies to requests |
| memory buses, `v1/vmemory/vmemorybus.c` | two arrays of packets, a pointer each, a mutex each | write, read | vCPU thread and memory thread | last in first out, emptiness, capacity, a leaked mutex |
| vMemory, `v1/vmemory/vmemory.c` | 256 bytes | poll IN, answer READ, perform WRITE, own thread | the buses | ordering with the vCPU |
| interrupt event, `v1/vnvic` | handler list, a mutex | subscribe, trigger | vClock triggers, vCPU subscribes | capacity of the list; handlers under the mutex |
| vSysBus, `v1/vsysbus` | packets | write, read by device | nobody | removal by shifting |
| vClock, `v1/vclock` | – | trigger every five seconds, own thread | interrupt event | never stops |
| main, v1.0 | – | init, start, wait for a key, shutdown | all devices | closes the logs of threads that run on and are never joined |

What makes each component correct:

* **pipeline**: an instruction passes from stage to stage unharmed; a program sees a sequential machine,
  if an unusual one; the register file is never left; only words from uncached memory are executed;
  every fetched instruction is executed or the process ends.
* **memory map and memory**: uncached addresses are one-to-one with bytes of the RAM, segments that are
  meant to coincide do, a stored word is read back and nothing else changes.
* **buses and both v1.0 threads**: at most one READ is outstanding and its reply is what it asked for;
  an empty bus is known to be empty; a request is picked up and waits for nothing but the mutex of its reply; no store is
  lost; loads see earlier stores.
* **event table**: every call takes effect at one instant and reports the right code; the mutex is held
  when needed and comes back; a notification walks a list that is alive.
* **TLB**: whatever the kernel writes where, a page that is there is found by its tag, and a page that is not is refused.
* **device table**: identifiers are unique; a look-up that runs while devices register gives the table of one moment.
* **the processes**: each device finds the others initialised, in v1.0 in any order of initialisation; a log is
  open while it is used; the edges that drive the vCPU keep their distance and go on; v1.0 ends when a key is pressed.

`PROJECT.json` lists under `hazards` each place where one of these could go wrong, with the property that
would show it.

## 2. Modules

```
MachineWord ── AddressMap ── Insns ──┬── VCpu ── VCpuISA ── MCVCpu
     │             │                 └── MipsISA ──┘ (Abstract == INSTANCE)
     │             └── MemoryMap ── MemoryMapProofs
     (MemoryMapProofs holds the lemmas about words and segments that VCpuProofs uses)

VMemoryBus ── VM1 ── VM1Docs ── MCVM1        EventRegistry ──┐ (Promise == INSTANCE)
               └── VM1Proofs                 EventTable ─────┴── MCEventTable
                                                  └── EventTableProofs
TlbPromise ──┐ (Promise == INSTANCE)
VTlb ────────┴── MCVTlb                      DeviceTable ── DeviceTableProofs
  └── VTlbProofs                             VMachine ── VMachineProofs
                                             VM1Life ── MCVM1Life
                                                └── VM1LifeProofs
```

The two machines are each modelled at two levels: `VCpu` and `VM1` follow what a guest program does,
`VMachine` and `VM1Life` follow the process around it, from `main`'s first call to its end. What the levels
share is small and is stated in the upper one: in `VMachine` the handler of an edge takes some time and
returns or, at a rising edge, ends the process, which is what `VCpu` shows of a cycle; in `VM1Life` a cycle of the vCPU is some log calls and perhaps
a halt.

### v2.0: words, memory, instructions

`MachineWord` has the `uint32_t` words and the RAM as a function from physical addresses to bytes. A word
is four bytes as in the code; the number of values of a byte, `BYTE`, is a constant (256 in the program).
All arithmetic wraps modulo `WORD = BYTE^4`. `vmemory_read_word` and `vmemory_write_word` are the functions
of `vmemory.c`, including that they ask for no alignment.

`AddressMap` is `mapping.c` with `TLB_PRESENT` 0, the way it is built. Segments are counted in units of
`SEG`, an eighth of the address space. `MemoryMap` walks two words over all values to check the map and the
memory behind it.

`Insns` holds `format_table`, the decoding of `rd_pipestage`, the fourteen executers, and what
`mem_pipestage` and `wb_pipestage` do with an executed instruction. What a word encodes is a constant
function `InsnOf`: the model keeps the fields and their formats but not the bit positions, so that a checked
instance can encode eighteen instructions in an 8-bit word. Of a J-format address only whether it is zero
matters to the code (it is joined with `||`), so the model keeps the half-word.

The executers are written down as the code has them, with the behaviour a reader of the comments would not
expect: BEQ leaves its target zero, J and JAL jump to 0 or 1, JAL links in the register whose number is the
low byte of register 31, register 0 is writable.

### v2.0: the pipeline

`VCpu` has the variables of `struct vCPU`, the RAM, the clock's `edge`, the `stage` that runs next and the
`status` of the process. `FlipEdge` is `flip_edge`; on a rising edge it starts a cycle of the five actions
`wb_pipestage`, `mem_pipestage`, `alu_pipestage`, `rd_pipestage`, `if_pipestage`, in the order of
`handle_rising`. Each is the whole function: reset of the output buffer, default forwards, and the work. The
actions `*_faults` are where the process ends: `exit` in the decoder, the null executer, and the load from a
cache without data (`vcache_load` with its zero sizes exits or dereferences NULL, according to the low
address bits). The `Init` state is the zero-initialised static variable after `vcpu_reset`, with any RAM
`loader_flash_rom` may leave.

`MipsISA` is the abstract specification: a sequential machine that executes one instruction per step.
It is *not* the MIPS architecture but what the pipeline makes of it: an instruction sees the registers
without the result of the instruction just ahead of it (`late`), and two instructions are always under way
behind it (`queue`), which gives two delay slots and hides stores from those two. `VCpuISA` states the refinement
mapping. An instruction counts as executed once `alu_pipestage` has run it; the mapping adds to `gprs` and
`memory` what `EX_MEM` and `MEM_WB` still hold. Every other stage is then a stutter, which is what one wants
of a pipeline.

### v2.0: the TLB

`VTlb` is `vtlb.c`: the entries, the registers EntryHi and EntryLo, `vtlb_translate`, `vtlb_lookup`,
`vtlb_write` and `vtlb_read`. An entry is a tag (page, address space) and a page (frame and the bits N, D, V, G);
the offset passes a translation unchanged and is left out. `vtlb_translate` searches to the end, so that the
last match stands, and knows global pages; `vtlb_lookup` stops at the first and does not. EntryHi is
register 10 of an array of five: the word behind the array may be written by others as well, so `SetEntryHi`
may happen at any time.

`TLB_PRESENT` is 0 and no instruction of the vCPU reaches these functions. Their caller, a guest's kernel, is
external and arbitrary: it writes any entry at any time, so that a tag may be there twice, as after the boot code of
`sdk/demo/hello_world/src/boot/start.s:97-113`, which writes one tag to all 64 entries. `TlbPromise` is what is left to count on: a
set of pages under their tags, without places; an installed page costs at most one other its place; of two pages under one tag either may answer.
A miss it leaves open, as the code does: `(uint8_t)-1` is 255 and never equals -1, so an entry behind the table is
used. `ImplementsTlb` is the refinement; `MissesRefill` says what the comment says of a miss, and is refuted.

### v2.0: the process

`VMachine` has `main` as a list of operations still to do. The order in the list is the order of the calls in
`init`, `configure` and the devices' `*_init`; every operation is an action with its ways to fail: a log that cannot be
opened (ignored, and the first line that is written follows NULL), memory that is not given, a ROM that is missing or
too large, or of which `fread` gives less than its size and nobody looks. `vclock_start` never returns. From then on the
machine is `read_clock` and `flip_edge`, two steps because the thread may lose the processor between `vclock.c:61` and `:62`;
`event_notified` (the handlers have run; sleep, go on, or end because `nanosleep` refuses) or `handler_ends` (a word of the guest ends
the process: `vcpu.c:248`, a null executer, a cache without data); and `wake`. There are three clocks: time since
the clock was last read, the same on the wall clock, which anyone may set (`SetWallClock`), and time since the last
rising edge. All times are in units of which `SECOND` are a second.

`DeviceTable` has `device_table_add` one statement at a time, because it takes no mutex, and the two look-ups one
entry at a time under theirs. Identifiers and counts wrap at `BYTE`. `device_table_read_id` compares the entry
behind the last one, whatever entry it is at. Both programs register from `main` and look nothing up yet; the
model has one registering thread and any number of readers.

### v1.0

`VMemoryBus` is `vmemorybus.c` as operators over a bus record: a stack of packets with `next`, the bit
`unit_used`, and `locked` for the return path that forgets the mutex. Each access is one step, since it touches nothing but
its bus under the bus's mutex. The capacity check is the code's: bytes compared with packets, so slots up to
`BUFFER_SIZE` can be written though only `ITEM_NUM` exist.

`VM1` composes the buses with the vCPU thread (`cpu`: fetch, fetching, execute, loading, halted; its
registers) and the memory thread (`mem`: poll, process; the packet in hand). `fetch_instruction` and
`vcpu_insn_ldr` write a READ and wait in "fetching" or "loading"; `vcpu_insn_str` goes on at once. A
request that is refused is ignored by the callers, as in the code: the old `MDR` is used. The decoder
functions are folded into the executers, since they only write local operands. A write
behind the buffer is undefined in C: the model either lets it hit nothing or ends in "corrupt".

`VM1Docs` states what the README and the bus's error message promise.

`VM1Life` leaves the buses to `VM1` and has what the process shares besides: the file and the mutex of each log,
`device_running`, the interrupt event with its mutex and subscribers. `main` is again a list of operations, with the
devices initialised in any of the orders of `Orders` (the program has one; nothing in the code depends on it, and that is
checked). A thread is followed from log call to log call. A log call takes the log's mutex and writes; `fclose` in
`logger_shutdown` takes no mutex and no thread is joined, so a thread may write to a closed
file. That is undefined: the bytes are lost, or the process dies. `interrupt_event_trigger` runs the handlers, and
writes a line into each subscriber's log, under the event's mutex.

### Event table

`EventTable` has the list as a sequence of nodes, the mutex, and for each thread its call, where it is in it,
the code it was given and the subscriptions its notification has yet to walk. What runs between lock and unlock is one
step, except where the code shows an intermediate state: the root before it has its name (visible to
`event_remove`, which looks without the mutex), the two such looks (`peek`, `compare`), and the handlers, which
run under the mutex. A handler in `Reentrant` calls the table and waits for its own thread. Following NULL
is a crash. v1.0 has the same file but for `events_shutdown`.

In today's v2.0 only the main thread calls the table (create and subscribe in `configure`, notify in
`flip_edge`); the file is written for more, so the model has any set of threads and any calls, and a
configuration chooses. `EventRegistry` has two promises to callers. `Registry` is what the comments of `events.c` say: each
call takes effect at one instant and returns the code listed for what it found. `SharedRegistry` is weaker in one point: a removal
that returns 0 may have cost another event its place. The table implements the second and not the first, because two
removals of one root take two events.

## 3. Runs

| Run | Instance | Shows |
|---|---|---|
| `MCVCpu` | 4-valued bytes (8-bit words), 3 registers, RAM of 35 bytes; between a set-up and a jump back all programs of 2 words out of 18 and of 3 out of 8; 38,633 states | types, register-file bounds; the pipeline implements `MipsISA`, with and without fairness; fetched instructions are executed |
| `MemoryMap` | all 256 × 256 pairs of words | the uncached window is one-to-one and inside the RAM; a stored word is read back and nothing else changes |
| `MCVM1` | 8 bytes of memory, 2 registers, buses of 2 packets (refusal from the sixth), 6 programs; about 510,000 states | one outstanding request, empty reads, nothing but the reply's mutex to wait for, stores survive a halt |
| `MCEventTable` | 2 threads, both create and remove; 2 events, 2 handlers of which one re-enters; about 542,000 states | types, mutex, uniqueness, walks; the table implements `SharedRegistry`; the mutex comes back |
| `MCVTlb` | 3 entries, 4 tags, 2 frames, any kernel; about 448,000 states | look-ups stay inside the table; the TLB implements `TlbPromise` |
| `DeviceTable` | 2 readers, a table of 3 with 3 identifiers, 2 types; 467,627 states | look-ups are snapshots, identifiers are unique, the mutex comes back |
| `VMachine` | 6 units to the second, ROMs that are empty, fit exactly and are too large, and what a short read leaves of them; 30,940 states | what can end the machine; the first edge finds all in place; rising edges keep their distance and all go on |
| `MCVM1Life` | the process with its devices initialised in all six orders; 31,001 states | logs are open while used, one writer each; interrupts reach the vCPU; shutdown ends |

`MCLoadsSeeStores`, `MCBufferLimitKept`, `MCMissesRefill` and `MCEventRaces` expect a violation; see *Disagreements* below.

Why the bounds suffice. The pipeline is five deep and its hazards involve an instruction and its at most two
followers: set-up, the free words and the jump back bring every pair of instruction kinds into
adjacent stages, and every triple of eight of them: a sum, an addition of a constant, a load of either kind, a store that
overwrites the program, a branch and two that link. 8-bit words still wrap, have eight segments, and
make the top of a segment meet the next one. A two-packet bus shows reordering, the byte/packet confusion and
refusal; more packets only repeat it. The event list needs a root, a node behind it and a third party, which
two events, nodes unlinked and re-created by two threads, give. Four tags for three entries make pages lose their
place, a tag fill the table, and two entries of one tag stand with a third; tags differ in the page alone and in the address
space alone, and a global and a clean page are among those written. A device table as large as its identifiers has the wrap of the identifier at its last entry, the wrap of the count
(a table full of one type) and the comparison behind its end; two readers compete for the mutex while a third
thread registers. Six units to the second make half a period three: shorter, equal and longer handlers occur,
and `LONG`, the bound of the time counters, is beyond a second, so that a wall clock set back asks for delays that
`nanosleep` accepts and one it refuses. `VM1Life` is not bounded except by `HANDLERS_SIZE` and `HANDLER_SIZE`, which are the
program's. The proofs below remove the bounds for the invariants and for the refinements of the pipeline, the TLB and the event table.

`CHECK_DEADLOCK FALSE` stands where the system really stops: the v1.0 machine after a halt or a leaked lock,
the event table after a crash or a re-entrant handler, `VMachine` and `VM1Life` when the process has ended. The
pipeline, the TLB and the device table are checked for deadlock; the pipeline's ended process stutters.

**Fairness.** `VCpu`: `WF(Next)`, because one thread runs `vclock_start`'s endless loop and each call in it
returns. `VM1`: weak fairness of the vCPU's thread and of the memory thread where it polls or stores: the mutex of IN, and that of
OUT for the vCPU, is left free by the other thread for a second after each use. The reply has no fairness: while the memory thread
waits for OUT, the vCPU locks it again and again without a sleep (`vmemory_controller.c:53`), and glibc's mutex is not fair. Hence no
property says that a request is answered; `OnlyTheReplyMayWait` says that nothing else can hold an answer up. `EventTable`:
weak fairness of each thread's progress inside a call only; glibc's mutex is not fair, hence no property says
that a particular thread gets it, and nothing makes a thread start a call. `DeviceTable`: weak fairness of a look-up
that has the mutex; nothing makes a thread call or register. `VMachine`: weak fairness of `main`, of the clock's loop
and of time; nobody has to set the wall clock, and setting it for ever stops nothing. `VM1Life`: weak fairness of
`main`, of the clock and of a write in progress, and strong fairness of taking a log's mutex: every thread sleeps a second or
more per round without one, so a waiting thread finds it free again and again and for long. The key need not be pressed. `VTlb` has no
liveness.

**Disagreements found.** Four runs each refute one sentence of the repository by an interleaving or a count that is
hard to see in the code; `findings` quotes them.

| Run | The sentence | The code |
|---|---|---|
| `MCLoadsSeeStores` | LDR reads the word that STR stored at an address (v1.0 README) | the bus is a stack |
| `MCBufferLimitKept` | packets beyond the buffer are refused (`vmemorybus.c:58`) | only far beyond it |
| `MCMissesRefill` | a missing entry is signalled as a TLB refill exception (`vtlb.c:44`) | `(uint8_t)-1` is never -1; memory behind the table translates |
| `MCEventRaces` | `event_remove` removes the event named and returns 0 if it was found (`events.c:84`, `:86`) | compared before the mutex is taken: the second of two removals of the root takes the next event and returns 0 |

`MCEventRaces` leaves out, by a constraint, that a root without a name is compared, which reads what `malloc` left and would be
a violation of its own.

The others can be read off the code once it is written down as the modules write it, and have no run:

* v2.0 vCPU. No stall is inserted for a read after a write (README:148 has them), and a branch has two delay slots where
  `vcpu.c:400` says one: both are what `MipsISA`'s `late` and `queue` are for. JAL links in the register numbered by
  `$ra`'s contents (`vcpu.c:408`). `$0` is writable though hardwired by the README; a BEQ's target is 0 and not
  pc + 4 + 4·offset (`vcpu.c:389`); J and JAL go to 0 or 1 and not to the region joined with the address
  (`vcpu.c:398`); a cacheable store vanishes where the README has write-through.
* v2.0 memory. kuseg is moved by 1 MB where `mapping.c:20` says 1 GB.
* v2.0 vClock. The period is an integer division of 1 by the frequency: above 1 Hz there is no delay
  at all (`vclock.c:34`). The delay is reckoned from before the edge (`vclock.c:61`), so that a thread preempted there leaves
  less than half a period between two edges, and less than a period in a cycle (README:29); half a period between two rising edges is kept.
* v2.0 loader. What `fread` gives of the ROM is not looked at (`loader.c:105`).
* v1.0 buses. Of two stores to one address the earlier one lasts. A refused packet leaves the mutex locked
  (`vmemorybus.c:59`), and after a refused fetch the vCPU executes the old MDR (`vcpu.c:171`).
* event table. Removing a missing event follows NULL where `events.c:88` promises a 2 (`remove_follows_null`); a handler that
  calls the table never returns and nobody gets the mutex again (`events.c:188`).
* device table. `device_table_read_id` compares the entry behind the last one (`device_table.c:49`), so that it finds no
  device that is registered; it may give one that is half registered, or anything if the table is full. `device_table_read_type`
  reports none of 256 devices of one type, because its count is a `uint8_t` (`device_table.c:63`).

## 4. Proofs

Everything is proved for all values of the constants under the named `ASSUME`s of the modules: bytes of an
even number of values above one, a RAM that holds the uncached segment, at least one register and no more
than a byte can number, word 0 is NOP, the reset vector uncached (v2.0); bus sizes and memory size not zero, instructions that
name existing registers (v1.0); the free mutex is no thread and "no name" is no event's name (events); at most 255 TLB entries; no more devices than
identifiers; a second of at least one unit and a frequency of at least 1; for v1.0's process, a table that holds one handler and orders in
which each device is initialised once.

* `VCpuProofs`: the inductive invariant is `TypeOK /\ FetchedUncached /\ LostLinkJumpsAway`. `WritesInsideGprs`
  is not inductive: JAL makes a destination outside the register file whenever register 31 holds a large byte.
  What saves the machine is that the same JAL jumps to a cacheable address, whose fetch ends the process before
  the write-back; `LostLinkJumpsAway` follows this from `EX_MEM` to `MEM_WB`, and it needs `TypeOK` for the jump target.
  `PipelineImplementsISA` is the refinement. Initial states map to initial states, four
  stages and the clock are stutters (`Stutters`), `alu_pipestage` is the step (`AluIsStep`), a fault is the
  machine's stop (`FaultsStop`). A lemma, `HandOverHolds`, supplies what a stage may assume of its predecessor.
* `MemoryMapProofs`: bounds of words, shifts, reads and writes by nonlinear arithmetic in small steps;
  `SegmentsExhaustWords`: the four segments partition the addresses, so `address_translation`'s last branch
  is dead; `UncachedWindow` and `StoresAreLoaded`, for every base. Division by a product is division twice
  (`QuotientOfQuotient`), so the four bytes that are stored are the digits of the word (`FourDigits`).
* `VM1Proofs`: the inductive invariant is `TypeOK /\ BusesKeepShape /\ OneRequest`; `OneRequest` says where the one
  request is, which is what makes the untagged replies safe.
* `EventTableProofs`: `TypeOK /\ HeldWhileNeeded /\ RootAlone /\ EachOnce /\ WalksALiveList`. `RootAlone` (while it has no name a
  root is alone in the table) is needed where a root is named while others look on. Lemmas say what removing, appending and
  replacing do to a duplicate-free sequence. `TableImplementsRegistry` is about any threads and any calls. It adds two
  invariants: a thread's place tells its call (`OpsInPlace`), and a root is blank until it is named (`RootBlank`). Then
  `RegistryOf` says what the registry of a list becomes when a node is appended, taken out or given other
  subscriptions, and each action is one step of `SharedRegistry` or a stutter. `remove_root` takes out whatever is the
  root by then; since the mutex is free, that root has a name, and the step is a removal of its event.
* `VTlbProofs`: `TypeOK` is inductive, and it is all that `TlbImplementsTable` needs: nothing is assumed of the kernel. The entries are
  mapped to the set of their contents. A write is `Install`, where the one page that may vanish is the one whose entry is written
  over, unless its twin stays; the last match of `vtlb_translate` is one of the set's hits; the first match of `vtlb_lookup` exists
  if any page has the tag.
* `VMachineProofs`: `ClockInv` relates the clocks while nobody has set one: since it was read, the wall clock shows the real time up to
  `LONG`; the time yet to sleep plus that time make at least half a period; and from a rise on (`Falling`) the clock is read for the fall after it.
  So a rise is half a period after the reading for the fall before it, which is after the rise before that: `HalfASecondApart` is
  `CyclesKeepDistance` at 1 Hz, for every number of units to the second. `ClockEnds` says that `nanosleep` is asked for a second or more only
  after the wall clock was set, for every 8-bit frequency. `BootInv` follows `main`: what is left to do is the end of its
  list (`BootOrder`), and what the operations before it have brought up is there (`Brought`), unless one of them failed. From these
  follow `TheMachineIsFound`, `TypeCorrect` and `HostOrGuestEndsIt`.
* `VM1LifeProofs`: none of the three invariants of `VM1Life` is inductive by itself, for whether a log is open depends on how far `main` is.
  `Placed` says what the lists of all orders have in common: where each log is opened and first used, that the threads start in
  operations 12, 14 and 16 and the key is operation 17; `MainIsPlaced` shows it of each order. `Life` is inductive: after `p`
  operations a log that was opened and used is open (or `main` is at its first line), no thread of a later operation is born, nothing but the vCPU
  has subscribed. One part only the proof asked for: a clock at `call` still has the handler it calls on its list. Without
  it `handle_interrupts` could take the tail of an empty list.
* `DeviceTableProofs`: `TypeOK /\ IdsInOrder /\ \A r : WalkHolds(r)`. `IdsInOrder` says which identifier every entry
  has and what is next, which makes them unique in spite of the wrap. `WalkHolds` is what a reader may
  rely on while entries appear: what it found are the entries of its type below where it is, its count is theirs
  modulo `BYTE`, and it stays inside the table. A step of a reader disturbs only its own conjuncts, a registration none, because it
  changes no entry below `next`; each of these is a lemma.

**Only model-checked**: the liveness properties (`FetchedIsExecuted`, `OnlyTheReplyMayWait`,
`HaltDrainsTheBus`, the two `MutexComesBack`, `InterruptsAreHandled`, `ShutdownEnds`, `EdgesGoOn`) and `ImplementsFairISA`, because fairness and
ENABLED are out of the prover's reach. Every other property of a passing run is stated by a theorem.

## 5. Not modelled, and what is left

* **vCache's search** (`vcache.c`): `vcache_init` has no caller and nothing ever fills a line, so no search of a cache with
  lines runs. What an uninitialised cache does to the vCPU is modelled, in `Insns`.
* **vSysBus** (`v1/vsysbus`): no device and no thread calls it, `vsysbus_init` included, so it has no reachable state; and
  `vsysbus_read` shifts its packets by `*(current) = *(++current)`, which is unsequenced and fixes no behaviour to translate.
* **`loader_load_elf32`**: no caller; it is sequential and its result is the file's. `loader_flash_rom` is modelled.
* **byte accesses of vMemory**: no caller.
* **shutdown of v2.0**: `vclock_start` never returns.
* **kuseg's wrong offset** is in `AddressMap`, but nothing reaches the RAM through kuseg, which is cached: no property can see it.
* **a signal that interrupts `nanosleep`**: neither program installs a handler, so none does.
* Left out for good: the text of the logs, the command line, `device_table_dump`, the SDK's guest programs (data to the
  machine), the shared-library exercise in `library/`, the register numbers of vCP0, and the bit positions of the
  instruction fields.

What could still be added: an architectural instruction set `SeqISA` with neither late registers nor two
delay slots, and the class of programs (two instructions between a write and its use, two NOPs behind a branch)
for which `MipsISA` implements it.
