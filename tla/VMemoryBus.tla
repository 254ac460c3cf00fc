----------------------------- MODULE VMemoryBus -----------------------------
(***************************************************************************)
(* The two buses of MIPS-vm v1.0 (vmemory/vmemorybus.c) between the vCPU's  *)
(* memory controller and the memory thread.  A bus is an array of packets   *)
(* with a pointer to the next free slot: what was written last is read      *)
(* first.  Whether a bus is empty is never asked; an empty read returns the *)
(* first slot, whose unit_used bit tells that nothing is there.             *)
(*                                                                          *)
(* A mutex protects each bus.  A critical section touches nothing but its   *)
(* bus and is one step here; locked means that a thread has left one        *)
(* without unlocking the mutex.                                             *)
(***************************************************************************)
EXTENDS Integers

CONSTANTS ITEM_NUM,       \* vMEMORYBUS_BUFFER_ITEM_NUM, 10 in the program
          PACKET_SIZE,    \* sizeof(vMEMORYBUS_PACKETS_t), 3 in the program
          PAGES           \* the values of a byte: 256 in the program

ASSUME BusAssumption == /\ ITEM_NUM \in Nat \ {0}
                        /\ PACKET_SIZE \in Nat \ {0}
                        /\ PAGES \in Nat \ {0}

Value == 0 .. PAGES - 1

Packet == [used : BOOLEAN, op : {"READ", "WRITE"}, access : Value, data : Value]

NoPacket == [used |-> FALSE, op |-> "WRITE", access |-> 0, data |-> 0]

(***************************************************************************)
(* BUFFER_SIZE is a number of bytes, but write compares it with a distance  *)
(* in packets: it refuses only when next is beyond slot BUFFER_SIZE, and    *)
(* the slots from ITEM_NUM to BUFFER_SIZE lie behind the allocated buffer.  *)
(***************************************************************************)
BUFFER_SIZE == ITEM_NUM * PACKET_SIZE

Slot == 0 .. BUFFER_SIZE

Bus == [slots : [Slot -> Packet], next : 0 .. BUFFER_SIZE + 1, locked : BOOLEAN]

EmptyBus == [slots |-> [i \in Slot |-> NoPacket], next |-> 0, locked |-> FALSE]

Refuses(bus) == bus.next > BUFFER_SIZE

\* The next write is outside the buffer and not refused.
Overflows(bus) == bus.next >= ITEM_NUM /\ ~Refuses(bus)

(***************************************************************************)
(* vmemorybus_write_in and _out.  The refusing return leaves the mutex      *)
(* locked.  The slots behind the buffer are taken to be there (what else    *)
(* may become of such a write is the caller's matter).                      *)
(***************************************************************************)
WriteBus(bus, p) ==
    IF Refuses(bus) THEN [bus EXCEPT !.locked = TRUE]
    ELSE [bus EXCEPT !.slots[bus.next] = p, !.next = bus.next + 1]

(***************************************************************************)
(* vmemorybus_read_in and _out: the packet read and the bus left behind.    *)
(***************************************************************************)
Top(bus) == IF bus.next # 0 THEN bus.next - 1 ELSE 0

ReadPacketCleared(bus) ==        \* slip: unit_used is cleared before the copy
    [bus.slots[Top(bus)] EXCEPT !.used = FALSE]

ReadPacket(bus) == bus.slots[Top(bus)]

ReadBusUncleared(bus) ==         \* slip: unit_used is never cleared
    [bus EXCEPT !.next = Top(bus)]

ReadBus(bus) ==
    [bus EXCEPT !.slots = [@ EXCEPT ![Top(bus)].used = FALSE], !.next = Top(bus)]

(***************************************************************************)
(* The packets of a bus that wait to be read.                               *)
(***************************************************************************)
Waiting(bus) == {i \in Slot : i < bus.next /\ bus.slots[i].used}

(***************************************************************************)
(* The bit unit_used and the pointer next agree: what lies below next is    *)
(* used, what lies above is not, so that an empty bus reads as unused.      *)
(***************************************************************************)
BusShape(bus) == \A i \in Slot : bus.slots[i].used <=> i < bus.next
=============================================================================
