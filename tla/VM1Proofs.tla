----------------------------- MODULE VM1Proofs -----------------------------
(***************************************************************************)
(* What holds of the v1.0 machine for every size of its buses and memory,   *)
(* every instruction set and every program.                                 *)
(***************************************************************************)
EXTENDS VM1, TLAPS

(***************************************************************************)
(* The sizes of a bus.                                                      *)
(***************************************************************************)
LEMMA Sizes == /\ BUFFER_SIZE \in Nat \ {0}
               /\ 0 \in Value /\ 0 \in Slot
               /\ NoPacket \in Packet
<1>1. /\ ITEM_NUM \in Nat /\ ITEM_NUM > 0
      /\ PACKET_SIZE \in Nat /\ PACKET_SIZE > 0
      /\ PAGES \in Nat /\ PAGES > 0
  BY BusAssumption, SMT
<1>2. \A m, n \in Nat : m > 0 /\ n > 0 => m * n \in Nat /\ m * n > 0
  BY Z3
<1>3. BUFFER_SIZE \in Nat /\ BUFFER_SIZE > 0
  BY <1>1, <1>2, Zenon DEF BUFFER_SIZE
<1> QED
  BY <1>1, <1>3, SMT DEF Value, Slot, NoPacket, Packet

(***************************************************************************)
(* An empty bus, with nothing in it.                                        *)
(***************************************************************************)
LEMMA EmptyBusIsBus == EmptyBus \in Bus /\ BusShape(EmptyBus) /\ EmptyBus.next = 0
<1>1. 0 \in 0 .. BUFFER_SIZE + 1
  BY Sizes, SMT
<1>2. EmptyBus \in Bus
  BY Sizes, <1>1, SMT DEF EmptyBus, Bus
<1>3. BusShape(EmptyBus)
  BY Sizes, SMT DEF EmptyBus, BusShape, NoPacket, Slot
<1> QED
  BY <1>2, <1>3 DEF EmptyBus

(***************************************************************************)
(* A write of a used packet keeps the shape of a bus; the packet is on top, *)
(* the others are where they were.                                          *)
(***************************************************************************)
LEMMA WriteBusKeeps ==
    ASSUME NEW bus \in Bus, BusShape(bus), NEW p \in Packet, p.used
    PROVE  /\ WriteBus(bus, p) \in Bus
           /\ BusShape(WriteBus(bus, p))
           /\ Refuses(bus) => /\ WriteBus(bus, p).next = bus.next
                              /\ WriteBus(bus, p).slots = bus.slots
           /\ ~Refuses(bus) => /\ WriteBus(bus, p).next = bus.next + 1
                               /\ bus.next \in Slot
                               /\ WriteBus(bus, p).slots[bus.next] = p
                               /\ \A i \in Slot \ {bus.next} :
                                      WriteBus(bus, p).slots[i] = bus.slots[i]
<1>1. /\ bus.slots \in [Slot -> Packet] /\ bus.next \in Nat
      /\ bus.next <= BUFFER_SIZE + 1 /\ bus.locked \in BOOLEAN
  BY Sizes, SMT DEF Bus
<1>2. CASE Refuses(bus)
  <2> DEFINE b == [slots |-> bus.slots, next |-> bus.next, locked |-> TRUE]
  <2>1. WriteBus(bus, p) = b
    BY <1>2 DEF WriteBus, Bus
  <2>2. b \in Bus /\ BusShape(b)
    BY <1>1, Sizes, SMT DEF Bus, BusShape
  <2> QED
    BY <1>2, <2>1, <2>2
<1>3. CASE ~Refuses(bus)
  <2> DEFINE s == [bus.slots EXCEPT ![bus.next] = p]
             b == [slots |-> s, next |-> bus.next + 1, locked |-> bus.locked]
  <2>1. WriteBus(bus, p) = b
    BY <1>3 DEF WriteBus, Bus
  <2>2. bus.next \in Slot /\ bus.next + 1 \in 0 .. BUFFER_SIZE + 1
    BY <1>1, <1>3, Sizes, SMT DEF Refuses, Slot
  <2>3. /\ s \in [Slot -> Packet] /\ s[bus.next] = p
        /\ \A i \in Slot \ {bus.next} : s[i] = bus.slots[i]
    BY <1>1, <2>2
  <2>4. b \in Bus
    BY <1>1, <2>2, <2>3, SMT DEF Bus
  <2>5. BusShape(b)
    <3> SUFFICES ASSUME NEW i \in Slot
                 PROVE  s[i].used <=> i < bus.next + 1
      BY DEF BusShape
    <3>1. bus.slots[i].used <=> i < bus.next
      BY DEF BusShape
    <3> QED
      BY <1>1, <2>2, <2>3, <3>1, Sizes, SMT DEF Slot
  <2> QED
    BY <1>3, <2>1, <2>2, <2>3, <2>4, <2>5
<1> QED
  BY <1>2, <1>3

(***************************************************************************)
(* A read that finds a packet takes the top one; the others stay.           *)
(***************************************************************************)
LEMMA ReadBusKeeps ==
    ASSUME NEW bus \in Bus, BusShape(bus), ReadPacket(bus).used
    PROVE  /\ ReadBus(bus) \in Bus
           /\ BusShape(ReadBus(bus))
           /\ bus.next > 0 /\ ReadBus(bus).next = bus.next - 1
           /\ bus.next - 1 \in Slot
           /\ ReadPacket(bus) = bus.slots[bus.next - 1]
           /\ ReadPacket(bus) \in Packet
           /\ \A i \in Slot : i < bus.next - 1 => ReadBus(bus).slots[i] = bus.slots[i]
<1>1. /\ bus.slots \in [Slot -> Packet] /\ bus.next \in Nat
      /\ bus.next <= BUFFER_SIZE + 1 /\ bus.locked \in BOOLEAN
  BY Sizes, SMT DEF Bus
<1>2. bus.next > 0
  <2>1. bus.next = 0 => ~bus.slots[0].used
    BY Sizes, SMT DEF BusShape
  <2> QED
    BY <1>1, <2>1, SMT DEF ReadPacket, Top
<1>3. Top(bus) = bus.next - 1 /\ Top(bus) \in Slot /\ Top(bus) \in 0 .. BUFFER_SIZE + 1
  BY <1>1, <1>2, Sizes, SMT DEF Top, Slot
<1> DEFINE s == [bus.slots EXCEPT ![Top(bus)].used = FALSE]
           q == [bus.slots[Top(bus)] EXCEPT !.used = FALSE]
           b == [bus EXCEPT !.slots = s, !.next = Top(bus)]
<1>4. ReadBus(bus) = b
  BY Zenon DEF ReadBus
<1>5. ReadPacket(bus) = bus.slots[bus.next - 1] /\ ReadPacket(bus) \in Packet
  BY <1>1, <1>3 DEF ReadPacket
<1>6. q \in Packet /\ ~q.used
  <2>1. bus.slots[Top(bus)] \in Packet
    BY <1>1, <1>3
  <2> QED
    BY <2>1 DEF Packet
<1>7. /\ s \in [Slot -> Packet] /\ ~s[Top(bus)].used
      /\ \A i \in Slot \ {Top(bus)} : s[i] = bus.slots[i]
  <2>1. s = [bus.slots EXCEPT ![Top(bus)] = q]
    OBVIOUS
  <2> QED
    BY <1>1, <1>3, <1>6, <2>1
<1>8. b \in Bus /\ b.slots = s /\ b.next = Top(bus)
  <2> HIDE DEF s
  <2> QED
    BY <1>3, <1>7 DEF Bus
<1>9. BusShape(b)
  <2> SUFFICES ASSUME NEW i \in Slot
               PROVE  s[i].used <=> i < Top(bus)
    BY <1>8 DEF BusShape
  <2>1. bus.slots[i].used <=> i < bus.next
    BY DEF BusShape
  <2> QED
    BY <1>1, <1>3, <1>7, <2>1, Sizes, SMT DEF Slot
<1>10. \A i \in Slot : i < bus.next - 1 => s[i] = bus.slots[i]
  BY <1>1, <1>3, <1>7, Sizes, SMT DEF Slot
<1> QED
  BY <1>2, <1>3, <1>4, <1>5, <1>8, <1>9, <1>10

(***************************************************************************)
(* Numbers wrap into a byte.                                                *)
(***************************************************************************)
LEMMA Wraps == \A n \in Nat : n % PAGES \in Value
<1>1. PAGES \in Nat /\ PAGES > 0
  BY BusAssumption, SMT
<1> QED
  BY <1>1, SMT DEF Value

(***************************************************************************)
(* The packets the program writes are used packets.                         *)
(***************************************************************************)
LEMMA PacketsWritten ==
    /\ \A a \in Value : /\ ReadRequest(a) \in Packet /\ ReadRequest(a).used
                        /\ ReadRequest(a).op = "READ" /\ ReadRequest(a).access = a
    /\ \A a, d \in Value : /\ WriteRequest(a, d) \in Packet /\ WriteRequest(a, d).used
                           /\ WriteRequest(a, d).op = "WRITE"
    /\ \A d \in Value : Reply(d) \in Packet /\ Reply(d).used
BY Sizes, SMT DEF ReadRequest, WriteRequest, Reply, Packet

LEMMA Operands == \A b \in Value : InsnOf[b].dest \in Gpr /\ InsnOf[b].src \in Gpr
BY InsnAssumption

(***************************************************************************)
(* The inductive invariant.  OneRequest needs the shape of the buses: an    *)
(* empty OUT must read as empty, or the vCPU would take an old packet for   *)
(* its reply.                                                               *)
(***************************************************************************)
IInv == TypeOK /\ BusesKeepShape /\ OneRequest

LEMMA Initially == Init => IInv
<1> SUFFICES ASSUME Init PROVE IInv
  OBVIOUS
<1>1. in = EmptyBus /\ out = EmptyBus /\ in.next = 0 /\ out.next = 0
  BY EmptyBusIsBus DEF Init
<1>2. TypeOK
  BY <1>1, EmptyBusIsBus, Sizes, ImagesAssumption DEF Init, TypeOK
<1>3. BusesKeepShape
  BY <1>1, EmptyBusIsBus DEF BusesKeepShape
<1>4. \A i \in Slot : ~RequestAt(i)
  BY <1>1, Sizes, SMT DEF RequestAt, Waiting, Slot
<1>5. OneRequest
  BY <1>1, <1>4, SMT DEF Init, OneRequest, There, InHand, Back, Polling
<1> QED
  BY <1>2, <1>3, <1>5 DEF IInv

(***************************************************************************)
(* The writes of the vCPU to IN.                                            *)
(***************************************************************************)
LEMMA ReadRequested ==
    ASSUME IInv, NEW a \in Value,
           ~Polling, MAR' = a, in' = WriteBus(in, ReadRequest(a)),
           ~Refuses(in) => Polling', Refuses(in) => ~Polling',
           UNCHANGED <<out, memVars>>
    PROVE  in' \in Bus /\ BusesKeepShape' /\ OneRequest'
<1> DEFINE p == ReadRequest(a)
<1>1. /\ in \in Bus /\ BusShape(in) /\ p \in Packet /\ p.used
      /\ p.op = "READ" /\ p.access = a
  BY PacketsWritten DEF IInv, TypeOK, BusesKeepShape
<1>2. ~There /\ ~InHand /\ ~Back
  BY DEF IInv, OneRequest
<1>3. in' \in Bus /\ BusShape(in')
  BY <1>1, WriteBusKeeps
<1>4. BusesKeepShape'
  BY <1>3 DEF IInv, BusesKeepShape
<1>5. CASE Refuses(in)
  <2>1. in'.next = in.next /\ in'.slots = in.slots
    BY <1>1, <1>5, WriteBusKeeps
  <2>2. ~There'
    BY <1>2, <2>1 DEF There, RequestAt, Waiting
  <2> QED
    BY <1>2, <1>3, <1>4, <1>5, <2>2 DEF OneRequest, There, InHand, Back, memVars, IInv
<1>6. CASE ~Refuses(in)
  <2>1. /\ in'.next = in.next + 1 /\ in.next \in Slot /\ in'.slots[in.next] = p
        /\ \A i \in Slot \ {in.next} : in'.slots[i] = in.slots[i]
    BY <1>1, <1>6, WriteBusKeeps
  <2>2. in.next \in Nat
    BY <1>1, <2>1, Sizes, SMT DEF Slot
  <2>3. \A i \in Slot : RequestAt(i)' => i = in.next
    <3> SUFFICES ASSUME NEW i \in Slot, RequestAt(i)', i # in.next
                 PROVE  FALSE
      OBVIOUS
    <3>1. i < in.next /\ in.slots[i].used /\ in.slots[i].op = "READ"
      BY <2>1, <2>2, Sizes, SMT DEF RequestAt, Waiting, Slot
    <3> QED
      BY <1>2, <3>1 DEF There, RequestAt, Waiting
  <2>4. \A n \in Slot : n = in.next => RequestAt(n)'
    <3> SUFFICES ASSUME NEW n \in Slot, n = in.next
                 PROVE  RequestAt(n)'
      OBVIOUS
    <3>1. n < in'.next
      BY <2>1, <2>2, SMT
    <3>2. in'.slots[n].used /\ in'.slots[n].op = "READ"
      BY <1>1, <2>1
    <3> QED
      BY <3>1, <3>2 DEF RequestAt, Waiting
  <2>5. There'
    BY <2>1, <2>4 DEF There
  <2>6. in'.next - 1 = in.next /\ in'.slots[in.next].access = MAR'
    BY <1>1, <2>1, <2>2, SMT
  <2>7. ~InHand' /\ ~Back' /\ out'.next <= 1
    BY <1>2 DEF InHand, Back, memVars, IInv, OneRequest
  <2> QED
    BY <1>3, <1>4, <1>6, <2>3, <2>5, <2>6, <2>7 DEF OneRequest
<1> QED
  BY <1>5, <1>6

LEMMA WriteRequested ==
    ASSUME IInv, NEW a \in Value, NEW d \in Value,
           ~Polling, in' = WriteBus(in, WriteRequest(a, d)),
           ~Polling', UNCHANGED <<out, memVars>>
    PROVE  in' \in Bus /\ BusesKeepShape' /\ OneRequest'
<1> DEFINE p == WriteRequest(a, d)
<1>1. in \in Bus /\ BusShape(in) /\ p \in Packet /\ p.used /\ p.op = "WRITE"
  BY PacketsWritten DEF IInv, TypeOK, BusesKeepShape
<1>2. ~There /\ ~InHand /\ ~Back
  BY DEF IInv, OneRequest
<1>3. in' \in Bus /\ BusShape(in')
  BY <1>1, WriteBusKeeps
<1>4. BusesKeepShape'
  BY <1>3 DEF IInv, BusesKeepShape
<1>5. \A i \in Slot : ~RequestAt(i)'
  <2> SUFFICES ASSUME NEW i \in Slot, RequestAt(i)'
               PROVE  RequestAt(i)
    BY <1>2 DEF There
  <2>1. CASE Refuses(in)
    BY <1>1, <2>1, WriteBusKeeps DEF RequestAt, Waiting
  <2>2. CASE ~Refuses(in)
    <3>1. /\ in'.next = in.next + 1 /\ in.next \in Slot /\ in'.slots[in.next] = p
          /\ \A j \in Slot \ {in.next} : in'.slots[j] = in.slots[j]
      BY <1>1, <2>2, WriteBusKeeps
    <3>2. i # in.next
      BY <1>1, <3>1 DEF RequestAt
    <3> QED
      BY <3>1, <3>2, Sizes, SMT DEF RequestAt, Waiting, Slot
  <2> QED
    BY <2>1, <2>2
<1>6. ~There' /\ ~InHand' /\ ~Back' /\ out'.next <= 1
  BY <1>2, <1>5 DEF There, InHand, Back, memVars, IInv, OneRequest
<1> QED
  BY <1>3, <1>4, <1>5, <1>6 DEF OneRequest

(***************************************************************************)
(* The reply comes back to the vCPU.                                        *)
(***************************************************************************)
LEMMA ReplyTaken ==
    ASSUME IInv, Polling, ReadPacket(out).used, out' = ReadBus(out),
           ~Polling', UNCHANGED <<in, MAR, memVars>>
    PROVE  /\ out' \in Bus /\ BusesKeepShape' /\ OneRequest'
           /\ ReadPacket(out).data \in Value
<1>1. out \in Bus /\ BusShape(in) /\ BusShape(out)
  BY DEF IInv, TypeOK, BusesKeepShape
<1>2. /\ out' \in Bus /\ BusShape(out')
      /\ out.next > 0 /\ out'.next = out.next - 1 /\ ReadPacket(out) \in Packet
  BY <1>1, ReadBusKeeps
<1>3. out.next \in Nat /\ out.next <= 1
  BY <1>1, Sizes, SMT DEF IInv, OneRequest, Bus
<1>4. out'.next = 0
  BY <1>2, <1>3, SMT
<1>5. ~There /\ ~InHand
  BY <1>2, <1>3, SMT DEF IInv, OneRequest, Back
<1>6. ~There' /\ ~InHand' /\ ~Back' /\ \A i \in Slot : ~RequestAt(i)'
  BY <1>4, <1>5 DEF There, RequestAt, InHand, Back, memVars
<1>7. OneRequest'
  BY <1>4, <1>6, SMT DEF OneRequest
<1>8. ReadPacket(out).data \in Value
  BY <1>2 DEF Packet
<1> QED
  BY <1>1, <1>2, <1>7, <1>8 DEF BusesKeepShape

(***************************************************************************)
(* Steps that touch none of the buses, nor whether the vCPU polls.          *)
(***************************************************************************)
LEMMA BusesUntouched ==
    ASSUME IInv, Polling' = Polling, MAR' = MAR, UNCHANGED <<in, out, mem, packets>>
    PROVE  in' \in Bus /\ out' \in Bus /\ BusesKeepShape' /\ OneRequest'
BY DEF IInv, TypeOK, BusesKeepShape, OneRequest, There, RequestAt, InHand, Back, Waiting

(***************************************************************************)
(* The steps of the vCPU.                                                   *)
(***************************************************************************)
LEMMA CpuKeeps == IInv /\ Cpu => IInv'
<1> SUFFICES ASSUME IInv, Cpu PROVE IInv'
  OBVIOUS
<1> USE DEF IInv, Running, CpuAt, Executes
<1>0. TypeOK
  OBVIOUS
<1>1. CASE fetch_instruction
  <2>1. PC \in Value /\ MDR \in Value /\ (PC + 1) % PAGES \in Value
    <3>1. PC \in Value /\ MDR \in Value
      BY DEF TypeOK
    <3> QED
      BY <3>1, Wraps, SMT DEF Value
  <2>2. ~Polling /\ (~Refuses(in) => Polling') /\ (Refuses(in) => ~Polling')
    BY <1>1 DEF fetch_instruction, InstructionIs, Polling
  <2>3. in' \in Bus /\ BusesKeepShape' /\ OneRequest'
    BY <1>1, <2>1, <2>2, ReadRequested DEF fetch_instruction
  <2>4. TypeOK'
    BY <1>1, <2>1, <2>3 DEF fetch_instruction, InstructionIs, TypeOK, memVars
  <2> QED
    BY <2>3, <2>4
<1>2. CASE instruction_arrives
  <2>1. Polling /\ ~Polling'
    BY <1>2 DEF instruction_arrives, InstructionIs, Polling
  <2>2. /\ out' \in Bus /\ BusesKeepShape' /\ OneRequest'
        /\ ReadPacket(out).data \in Value
    BY <1>2, <2>1, ReplyTaken DEF instruction_arrives
  <2>3. PC \in Nat
    BY SMT DEF TypeOK, Value
  <2>4. (PC + 1) % PAGES \in Value
    <3>1. PC + 1 \in Nat
      BY <2>3, SMT
    <3> QED
      BY <3>1, Wraps, Zenon
  <2>5. TypeOK'
    BY <1>2, <2>2, <2>4 DEF instruction_arrives, InstructionIs, TypeOK, memVars
  <2> QED
    BY <2>2, <2>5
<1>3. CASE data_arrives
  <2>1. Polling /\ ~Polling'
    BY <1>3 DEF data_arrives, Polling
  <2>2. /\ out' \in Bus /\ BusesKeepShape' /\ OneRequest'
        /\ ReadPacket(out).data \in Value
    BY <1>3, <2>1, ReplyTaken DEF data_arrives
  <2>3. regs' \in [Gpr -> Value]
    BY <1>3, <2>2 DEF data_arrives, TypeOK
  <2>4. TypeOK'
    BY <1>3, <2>2, <2>3 DEF data_arrives, TypeOK, memVars
  <2> QED
    BY <2>2, <2>4
<1>4. CASE vcpu_insn_alu
  <2>1. Dest \in Gpr /\ Src \in Gpr /\ regs[Dest] \in Nat /\ regs[Src] \in Value /\ regs[Src] \in Nat
    <3>1. Dest \in Gpr /\ Src \in Gpr /\ regs[Dest] \in Value /\ regs[Src] \in Value
      BY Operands DEF TypeOK, Dest, Src
    <3> QED
      BY <3>1, SMT DEF Value
  <2>2. (regs[Dest] + regs[Src]) % PAGES \in Value
    BY <2>1, Wraps, SMT
  <2>3. regs' \in [Gpr -> Value]
    BY <1>4, <2>1, <2>2 DEF vcpu_insn_alu, TypeOK
  <2>4. Polling' = Polling
    BY <1>4 DEF vcpu_insn_alu, Polling
  <2>5. in' \in Bus /\ out' \in Bus /\ BusesKeepShape' /\ OneRequest'
    BY <1>4, <2>4, BusesUntouched DEF vcpu_insn_alu, memVars
  <2>6. TypeOK'
    BY <1>4, <2>3, <2>5 DEF vcpu_insn_alu, TypeOK, memVars
  <2> QED
    BY <2>5, <2>6
<1>5. CASE vcpu_insn_ldr
  <2>1. Dest \in Gpr /\ regs[Src] \in Value /\ MDR \in Value
    BY Operands DEF TypeOK, Dest, Src
  <2>2. ~Polling /\ (~Refuses(in) => Polling') /\ (Refuses(in) => ~Polling')
    BY <1>5 DEF vcpu_insn_ldr, Polling
  <2>3. in' \in Bus /\ BusesKeepShape' /\ OneRequest'
    BY <1>5, <2>1, <2>2, ReadRequested DEF vcpu_insn_ldr
  <2>4. regs' \in [Gpr -> Value]
    BY <1>5, <2>1 DEF vcpu_insn_ldr, TypeOK
  <2>5. TypeOK'
    BY <1>5, <2>1, <2>3, <2>4 DEF vcpu_insn_ldr, TypeOK, memVars
  <2> QED
    BY <2>3, <2>5
<1>6. CASE vcpu_insn_str
  <2>1. regs[Src] \in Value /\ regs[Dest] \in Value
    BY Operands DEF TypeOK, Dest, Src
  <2>2. ~Polling /\ ~Polling'
    BY <1>6 DEF vcpu_insn_str, Polling
  <2>3. in' \in Bus /\ BusesKeepShape' /\ OneRequest'
    BY <1>6, <2>1, <2>2, WriteRequested DEF vcpu_insn_str
  <2>4. TypeOK'
    BY <1>6, <2>1, <2>3 DEF vcpu_insn_str, TypeOK, memVars
  <2> QED
    BY <2>3, <2>4
<1>7. CASE vcpu_insn_hlt
  <2>1. Polling' = Polling
    BY <1>7 DEF vcpu_insn_hlt, Polling
  <2>2. in' \in Bus /\ out' \in Bus /\ BusesKeepShape' /\ OneRequest'
    BY <1>7, <2>1, BusesUntouched DEF vcpu_insn_hlt, memVars
  <2>3. TypeOK'
    BY <1>7, <2>2 DEF vcpu_insn_hlt, TypeOK, memVars
  <2> QED
    BY <2>2, <2>3
<1>8. CASE null_decoder \/ heap_corrupted
  <2>1. /\ UNCHANGED <<in, out, cpuVars, memVars>>
        /\ status' \in {"crashed", "corrupt"}
    BY <1>8 DEF null_decoder, heap_corrupted, End
  <2>2. in' \in Bus /\ out' \in Bus /\ BusesKeepShape' /\ OneRequest'
    BY <2>1, BusesUntouched DEF cpuVars, memVars, Polling
  <2>3. TypeOK'
    BY <2>1, <2>2 DEF TypeOK, cpuVars, memVars
  <2> QED
    BY <2>2, <2>3
<1> QED
  BY <1>1, <1>2, <1>3, <1>4, <1>5, <1>6, <1>7, <1>8 DEF Cpu

(***************************************************************************)
(* The steps of the memory thread.                                          *)
(***************************************************************************)
LEMMA MemoryKeeps == IInv /\ MemoryThread => IInv'
<1> SUFFICES ASSUME IInv, MemoryThread PROVE IInv'
  OBVIOUS
<1> USE DEF IInv, Running, MemAt
<1>1. CASE poll_vmemorybus
  <2>1. in \in Bus /\ BusShape(in) /\ BusShape(out)
    BY DEF TypeOK, BusesKeepShape
  <2>2. /\ in' \in Bus /\ BusShape(in')
        /\ in.next > 0 /\ in'.next = in.next - 1 /\ in.next - 1 \in Slot
        /\ packets' = in.slots[in.next - 1] /\ packets' \in Packet
        /\ \A i \in Slot : i < in.next - 1 => in'.slots[i] = in.slots[i]
    BY <1>1, <2>1, ReadBusKeeps DEF poll_vmemorybus
  <2>3. BusesKeepShape'
    BY <1>1, <2>1, <2>2 DEF poll_vmemorybus, BusesKeepShape
  <2>4. TypeOK'
    BY <1>1, <2>2 DEF poll_vmemorybus, TypeOK, cpuVars
  <2>5. Polling' = Polling /\ MAR' = MAR /\ out' = out /\ ~InHand /\ mem' = "process"
    BY <1>1 DEF poll_vmemorybus, Polling, cpuVars, InHand
  <2>6. in.next \in Nat
    BY <2>1, Sizes, SMT DEF Bus
  <2>7. \A i \in Slot : ~RequestAt(i)'
    <3> SUFFICES ASSUME NEW i \in Slot, RequestAt(i)'
                 PROVE  FALSE
      OBVIOUS
    <3>1. i < in.next - 1 /\ in'.slots[i].op = "READ" /\ in'.slots[i].used
      BY <2>2 DEF RequestAt, Waiting
    <3>2. RequestAt(i)
      BY <2>2, <2>6, <3>1, Sizes, SMT DEF RequestAt, Waiting, Slot
    <3>3. i = in.next - 1
      BY <3>2 DEF OneRequest
    <3> QED
      BY <2>6, <3>1, <3>3, SMT
  <2>8. CASE packets'.op = "READ"
    <3>1. \A n \in Slot : n = in.next - 1 => RequestAt(n)
      <4> SUFFICES ASSUME NEW n \in Slot, n = in.next - 1
                   PROVE  RequestAt(n)
        OBVIOUS
      <4>1. n < in.next
        BY <2>6, SMT
      <4>2. in.slots[n].used
        BY <2>1, <4>1 DEF BusShape
      <4> QED
        BY <2>2, <2>8, <4>1, <4>2 DEF RequestAt, Waiting
    <3>2. There /\ in.slots[in.next - 1].access = MAR
      BY <2>2, <3>1 DEF There, OneRequest
    <3>3. ~There' /\ InHand' /\ ~Back' /\ packets'.access = MAR'
      BY <2>2, <2>5, <2>7, <2>8, <3>2 DEF There, InHand, Back, OneRequest
    <3>4. OneRequest'
      BY <2>5, <2>7, <3>2, <3>3 DEF OneRequest
    <3> QED
      BY <2>3, <2>4, <3>4
  <2>9. CASE packets'.op # "READ"
    <3>1. ~There
      <4> SUFFICES ASSUME NEW i \in Slot, RequestAt(i)
                   PROVE  FALSE
        BY DEF There
      <4>1. i = in.next - 1 /\ in.slots[i].op = "READ"
        BY DEF OneRequest, RequestAt
      <4> QED
        BY <2>2, <2>9, <4>1
    <3>2. ~There' /\ ~InHand' /\ Back' = Back
      BY <2>5, <2>7, <2>9 DEF There, InHand, Back
    <3>3. OneRequest'
      BY <2>5, <2>7, <3>1, <3>2 DEF OneRequest
    <3> QED
      BY <2>3, <2>4, <3>3
  <2> QED
    BY <2>8, <2>9
<1>2. CASE process_ctl_read
  <2> DEFINE p == Reply(memory[packets.access])
  <2>1. /\ out \in Bus /\ BusShape(in) /\ BusShape(out) /\ p \in Packet /\ p.used
    BY PacketsWritten DEF TypeOK, BusesKeepShape, Packet
  <2>2. InHand /\ ~There /\ ~Back /\ Polling /\ out.next = 0
    BY <1>2 DEF process_ctl_read, InHand, OneRequest, Back
  <2>3. ~Refuses(out)
    BY <2>2, Sizes, SMT DEF Refuses
  <2>4. out' \in Bus /\ BusShape(out') /\ out'.next = 1
    BY <1>2, <2>1, <2>2, <2>3, WriteBusKeeps, SMT DEF process_ctl_read
  <2>5. TypeOK' /\ BusesKeepShape'
    BY <1>2, <2>1, <2>4 DEF process_ctl_read, TypeOK, BusesKeepShape, cpuVars
  <2>6. ~There' /\ ~InHand' /\ Back' /\ Polling' /\ \A i \in Slot : ~RequestAt(i)'
    BY <1>2, <2>2, <2>4, SMT DEF process_ctl_read, There, RequestAt, Waiting, InHand, Back,
                                 Polling, cpuVars
  <2>7. OneRequest'
    BY <2>4, <2>6, SMT DEF OneRequest
  <2> QED
    BY <2>5, <2>7
<1>3. CASE process_ctl_write
  <2>1. memory' \in [Value -> Value]
    BY <1>3 DEF process_ctl_write, TypeOK, Packet
  <2>2. TypeOK' /\ BusesKeepShape'
    BY <1>3, <2>1 DEF process_ctl_write, TypeOK, BusesKeepShape, cpuVars
  <2>3. /\ There' = There /\ InHand' = InHand /\ Back' = Back /\ Polling' = Polling
        /\ \A i \in Slot : RequestAt(i)' = RequestAt(i)
        /\ in' = in /\ out' = out /\ MAR' = MAR /\ ~InHand'
    BY <1>3 DEF process_ctl_write, There, RequestAt, Waiting, InHand, Back, Polling, cpuVars
  <2>4. OneRequest'
    BY <2>3 DEF OneRequest
  <2> QED
    BY <2>2, <2>4
<1> QED
  BY <1>1, <1>2, <1>3 DEF MemoryThread

LEMMA Invariance == Spec => []IInv
<1>1. IInv /\ UNCHANGED vars => IInv'
  BY DEF IInv, TypeOK, BusesKeepShape, OneRequest, There, RequestAt, Waiting, InHand, Back,
         Polling, vars, cpuVars, memVars
<1>2. IInv /\ [Next]_vars => IInv'
  BY <1>1, CpuKeeps, MemoryKeeps DEF Next
<1> QED
  BY Initially, <1>2, PTL DEF Spec

(***************************************************************************)
(* Every register, packet and pointer of the v1.0 machine keeps its range,  *)
(* the pointers into the buses within the limit their refusal sets.         *)
(***************************************************************************)
THEOREM TypeCorrectV1 == Spec => []TypeOK
BY Invariance, PTL DEF IInv

(***************************************************************************)
(* An empty bus reads as empty and a bus with packets does not              *)
(* (vmemorybus.c:91), whatever its size and however it was filled.          *)
(***************************************************************************)
THEOREM EmptyReadsAsEmpty == Spec => []BusesKeepShape
BY Invariance, PTL DEF IInv

(***************************************************************************)
(* The value the vCPU takes off OUT answers the request it waits for        *)
(* (vmemory_controller.c:53), with any number of stores under way.          *)
(***************************************************************************)
THEOREM RepliesAnswerTheirRequest == Spec => []OneRequest
BY Invariance, PTL DEF IInv
=============================================================================
