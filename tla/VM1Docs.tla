------------------------------ MODULE VM1Docs ------------------------------
(***************************************************************************)
(* What the README and the messages of v1.0 say of its memory and the code  *)
(* does not do.                                                             *)
(***************************************************************************)
EXTENDS VM1

Stores(a) == {i \in Waiting(in) : in.slots[i].op = "WRITE" /\ in.slots[i].access = a}

(***************************************************************************)
(* README.md:20 and 22: LDR: "Read word from address Rn", STR: "Store word  *)
(* from Rd in address Rn": a load returns what the program stored last.     *)
(* An STR does not wait for its packet, and the READ of a later LDR,        *)
(* written on top of it, is answered first (vmemorybus.c:112).              *)
(***************************************************************************)
LoadsSeeStores ==
    [][data_arrives =>
         \A i \in Stores(MAR) :
            (\A j \in Stores(MAR) : j <= i) => MDR' = in.slots[i].data]_vars

(***************************************************************************)
(* vmemorybus.c:58: "vMEMORYBUS buffer-limit exceeded. Packet ... can't be  *)
(* delivered": a bus takes the packets its buffer has room for.  The limit  *)
(* is a number of bytes added to a pointer to packets.                      *)
(***************************************************************************)
BufferLimitKept == in.next <= ITEM_NUM /\ out.next <= ITEM_NUM
=============================================================================
