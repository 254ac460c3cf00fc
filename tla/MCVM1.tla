------------------------------- MODULE MCVM1 -------------------------------
(***************************************************************************)
(* A v1.0 machine small enough for TLC: a memory of eight bytes, two        *)
(* registers, buses with room for two packets of two bytes, so that a       *)
(* write is refused from the sixth waiting packet on.  PC wraps, so every   *)
(* program without a HLT runs for ever and can fill the bus.                *)
(***************************************************************************)
EXTENDS VM1Docs, Sequences

I(op, dest, src) == [op |-> op, dest |-> dest, src |-> src]

MCGpr == {0, 1}

MCInsnOf ==
    [b \in Value |->
       CASE b = 0 -> I("ADD", 0, 0) [] b = 1 -> I("LDR", 0, 1)
         [] b = 2 -> I("STR", 0, 1) [] b = 3 -> I("HLT", 0, 0)
         [] b = 4 -> I("MOV", 1, 0) [] b = 5 -> I("ADD", 1, 0)
         [] b = 6 -> I("LDR", 1, 0) [] b = 7 -> I("NULL", 0, 0)]

(***************************************************************************)
(* The programs; zeros, ADD R0,R0, fill the memory behind them.             *)
(***************************************************************************)
CONSTANT Programs

MCPrograms ==
    { <<0, 4, 1, 2, 3>>,           \* vmemory_example_load: one of each, HLT
      <<1, 2, 0, 2, 3>>,           \* two stores to one address, HLT
      <<1, 2, 4, 2, 1, 3>>,        \* stores to two addresses and a load, HLT
      <<6, 2, 2, 2, 2, 2, 2, 3>>,  \* more stores than IN takes, HLT
      <<6, 2, 2, 1>>,              \* two stores and a load, for ever
      <<6, 5, 1, 7>> }             \* a null decoder

Image(p) == [a \in Value |-> IF a < Len(p) THEN p[a + 1] ELSE 0]

MCImages == {Image(p) : p \in Programs}
=============================================================================
