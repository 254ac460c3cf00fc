----------------------------- MODULE MCVM1Life -----------------------------
(***************************************************************************)
(* The process as it is, but that main may initialise the devices in any    *)
(* order.                                                                   *)
(***************************************************************************)
EXTENDS VM1Life, SequencesExt

MCOrders == SetToSeqs(Device)
=============================================================================
