--------------------------- MODULE RabbitClientMC ---------------------------
(***************************************************************************)
(* Instances of RabbitClient for TLC.  Every Start, every fault and every  *)
(* Stop costs at most one connection and one channel, so with these bounds *)
(* a dial never fails for want of a number.                                *)
(***************************************************************************)
EXTENDS RabbitClient

EnoughConns == MaxFault + 2 * MaxStart

ASSUME BoundsAreEnough == MaxConn >= EnoughConns /\ MaxChan >= EnoughConns
=============================================================================
