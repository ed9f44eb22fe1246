---------------------------- MODULE RabbitOpsMC -----------------------------
(***************************************************************************)
(* The instances of RabbitOps that TLC checks.                             *)
(***************************************************************************)
EXTENDS RabbitOps

CONSTANTS m1, m2, p1, w1, w2

(* Every channel but the last is lost, so the last one stays.              *)
ASSUME BoundsAreEnough == MaxChan > MaxFault
=============================================================================
