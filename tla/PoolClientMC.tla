---------------------------- MODULE PoolClientMC ----------------------------
(***************************************************************************)
(* The instances of PoolClient that TLC checks.                            *)
(***************************************************************************)
EXTENDS PoolClient

CONSTANTS x1, u1, u2

(* Each Start makes as many pools as it may attempt: no bound cuts it off.  *)
ASSUME BoundsAreEnough == MaxRetries > 0 /\ MaxPool >= MaxStart * MaxRetries
=============================================================================
