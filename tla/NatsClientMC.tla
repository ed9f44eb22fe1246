---------------------------- MODULE NatsClientMC ----------------------------
(***************************************************************************)
(* The instances of NatsClient that TLC checks: one goroutine or two that  *)
(* start and stop the client, two that subscribe and unsubscribe.          *)
(***************************************************************************)
EXTENDS NatsClient, TLC

CONSTANTS x1, x2, u1, u2, j1

(* The users differ in nothing but their names.                            *)
UserSymmetry == Permutations({u1, u2})
=============================================================================
