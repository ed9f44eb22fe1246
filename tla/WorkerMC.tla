------------------------------ MODULE WorkerMC ------------------------------
(***************************************************************************)
(* The instances of Worker that TLC checks.                                *)
(***************************************************************************)
EXTENDS Worker, TLC

CONSTANTS x1, x2, h1, p1, m1, m2

Symmetry == Permutations({x1, x2}) \union Permutations({m1, m2})

(* Every Start that succeeds makes one handle.                             *)
ASSUME BoundsAreEnough == MaxHandle >= MaxStart
=============================================================================
