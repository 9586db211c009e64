---------------------------- MODULE MCSpawnGuard ----------------------------
(***************************************************************************)
(* Small instances of SpawnGuard for TLC: limits of 2 and windows of a few *)
(* ticks stand for 10 spawns per 60 s and 5 spawns in 600 s.               *)
(***************************************************************************)
EXTENDS SpawnGuard, TLC

Symmetry == Permutations(Requests) \cup Permutations(Orgs)
=============================================================================
