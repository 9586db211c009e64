--------------------------- MODULE MCSpawnPipeline ---------------------------
(***************************************************************************)
(* Small instances of SpawnPipeline for TLC.                               *)
(***************************************************************************)
EXTENDS SpawnPipelineProps, TLC

CONSTANTS a1, a2, a3, a4, n1, n2, d1

\* Ids of rows are interchangeable.
SafetySymmetry == Permutations(Agents) \cup Permutations(Names)
=============================================================================
