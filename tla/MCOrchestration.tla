--------------------------- MODULE MCOrchestration ---------------------------
(***************************************************************************)
(* A small instance of Orchestration for TLC: one task in each of two      *)
(* waves and a request without a task.                                     *)
(***************************************************************************)
EXTENDS Orchestration, TLC

CONSTANTS r1, r2, r3, o1, w1, w2

RequestOrg == [r \in Requests |-> o1]
RequestPriority == (r1 :> 1) @@ (r2 :> 2) @@ (r3 :> 2)
TaskWave == (r1 :> 1) @@ (r2 :> 2)

WorkerSymmetry == Permutations(Workers)
=============================================================================
