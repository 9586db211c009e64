----------------------------- MODULE MCLifecycle -----------------------------
(***************************************************************************)
(* Small instances of Lifecycle for TLC.                                   *)
(***************************************************************************)
EXTENDS LifecycleProps, TLC

CONSTANTS a1, a2, o1, o2, c1, c2, d1, d2

\* All agents of one organisation; one agent per organisation.
OneOrg  == [a \in Agents |-> o1]
OrgPair == (a1 :> o1) @@ (a2 :> o2)

\* Callers run the same code, and delegation ids are interchangeable.
SafetySymmetry == Permutations(Callers) \cup Permutations(Delegations)
=============================================================================
