----------------------------- MODULE MCScheduler -----------------------------
(***************************************************************************)
(* Small instances of Scheduler for TLC: two organisations, two priorities.*)
(***************************************************************************)
EXTENDS Scheduler, TLC

CONSTANTS r1, r2, r3, r4, o1, o2

RequestOrg == (r1 :> o1) @@ (r2 :> o1) @@ (r3 :> o1) @@ (r4 :> o2)
RequestPriority == (r1 :> 1) @@ (r2 :> 1) @@ (r3 :> 2) @@ (r4 :> 2)

=============================================================================
