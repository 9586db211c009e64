--------------------------- MODULE WorkspaceProps ---------------------------
(***************************************************************************)
(* What the collection of worktrees by age is to bring about, with several *)
(* cycles, the users of the worktrees and failing commands in between.     *)
(***************************************************************************)
EXTENDS Workspace

\* An entry nobody touches for a day is collected: by whichever cycle, whether
\* git knows it or not, and whatever fails on the way a bounded number of times.
StaleLeaves ==
    \A n \in Names :
        n \in DOMAIN dirs /\ dirs[n].age = Day
            ~> n \notin DOMAIN dirs \/ dirs[n].age < Day

\* A cycle that is through with an entry leaves nothing of it behind: no
\* directory, no registration that would block the name, and not the branch it
\* was on when that is named after it.  Another cycle at the same entry does
\* not matter; a failing git, or a user who takes the name or the branch up
\* again meanwhile, does.
ReapedLeavesNothing ==
    [][\A c \in Cycles \ disturbed :
          At(c, "bare") /\ At(c, "listed")' /\ faults' = faults =>
              /\ Target(c) \notin DOMAIN dirs' \cup DOMAIN reg'
              /\ cycle[c].was \in {"agent/", "wave/", "task/"} \X {Target(c)}
                     => cycle[c].was \notin branches']_vars

\* An agent that asks first takes another's worktree for its own only if that
\* was made under the name of one of its own after it had asked.
Misled(a, n) == n \in trusted[a] /\ n \in DOMAIN dirs /\ dirs[n].owner # a

MisledByRenewalOnly ==
    [][\A a \in Agents, n \in Names :
          ~Misled(a, n) /\ Misled(a, n)' => n \notin DOMAIN dirs]_vars
=============================================================================
