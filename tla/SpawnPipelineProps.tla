-------------------------- MODULE SpawnPipelineProps --------------------------
(***************************************************************************)
(* What the pipeline from spawn to cleanup promises, and what its comments *)
(* claim for it.                                                           *)
(***************************************************************************)
EXTENDS SpawnPipeline

Live(a) == proc[a] = "live"

\* This step takes the worktree away from under the process of agent a.
Uprooted(a) == Live(a) /\ Owns(a) /\ ~Owns(a)'

-----------------------------------------------------------------------------
(* Properties the runs find to hold.                                       *)

\* One request leads to at most max_respawns continuations, however the
\* processes end and whatever fails: the guard, the version a continuation
\* is inserted with and the monitor that respawns once have to agree.
\* (With a name per request, the agents of a name are one lineage.)
LineageBounded ==
    \A n \in Names :
        Cardinality({a \in Agents : tree[a].name = n}) <= MaxRespawns + 1

\* Agent a is being built or watched, or its process is there.
Working(a) == at[a] \in Building \cup Watching \/ Live(a)

\* Nobody works under name n, no worktree of it is left on disk, and the
\* worktree reaper is not about to remove one.
NameFree(n) ==
    /\ \A c \in Agents : tree[c].name = n => ~Working(c)
    /\ \A t \in DOMAIN dirs \cup sweep.doomed : t.name # n

\* Requests take a name again only when it is free.  do_spawn does not look.
FreeNamesOnly ==
    [][\A a \in Agents, n \in Names, hasBudget \in BOOLEAN :
          SpawnRow(a, n, hasBudget) => NameFree(n)]_vars

\* As long as requests take only free names, nothing takes away the worktree
\* of a live process whose row is active: not the cleanup its predecessor
\* scheduled, not the worktree reaper with an old list of active paths, not
\* another spawn, while the agent is lent, returned, or kept by a row that a
\* late 'borrowed' or 'running' made active again.  The exception is a row
\* that was ended when a scan asked for the active paths and is made active by
\* a delegation during that scan: the scan takes its worktree.
RunningTreeKept ==
    [][\A a \in Agents \ sweep.late :
          ~(stage[a] \in Active /\ a \in located /\ Uprooted(a))]_vars

\* Agents whose worktree, under root r, was within the quota when it was
\* counted, and that have not added it yet.
Counted(r) == {a \in Agents : at[a] = "counted" /\ Root(tree[a]) = r}

\* create_worktree counts the worktrees of its directory before it adds one,
\* and nothing holds the others back in between: as long as no more than k
\* agents at once are between the two, the directory has at most k - 1
\* worktrees more than MAX_WORKTREES.
QuotaExceededBy(r, k) ==
    [](Cardinality(Counted(r)) <= k) => [](Cardinality(In(r)) <= Quota - 1 + k)

\* As long as requests take only free names, k is the number of names: a
\* lineage builds one agent at a time.  The quota knows nothing of the other
\* directory, so all worktrees together may be twice as many.
TreesBounded ==
    /\ \A r \in Roots : Cardinality(In(r)) <= Quota - 1 + Cardinality(Names)
    /\ Cardinality(DOMAIN dirs) <= 2 * (Quota - 1 + Cardinality(Names))

\* Nobody works in worktree t: no process, no task that builds one, no monitor.
Abandoned(t) ==
    /\ t \in DOMAIN dirs
    /\ \A a \in Agents : tree[a] = t => /\ ~Live(a)
                                       /\ at[a] \in TaskEnded \cup {"timer"}

\* A row that still counts as active holds the path of t.  Two things leave one
\* for an abandoned worktree: a fault (the monitor, or its last write, was
\* lost), and a delegation that writes to the row after it ended.
Held(t) == \E a \in located : tree[a] = t /\ stage[a] \in Active

\* The worktrees of the directory that the reaper scans.
Scanned == {t \in [name : Names, version : 0..MaxRespawns] : Root(t) = "repo"}

\* A worktree nobody works in any more does not stay for ever in the directory
\* the reaper scans, where it counts against the quota of new spawns: the
\* cleanup or the worktree reaper takes it, also when the spawn failed half
\* way, the cleanup was skipped, or the daemon crashed with the tasks of the
\* agent; unless an active row holds it.
\* Nothing scans the directory of the continuations, when it is another: there
\* a worktree leaves by its cleanup or not at all.
AbandonedTreeLeaves ==
    \A t \in Scanned : LET Stays == Abandoned(t) /\ ~Held(t) IN Stays ~> ~Stays

-----------------------------------------------------------------------------
(* What a comment of the code claims and a run refutes.                    *)

\* The cleanup scheduled when an agent completes removes the worktree of that
\* agent; five minutes later, the path may belong to another agent.
CleanupTakesOwn ==
    [][\A a, b \in Agents : ~(at[b] = "timer" /\ at'[b] = "done" /\ Uprooted(a))]_vars

=============================================================================
