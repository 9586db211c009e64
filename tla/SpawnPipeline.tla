---------------------------- MODULE SpawnPipeline ----------------------------
(***************************************************************************)
(* From a spawn request to the removal of the agent's git worktree: the    *)
(* task that builds the agent (row, worktree, process, activation), the    *)
(* monitor that waits for the process to exit, the continuation it may     *)
(* start, its delayed cleanup, the worktree reaper, and kill-all.          *)
(*                                                                         *)
(* Every agent id has one task working for it at a time: at[a] is how far  *)
(* it is.  A step of a task is what it does between two points where       *)
(* another task's effect can matter.  Processes are children of the daemon *)
(* but survive it.  Requests and agents all work on one repository, so a   *)
(* worktree is identified by its directory name.  Its directory lies in    *)
(* one of two: requests are built next to the repository, continuations    *)
(* next to the directory the daemon was started in.                        *)
(*                                                                         *)
(* The rows of art_agents have other writers, which know nothing of tasks  *)
(* and worktrees: stop, stop_org, kill-all, the agent reaper, and borrow   *)
(* and return of delegations, whose writes look at no stage.               *)
(***************************************************************************)
EXTENDS Naturals, FiniteSets

CONSTANTS
    Agents,      \* the uuids available for agent rows (a bound)
    Names,       \* agent_name of the requests
    ReuseNames,  \* whether a name may be requested again
    Quota,       \* MAX_WORKTREES
    MaxRespawns, \* max_respawns
    MaxFaults,   \* bound on pool errors and daemon crashes
    SameRoot,    \* whether the daemon was started in the root of the repository
    Loans,       \* delegations at once (a bound)
    Nobody       \* the parent of an agent that was requested

ASSUME PipelineAssumption ==
    /\ IsFiniteSet(Agents)
    /\ ReuseNames \in BOOLEAN
    /\ Quota \in Nat \ {0}
    /\ MaxRespawns \in Nat
    /\ MaxFaults \in Nat
    /\ SameRoot \in BOOLEAN
    /\ Nobody \notin Agents \cup Names

VARIABLES
    at,      \* how far the task that works for the agent is
    stage,   \* art_agents.stage; "ended" is 'stopped', 'failed' or 'reaped'
    parent,  \* art_agents.parent_agent_id
    tree,    \* the worktree the agent's name stands for
    located, \* agents whose workspace_path holds that worktree's path
    funded,  \* agents whose budget_usd is positive (spent_usd stays 0)
    saved,   \* agents with a checkpoint in art_context
    proc,    \* the agent's process
    dirs,    \* the worktrees on disk, and the agent each was made for
    old,     \* worktrees whose mtime lies before the worktree reaper's cutoff
    sweep,   \* the worktree reaper's cycle
    faults,  \* pool errors and crashes so far
    due      \* what delegations have yet to write to the rows

vars == <<at, stage, parent, tree, located, funded, saved, proc, dirs, old,
          sweep, faults, due>>

Building  == {"row", "counted", "added", "launched"}
Watching  == {"watched", "written", "continued", "timer"}
TaskEnded == {"done", "failed", "lost"}

\* A requested agent works in "agent-{name}"; its v-th continuation is named
\* by appending "-v1" ... "-v{v}".  Name and version stand for both.
Trees  == [name : Names, version : Nat]
NoTree == [name |-> Nobody, version |-> 0]

\* do_spawn builds under resolve_repo_root(), which is also where the worktree
\* reaper scans; the monitor has continuations built under current_dir().
Roots   == {"repo", "cwd"}
Root(t) == IF t.version = 0 \/ SameRoot THEN "repo" ELSE "cwd"

\* The worktrees directory that belongs to root r.
In(r) == {t \in DOMAIN dirs : Root(t) = r}

\* The stages the reaper's query and kill-all look for.
Active == {"spawning", "running", "borrowed"}

\* late: agents whose row became active again after the query (history).
NoSweep == [on |-> FALSE, active |-> {}, todo |-> {}, doomed |-> {}, late |-> {}]

TypeOK ==
    /\ at \in [Agents -> {"unused"} \cup Building \cup Watching \cup TaskEnded]
    /\ stage \in [Agents -> {"none", "ended"} \cup Active]
    /\ parent \in [Agents -> Agents \cup {Nobody}]
    /\ tree \in [Agents -> Trees \cup {NoTree}]
    /\ located \subseteq Agents
    /\ funded \subseteq Agents
    /\ saved \subseteq Agents
    /\ proc \in [Agents -> {"none", "live", "dead"}]
    /\ DOMAIN dirs \subseteq Trees
    /\ dirs \in [DOMAIN dirs -> Agents]
    /\ old \subseteq DOMAIN dirs
    /\ sweep \in [on : BOOLEAN, active : SUBSET Trees, todo : SUBSET Trees,
                  doomed : SUBSET Trees, late : SUBSET Agents]
    /\ due \subseteq [loan : Loans, agent : Agents, stage : {"borrowed", "running"}]
    /\ faults \in 0..MaxFaults

Init ==
    /\ at = [a \in Agents |-> "unused"]
    /\ stage = [a \in Agents |-> "none"]
    /\ parent = [a \in Agents |-> Nobody]
    /\ tree = [a \in Agents |-> NoTree]
    /\ located = {}
    /\ funded = {}
    /\ saved = {}
    /\ proc = [a \in Agents |-> "none"]
    /\ dirs = [t \in {} |-> Nobody]
    /\ old = {}
    /\ sweep = NoSweep
    /\ faults = 0
    /\ due = {}

\* Mutant of Remove: a removed worktree is remembered as old.
RemoveKeepsAge(S) ==
    /\ dirs' = [t \in DOMAIN dirs \ S |-> dirs[t]]
    /\ old' = old \cup S

\* git worktree remove --force, or rm -rf.
Remove(S) ==
    /\ dirs' = [t \in DOMAIN dirs \ S |-> dirs[t]]
    /\ old' = old \ S

Goto(a, point) == at' = [at EXCEPT ![a] = point]

\* The worktree on disk is the one that was made for agent a.
Owns(a) == tree[a] \in DOMAIN dirs /\ dirs[tree[a]] = a

-----------------------------------------------------------------------------
(* do_spawn and spawn_continuation: building an agent.                     *)

SpawnRow(a, n, hasBudget) ==
    /\ at[a] = "unused"
    /\ ReuseNames \/ \A c \in Agents : tree[c].name # n
    /\ Goto(a, "row")
    /\ stage' = [stage EXCEPT ![a] = "spawning"]
    /\ tree' = [tree EXCEPT ![a] = [name |-> n, version |-> 0]]
    /\ funded' = IF hasBudget THEN funded \cup {a} ELSE funded
    /\ UNCHANGED <<parent, located, saved, proc, dirs, old, sweep, faults,
                   due>>

\* create_worktree counts the worktrees of its own directory; a full quota
\* fails the spawn and leaves the row in 'spawning'.
CountTrees(a) ==
    /\ at[a] = "row"
    /\ Goto(a, IF Cardinality(In(Root(tree[a]))) < Quota THEN "counted" ELSE "failed")
    /\ UNCHANGED <<stage, parent, tree, located, funded, saved, proc, dirs,
                   old, sweep, faults, due>>

\* ... removes a worktree of the same name, whoever it was made for, and adds
\* the new one.  The add may fail; so may the validation and the owner file
\* after it, which leaves the worktree behind.
AddTree(a) ==
    /\ at[a] = "counted"
    /\ \/ /\ \E point \in {"added", "failed"} : Goto(a, point)
          /\ dirs' = [t \in DOMAIN dirs \cup {tree[a]} |->
                        IF t = tree[a] THEN a ELSE dirs[t]]
          /\ old' = old \ {tree[a]}
       \/ /\ Goto(a, "failed")
          /\ Remove({tree[a]})
    /\ UNCHANGED <<stage, parent, tree, located, funded, saved, proc, sweep,
                   faults, due>>

\* A dry run takes its worktree away again and leaves the row.
DryRun(a) ==
    /\ at[a] = "added"
    /\ parent[a] = Nobody
    /\ Goto(a, "done")
    /\ Remove({tree[a]})
    /\ UNCHANGED <<stage, parent, tree, located, funded, saved, proc, sweep,
                   faults, due>>

\* Write the instructions and start the process: TASK.md and the log files
\* need the directory.  A failure removes nothing.
Launch(a) ==
    /\ at[a] = "added"
    /\ \/ /\ tree[a] \in DOMAIN dirs
          /\ Goto(a, "launched")
          /\ proc' = [proc EXCEPT ![a] = "live"]
       \/ /\ Goto(a, "failed")
          /\ UNCHANGED proc
    /\ UNCHANGED <<stage, parent, tree, located, funded, saved, dirs, old,
                   sweep, faults, due>>

\* do_spawn: allocator::activate is guarded, the UPDATE of workspace_path is not.
Activate(a) ==
    /\ at[a] = "launched"
    /\ parent[a] = Nobody
    /\ stage' = IF stage[a] = "spawning" THEN [stage EXCEPT ![a] = "running"]
                                         ELSE stage
    /\ located' = located \cup {a}
    /\ Goto(a, "watched")
    /\ UNCHANGED <<parent, tree, funded, saved, proc, dirs, old, sweep,
                   faults, due>>

\* spawn_continuation: one unguarded UPDATE, and the checkpoint is copied.
ActivateContinuation(a) ==
    /\ at[a] = "launched"
    /\ parent[a] # Nobody
    /\ stage' = [stage EXCEPT ![a] = "running"]
    /\ located' = located \cup {a}
    /\ saved' = saved \cup {a}
    /\ Goto(a, "watched")
    /\ UNCHANGED <<parent, tree, funded, proc, dirs, old, sweep, faults, due>>

\* No connection: do_spawn goes on to start the monitor, spawn_continuation
\* returns before it and leaves the process without one.
ActivateFails(a) ==
    /\ faults < MaxFaults
    /\ faults' = faults + 1
    /\ at[a] = "launched"
    /\ Goto(a, IF parent[a] = Nobody THEN "watched" ELSE "failed")
    /\ UNCHANGED <<stage, parent, tree, located, funded, saved, proc, dirs,
                   old, sweep, due>>

-----------------------------------------------------------------------------
(* The process.                                                            *)

SaveCheckpoint(a) ==
    /\ proc[a] = "live"
    /\ stage[a] # "none"
    /\ saved' = saved \cup {a}
    /\ UNCHANGED <<at, stage, parent, tree, located, funded, proc, dirs, old,
                   sweep, faults, due>>

\* By itself, or killed by the sentinel watcher.
Exit(a) ==
    /\ proc[a] = "live"
    /\ proc' = [proc EXCEPT ![a] = "dead"]
    /\ UNCHANGED <<at, stage, parent, tree, located, funded, saved, dirs, old,
                   sweep, faults, due>>

-----------------------------------------------------------------------------
(* monitor_agent.                                                          *)

\* wait_for_exit returns: the cost goes to token_usage, never to spent_usd,
\* and the stage is written without looking at it.
Notice(a) ==
    /\ at[a] = "watched"
    /\ proc[a] = "dead"
    /\ stage' = [stage EXCEPT ![a] = "ended"]
    /\ Goto(a, "written")
    /\ UNCHANGED <<parent, tree, located, funded, saved, proc, dirs, old,
                   sweep, faults, due>>

\* No connection: the row keeps its stage.
NoticeFails(a) ==
    /\ faults < MaxFaults
    /\ faults' = faults + 1
    /\ at[a] = "watched"
    /\ proc[a] = "dead"
    /\ Goto(a, "written")
    /\ UNCHANGED <<stage, parent, tree, located, funded, saved, proc, dirs,
                   old, sweep, due>>

\* Mutant of MayRespawn: the limit compared with > instead of >=.
MayRespawnLate(a) ==
    /\ tree[a].version <= MaxRespawns
    /\ a \in funded
    /\ a \in saved

\* The three guards of try_respawn; spent_usd is always 0.
MayRespawn(a) ==
    /\ tree[a].version < MaxRespawns
    /\ a \in funded
    /\ a \in saved

\* Mutant of ContinuationTree: the version left out of the name.
ContinuationTreeSame(t) == t

ContinuationTree(t) == [name |-> t.name, version |-> t.version + 1]

\* insert_continuation; spawn_continuation then builds c within a's task.
Respawn(a, c) ==
    /\ at[a] = "written"
    /\ at[c] = "unused"
    /\ MayRespawn(a)
    /\ at' = [at EXCEPT ![a] = "continued", ![c] = "row"]
    /\ stage' = [stage EXCEPT ![c] = "spawning"]
    /\ parent' = [parent EXCEPT ![c] = a]
    /\ tree' = [tree EXCEPT ![c] = ContinuationTree(tree[a])]
    /\ funded' = funded \cup {c}
    /\ UNCHANGED <<located, saved, proc, dirs, old, sweep, faults, due>>

\* The end of the monitor: a timer is started, except in single_branch mode
\* (decided by tables of another crate: either may happen).
\* A respawn that cannot happen for want of an id stands for its failure.
Finish(a) ==
    /\ \/ at[a] = "written" /\ (MayRespawn(a) => \A c \in Agents : at[c] # "unused")
       \/ /\ at[a] = "continued"
          /\ \A c \in Agents : parent[c] = a => at[c] \notin Building
    /\ \E point \in {"timer", "done"} : Goto(a, point)
    /\ UNCHANGED <<stage, parent, tree, located, funded, saved, proc, dirs,
                   old, sweep, faults, due>>

\* Five minutes later, by path.
Cleanup(a) ==
    /\ at[a] = "timer"
    /\ Goto(a, "done")
    /\ Remove({tree[a]})
    /\ UNCHANGED <<stage, parent, tree, located, funded, saved, proc, sweep,
                   faults, due>>

TaskStep(a) ==
    \/ CountTrees(a) \/ AddTree(a) \/ Launch(a)
    \/ Activate(a) \/ ActivateContinuation(a)
    \/ Notice(a)
    \/ \E c \in Agents : Respawn(a, c)
    \/ Finish(a)
    \/ Cleanup(a)

-----------------------------------------------------------------------------
(* reap_orphaned_worktrees.                                                *)

\* Mutants of ActivePaths: rows matched by the agent's name, before they have
\* a path; lent agents are forgotten.
ActivePathsByName == {tree[a] : a \in {b \in Agents : stage[b] \in Active}}
ActivePathsUnlent == {tree[a] : a \in {b \in located :
                                         stage[b] \in Active \ {"borrowed"}}}

ActivePaths == {tree[a] : a \in {b \in located : stage[b] \in Active}}

\* List the directory of the repository, fix the cutoff, query the active
\* paths.  If the query fails the cycle ends here.
SweepBegin ==
    /\ ~sweep.on
    /\ sweep' = [on |-> TRUE, active |-> ActivePaths, todo |-> In("repo"),
                 doomed |-> {}, late |-> {}]
    /\ UNCHANGED <<at, stage, parent, tree, located, funded, saved, proc,
                   dirs, old, faults, due>>

\* One entry: too young, active or gone, it is passed over.
SweepLook(t) ==
    /\ t \in sweep.todo
    /\ sweep.doomed = {}
    /\ sweep' = [sweep EXCEPT !.todo = @ \ {t},
                              !.doomed = IF t \in old /\ t \notin sweep.active
                                         THEN {t} ELSE {}]
    /\ UNCHANGED <<at, stage, parent, tree, located, funded, saved, proc,
                   dirs, old, faults, due>>

SweepRemove ==
    /\ sweep.doomed # {}
    /\ Remove(sweep.doomed)
    /\ sweep' = [sweep EXCEPT !.doomed = {}]
    /\ UNCHANGED <<at, stage, parent, tree, located, funded, saved, proc,
                   faults, due>>

SweepEnd ==
    /\ sweep.on
    /\ sweep.todo = {}
    /\ sweep.doomed = {}
    /\ sweep' = NoSweep
    /\ UNCHANGED <<at, stage, parent, tree, located, funded, saved, proc,
                   dirs, old, faults, due>>

SweepStep == \/ SweepBegin
             \/ \E t \in sweep.todo : SweepLook(t)
             \/ SweepRemove
             \/ SweepEnd

-----------------------------------------------------------------------------
(* The other writers of the rows, time, and the daemon's crash.            *)

\* The rows of S end; no process does, because no pid is stored.
EndRows(S) ==
    /\ stage' = [a \in Agents |-> IF a \in S THEN "ended" ELSE stage[a]]
    /\ UNCHANGED <<at, parent, tree, located, funded, saved, proc, dirs, old, sweep,
                   faults, due>>

\* Kill-all: every active row (and the plans, another crate's table).
KillAll == EndRows({a \in Agents : stage[a] \in Active})

\* stop, stop_org, and the agent reaper: the row of one agent, those of one
\* organisation, one without a heartbeat, those in 'spawning' for an hour.
StopRows == \E S \in SUBSET {a \in Agents : stage[a] \in Active} : EndRows(S)

\* borrow_agent finds the agent running and inserts the delegation.  Two writes
\* are then due: its own 'borrowed', and the 'running' of whoever returns the
\* agent, the borrower or the agent reaper.
Borrow(d, a) ==
    /\ stage[a] = "running"
    /\ \A w \in due : w.loan # d
    /\ due' = due \cup {[loan |-> d, agent |-> a, stage |-> "borrowed"],
                       [loan |-> d, agent |-> a, stage |-> "running"]}
    /\ UNCHANGED <<at, stage, parent, tree, located, funded, saved, proc, dirs, old,
                   sweep, faults>>

\* Either write is made whatever the stage is by then: a row that ended in
\* between is active again.
LoanWrite(w) ==
    /\ due' = due \ {w}
    /\ stage' = [stage EXCEPT ![w.agent] = w.stage]
    /\ sweep' = IF sweep.on /\ stage[w.agent] \notin Active
                THEN [sweep EXCEPT !.late = @ \cup {w.agent}] ELSE sweep
    /\ UNCHANGED <<at, parent, tree, located, funded, saved, proc, dirs, old, faults>>

\* Two hours pass.  The cutoff is fixed when a cycle begins, so nothing ages
\* during one, and building an agent takes less than that.
GrowOld(t) ==
    /\ ~sweep.on
    /\ t \in DOMAIN dirs \ old
    /\ \A a \in Agents : tree[a] = t => at[a] \notin Building
    /\ old' = old \cup {t}
    /\ UNCHANGED <<at, stage, parent, tree, located, funded, saved, proc,
                   dirs, sweep, faults, due>>

\* Tasks, timers and a borrow_agent under way are lost; rows (of delegations
\* too), worktrees and processes are not.
Crash ==
    /\ faults < MaxFaults
    /\ faults' = faults + 1
    /\ at' = [a \in Agents |-> IF at[a] \in Building \cup Watching
                               THEN "lost" ELSE at[a]]
    /\ sweep' = NoSweep
    /\ due' = {w \in due : w.stage = "running"}
    /\ UNCHANGED <<stage, parent, tree, located, funded, saved, proc, dirs, old>>

-----------------------------------------------------------------------------
Next ==
    \/ \E a \in Agents, n \in Names, hasBudget \in BOOLEAN :
          SpawnRow(a, n, hasBudget)
    \/ \E a \in Agents : \/ TaskStep(a)
                         \/ DryRun(a)
                         \/ SaveCheckpoint(a)
                         \/ Exit(a)
                         \/ ActivateFails(a)
                         \/ NoticeFails(a)
    \/ SweepStep
    \/ KillAll
    \/ StopRows
    \/ \E d \in Loans, a \in Agents : Borrow(d, a)
    \/ \E w \in due : LoanWrite(w)
    \/ \E t \in DOMAIN dirs : GrowOld(t)
    \/ Crash

Spec == Init /\ [][Next]_vars

(***************************************************************************)
(* Fairness: the daemon's tasks keep running (their sleeps end), the       *)
(* worktree reaper's interval keeps ticking, and a directory nobody        *)
(* rewrites gets old whatever the reaper does meanwhile.  Nothing is       *)
(* assumed about the processes: no step of the daemon makes one exit.      *)
(***************************************************************************)
Fairness ==
    /\ \A a \in Agents : WF_vars(TaskStep(a))
    /\ WF_vars(SweepStep)
    /\ \A n \in Names, v \in 0..MaxRespawns :
          SF_vars(GrowOld([name |-> n, version |-> v]))

FairSpec == Spec /\ Fairness

=============================================================================
