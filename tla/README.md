# TLA+ models of the convergio agent runtime

This directory models the agent runtime of convergio
(`crates/convergio-agent-runtime`) and the worktrees of
`crates/convergio-workspace`: who may run, for how long, in which worktree, and
what is left behind when something stops half way. The modules are checked with TLC on small
instances; the main results are proved with TLAPS for every instance. Paths
below are relative to `src/crates/convergio-agent-runtime/src/` unless they name
another crate.

## 1. The system

A daemon embeds the crate as an extension. Its state is a SQLite database behind
an r2d2 connection pool, the git worktrees on disk, the agents' OS processes,
and one in-memory rate limiter. The code opens **no SQL transaction anywhere**:
an operation of several statements holds one connection from its first statement
to its last, and nothing else keeps two operations apart.

| Component | State | Operations | Hard behaviour | What makes it correct |
|---|---|---|---|---|
| Allocator (`allocator.rs`, `types.rs`, `schema.rs`) | `art_agents.stage` | spawn, activate, stop, stop_org | many writers of one column, most unguarded | an ended agent stays ended |
| Delegation (`delegation.rs`) | `art_delegations` and the stage | borrow_agent (4 statements), return_agent (3), find_expired | check-then-act, failure between UPDATEs | stage and delegations agree; no circles; loans end |
| Heartbeat (`heartbeat.rs`) | `art_heartbeats` | register, beat, unregister, find_stale | a beat racing with the reaper | only stale agents are reaped |
| Scope rules (`scope.rs`) | `art_scope_rules` | grant, revoke_all, check, enforce | rules granted to ended agents | rules do not outlive their agent |
| Agent reaper (`reaper.rs`) | none of its own | reap_cycle each 60 s | a long operation over stale lists, ended early by `?` | everything it collects leaves eventually |
| Scheduler (`scheduler.rs`) | `art_queue` | enqueue, dequeue, drain_org | count-then-insert, select-then-delete | bounded, at most once, fair between organisations |
| Spawn guard (`spawn_guard.rs`, `spawn_routes.rs:77`) | list of instants per organisation | check_rate_limit, maybe_fire_alert | window edges, restart | never more than the limit in a window; one organisation does not pay for another |
| Spawn pipeline (`spawn_routes.rs:162`, `spawner.rs`) | rows, worktrees, processes | do_spawn, create_worktree, spawn_process | many spawns at once, failure at each step | quota; no worktree taken from a live agent |
| Monitor (`spawn_monitor.rs`, `monitor_helpers.rs`, `plan_task_update.rs`) | one task per process, one timer | wait, write stage, push, pull request, report, respawn, delayed cleanup | acts minutes later, by path; pushes and reports fail silently | touches only its own agent's things; no commit lost; the report is true |
| Branches (git, `spawner.rs:63`, `worktree_reaper.rs:133`) | `agent/<name>`, on origin too | created and deleted with worktrees | deleted by name, whatever is on them | commits outlive the worktree until somebody has them |
| Respawn (`respawn.rs`) | row of the continuation | try_respawn | chains of continuations | chains end; budget respected |
| Worktree reaper (`worktree_reaper.rs`) | none of its own | scan each 30 min | list of active paths gets stale; scans one directory of two | only abandoned worktrees go, and all of them |
| Kill-all (`routes.rs:80`) | rows, plans | one request | processes and monitors go on | nothing starts again |
| Context, adaptation (`context.rs`, `adaptation.rs` and their routes) | `art_context`, sentinel files | set, delete, seed, poll, write and clear a sentinel | polling by timestamps of whole seconds | an agent misses no change and no STOP |
| Waves (`concurrency.rs`) | tables of other crates | can_run, wave_concurrency, autoscale_check | result used later; three queries for one decision | waves one after the other; no scaling down with work waiting |
| Token accounting, enrichment, backends | text | parsing, assembly | none | pure functions or I/O |
| Workspace reaper (`convergio-workspace/src/reaper.rs`, `routes.rs`, `ext.rs`) | directories under `.worktrees`, git's registrations, branches | reap_cycle by cron and by two routes | cycles at once; results of git ignored | what is old leaves, and completely |
| Workspace guard (`convergio-workspace/src/guard.rs`) | `.worktree-owner` files | check-owner, list-owned, list | answer used later | a worktree is taken for one's own only if it is |
| Code graph (`convergio-workspace/src/codegraph.rs`) | none | package_deps, expand_files | none | pure function of `cargo metadata` |

Interactions: `handle_spawn` asks the guard, then `do_spawn` inserts the row,
creates the worktree, starts the process, activates the row and starts the
monitor task. The monitor writes the final stage, may start a continuation
through `try_respawn` (which runs the same worktree and process code), and
leaves a five-minute timer that removes the worktree. The agent reaper and the
worktree reaper run beside all of this on their own intervals; they know rows
and directories, never processes. `register`, `borrow_agent`, `return_agent`,
`stop`, `enqueue`, `dequeue`, `grant` and others are called by other crates:
the models let any caller call them at any time.

## 2. Modules

| Module | Models |
|---|---|
| `Lifecycle` | agent rows, heartbeats, scope rules, delegations and the agent reaper, one SQL statement per step |
| `LifecycleProps` | its properties; `MCLifecycle` small instances |
| `LifecycleProofs` | its theorems: for any pool, then for a pool of one connection, with the refinement of `AgentLease` |
| `AgentLease` | abstract specification: agents lent and taken back in single steps |
| `SpawnGuard`, `MCSpawnGuard`, `SpawnGuardProofs` | the rate limiter and the alert, with a clock |
| `SpawnQueue` | abstract specification: a bounded priority queue whose operations are single steps |
| `Scheduler`, `MCScheduler`, `SchedulerProofs` | the statements of `scheduler.rs`, a refinement of `SpawnQueue` |
| `SpawnPipeline` | do_spawn, monitor, respawn, cleanup, worktree reaper, and all others that write the stage of a row |
| `SpawnPipelineProps`, `MCSpawnPipeline`, `SpawnPipelineProofs` | its properties, small instances and theorems |
| `Delivery`, `DeliveryProps`, `MCDelivery`, `DeliveryProofs` | `SpawnPipeline` with the branches, pushes, pull requests and reports |
| `Orchestration`, `MCOrchestration`, `OrchestrationProofs` | `Scheduler` under an orchestrator and an executor, with can_run and autoscale_check |
| `Workspace`, `WorkspaceProps`, `MCWorkspace`, `WorkspaceProofs` | reap cycles over `.worktrees`, the ownership check, and the users of the worktrees |
| `Adaptation`, `MCAdaptation`, `AdaptationProofs` | the context of an agent, and the polling that tells it of changes and sentinels |

**Lifecycle.** The step is the SQL statement, since that is what SQLite makes
atomic. `call[p]` holds the locals of an operation between two of its
statements, `cycle` those of the reaper. `Holders` are the operations in flight;
a new one needs `ConnectionFree`. With `PoolSize = 1` (the pool
`create_memory_pool` makes) operations are serialised, with a larger one their
statements interleave. Time is abstract: heartbeats go stale, rows get older
than one hour and delegations expire by steps of the environment.
`StatementFails` leaves an operation as `?` does, keeping what it wrote;
`Crash` drops every operation and monitor and keeps the tables. The stage
'failed', which `AgentStage` does not have but the monitor writes, is kept as
the code has it: not terminal for any WHERE clause.

**AgentLease.** What delegation promises. `Lease` in `LifecycleProps` maps the
tables to it: a row that borrow_agent has inserted counts once the agent is
'borrowed', a row that return_agent has marked counts until the agent is
'running' again, so the last statement of each is the abstract step. A fault
between the statements is the abstract `Fault`, which leaves half of a step.

**SpawnGuard.** `stamps` is the limiter's map, one step is one call (the mutex is
held throughout). `admitted` remembers what the code forgets about one run of the
daemon, and `refused` who was turned away, each by organisation, so that
properties can compare the two. `Restart` empties the map: a second full window
may follow at once.

**Scheduler.** enqueue is a count and an insert, dequeue a select and a delete,
each under one connection. `Abort` is an error between them. `Queue ==
INSTANCE SpawnQueue WITH ...` maps the variables; the locals of the statements
are invisible to the abstract queue, so the first statement is a stutter and the
second the operation. `SpawnQueue` orders by priority over all organisations,
because the code does; that the comments promise something else is the subject
of `OldestHeadFirst`.

**SpawnPipeline.** `at[a]` is how far the task working for agent `a` is: row,
counted (quota seen), added (worktree), launched, watched (monitor), written
(final stage), continued (building its continuation), timer, and the ends.
`dirs` maps a worktree to the agent it was made for: the code does not keep
that, the properties need it. A worktree is named by the request's name and the
version of the continuation. `sweep` is the worktree reaper's cycle: its
list of active paths, the entries left, the entry it decided to remove. The
processes are children that survive the daemon.

Worktrees lie in two directories. `do_spawn` and the worktree reaper take the one
beside `resolve_repo_root()` (`ext.rs:103`, `ext.rs:135`), the monitor has continuations
built beside `current_dir()` (`spawn_monitor.rs:118`, `respawn.rs:194`), and
`repo_root.rs:3` says that the daemon runs from below the root. `Root(t)` is the
directory of a worktree; with `SameRoot` both are one. The quota counts the
worktree's own directory (`CountTrees`), the scan lists that of the repository
(`SweepBegin`).

The stage of a row has many writers. Those of the pipeline are in its tasks. The
others know nothing of tasks and worktrees: `KillAll`, `StopRows` (stop, stop_org
and the agent reaper, which between them may end any set of active rows), and the
delegations. `Lifecycle` has those statement by statement; here a delegation is
what it does to the rows. `Borrow` checks that the agent is running, and from then
on two writes are `due`: 'borrowed' (`delegation.rs:62`) and, when the agent is
returned, 'running' (`delegation.rs:95`). `LoanWrite` makes either at any time,
whatever the stage is by then, so an ended row may become active again. The first
is lost with the daemon, the second is not: the delegation is in the database.
`sweep.late` (history) are the agents whose ended row a delegation made active
during the scan under way.

**Delivery.** EXTENDS the pipeline: each of its steps is a step of the pipeline
and its effect on the branches, or a step of git alone. A branch is the set of
commits on it, here (`branches`) and on origin (`remote`). What is kept of the
code: a spawn deletes a branch of its name; the worktree reaper deletes the
branch with the worktree; the delayed cleanup deletes **no** branch, because it
runs `git branch -D` in the worktree it has just removed (`find_repo_root` of
the worktree is the worktree). `has_new_commits` compares with what the last
fetch knew of origin/main. The report is what `update_plan_task` sends. The
agent's commits and its own pushes, and the merging of pull requests, are
external. `overdue` is history.

**Orchestration.** EXTENDS the scheduler. A request for a task is identified with
the task; the orchestrator dispatches a pending task that can_run lets through,
the executor starts an agent for a request handed out if its task is still
pending, the plan service reviews, retries and drops tasks: all external, since
nothing in this repository calls `concurrency.rs`. autoscale_check goes query by
query and holds a connection meanwhile (`Reserve`).

**Workspace.** A directory, its registration with git and its branch are three
variables, because remove_worktree takes them away in three statements whose
results it ignores. `Begin` fixes, as `now` does, which entries are old enough; a
directory changed later has a negative age, which is an error, and is passed
over. git refuses to delete a branch that is checked out and to reuse a name
that is registered; both were observed with git 2.39. `disturbed` is history: the cycles
that a failing command, or a user who takes up the name or the branch, got in
the way of.

**Adaptation.** `rows` is `art_context` for one agent; set and seed go statement
by statement (`call`), a poll reads the table and then the sentinels (`poll`,
`news`, `told`). What the code leaves to the agent is external: `view` is what it
knows, `cursor` the last timestamp it has seen, and its next poll asks from
`Overlap` seconds before that. `now` is the clock of `datetime('now')`. `Crash`
loses every request and answer on its way.

## 3. Runs

Every passing property has a mutant: a change of one modelled definition, as a
plausible bug would make it, that TLC must find violating the property.

| Run | Shows |
|---|---|
| LifecycleSerial | with one connection, a fault anywhere: `NoMutualDelegation`, `BorrowedWasRunning`, `ReapedWasStale`; until the fault `StageMatchesDelegations`; all along, `ImplementsLease`: delegation is the lending of `AgentLease` |
| LifecycleLive | with two connections, errors and crashes: `TypeOK`; `SettledIsFinal`: an ended agent with no active delegation and in nobody's hands is never revived; `ExpiredIsReturned`, `ZombieIsReaped`, `StaleRowLeaves`, `TerminalScopesLeave`; `BorrowedComesBack` until the fault |
| SpawnGuard | `RateBound` over every window between two restarts; across a restart `LimitedWithCause` (an organisation is refused for its own admissions, however busy the others are) and `AlertNotFalse` |
| Orchestration | with two connections: `OvershootBounded`, `NoRequestLost` of the queue, `WavesSequential`, `DownOnlyWhenDrained` |
| Delivery | no name requested twice, a pool error or crash anywhere, pushes failing at will: `TypeOK`, `GitTypeOK`, `LineageBounded`, `RunningTreeKept`, `LostOnlyWhenOver`, `ReportTrue` |
| PipelineLive | a daemon started below the root of the repository, agents lent and returned, rows stopped and reaped, a pool error or crash anywhere, no name requested twice: `AbandonedTreeLeaves` in the directory that is scanned, except for a worktree whose row a fault or a delegation left active; `RunningTreeKept` |
| Workspace | two cycles at once, two failures: `TypeOK`, `StaleLeaves`, `ReapedLeavesNothing`, `MisledByRenewalOnly` |
| Adaptation | `TypeOK`, `NothingMissed`, `CatchesUp`, `StopArrives`, for an agent that reaches back a second |

The other runs each refute one claim that a comment, a doc or a test makes; the
counterexample is what the code does.

| Run | Claim | What happens |
|---|---|---|
| LifecycleTerminal | stopped and reaped are terminal (`types.rs:77`) | return_agent sets 'running' whatever the stage |
| SchedulerFair | the oldest head of all organisations' queues first (`scheduler.rs:60`, "fair cross-org scheduling" in `ext.rs:66`) | a younger request with a higher priority of another organisation is handed out before it; a steady supply of such starves it |
| SpawnGuardAlert | alert on the spawns of ten minutes (`spawn_guard.rs:15`) | the list was pruned to one minute |
| PipelineCleanup | cleanup of the completed agent (`convergio-workspace/src/reaper.rs:48`) | the timer takes the next agent's worktree |

The conditions in the passing runs are not decoration; without them the
properties do not hold of the code (section 4 proves of the first and of the
reused names that nothing else breaks them):

- With two connections, two borrows may each check for a circle before either
  inserts, an agent may be stopped between the SELECT and the UPDATE of
  borrow_agent, and one that beats after it was listed as stale is reaped.
- After a failed statement between the two UPDATEs of return_agent the agent is
  'borrowed' with no delegation left, and nothing returns it.
- With two connections two dequeues may hand out the same request, so `Orchestration`
  promises only that none is lost.
- With a name requested twice, create_worktree removes the worktree of the live
  agent of that name. A name that nobody works under and that has no worktree is
  not safe yet either: the worktree reaper may have decided to remove the last one
  and not have done so, and then takes the new one. `FreeNamesOnly` is what a
  caller has to respect; a name per request respects it.
- An agent that asks from exactly the last timestamp it saw (`Overlap = 0`, what
  the `>` of `adaptation.rs:116` invites) misses an entry changed again in that
  second, until it changes once more.
- A worktree that gets old (two hours without a new file at its top) before its
  monitor is through may be removed by the worktree reaper between the write of
  the stage (`spawn_monitor.rs:70`) and the push: worktree, branch and commits are
  gone and the plan is told 'submitted'. `ReportTrue` and `LostOnlyWhenOver` leave
  such agents out (`overdue`).
- `WavesSequential` needs tasks that are over to stay so, and an executor that
  starts only pending tasks: can_run is not asked again when an agent starts.
- A user who makes a worktree under a name that a reap cycle has in hand loses it
  to the cycle's rm -rf, and its registration then blocks the name for good: no
  later cycle sees it and nothing in that crate prunes. A failing `git worktree
  remove` ends the same way. `ReapedLeavesNothing` is about the other cycles.
- After a crash the row of a process that has ended stays 'running': its
  worktree counts as active for ever. So does that of an agent whose row a late
  'borrowed' or 'running' of a delegation made active after its end.
- The same write during a scan has a worse end. The scan asks for the active
  paths while the row of a lent agent is 'stopped', by kill-all say, and its
  process goes on; the agent is returned, the row is 'running'; the scan then
  finds the worktree old and not on its list, and removes it under the process.
  It takes the write that `LifecycleTerminal` refutes. `RunningTreeKept` leaves
  out the agents to whom it happened during the scan under way (`sweep.late`) and
  covers all other orders of lending, returning, stopping and scanning.
- Continuations of a daemon started below the root are in a directory that nothing
  scans: there a worktree leaves with its cleanup timer or not at all. It stays when
  the build of the continuation fails after the worktree exists, when the daemon
  crashes, and in single_branch mode. `AbandonedTreeLeaves` is about the directory
  that is scanned, which is the only one when the daemon is started at the root.

Other things the models make visible and no property claims otherwise: branches of
cleaned-up agents stay until their name is used again, and hold the only copy of
what was not pushed; a continuation starts at HEAD, not at the branch of its
parent; a continuation without commits reports 'failed' for the task its parent
has submitted, and the two reports may arrive in either order; a failed task blocks
all later waves, and a task that is not in the plan asked about is always free to
run; `autoscale_check` takes every agent without a task for idle; reap cycles look
at age only, neither at owners nor at activity, although the manifest speaks of
orphaned worktrees; a circle
of three organisations is not looked for (`delegation.rs:133`); a request that
dequeue has deleted is lost with a caller that fails; the worktree quota of each
directory is exceeded by as many spawns as count at once (and by no more, see
section 4), and there are two;
scope rules of 'failed' agents stay; `spent_usd` is written by nothing, so the
budget guard of try_respawn never refuses; kill-all stops rows, not processes,
and the worktree reaper goes by the rows; it pauses plans "to prevent
respawning" (`routes.rs:115`), which try_respawn does not look at; no timeout
ends a process; a deleted context entry is never reported, and set again it has
version 1; a value overwritten between two polls is never seen.

### Bounds, and why they are enough

- *Lifecycle*: the hazards need one agent in two hands (`LifecycleLive`: a
  caller beside the reaper, with monitor, stop and kill-all around them), or two
  agents of two organisations lending to each other (`LifecycleSerial`), hence one
  or two agents, one or two callers, and two delegations (one to be returned, one
  to be made meanwhile). One fault: each property that a fault can break breaks
  with one. The safety properties of `LifecycleLive` are proved for any number of
  callers.
- *SpawnGuard*: limits of 2 and windows of 2 to 4 ticks in a clock of 4 put
  every edge of a window, and one instant beyond it, in reach; five requests
  exceed every limit, also after one restart.
- *SchedulerFair*: two organisations, two priorities and two instants are all the
  counterexample needs; one connection, so that no race is to blame.
- *Orchestration*: a task in each of two waves and a request without a task, a
  bound of 1 and two connections: the queue overshoots, a request is handed out
  twice, and the second wave's task is dispatched by every way the first one's can
  be over.
- *Pipeline, Delivery*: three ids for one name and one respawn in `Delivery`: one
  more id than the lineage may use. Two requests of different names share
  nothing but the quota and the scan of the worktree reaper, whose entries are
  independent; a parent and its continuation give it two worktrees to scan
  (`Delivery` has one directory, `SameRoot = TRUE`). Two
  commits per agent (`MaxCommits`): one pushed or merged, one after it.
  `Delivery` has no delegation: it starts from the pipeline's steps, and what a
  delegation does is a write to a row, which no branch and no report depends on;
  the theorems cover it with any number of them. `PipelineLive` has a request and
  its continuation, two directories, one delegation at a time and one fault.
- *Workspace*: one name, since cycles treat entries one by one; a branch named
  after it and one that is not; two cycles, one of them cron's; three levels of
  age, two owners, two failures: one for a command, one for another or a crash.
- *Adaptation*: two keys that seed may insert, two seconds, three writes (one
  entry, the other in the next second, the first again: what it takes to hide a
  change behind a later timestamp), one fault; one writer at a time, beside
  deletes, since a poll sees single statements.

The quota on worktrees is in no run: for it to be exceeded by more than one,
two names must be built at once while a third worktree exists, and the instances
large enough for that are too large to explore. It is proved instead.

Runs of the queue and the limiter stop when the supply of requests and the clock
are used up; there deadlock is not checked. Everywhere else it is.

### Fairness, and why the code justifies it

- `Lifecycle`: weak fairness of every thread inside an operation (it just
  executes its next statement) and of the reaper inside a cycle. Strong fairness
  of `ReapBegin`: `pool.get()` waits while others hold the connections, and the
  tokio interval (`reaper.rs:95`) keeps ticking. Nothing is assumed about
  callers or time; leads-to properties start where time has already passed.
- `SpawnPipeline`: weak fairness of every task (its sleeps end) and of the
  worktree reaper's loop (`worktree_reaper.rs:185`). Strong fairness of
  `GrowOld`: a directory gets older whether or not a scan is running when two
  hours are over. **No fairness for `Exit`**: the
  daemon ends a process only on a STOP that somebody writes. Nor for the writes of
  delegations, stops and the agent reaper: no property waits for them.
- `Workspace`: the cron task keeps starting cycles (`ext.rs:76`), and a cycle
  executes its next statement: weak fairness. No user has to do anything.
- `Delivery` and `Orchestration` state no fairness: their properties are safety.
- `Adaptation`: weak fairness of a request under way. The agent is assumed to
  poll again and again (`adaptation.rs:3` says it does) and to clear a sentinel
  it has processed; both get a connection if connections keep becoming free
  (strong fairness). Writers need not do anything; `CatchesUp` speaks of the
  time after the last of `MaxWrites` writes.

## 4. Proofs

TLAPS checks these for every value of the constants that meets the named
assumption of the module.

| Theorem | Statement | Argument |
|---|---|---|
| `LifecycleProofs!TypeCorrect` | `Spec => []TypeOK` | one step per action; lemmas on the fields of the two union types (`Calls`, `Cycles`) |
| `LifecycleProofs!SettledStaysSettled` | `Spec => SettledIsFinal` | from `TypeOK`: an operation can only write a stage it has read, and all of those are excluded by `Settled` |
| `LifecycleProofs!MutualNeedsRace`, `BorrowNeedsRace`, `ReapNeedsRace` | for every pool, `Spec => MutualOnlyByRace`, `BorrowedOnlyByRace`, `ReapedOnlyByRace` | each says that a behaviour without one particular overlap has the property: two borrows in opposite directions both past detect_circular; a stage written between the SELECT and the UPDATE of a borrow; a heartbeat written after find_stale has listed it. For the first, `ClearedNotCircular`: a borrow past its check has no active delegation against it, since only an opposite borrow that is past its own check can insert one |
| `LifecycleProofs!SerialNoMutual`, `SerialBorrowedWasRunning`, `SerialReapedWasStale` | with `PoolSize = 1` | `SerialInv`: one holder of the connection, and what the operation in flight has read (stage running, no circle, heartbeats stale) is still so. The checks alone are not inductive: a write is justified by a read two statements earlier |
| `LifecycleProofs!StageAgreesWithDelegations` | with `PoolSize = 1` (the property holds until the first fault) | `SerialInv` and, while no fault has happened, for each point inside an operation, how far the stage lags behind the delegation |
| `LifecycleProofs!LifecycleImplementsLease` | with `PoolSize = 1`, `Spec => ImplementsLease` | initial states map to initial states, each statement to a step of `AgentLease` or a stutter; `SerialInv` and `RowInv` say which delegation the operation in flight has made or ended |
| `SpawnGuardProofs!RateIsBounded` | `Spec => []RateBound`, restarts included | `Remembered`: the limiter forgets, but nothing that is still in the window; then the list's length bounds the window |
| `SpawnGuardProofs!LimitedHasCause`, `AlertHasCause` | `Spec => LimitedWithCause`, `Spec => AlertNotFalse` | from `Remembered`: the list of an organisation that is counted is a part of what that organisation was really admitted in the window, so a count that reaches the limit (the threshold) is a lower bound. A request refused for one organisation is in `refused` of that one only |
| `SchedulerProofs!OvershootNeedsRace` | for every pool and every `k > 0`, `Spec => OvershootByRaceOnly(k)` | `Committed(k)`: depth plus the inserts still to come stays below bound plus `k` |
| `SchedulerProofs!OvershootIsBounded` | for every pool, `Spec => []OvershootBounded` | `Committed(PoolSize)`, since every operation under way has a connection (`HoldersBounded`) |
| `SchedulerProofs!OnePlaceNeedsRace` | for every pool, `Spec => OnePlaceUnlessRace` | `PlaceInv`: what is waiting, handed out or drained was accepted, and enqueues past their count are for different requests not yet accepted. So no row comes back, and only a dequeue that deletes nothing hands out a second time |
| `SchedulerProofs!SchedulerImplementsQueue` | with `PoolSize = 1`, `Spec => ImplementsQueue` | initial states map to initial states; each step maps to a step of `SpawnQueue` or a stutter, from an invariant that what was counted or picked is still so |
| `SchedulerProofs!NoRequestIsLost` | for every pool, `Spec => []NoRequestLost` | a delete hands out what was selected under the same connection, though perhaps a second time |
| `SpawnPipelineProofs!PipelineTypeCorrect` | `Spec => []TypeOK` | from `TypeInv`: rows in use name a worktree |
| `SpawnPipelineProofs!LineageIsBounded` | with a name per request, `Spec => []LineageBounded` | `LineageInv`: only the newest agent of a name may still be respawned, so versions are unique and within max_respawns; then versions number the lineage. The guard alone bounds a version, not how many rows carry it |
| `SpawnPipelineProofs!FreeNamesKeepTrees` | `Spec => (FreeNamesOnly => RunningTreeKept)` | `TreeInv`: a worktree is new when its agent is built, so a scan under way has not listed it, or not found it old; one that was listed belongs to a row that was active when the scan began, or was made active during it (`late`). The steps of those who know rows only (`RowsStep`) change neither tasks nor worktrees (`RowsOnly`), and during a scan only a delegation makes an ended row active, which makes its agent late (`BecomesActive`). The condition of SweepLook is about a list that is stale when it is used. `WorkInv`: of the agents that work under a name at most one has a given worktree, and the one that may be respawned has the highest version at work, on disk or in the reaper's hand, so what a continuation makes is new too |
| `SpawnPipelineProofs!OnceMeansFree`, `RunningTreeIsKept` | with a name per request, `Spec => FreeNamesOnly` and so `Spec => RunningTreeKept` | `KnownTrees`: whatever is on disk or in the reaper's hand belongs to a row, and rows keep their names |
| `SpawnPipelineProofs!QuotaExceededByThoseBuilding` | for every `k`, and each of the two directories `r`, `Spec => QuotaExceededBy(r, k)`: if at most `k` tasks at once are between their count in `r` and their worktree, `r` has at most `k - 1` worktrees above the quota | `QuotaInv(r, k)`: the worktrees in `r` and the tasks past the count there together stay below quota plus `k`; what one task adds it had been counted for |
| `SpawnPipelineProofs!TreesAreBounded` | `Spec => (FreeNamesOnly => []TreesBounded)`, for finitely many names: fewer than quota and names in each directory, fewer than twice that in all | `WorkInv`: the tasks past the count have different names (`CountedByName`); the two directories are all there are (`BothRoots`) |
| `DeliveryProofs!GitTypeCorrect` | `DSpec => []GitTypeOK`, whatever names are requested | what a step may do to branches (`GitSteps`) |
| `DeliveryProofs!CommitsOutliveTheirAgent` | `DSpec => (FreeNamesOnly => LostOnlyWhenOver)` | each step of `Delivery` is a step of the pipeline or of git alone, so the pipeline's invariants hold; `BranchInv`: the branch of an agent at work holds its own commits only, so a spawn that deletes a branch deletes commits of agents that are over; `WatchInv`: a watched agent whose worktree the scan can take is overdue |
| `DeliveryProofs!ReportIsTrue` | `DSpec => (FreeNamesOnly => ReportTrue)` | `ReportInv`: what has_new_commits told is true of all branches when the process has ended (origin has none of its commits that the branch has not, though it may have those of the name's last agent), and stays true, because nobody else commits to it and nothing is lost before the report |
| `DeliveryProofs!DeliveryOncePerName` | with a name per request, both | from `OnceMeansFree` |
| `OrchestrationProofs!WavesAreSequential` | for every pool, `OSpec => []WavesSequential` | `WaveInv`: whatever is in the queue, in a worker's hand or handed out may run; over is over, so what might run once always may |
| `OrchestrationProofs!DownIsDecidedDrained` | for every pool, `OSpec => DownOnlyWhenDrained` | `FreshInv`: a request that is being inserted is not in the queue's history; `ScaleInv`: so an empty backlog stays empty of what was counted |
| `AdaptationProofs!TypeCorrect` | `Spec => []TypeOK` | entries keep their type as time and the number of writes grow |
| `AdaptationProofs!ReachingBackMissesNothing` | with `Overlap >= 1`, `Spec => []NothingMissed` | `PollInv`: while an answer is on its way, an entry the agent does not know is in it or no older than anything in it. Without this the step that moves `cursor` cannot be justified |
| `WorkspaceProofs!WorkspaceTypeCorrect` | `Spec => []TypeOK` | one step per statement of a cycle and per act of a user |
| `WorkspaceProofs!ReapingIsThorough` | for any number of cycles at once, `Spec => ReapedLeavesNothing` | `ReapInv` says for each statement of remove_worktree, while the cycle is not `disturbed`, what is already away and who holds the branch. Another cycle at the same entry only takes more away (`LessIsHarmless`) |
| `WorkspaceProofs!AskingMisleadsByRenewalOnly` | `Spec => MisledByRenewalOnly` | an answer was true when it was given, and the owner of a directory does not change while it stands |

`MutualOnlyByRace`, `BorrowedOnlyByRace`, `ReapedOnlyByRace`, `FreeNamesOnly`,
`QuotaExceededBy`, `TreesBounded`, `OvershootByRaceOnly` and
`OnePlaceUnlessRace` are in no run. The first three end in a
property that `LifecycleSerial` checks with one connection, where the race they
name cannot happen; `FreeNamesOnly` is the hypothesis under which
`RunningTreeKept`, `LostOnlyWhenOver` and `ReportTrue` are proved (`Delivery`
checks them with a name per request, a special case); `QuotaExceededBy` and
`TreesBounded` are about the quota, see above; the last two say of the queue
with any pool which overlap the excess of its bound and the second delivery of a
request need. `ImplementsQueue`, too, is a theorem without a run: it says what
the statements amount to, not that it is what the comments promise.

Only model-checked are the leads-to properties (liveness under fairness is outside
the prover): `ExpiredIsReturned`, `ZombieIsReaped`, `StaleRowLeaves`,
`TerminalScopesLeave`, `BorrowedComesBack`, `AbandonedTreeLeaves`, `StaleLeaves`,
`CatchesUp` and `StopArrives`. Every invariant and every action property of the
passing runs is a theorem. The refuted claims are counterexamples and need no
proof.

## 5. What is not modelled

- wave_concurrency, detect_budget_cycle and the guard's list: single queries whose
  answers nothing here uses. Paths given to check-owner are names under
  `.worktrees`; those that `resolve_worktree_path` rejects are nobody's.
- `fetch --prune` of a reap cycle; `git worktree prune` by hand, which would free a
  blocked name.
- The code graph: a stateless lookup of direct dependents.
- The rest of a poll's answer (status of plan and task, number of messages) is
  read from tables of other crates. The watcher in the monitor that kills a
  process on STOP is part of `Exit` in the pipeline.
- Names are abstract: validation, the `agent-` prefix and a continuation's
  suffix are only kept as far as they make worktree names distinct. Requests
  with `repo_override` work on other repositories; the model has one.
- HTTP calls, Telegram, enrichment of the instructions, log parsing and the
  recording of token usage: I/O and text. In `Delivery` HEAD of the daemon's
  repository is level with origin/main, and git answers where the code asks it for
  commits.
- Agents' worktrees lie beside the repository (`spawner.rs:47`), those of
  `Workspace` inside it: the two share only the names of branches, which the
  models keep apart (`remove_worktree` of `.worktrees/x` would delete `agent/x`).
- Single-branch mode is a free choice in `Finish`: `is_plan_single_branch` reads
  `art_agents.plan_id`, a column that `schema.rs` does not create.
- The age limit of the worktree reaper is 2 h in the code (`worktree_reaper.rs:67`)
  and 24 h in its comments (lines 3 and 51); in the model it is just "old".
- A directory's mtime may be refreshed by the process that works in it; the
  model lets every directory get old, which covers both.
- OS pids are identified with agents; recycling of pids is not modelled.

## 6. Plan

- `Scheduler` with any pool as a refinement of an abstract queue that may hand a
  request out twice and whose bound is soft, beside the theorems that say when
  it does.
- `Delivery`: under which names a branch left over by an earlier holder brings that
  holder's commits into the pull request of the next.
