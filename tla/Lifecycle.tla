------------------------------ MODULE Lifecycle ------------------------------
(***************************************************************************)
(* The life of an agent row in the agent runtime's database: its stage,    *)
(* its heartbeat, its scope rules, the delegations that lend it to another *)
(* organisation, and the reaper that collects what was left behind.        *)
(*                                                                         *)
(* The unit of atomicity is ONE SQL STATEMENT: the code opens no           *)
(* transaction anywhere.  An operation of several statements holds one     *)
(* connection of the pool from its first statement to its last, so the     *)
(* number of operations in flight is bounded by PoolSize, and with a pool  *)
(* of one connection operations are serialised.                            *)
(*                                                                         *)
(* Time is abstract: a heartbeat ages from "fresh" to "stale", a           *)
(* delegation becomes expired and a row becomes older than one hour by     *)
(* actions of the environment.                                             *)
(***************************************************************************)
EXTENDS Naturals, FiniteSets

CONSTANTS
    Agents,      \* ids of agent rows
    Orgs,        \* organisations
    OrgOf,       \* the organisation each agent is spawned for
    Delegations, \* the uuids available for delegation rows (a bound)
    Callers,     \* threads that call borrow_agent and return_agent
    Reaper,      \* the one background task that runs reap_cycle
    Beating,     \* agents somebody registers a heartbeat for (a bound)
    Scoped,      \* agents somebody grants scope rules to (a bound)
    PoolSize,    \* connections in the r2d2 pool
    MaxFaults    \* bound on failed statements and daemon crashes

ASSUME LifecycleAssumption ==
    /\ OrgOf \in [Agents -> Orgs]
    /\ IsFiniteSet(Callers)
    /\ Reaper \notin Callers
    /\ Beating \subseteq Agents
    /\ Scoped \subseteq Agents
    /\ PoolSize \in Nat \ {0}
    /\ MaxFaults \in Nat

VARIABLES
    stage,     \* art_agents.stage; "none" until the row is inserted
    old,       \* agents whose created_at is more than one hour ago
    watch,     \* the monitor task of the agent's process
    heartbeat, \* art_heartbeats: no row, or how old last_seen is
    rules,     \* agents with at least one row in art_scope_rules
    deleg,     \* art_delegations, from id to row
    call,      \* the multi-statement operation each process is inside of
    cycle,     \* how far the reaper's current cycle is
    faults     \* failed statements and crashes so far

vars == <<stage, old, watch, heartbeat, rules, deleg, call, cycle, faults>>

Processes == Callers \cup {Reaper}

\* AgentStage has no "failed"; the process monitor writes it all the same.
\* AgentStage::Draining is declared but nothing ever writes it.
Stages == {"none", "spawning", "running", "borrowed",
           "stopped", "reaped", "failed"}

Terminal == {"stopped", "reaped"}     \* AgentStage::is_terminal
Ended    == Terminal \cup {"failed"}

Rows == [agent : Agents, from : Orgs, to : Orgs,
         returned : BOOLEAN, expired : BOOLEAN]

\* The locals of an operation between two of its statements.
Idle == [at |-> "idle"]
Calls == [at : {"idle"}]
         \cup [at : {"checked", "clear"}, agent : Agents, to : Orgs,
               deleg : Delegations]
         \cup [at : {"inserted"}, agent : Agents, deleg : Delegations]
         \cup [at : {"found", "marked"}, agent : Agents, deleg : Delegations]

\* reap_cycle: waiting for the next tick; the loop over stale heartbeats and
\* the statement after its UPDATE; the loop over expired delegations.
Waiting == [at |-> "waiting"]
Cycles == [at : {"waiting", "expired"}]
          \cup [at : {"stale"}, todo : SUBSET Agents]
          \cup [at : {"unregister"}, todo : SUBSET Agents, agent : Agents]
          \cup [at : {"return"}, todo : SUBSET Delegations]

TypeOK ==
    /\ stage \in [Agents -> Stages]
    /\ old \subseteq Agents
    /\ watch \in [Agents -> {"none", "watching", "gone"}]
    /\ heartbeat \in [Agents -> {"none", "fresh", "stale"}]
    /\ rules \subseteq Agents
    /\ DOMAIN deleg \subseteq Delegations
    /\ deleg \in [DOMAIN deleg -> Rows]
    /\ call \in [Processes -> Calls]
    /\ cycle \in Cycles
    /\ faults \in 0..MaxFaults

Init ==
    /\ stage = [a \in Agents |-> "none"]
    /\ old = {}
    /\ watch = [a \in Agents |-> "none"]
    /\ heartbeat = [a \in Agents |-> "none"]
    /\ rules = {}
    /\ deleg = [d \in {} |-> 0]
    /\ call = [p \in Processes |-> Idle]
    /\ cycle = Waiting
    /\ faults = 0

-----------------------------------------------------------------------------
(* The connection pool and the tables.                                     *)

Holders == {p \in Callers : call[p].at # "idle"}
           \cup (IF cycle.at # "waiting" THEN {Reaper} ELSE {})

ConnectionFree == Cardinality(Holders) < PoolSize

\* The delegations of agent a that are not returned.
ActiveOf(a) == {d \in DOMAIN deleg : deleg[d].agent = a /\ ~deleg[d].returned}

Insert(d, row) ==
    deleg' = [e \in DOMAIN deleg \cup {d} |-> IF e = d THEN row ELSE deleg[e]]

Put(f, S, v) == [x \in DOMAIN f |-> IF x \in S THEN v ELSE f[x]]

-----------------------------------------------------------------------------
(* Operations of one statement.                                            *)

Spawn(a) ==
    /\ ConnectionFree
    /\ stage[a] = "none"
    /\ stage' = [stage EXCEPT ![a] = "spawning"]
    /\ UNCHANGED <<old, watch, heartbeat, rules, deleg, call, cycle, faults>>

\* Mutants of Activated: no guard on the stage; a stage the enum lacks.
ActivatedAnyStage(a) == [stage EXCEPT ![a] = "running"]
ActivatedUnknown(a) ==
    IF stage[a] = "spawning" THEN [stage EXCEPT ![a] = "active"] ELSE stage

\* UPDATE ... WHERE id = a AND stage = 'spawning'
Activated(a) ==
    IF stage[a] = "spawning" THEN [stage EXCEPT ![a] = "running"] ELSE stage

\* do_spawn after the process has started: activate the row (an error is only
\* logged) and start the monitor of the process.
Activate(a) ==
    /\ ConnectionFree
    /\ stage[a] # "none"
    /\ watch[a] = "none"
    /\ stage' = Activated(a)
    /\ watch' = [watch EXCEPT ![a] = "watching"]
    /\ UNCHANGED <<old, heartbeat, rules, deleg, call, cycle, faults>>

\* The process has exited: the monitor writes the stage without looking at it.
MonitorExit(a, committed) ==
    /\ ConnectionFree
    /\ watch[a] = "watching"
    /\ watch' = [watch EXCEPT ![a] = "gone"]
    /\ stage' = [stage EXCEPT ![a] = IF committed THEN "stopped" ELSE "failed"]
    /\ UNCHANGED <<old, heartbeat, rules, deleg, call, cycle, faults>>

\* Rows a "stage NOT IN ('stopped', 'reaped')" clause selects.
NotTerminal(S) == {a \in S : stage[a] \notin Terminal \cup {"none"}}

Stop(a) ==
    /\ ConnectionFree
    /\ stage' = Put(stage, NotTerminal({a}), "stopped")
    /\ UNCHANGED <<old, watch, heartbeat, rules, deleg, call, cycle, faults>>

StopOrg(o) ==
    /\ ConnectionFree
    /\ stage' = Put(stage, NotTerminal({a \in Agents : OrgOf[a] = o}), "stopped")
    /\ UNCHANGED <<old, watch, heartbeat, rules, deleg, call, cycle, faults>>

KillAll ==
    /\ ConnectionFree
    /\ stage' = Put(stage,
                    {a \in Agents :
                       stage[a] \in {"running", "spawning", "borrowed"}},
                    "stopped")
    /\ UNCHANGED <<old, watch, heartbeat, rules, deleg, call, cycle, faults>>

Register(a) ==
    /\ ConnectionFree
    /\ stage[a] # "none"
    /\ heartbeat' = [heartbeat EXCEPT ![a] = "fresh"]
    /\ UNCHANGED <<stage, old, watch, rules, deleg, call, cycle, faults>>

Beat(a) ==
    /\ ConnectionFree
    /\ heartbeat[a] # "none"
    /\ heartbeat' = [heartbeat EXCEPT ![a] = "fresh"]
    /\ UNCHANGED <<stage, old, watch, rules, deleg, call, cycle, faults>>

Unregister(a) ==
    /\ ConnectionFree
    /\ heartbeat' = [heartbeat EXCEPT ![a] = "none"]
    /\ UNCHANGED <<stage, old, watch, rules, deleg, call, cycle, faults>>

\* No look at the stage: rules can be granted to an ended agent.
Grant(a) ==
    /\ ConnectionFree
    /\ stage[a] # "none"
    /\ rules' = rules \cup {a}
    /\ UNCHANGED <<stage, old, watch, heartbeat, deleg, call, cycle, faults>>

RevokeAll(a) ==
    /\ ConnectionFree
    /\ rules' = rules \ {a}
    /\ UNCHANGED <<stage, old, watch, heartbeat, deleg, call, cycle, faults>>

-----------------------------------------------------------------------------
(* borrow_agent: SELECT the stage, SELECT the delegations back, INSERT the *)
(* delegation, UPDATE the stage.                                           *)

\* Ids of rows, and of rows being made.  The code draws the uuid just before
\* the INSERT; it is reserved here so that the bounded supply stops a call
\* from starting and never stops one half way.
UsedIds == DOMAIN deleg
           \cup {call[p].deleg : p \in {q \in Callers :
                                          call[q].at \in {"checked", "clear"}}}

\* Mutant of Borrowable: only the row's existence is checked.
BorrowableAlways(a) == stage[a] # "none"

Borrowable(a) == stage[a] = "running"

BorrowSelect(c, a, o, d) ==
    /\ ConnectionFree
    /\ call[c] = Idle
    /\ d \notin UsedIds
    /\ Borrowable(a)
    /\ call' = [call EXCEPT ![c] = [at |-> "checked", agent |-> a, to |-> o,
                                    deleg |-> d]]
    /\ UNCHANGED <<stage, old, watch, heartbeat, rules, deleg, cycle, faults>>

\* Mutant of Circular: looks for a delegation in the same direction.
CircularForward(from, to) ==
    \E d \in DOMAIN deleg :
        deleg[d].from = from /\ deleg[d].to = to /\ ~deleg[d].returned

\* An active delegation from `to` back to `from`.
Circular(from, to) ==
    \E d \in DOMAIN deleg :
        deleg[d].from = to /\ deleg[d].to = from /\ ~deleg[d].returned

BorrowDetect(c) ==
    /\ call[c].at = "checked"
    /\ call' = [call EXCEPT ![c] =
                  IF Circular(OrgOf[call[c].agent], call[c].to)
                  THEN Idle
                  ELSE [at |-> "clear", agent |-> call[c].agent,
                        to |-> call[c].to, deleg |-> call[c].deleg]]
    /\ UNCHANGED <<stage, old, watch, heartbeat, rules, deleg, cycle, faults>>

BorrowInsert(c) ==
    /\ call[c].at = "clear"
    /\ Insert(call[c].deleg,
              [agent |-> call[c].agent, from |-> OrgOf[call[c].agent],
               to |-> call[c].to, returned |-> FALSE, expired |-> FALSE])
    /\ call' = [call EXCEPT ![c] = [at |-> "inserted", agent |-> call[c].agent,
                                    deleg |-> call[c].deleg]]
    /\ UNCHANGED <<stage, old, watch, heartbeat, rules, cycle, faults>>

\* UPDATE ... WHERE id = a, whatever the stage is by now.
BorrowUpdate(c) ==
    /\ call[c].at = "inserted"
    /\ stage' = [stage EXCEPT ![call[c].agent] = "borrowed"]
    /\ call' = [call EXCEPT ![c] = Idle]
    /\ UNCHANGED <<old, watch, heartbeat, rules, deleg, cycle, faults>>

-----------------------------------------------------------------------------
(* return_agent, called by a caller or by the reaper: SELECT the delegation*)
(* WHERE returned = 0, UPDATE it, UPDATE the agent.                        *)

\* Mutant of Returnable: without `AND returned = 0`.
ReturnableTwice(d) == d \in DOMAIN deleg

Returnable(d) == d \in DOMAIN deleg /\ ~deleg[d].returned

ReturnSelect(c, d) ==
    /\ ConnectionFree
    /\ call[c] = Idle
    /\ Returnable(d)
    /\ call' = [call EXCEPT ![c] = [at |-> "found", agent |-> deleg[d].agent,
                                    deleg |-> d]]
    /\ UNCHANGED <<stage, old, watch, heartbeat, rules, deleg, cycle, faults>>

ReturnMark(p) ==
    /\ call[p].at = "found"
    /\ deleg' = [deleg EXCEPT ![call[p].deleg].returned = TRUE]
    /\ call' = [call EXCEPT ![p] = [at |-> "marked", agent |-> call[p].agent,
                                    deleg |-> call[p].deleg]]
    /\ UNCHANGED <<stage, old, watch, heartbeat, rules, cycle, faults>>

\* UPDATE ... WHERE id = a, whatever the stage is: it can revive an ended agent.
ReturnRestore(p) ==
    /\ call[p].at = "marked"
    /\ stage' = [stage EXCEPT ![call[p].agent] = "running"]
    /\ call' = [call EXCEPT ![p] = Idle]
    /\ UNCHANGED <<old, watch, heartbeat, rules, deleg, cycle, faults>>

CallStep(p) == \/ BorrowDetect(p) \/ BorrowInsert(p) \/ BorrowUpdate(p)
               \/ ReturnMark(p) \/ ReturnRestore(p)

-----------------------------------------------------------------------------
(* reap_cycle, one statement at a time.  The SELECTs carry no ORDER BY, so *)
(* the rows of a result are visited in any order.                          *)

ReapBegin ==
    /\ ConnectionFree
    /\ cycle = Waiting
    /\ cycle' = [at |-> "stale",
                 todo |-> {a \in Agents : heartbeat[a] = "stale"}]
    /\ UNCHANGED <<stage, old, watch, heartbeat, rules, deleg, call, faults>>

ReapStale(a) ==
    /\ cycle.at = "stale"
    /\ a \in cycle.todo
    /\ stage' = Put(stage, NotTerminal({a}), "reaped")
    /\ cycle' = [at |-> "unregister", todo |-> cycle.todo \ {a}, agent |-> a]
    /\ UNCHANGED <<old, watch, heartbeat, rules, deleg, call, faults>>

\* Mutant of ReapedRow: the call of unregister is missing.
ReapedRowKept(a) == heartbeat

ReapedRow(a) == [heartbeat EXCEPT ![a] = "none"]

ReapUnregister ==
    /\ cycle.at = "unregister"
    /\ heartbeat' = ReapedRow(cycle.agent)
    /\ cycle' = [at |-> "stale", todo |-> cycle.todo]
    /\ UNCHANGED <<stage, old, watch, rules, deleg, call, faults>>

\* Mutants of Zombies: joined with the heartbeats; without the age.
ZombiesBeating == {a \in old : stage[a] = "spawning" /\ heartbeat[a] # "none"}
ZombiesYoung   == {a \in Agents : stage[a] = "spawning"}

Zombies == {a \in old : stage[a] = "spawning"}

ReapZombies ==
    /\ cycle.at = "stale"
    /\ cycle.todo = {}
    /\ stage' = Put(stage, Zombies, "reaped")
    /\ cycle' = [at |-> "expired"]
    /\ UNCHANGED <<old, watch, heartbeat, rules, deleg, call, faults>>

\* Mutant of Expired: the comparison with expires_at turned round.
NotYetExpired == {d \in DOMAIN deleg : ~deleg[d].expired /\ ~deleg[d].returned}

Expired == {d \in DOMAIN deleg : deleg[d].expired /\ ~deleg[d].returned}

ReapFindExpired ==
    /\ cycle.at = "expired"
    /\ cycle' = [at |-> "return", todo |-> Expired]
    /\ UNCHANGED <<stage, old, watch, heartbeat, rules, deleg, call, faults>>

\* The SELECT of return_agent.  If somebody returned the delegation since it
\* was listed, the `?` gives the whole cycle up.
ReapReturn(d) ==
    /\ cycle.at = "return"
    /\ call[Reaper] = Idle
    /\ d \in cycle.todo
    /\ \/ /\ Returnable(d)
          /\ call' = [call EXCEPT ![Reaper] = [at |-> "found",
                                               agent |-> deleg[d].agent,
                                               deleg |-> d]]
          /\ cycle' = [cycle EXCEPT !.todo = @ \ {d}]
       \/ /\ ~Returnable(d)
          /\ cycle' = Waiting
          /\ UNCHANGED call
    /\ UNCHANGED <<stage, old, watch, heartbeat, rules, deleg, faults>>

\* Mutant of RulesKept: stopped agents forgotten.
RulesKeptStopped == {a \in rules : stage[a] # "reaped"}

RulesKept == {a \in rules : stage[a] \notin Terminal}

ReapScopes ==
    /\ cycle.at = "return"
    /\ call[Reaper] = Idle
    /\ cycle.todo = {}
    /\ rules' = RulesKept
    /\ cycle' = Waiting
    /\ UNCHANGED <<stage, old, watch, heartbeat, deleg, call, faults>>

ReaperStep == \/ \E a \in Agents : ReapStale(a)
              \/ ReapUnregister
              \/ ReapZombies
              \/ ReapFindExpired
              \/ \E d \in Delegations : ReapReturn(d)
              \/ CallStep(Reaper)
              \/ ReapScopes

-----------------------------------------------------------------------------
(* The environment: time, failing statements, and the daemon's crash.      *)

GrowStale(a) ==
    /\ heartbeat[a] = "fresh"
    /\ heartbeat' = [heartbeat EXCEPT ![a] = "stale"]
    /\ UNCHANGED <<stage, old, watch, rules, deleg, call, cycle, faults>>

GrowOld(a) ==
    /\ stage[a] = "spawning"
    /\ a \notin old
    /\ old' = old \cup {a}
    /\ UNCHANGED <<stage, watch, heartbeat, rules, deleg, call, cycle, faults>>

Expire(d) ==
    /\ d \in DOMAIN deleg
    /\ ~deleg[d].expired
    /\ ~deleg[d].returned
    /\ deleg' = [deleg EXCEPT ![d].expired = TRUE]
    /\ UNCHANGED <<stage, old, watch, heartbeat, rules, call, cycle, faults>>

\* A statement of p's operation returns an error: `?` leaves the operation,
\* keeping what its earlier statements wrote.
StatementFails(p) ==
    /\ faults < MaxFaults
    /\ faults' = faults + 1
    /\ p \in Holders
    /\ call' = [call EXCEPT ![p] = Idle]
    /\ cycle' = IF p = Reaper THEN Waiting ELSE cycle
    /\ UNCHANGED <<stage, old, watch, heartbeat, rules, deleg>>

\* The daemon stops between two statements and starts again: the tables
\* survive; the operations in flight, the spawns not yet monitored and the
\* monitors do not.
Crash ==
    /\ faults < MaxFaults
    /\ faults' = faults + 1
    /\ call' = [p \in Processes |-> Idle]
    /\ cycle' = Waiting
    /\ watch' = [a \in Agents |-> IF stage[a] = "none" THEN "none" ELSE "gone"]
    /\ UNCHANGED <<stage, old, heartbeat, rules, deleg>>

-----------------------------------------------------------------------------
AgentStep(a) ==
    \/ Spawn(a)
    \/ Activate(a)
    \/ \E committed \in BOOLEAN : MonitorExit(a, committed)
    \/ Stop(a)
    \/ a \in Beating /\ (Register(a) \/ Beat(a) \/ Unregister(a))
    \/ a \in Scoped /\ (Grant(a) \/ RevokeAll(a))
    \/ GrowStale(a)
    \/ GrowOld(a)

CallerStep(c) ==
    \/ \E a \in Agents, o \in Orgs, d \in Delegations : BorrowSelect(c, a, o, d)
    \/ \E d \in Delegations : ReturnSelect(c, d)
    \/ CallStep(c)

Next ==
    \/ \E a \in Agents : AgentStep(a)
    \/ \E o \in Orgs : StopOrg(o)
    \/ KillAll
    \/ \E c \in Callers : CallerStep(c)
    \/ ReapBegin
    \/ ReaperStep
    \/ \E d \in Delegations : Expire(d)
    \/ \E p \in Processes : StatementFails(p)
    \/ Crash

Spec == Init /\ [][Next]_vars

(***************************************************************************)
(* Fairness: a thread inside an operation keeps executing it, and the      *)
(* reaper's interval keeps ticking.  Other calls may hold every connection *)
(* at each particular moment, but pool.get() waits until one is put back,  *)
(* so the reaper gets one if connections keep becoming free.               *)
(***************************************************************************)
Fairness ==
    /\ \A c \in Callers : WF_vars(CallStep(c))
    /\ WF_vars(ReaperStep)
    /\ SF_vars(ReapBegin)

FairSpec == Spec /\ Fairness

=============================================================================
