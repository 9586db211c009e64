---------------------------- MODULE LifecycleProps ----------------------------
(***************************************************************************)
(* What the agent lifecycle promises: properties of module Lifecycle.      *)
(* Some hold however many connections the pool has and whatever fails;     *)
(* some need operations to be serialised (a pool of one connection), or    *)
(* no operation to be cut short.  README.md says which is which.           *)
(***************************************************************************)
EXTENDS Lifecycle

Quiet == Holders = {}

\* No process is inside an operation that has already read agent a.
Untouched(a) ==
    \A p \in Processes : call[p].at # "idle" => call[p].agent # a

-----------------------------------------------------------------------------
(* Whatever the pool's size and the faults.                                *)

Settled(a) == stage[a] \in Ended /\ ActiveOf(a) = {} /\ Untouched(a)

\* An agent that has ended (stopped, reaped, or failed) stays ended for good
\* once it has no active delegation and no operation in flight has read it:
\* nothing in allocator.rs, delegation.rs, reaper.rs or the monitor revives
\* it, lends it, or lets a new delegation of it begin.
SettledIsFinal == [][\A a \in Agents : Settled(a) => Settled(a)']_vars

Overdue(d) == d \in DOMAIN deleg /\ deleg[d].expired /\ ~deleg[d].returned

\* An expired delegation is returned eventually, although reap_cycle gives
\* the rest of its list up whenever somebody else returned one of it first
\* (reaper.rs:65) and although some cycles fail.
ExpiredIsReturned ==
    \A d \in Delegations :
        Overdue(d) ~> (d \in DOMAIN deleg /\ deleg[d].returned)

\* An agent whose spawn never got to start a process does not stay in
\* 'spawning' for ever (reaper.rs:46).
ZombieIsReaped ==
    \A a \in Agents : (a \in old /\ stage[a] = "spawning") ~> stage[a] # "spawning"

\* A stale heartbeat row is eventually removed or refreshed, also for agents
\* that were stopped or failed without unregistering.
StaleRowLeaves == \A a \in Agents : heartbeat[a] = "stale" ~> heartbeat[a] # "stale"

\* Scope rules of a stopped or reaped agent do not outlive it, even those
\* granted after it ended (grant does not look at the stage).
TerminalScopesLeave ==
    \A a \in Agents : (a \in rules /\ stage[a] \in Terminal)
                        ~> (a \notin rules \/ stage[a] \notin Terminal)

-----------------------------------------------------------------------------
(* With operations serialised.                                             *)

\* Two different active delegations never lend in opposite directions between
\* the same two organisations (detect_circular).
NoMutualDelegation ==
    \A d, e \in DOMAIN deleg :
        /\ d # e
        /\ ~deleg[d].returned
        /\ ~deleg[e].returned
        => ~(deleg[d].from = deleg[e].to /\ deleg[d].to = deleg[e].from)

\* Only a running agent becomes borrowed: what borrow_agent verified with its
\* first statement still holds when its last one runs.
BorrowedWasRunning ==
    [][\A a \in Agents : stage'[a] = "borrowed" /\ stage[a] # "borrowed"
                           => stage[a] = "running"]_vars

\* The reaper takes only an agent whose heartbeat is stale at that moment, or
\* one that has been 'spawning' for more than an hour.
ReapedWasStale ==
    [][\A a \in Agents : stage'[a] = "reaped" /\ stage[a] # "reaped"
          => heartbeat[a] = "stale" \/ (stage[a] = "spawning" /\ a \in old)]_vars

\* The stage and the delegations as an operation in flight will have found
\* them: the row borrow_agent has inserted counts when the agent is 'borrowed',
\* the row return_agent has marked counts until the agent is 'running' again.
LifeOf(s) == CASE s = "none"     -> "none"
               [] s = "spawning" -> "starting"
               [] s = "running"  -> "home"
               [] s = "borrowed" -> "lent"
               [] OTHER          -> "ended"

LeaseLife == [a \in Agents |-> LifeOf(stage[a])]

HeldAt(point) == {call[p].deleg : p \in {q \in Processes : call[q].at = point}}

LeaseRows == {d \in DOMAIN deleg : ~deleg[d].returned \/ d \in HeldAt("marked")}
             \ HeldAt("inserted")

LeaseTerms == [d \in LeaseRows |-> [agent |-> deleg[d].agent, to |-> deleg[d].to]]

Lease == INSTANCE AgentLease WITH
    Agents <- Agents, Orgs <- Orgs, OrgOf <- OrgOf, Leases <- Delegations,
    MaxFaults <- MaxFaults,
    life <- LeaseLife, lease <- LeaseTerms, faults <- faults

\* The four statements of borrow_agent and the three of return_agent act as one
\* step each, with everything else that changes a stage around them: delegation
\* is the lending of module AgentLease, also when a fault cuts a call short.
ImplementsLease == Lease!Spec

-----------------------------------------------------------------------------
(* However many connections: the one race that breaks each of these three. *)

\* Two calls of borrow_agent have passed detect_circular, about to lend in
\* opposite directions.
Opposed(p, q) ==
    /\ p # q
    /\ call[p].at = "clear"
    /\ call[q].at = "clear"
    /\ call[p].to = OrgOf[call[q].agent]
    /\ call[q].to = OrgOf[call[p].agent]

\* Two organisations come to lend to each other only if at some moment two
\* calls have both found no circle and neither has inserted its delegation
\* (delegation.rs: no transaction around detect_circular and the INSERT).
MutualOnlyByRace ==
    [](\A p, q \in Processes : ~Opposed(p, q)) => []NoMutualDelegation

Borrowing(p) == call[p].at \in {"checked", "clear", "inserted"}

\* An agent that is not running becomes borrowed only if somebody else writes
\* its stage between the SELECT and the UPDATE of a borrow_agent.
BorrowedOnlyByRace ==
    [][\A p \in Processes : Borrowing(p) /\ ~BorrowUpdate(p)
          => stage'[call[p].agent] = stage[call[p].agent]]_vars
        => BorrowedWasRunning

Listed(a) == cycle.at \in {"stale", "unregister"} /\ a \in cycle.todo

\* The reaper takes an agent it should not only if the agent's heartbeat is
\* written between find_stale and the agent's turn in the loop (reaper.rs:26).
ReapedOnlyByRace ==
    [][\A a \in Agents : Listed(a) => heartbeat'[a] = heartbeat[a]]_vars
        => ReapedWasStale

-----------------------------------------------------------------------------
(* With operations serialised, as long as none was cut short by an error   *)
(* or a crash.                                                             *)

\* Between operations the stage and the delegations of an agent tell the same
\* story: borrowed means lent by exactly one active delegation, spawning and
\* running mean by none, and an ended agent is lent by at most one.
StageMatchesDelegations ==
    Quiet /\ faults = 0 => \A a \in Agents :
        \/ ActiveOf(a) = {} /\ stage[a] # "borrowed"
        \/ /\ stage[a] \in {"borrowed"} \cup Ended
           /\ \E d \in DOMAIN deleg : ActiveOf(a) = {d}

\* A borrowed agent whose delegation has expired stops being borrowed.  (An
\* error between the two UPDATEs of return_agent leaves it borrowed for good.)
BorrowedComesBack ==
    \A a \in Agents, d \in Delegations :
        (Overdue(d) /\ deleg[d].agent = a /\ stage[a] = "borrowed")
            ~> (stage[a] # "borrowed" \/ faults > 0)

-----------------------------------------------------------------------------
(* Said of the program and not so.                                         *)

\* A terminal agent (types.rs) never becomes active again.  return_agent
\* writes 'running' whatever the stage.
TerminalIsFinal ==
    [][\A a \in Agents : stage[a] \in Terminal
                           => stage'[a] \notin {"running", "borrowed"}]_vars

=============================================================================
