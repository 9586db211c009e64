------------------------------ MODULE AgentLease ------------------------------
(***************************************************************************)
(* What lending an agent promises to the organisations: an agent is lent   *)
(* and taken back in one step, only a running agent is lent, two           *)
(* organisations never lend to each other, and an agent that has ended is  *)
(* active again only by being taken back.  A fault may cut a step in two   *)
(* and leave its first half.  Module Lifecycle is shown to implement this  *)
(* with a pool of one connection.                                          *)
(***************************************************************************)
EXTENDS Naturals

CONSTANTS
    Agents,    \* ids of agent rows
    Orgs,      \* organisations
    OrgOf,     \* the organisation that owns each agent
    Leases,    \* ids of delegations
    MaxFaults  \* bound on faults

VARIABLES
    life,      \* "none", "starting", "home", "lent" or "ended"
    lease,     \* the active leases: who is lent, to which organisation
    faults     \* faults so far

vars == <<life, lease, faults>>

Init ==
    /\ life = [a \in Agents |-> "none"]
    /\ lease = [d \in {} |-> 0]
    /\ faults = 0

Without(d) == [e \in DOMAIN lease \ {d} |-> lease[e]]
With(d, a, o) == [e \in DOMAIN lease \cup {d} |->
                    IF e = d THEN [agent |-> a, to |-> o] ELSE lease[e]]

\* Organisation o lends an agent of its own to organisation `to`.
Lends(o, to) ==
    \E d \in DOMAIN lease : OrgOf[lease[d].agent] = o /\ lease[d].to = to

\* Agent a may be lent to organisation o, as lease d.
MayLend(a, o, d) ==
    /\ life[a] = "home"
    /\ ~Lends(o, OrgOf[a])
    /\ d \notin DOMAIN lease

Start(a) ==
    /\ life[a] = "none"
    /\ life' = [life EXCEPT ![a] = "starting"]
    /\ UNCHANGED <<lease, faults>>

Arrive(a) ==
    /\ life[a] = "starting"
    /\ life' = [life EXCEPT ![a] = "home"]
    /\ UNCHANGED <<lease, faults>>

Lend(a, o, d) ==
    /\ MayLend(a, o, d)
    /\ lease' = With(d, a, o)
    /\ life' = [life EXCEPT ![a] = "lent"]
    /\ UNCHANGED faults

\* Also of an agent that has ended meanwhile.
TakeBack(d) ==
    /\ d \in DOMAIN lease
    /\ lease' = Without(d)
    /\ life' = [life EXCEPT ![lease[d].agent] = "home"]
    /\ UNCHANGED faults

\* One agent, an organisation's, or all; its leases go on.
End(S) ==
    /\ \A a \in S : life[a] \notin {"none", "ended"}
    /\ life' = [a \in Agents |-> IF a \in S THEN "ended" ELSE life[a]]
    /\ UNCHANGED <<lease, faults>>

\* An agent that stays home although it is lent, or lent although it is back.
Fault ==
    /\ faults < MaxFaults
    /\ faults' = faults + 1
    /\ \/ UNCHANGED lease
       \/ \E a \in Agents, o \in Orgs, d \in Leases :
             MayLend(a, o, d) /\ lease' = With(d, a, o)
       \/ \E d \in DOMAIN lease : lease' = Without(d)
    /\ UNCHANGED life

Next ==
    \/ \E a \in Agents : Start(a) \/ Arrive(a)
    \/ \E a \in Agents, o \in Orgs, d \in Leases : Lend(a, o, d)
    \/ \E d \in DOMAIN lease : TakeBack(d)
    \/ \E S \in SUBSET Agents : End(S)
    \/ Fault

Spec == Init /\ [][Next]_vars
=============================================================================
