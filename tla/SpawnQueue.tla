------------------------------ MODULE SpawnQueue ------------------------------
(***************************************************************************)
(* What the scheduler's queue promises its callers: a bounded queue per    *)
(* organisation from which each spawn request is handed out at most once,  *)
(* highest priority first and, among equals, oldest first, over all        *)
(* organisations.  This is what the statements of the code amount to with  *)
(* a pool of one connection, as module Scheduler is proved to show; the    *)
(* comments of the code promise another order (OldestHeadFirst there).     *)
(***************************************************************************)
EXTENDS Integers, FiniteSets

CONSTANTS
    Requests,   \* rows a caller may enqueue; each has a fresh uuid
    Orgs,
    OrgOf,      \* the org_id of a request
    Priority,   \* the priority of a request
    MaxPerOrg,  \* max_per_org, or DEFAULT_MAX_QUEUE_PER_ORG
    MaxTime     \* bound on the clock

VARIABLES
    queue,      \* requests in art_queue
    created,    \* created_at of a request that was enqueued
    now,        \* the wall clock, in seconds
    accepted,   \* requests ever enqueued (history)
    handed,     \* how often a request was handed out (history)
    drained     \* requests removed by drain_org (history)

vars == <<queue, created, now, accepted, handed, drained>>

Init ==
    /\ queue = {}
    /\ created = [r \in Requests |-> 0]
    /\ now = 0
    /\ accepted = {}
    /\ handed = [r \in Requests |-> 0]
    /\ drained = {}

OfOrg(o) == {r \in queue : OrgOf[r] = o}

\* q may not be served before r.
Before(r, q) == \/ Priority[r] > Priority[q]
                \/ Priority[r] = Priority[q] /\ created[r] <= created[q]

Enqueue(r) ==
    /\ r \notin accepted
    /\ Cardinality(OfOrg(OrgOf[r])) < MaxPerOrg
    /\ queue' = queue \cup {r}
    /\ created' = [created EXCEPT ![r] = now]
    /\ accepted' = accepted \cup {r}
    /\ UNCHANGED <<now, handed, drained>>

Dequeue(r) ==
    /\ r \in queue
    /\ \A q \in queue : Before(r, q)
    /\ queue' = queue \ {r}
    /\ handed' = [handed EXCEPT ![r] = @ + 1]
    /\ UNCHANGED <<created, now, accepted, drained>>

Drain(o) ==
    /\ queue' = queue \ OfOrg(o)
    /\ drained' = drained \cup OfOrg(o)
    /\ UNCHANGED <<created, now, accepted, handed>>

Tick ==
    /\ now < MaxTime
    /\ now' = now + 1
    /\ UNCHANGED <<queue, created, accepted, handed, drained>>

Next == \/ \E r \in Requests : Enqueue(r) \/ Dequeue(r)
        \/ \E o \in Orgs : Drain(o)
        \/ Tick

Spec == Init /\ [][Next]_vars
=============================================================================
