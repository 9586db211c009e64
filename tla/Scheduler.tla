------------------------------ MODULE Scheduler ------------------------------
(***************************************************************************)
(* The scheduler of spawn requests over the table art_queue, one SQL       *)
(* statement at a time: enqueue counts and then inserts, dequeue selects   *)
(* and then deletes, and nothing makes the two statements one.             *)
(***************************************************************************)
EXTENDS Integers, FiniteSets

CONSTANTS
    Requests, Orgs, OrgOf, Priority, MaxPerOrg, MaxTime, \* as in SpawnQueue
    Workers,    \* threads that call the scheduler
    PoolSize    \* connections in the r2d2 pool

ASSUME SchedulerAssumption ==
    /\ OrgOf \in [Requests -> Orgs]
    /\ Priority \in [Requests -> Int]
    /\ MaxPerOrg \in Nat
    /\ MaxTime \in Nat
    /\ IsFiniteSet(Workers)
    /\ PoolSize \in Nat \ {0}

VARIABLES
    queue, created, now, accepted, handed, drained,      \* as in SpawnQueue
    call        \* the operation each worker is inside of

vars == <<queue, created, now, accepted, handed, drained, call>>

Idle == [at |-> "idle"]
Calls == [at : {"idle"}] \cup [at : {"counted", "picked"}, request : Requests]

TypeOK ==
    /\ queue \subseteq Requests
    /\ created \in [Requests -> 0..MaxTime]
    /\ now \in 0..MaxTime
    /\ accepted \subseteq Requests
    /\ handed \in [Requests -> Nat]
    /\ drained \subseteq Requests
    /\ call \in [Workers -> Calls]

Init ==
    /\ queue = {}
    /\ created = [r \in Requests |-> 0]
    /\ now = 0
    /\ accepted = {}
    /\ handed = [r \in Requests |-> 0]
    /\ drained = {}
    /\ call = [w \in Workers |-> Idle]

Holders == {w \in Workers : call[w].at # "idle"}
ConnectionFree == Cardinality(Holders) < PoolSize

OfOrg(o) == {r \in queue : OrgOf[r] = o}

\* queue_depth_for_org
Depth(o) == Cardinality(OfOrg(o))

\* Mutant of HasRoom: `depth > max` instead of `depth >= max`.
HasRoomOneMore(o) == Depth(o) <= MaxPerOrg

HasRoom(o) == Depth(o) < MaxPerOrg

\* Requests with a row, or about to get one: a row's uuid is its own.
Taken == accepted \cup {call[w].request : w \in {v \in Workers :
                                                   call[v].at = "counted"}}

EnqueueCount(w, r) ==
    /\ ConnectionFree
    /\ call[w] = Idle
    /\ r \notin Taken
    /\ HasRoom(OrgOf[r])
    /\ call' = [call EXCEPT ![w] = [at |-> "counted", request |-> r]]
    /\ UNCHANGED <<queue, created, now, accepted, handed, drained>>

EnqueueInsert(w) ==
    /\ call[w].at = "counted"
    /\ queue' = queue \cup {call[w].request}
    /\ created' = [created EXCEPT ![call[w].request] = now]
    /\ accepted' = accepted \cup {call[w].request}
    /\ call' = [call EXCEPT ![w] = Idle]
    /\ UNCHANGED <<now, handed, drained>>

Before(r, q) == \/ Priority[r] > Priority[q]
                \/ Priority[r] = Priority[q] /\ created[r] <= created[q]

\* ORDER BY priority DESC, created_at ASC LIMIT 1.  created_at has whole
\* seconds, and the order of rows that tie is the database's choice.
First(r) == r \in queue /\ \A q \in queue : Before(r, q)

DequeueSelect(w, r) ==
    /\ ConnectionFree
    /\ call[w] = Idle
    /\ First(r)
    /\ call' = [call EXCEPT ![w] = [at |-> "picked", request |-> r]]
    /\ UNCHANGED <<queue, created, now, accepted, handed, drained>>

\* Mutant of Without: DELETE ... WHERE org_id = ...
WithoutOrg(r) == queue \ OfOrg(OrgOf[r])

Without(r) == queue \ {r}

\* The DELETE's row count is not looked at: the request is handed out even if
\* somebody else deleted the row first.  Nothing that can fail follows the
\* DELETE: from here on the request is its caller's, and is lost with it.
DequeueDelete(w) ==
    /\ call[w].at = "picked"
    /\ queue' = Without(call[w].request)
    /\ handed' = [handed EXCEPT ![call[w].request] = @ + 1]
    /\ call' = [call EXCEPT ![w] = Idle]
    /\ UNCHANGED <<created, now, accepted, drained>>

DrainOrg(o) ==
    /\ ConnectionFree
    /\ queue' = queue \ OfOrg(o)
    /\ drained' = drained \cup OfOrg(o)
    /\ UNCHANGED <<created, now, accepted, handed, call>>

\* The second statement fails, or the daemon stops before it.
Abort(w) ==
    /\ call[w].at # "idle"
    /\ call' = [call EXCEPT ![w] = Idle]
    /\ UNCHANGED <<queue, created, now, accepted, handed, drained>>

Tick ==
    /\ now < MaxTime
    /\ now' = now + 1
    /\ UNCHANGED <<queue, created, accepted, handed, drained, call>>

WorkerStep(w) ==
    \/ \E r \in Requests : EnqueueCount(w, r) \/ DequeueSelect(w, r)
    \/ EnqueueInsert(w)
    \/ DequeueDelete(w)
    \/ Abort(w)

Next == \/ \E w \in Workers : WorkerStep(w)
        \/ \E o \in Orgs : DrainOrg(o)
        \/ Tick

Spec == Init /\ [][Next]_vars

-----------------------------------------------------------------------------
(* With one connection.                                                    *)

Queue == INSTANCE SpawnQueue WITH
    Requests <- Requests, Orgs <- Orgs, OrgOf <- OrgOf, Priority <- Priority,
    MaxPerOrg <- MaxPerOrg, MaxTime <- MaxTime,
    queue <- queue, created <- created, now <- now,
    accepted <- accepted, handed <- handed, drained <- drained

\* With one connection the two statements of an operation act as one: the
\* scheduler is the bounded priority queue of module SpawnQueue.
ImplementsQueue == Queue!Spec

\* r is the head of the queue of its organisation.
Head(r) == r \in queue /\ \A q \in OfOrg(OrgOf[r]) : Before(r, q)

\* "Uses round-robin per org: picks the org with the oldest head-of-queue
\* entry": what is handed out is not younger than any organisation's head.
OldestHeadFirst ==
    [][\A r, h \in Requests :
         handed'[r] > handed[r] /\ Head(h) => created[r] <= created[h]]_vars

(* With any number of connections.                                         *)

\* The queue of an organisation overshoots its bound by no more than the
\* operations that can run at once besides the one inserting.
OvershootBounded == \A o \in Orgs : Depth(o) < MaxPerOrg + PoolSize

\* No accepted request disappears: it waits, was handed out, or was drained.
NoRequestLost ==
    \A r \in accepted : r \in queue \/ handed[r] > 0 \/ r \in drained

\* A request is in one place at most: waiting, handed out once, or drained.
OnePlace ==
    \A r \in Requests :
        /\ handed[r] <= 1
        /\ r \in queue => handed[r] = 0 /\ r \notin drained
        /\ r \in drained => handed[r] = 0

\* A request is handed out twice, or handed out and drained, only if somebody
\* else took its row between the SELECT and the DELETE of a dequeue: there is
\* no other way.
OnePlaceUnlessRace ==
    [](\A w \in Workers : call[w].at = "picked" => call[w].request \in queue)
        => []OnePlace

\* Requests of organisation o that were within the bound when they were
\* counted, and that are not inserted yet.
Counting(o) == {w \in Workers : /\ call[w].at = "counted"
                                /\ OrgOf[call[w].request] = o}

\* The bound of an organisation is exceeded by less than the number of enqueues
\* that are ever between their count and their INSERT at once: not at all, if
\* that is one.
OvershootByRaceOnly(k) ==
    [](\A o \in Orgs : Cardinality(Counting(o)) <= k)
        => [](\A o \in Orgs : Depth(o) <= MaxPerOrg - 1 + k)

=============================================================================
