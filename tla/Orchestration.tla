---------------------------- MODULE Orchestration ----------------------------
(***************************************************************************)
(* The scheduler under an orchestrator: spawn requests for the tasks of a  *)
(* plan, enqueued wave by wave as can_run allows, agents started for the   *)
(* requests the scheduler hands out, and autoscale_check beside them.      *)
(*                                                                         *)
(* A request with a task is identified with its task.  The orchestrator,   *)
(* the executor and the plan's tables are outside this repository; what    *)
(* they do is what the functions of concurrency.rs are there for.          *)
(***************************************************************************)
EXTENDS Scheduler

CONSTANTS
    Tasks,      \* the requests that are for a task of the plan
    WaveOf,     \* the wave of a task
    UpAbove,    \* scale_up_threshold
    DownAbove   \* scale_down_idle_threshold

ASSUME OrchestrationAssumption ==
    /\ Tasks \subseteq Requests
    /\ WaveOf \in [Tasks -> Nat]
    /\ UpAbove \in Nat
    /\ DownAbove \in Nat

VARIABLES
    status,     \* of each task, in the table of the plan service
    started,    \* how often an agent was started for a request
    running,    \* requests whose agent runs
    scaler      \* where a call of autoscale_check is, and what it decided

planVars == <<status, started, running, scaler>>
allVars == <<vars, planVars>>

Over == {"done", "skipped", "cancelled"}
Statuses == Over \cup {"pending", "in_progress", "submitted", "failed"}
NoCall == [at |-> "off", decision |-> "none"]

OInit ==
    /\ Init
    /\ status = [t \in Tasks |-> "pending"]
    /\ started = [r \in Requests |-> 0]
    /\ running = {}
    /\ scaler = NoCall

\* The connection of a scheduler operation; autoscale_check holds one too.
Reserve == /\ scaler.at # "off" => Cardinality(Holders) + 1 < PoolSize
           /\ UNCHANGED scaler

-----------------------------------------------------------------------------
(* Waves.                                                                  *)

\* Mutant of CanRun: a task an agent has submitted counts as over.
CanRunSubmitted(t) ==
    \A u \in Tasks : WaveOf[u] < WaveOf[t] => status[u] \in Over \cup {"submitted"}

\* can_run: no task of an earlier wave is still to be done.  A failed one is.
CanRun(t) == \A u \in Tasks : WaveOf[u] < WaveOf[t] => status[u] \in Over

\* The orchestrator enqueues what is pending and may run.
Dispatch(w, r) ==
    /\ Reserve
    /\ r \in Tasks => status[r] = "pending" /\ CanRun(r)
    /\ EnqueueCount(w, r)
    /\ UNCHANGED <<status, started, running>>

\* The executor starts an agent for a request handed to it, unless its task
\* is no longer pending, however much later that is.
Start(r) ==
    /\ started[r] < handed[r]
    /\ r \notin running
    /\ r \in Tasks => status[r] = "pending"
    /\ started' = [started EXCEPT ![r] = @ + 1]
    /\ running' = running \cup {r}
    /\ status' = [t \in Tasks |-> IF t = r THEN "in_progress" ELSE status[t]]
    /\ UNCHANGED <<vars, scaler>>

\* The agent ends and its monitor reports to the plan, if the report arrives.
End(r) ==
    /\ r \in running
    /\ running' = running \ {r}
    /\ \/ UNCHANGED status
       \/ \E s \in {"submitted", "failed"} :
             /\ r \in Tasks
             /\ status' = [status EXCEPT ![r] = s]
    /\ UNCHANGED <<vars, started, scaler>>

\* What was submitted is accepted or given back; what failed is given up or
\* tried again; what is pending may be dropped.
Decide(t) ==
    /\ \E s \in Statuses :
          /\ \/ status[t] = "submitted" /\ s \in {"done", "pending"}
             \/ status[t] = "failed" /\ s \in {"cancelled", "pending"}
             \/ status[t] = "pending" /\ s = "skipped"
          /\ status' = [status EXCEPT ![t] = s]
    /\ UNCHANGED <<vars, started, running, scaler>>

-----------------------------------------------------------------------------
(* autoscale_check: three queries, and no transaction around them.         *)

ScaleBegin ==
    /\ scaler.at = "off"
    /\ ConnectionFree
    /\ scaler' = [at |-> "counted", backlog |-> Cardinality(queue), seen |-> accepted]
    /\ UNCHANGED <<vars, status, started, running>>

\* Mutant of Drained: a backlog that is no reason to scale up.
DrainedEnough(backlog) == backlog <= UpAbove

Drained(backlog) == backlog = 0

\* The agents that run are counted; idle ones only if that may matter.
ScaleActive ==
    /\ scaler.at = "counted"
    /\ scaler' = IF scaler.backlog > UpAbove THEN [at |-> "off", decision |-> "up"]
                 ELSE IF running # {} /\ Drained(scaler.backlog)
                 THEN [scaler EXCEPT !.at = "active"]
                 ELSE [at |-> "off", decision |-> "steady"]
    /\ UNCHANGED <<vars, status, started, running>>

\* Idle is an agent that runs without a task, whatever it does.
IdleAgents == running \ Tasks

ScaleIdle ==
    /\ scaler.at = "active"
    /\ scaler' = [at |-> "off",
                  decision |-> IF Cardinality(IdleAgents) > DownAbove
                               THEN "down" ELSE "steady"]
    /\ UNCHANGED <<vars, status, started, running>>

-----------------------------------------------------------------------------
ONext ==
    \/ \E w \in Workers :
          \/ \E r \in Requests : Dispatch(w, r)
          \/ \E r \in Requests : Reserve /\ DequeueSelect(w, r)
                                 /\ UNCHANGED <<status, started, running>>
          \/ (EnqueueInsert(w) \/ DequeueDelete(w) \/ Abort(w)) /\ UNCHANGED planVars
    \/ \E o \in Orgs : Reserve /\ DrainOrg(o) /\ UNCHANGED <<status, started, running>>
    \/ Tick /\ UNCHANGED planVars
    \/ \E r \in Requests : Start(r) \/ End(r)
    \/ \E t \in Tasks : Decide(t)
    \/ ScaleBegin \/ ScaleActive \/ ScaleIdle

OSpec == OInit /\ [][ONext]_allVars

-----------------------------------------------------------------------------
\* Waves execute one after the other: while a task is in progress every task
\* of an earlier wave is over.  can_run is asked when a request is enqueued,
\* not when its agent starts, and a request may be handed out twice or long
\* after: it has to be enough that what was over then is over for good.
WavesSequential ==
    \A t, u \in Tasks :
        status[t] = "in_progress" /\ WaveOf[u] < WaveOf[t] => status[u] \in Over

\* Scaling down is decided only when no request waits that was there when the
\* check began, whatever is enqueued, handed out and drained between its queries.
DownOnlyWhenDrained ==
    [][scaler.at = "active" /\ scaler'.at = "off" /\ scaler'.decision = "down"
          => queue \cap scaler.seen = {}]_allVars
=============================================================================
