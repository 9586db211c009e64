-------------------------- MODULE OrchestrationProofs --------------------------
(***************************************************************************)
(* Theorems about Orchestration, for every plan, every set of requests and *)
(* workers, every threshold and every size of the pool.                    *)
(***************************************************************************)
EXTENDS Orchestration, SchedulerProofs

Calling == [at : {"counted", "active"}, backlog : Nat, seen : SUBSET Requests]

PlanTypes ==
    /\ status \in [Tasks -> Statuses]
    /\ started \in [Requests -> Nat]
    /\ running \subseteq Requests
    /\ scaler.at = "off" \/ scaler \in Calling

OrchTypes == TypeOK /\ PlanTypes /\ IsFiniteSet(queue)

\* The orchestrator, the executor and autoscale_check only use the scheduler.
LEMMA SchedulerStep ==
    ASSUME [ONext]_allVars
    PROVE  [Next]_vars
  <1>1. CASE UNCHANGED vars
    BY <1>1
  <1>2. ASSUME NEW w \in Workers,
               \/ \E r \in Requests : EnqueueCount(w, r) \/ DequeueSelect(w, r)
               \/ EnqueueInsert(w) \/ DequeueDelete(w) \/ Abort(w)
        PROVE  [Next]_vars
    BY <1>2 DEF Next, WorkerStep
  <1>3. CASE Tick \/ \E o \in Orgs : DrainOrg(o)
    BY <1>3 DEF Next
  <1> QED
    BY <1>1, <1>2, <1>3 DEF ONext, Dispatch, Start, End, Decide, ScaleBegin,
                            ScaleActive, ScaleIdle, allVars

\* What the scheduler's theorems say holds here too, whoever calls it.
THEOREM OrchestrationUsesScheduler == OSpec => Spec
  <1>1. OInit => Init
    BY DEF OInit
  <1>2. [ONext]_allVars => [Next]_vars
    BY SchedulerStep
  <1> QED
    BY <1>1, <1>2, PTL DEF OSpec, Spec

\* The actions of Orchestration, one by one.
LEMMA OrchSteps ==
    ASSUME [ONext]_allVars
    PROVE  \/ \E w \in Workers, r \in Requests :
                \/ Dispatch(w, r)
                \/ DequeueSelect(w, r) /\ UNCHANGED planVars
           \/ \E w \in Workers :
                (EnqueueInsert(w) \/ DequeueDelete(w) \/ Abort(w)) /\ UNCHANGED planVars
           \/ (Tick \/ \E o \in Orgs : DrainOrg(o)) /\ UNCHANGED planVars
           \/ \E r \in Requests : Start(r) \/ End(r)
           \/ \E t \in Tasks : Decide(t)
           \/ ScaleBegin \/ ScaleActive \/ ScaleIdle
           \/ UNCHANGED allVars
  BY DEF ONext, Reserve, planVars

-----------------------------------------------------------------------------
(* Waves.                                                                  *)

\* A request is on its way, or an agent works for it.
Underway(r) ==
    \/ \E w \in Workers : call[w].at # "idle" /\ call[w].request = r
    \/ r \in queue
    \/ handed[r] > 0

\* Whatever is on its way may run, and so may what runs; only what is in
\* progress is reported on.
WaveInv ==
    /\ \A t \in Tasks : Underway(t) \/ status[t] = "in_progress" => CanRun(t)
    /\ \A t \in Tasks : t \in running => status[t] = "in_progress"

\* Over is over: what could run once can always run.
LEMMA OverStays ==
    ASSUME OrchTypes, WaveInv, [ONext]_allVars
    PROVE  \A t \in Tasks : /\ status[t] \in Over => status'[t] = status[t]
                            /\ CanRun(t) => CanRun(t)'
  <1>1. ASSUME NEW t \in Tasks, status[t] \in Over
        PROVE  status'[t] = status[t]
    <2>1. CASE UNCHANGED status
      BY <2>1
    <2>2. ASSUME NEW r \in Requests, Start(r)
          PROVE  status'[t] = status[t]
      BY <1>1, <2>2 DEF Start, Over
    <2>3. ASSUME NEW r \in Requests, End(r)
          PROVE  status'[t] = status[t]
      BY <1>1, <2>3 DEF End, WaveInv, Over, OrchTypes, PlanTypes
    <2>4. ASSUME NEW u \in Tasks, Decide(u)
          PROVE  status'[t] = status[t]
      BY <1>1, <2>4 DEF Decide, Over, OrchTypes, PlanTypes
    <2> QED
      BY <2>1, <2>2, <2>3, <2>4, OrchSteps
         DEF Dispatch, ScaleBegin, ScaleActive, ScaleIdle, planVars, allVars
  <1> QED
    BY <1>1 DEF CanRun

LEMMA OrchTypesNext ==
    ASSUME SchedulerAssumption, OrchTypes, [ONext]_allVars
    PROVE  OrchTypes'
  <1> USE DEF PlanTypes
  <1>1. TypeOK'
    BY SchedulerStep, SchedTypeNext DEF OrchTypes
  <1>2. ASSUME UNCHANGED planVars
        PROVE  PlanTypes'
    BY <1>2 DEF planVars, OrchTypes
  <1>3. ASSUME NEW w \in Workers, NEW r \in Requests, Dispatch(w, r)
        PROVE  PlanTypes'
    BY <1>3 DEF Dispatch, Reserve, OrchTypes
  <1>4. ASSUME NEW r \in Requests, Start(r) \/ End(r)
        PROVE  PlanTypes'
    BY <1>4 DEF Start, End, Statuses, OrchTypes
  <1>5. ASSUME NEW t \in Tasks, Decide(t)
        PROVE  PlanTypes'
    BY <1>5 DEF Decide, OrchTypes
  <1>6. ASSUME ScaleBegin
        PROVE  PlanTypes'
    BY <1>6, FS_CardinalityType DEF ScaleBegin, Calling, OrchTypes, TypeOK
  <1>7. ASSUME ScaleActive \/ ScaleIdle
        PROVE  PlanTypes'
    BY <1>7 DEF ScaleActive, ScaleIdle, Calling, OrchTypes
  <1>8. PlanTypes'
    BY <1>2, <1>3, <1>4, <1>5, <1>6, <1>7, OrchSteps DEF allVars
  <1>9. \A S : queue' = queue \ S => IsFiniteSet(queue')
    BY FS_Subset DEF OrchTypes
  <1>10. \A r : queue' = queue \cup {r} => IsFiniteSet(queue')
    BY FS_AddElement DEF OrchTypes
  <1>11. queue' = queue => IsFiniteSet(queue')
    BY DEF OrchTypes
  <1>12. IsFiniteSet(queue')
    BY <1>9, <1>10, <1>11, SchedulerStep
       DEF Next, WorkerStep, EnqueueCount, EnqueueInsert, DequeueSelect, DequeueDelete,
           Without, Abort, DrainOrg, Tick, vars
  <1> QED
    BY <1>1, <1>8, <1>12 DEF OrchTypes

LEMMA WaveNext ==
    ASSUME OrchTypes, WaveInv, [ONext]_allVars
    PROVE  WaveInv'
  <1>1. ASSUME NEW t \in Tasks, Underway(t)'
        PROVE  Underway(t) \/ CanRun(t)
    <2>1. CASE UNCHANGED vars
      BY <1>1, <2>1 DEF Underway, vars
    <2>2. ASSUME NEW w \in Workers, NEW r \in Requests, Dispatch(w, r)
          PROVE  Underway(t) \/ CanRun(t)
      BY <1>1, <2>2 DEF Underway, Dispatch, EnqueueCount, OrchTypes, TypeOK
    <2>3. ASSUME NEW w \in Workers, NEW r \in Requests, DequeueSelect(w, r)
          PROVE  Underway(t)
      BY <1>1, <2>3 DEF Underway, DequeueSelect, First, OrchTypes, TypeOK
    <2>4. ASSUME NEW w \in Workers, EnqueueInsert(w)
          PROVE  Underway(t)
      BY <1>1, <2>4 DEF Underway, EnqueueInsert, Idle, OrchTypes, TypeOK
    <2>5. ASSUME NEW w \in Workers, DequeueDelete(w)
          PROVE  Underway(t)
      BY <1>1, <2>5 DEF Underway, DequeueDelete, Without, Idle, OrchTypes, TypeOK
    <2>6. ASSUME NEW w \in Workers, Abort(w)
          PROVE  Underway(t)
      BY <1>1, <2>6 DEF Underway, Abort, Idle, OrchTypes, TypeOK
    <2>7. CASE Tick \/ \E o \in Orgs : DrainOrg(o)
      BY <1>1, <2>7 DEF Underway, Tick, DrainOrg
    <2> QED
      BY <2>1, <2>2, <2>3, <2>4, <2>5, <2>6, <2>7, OrchSteps
         DEF Start, End, Decide, ScaleBegin, ScaleActive, ScaleIdle, allVars
  <1>2. ASSUME NEW t \in Tasks, status'[t] = "in_progress"
        PROVE  status[t] = "in_progress" \/ Underway(t)
    <2>1. CASE UNCHANGED status
      BY <1>2, <2>1
    <2>2. ASSUME NEW r \in Requests, Start(r)
          PROVE  status[t] = "in_progress" \/ Underway(t)
      <3>1. r = t => started[t] < handed[t] /\ started[t] \in Nat /\ handed[t] \in Nat
        BY <2>2 DEF Start, OrchTypes, PlanTypes, TypeOK
      <3> QED BY <1>2, <2>2, <3>1 DEF Start, Underway
    <2>3. ASSUME NEW r \in Requests, End(r)
          PROVE  status[t] = "in_progress"
      BY <1>2, <2>3 DEF End, OrchTypes, PlanTypes
    <2>4. ASSUME NEW u \in Tasks, Decide(u)
          PROVE  status[t] = "in_progress"
      BY <1>2, <2>4 DEF Decide, OrchTypes, PlanTypes
    <2> QED
      BY <2>1, <2>2, <2>3, <2>4, OrchSteps
         DEF Dispatch, ScaleBegin, ScaleActive, ScaleIdle, planVars, allVars
  <1>3. ASSUME NEW t \in Tasks, t \in running'
        PROVE  status'[t] = "in_progress"
    <2>1. CASE UNCHANGED <<status, running>>
      BY <1>3, <2>1 DEF WaveInv
    <2>2. ASSUME NEW r \in Requests, Start(r)
          PROVE  status'[t] = "in_progress"
      BY <1>3, <2>2 DEF Start, WaveInv
    <2>3. ASSUME NEW r \in Requests, End(r)
          PROVE  status'[t] = "in_progress"
      BY <1>3, <2>3 DEF End, WaveInv, OrchTypes, PlanTypes
    <2>4. ASSUME NEW u \in Tasks, Decide(u)
          PROVE  status'[t] = "in_progress"
      BY <1>3, <2>4 DEF Decide, WaveInv, OrchTypes, PlanTypes
    <2> QED
      BY <2>1, <2>2, <2>3, <2>4, OrchSteps
         DEF Dispatch, ScaleBegin, ScaleActive, ScaleIdle, planVars, allVars
  <1>4. \A t \in Tasks : CanRun(t) => CanRun(t)'
    BY OverStays
  <1> QED
    BY <1>1, <1>2, <1>3, <1>4 DEF WaveInv

\* In every plan a task is in progress only while all tasks of earlier waves
\* are over, however late, and however often, its request is handed out.
THEOREM WavesAreSequential == OSpec => []WavesSequential
  <1>1. OInit => OrchTypes /\ WaveInv
    <2> SUFFICES ASSUME OInit PROVE OrchTypes /\ WaveInv
      OBVIOUS
    <2>1. TypeOK
      BY SchedulerAssumption, SchedCallValues DEF OInit, Init, TypeOK, SchedulerAssumption
    <2>2. OrchTypes
      BY <2>1, FS_EmptySet DEF OInit, Init, NoCall, PlanTypes, Statuses, OrchTypes
    <2>3. WaveInv
      BY OrchestrationAssumption
         DEF OInit, Init, Idle, WaveInv, Underway, OrchestrationAssumption
    <2> QED BY <2>2, <2>3
  <1>2. OrchTypes /\ WaveInv /\ [ONext]_allVars => OrchTypes' /\ WaveInv'
    BY SchedulerAssumption, OrchTypesNext, WaveNext
  <1>3. WaveInv => WavesSequential
    BY DEF WaveInv, WavesSequential, CanRun
  <1> QED
    BY <1>1, <1>2, <1>3, PTL DEF OSpec

-----------------------------------------------------------------------------
(* Scaling down.                                                           *)

\* A request that is being inserted is new, to the queue's history as well.
FreshInv ==
    /\ queue \subseteq accepted
    /\ \A w \in Workers : call[w].at = "counted" => call[w].request \notin accepted
    /\ \A v, w \in Workers :
         call[v].at = "counted" /\ call[w].at = "counted"
         /\ call[v].request = call[w].request => v = w

\* An empty backlog stays empty of what was there when it was counted.
ScaleInv ==
    scaler.at # "off" => /\ scaler.seen \subseteq accepted
                         /\ scaler.backlog = 0 => queue \cap scaler.seen = {}
                         /\ scaler.at = "active" => scaler.backlog = 0

LEMMA FreshNext ==
    ASSUME TypeOK, FreshInv, [Next]_vars
    PROVE  FreshInv'
  <1>1. ASSUME NEW w \in Workers, NEW r \in Requests, EnqueueCount(w, r)
        PROVE  FreshInv'
    <2>1. /\ r \notin accepted
          /\ \A v \in Workers : call[v].at = "counted" => call[v].request # r
      BY <1>1 DEF EnqueueCount, Taken
    <2> QED BY <1>1, <2>1 DEF EnqueueCount, FreshInv, TypeOK
  <1>2. ASSUME NEW w \in Workers, EnqueueInsert(w)
        PROVE  FreshInv'
    BY <1>2 DEF EnqueueInsert, FreshInv, Idle, TypeOK
  <1>3. ASSUME NEW w \in Workers, NEW r \in Requests, DequeueSelect(w, r)
        PROVE  FreshInv'
    BY <1>3 DEF DequeueSelect, FreshInv, TypeOK
  <1>4. ASSUME NEW w \in Workers, DequeueDelete(w) \/ Abort(w)
        PROVE  FreshInv'
    BY <1>4 DEF DequeueDelete, Abort, Without, FreshInv, Idle, TypeOK
  <1>5. CASE Tick \/ (\E o \in Orgs : DrainOrg(o)) \/ UNCHANGED vars
    BY <1>5 DEF Tick, DrainOrg, vars, FreshInv
  <1> QED
    BY <1>1, <1>2, <1>3, <1>4, <1>5 DEF Next, WorkerStep

LEMMA ScaleNext ==
    ASSUME OrchTypes, FreshInv, ScaleInv, [ONext]_allVars
    PROVE  ScaleInv'
  <1>1. ASSUME UNCHANGED scaler
        PROVE  ScaleInv'
    <2>1. /\ accepted \subseteq accepted'
          /\ \A r \in queue' : r \in queue \/ r \notin accepted
      BY SchedulerStep DEF Next, WorkerStep, EnqueueCount, EnqueueInsert, DequeueSelect,
                           DequeueDelete, Without, Abort, DrainOrg, Tick, vars, FreshInv
    <2> QED BY <1>1, <2>1 DEF ScaleInv
  <1>2. CASE ScaleBegin
    <2>1. Cardinality(queue) = 0 => queue = {}
      BY FS_EmptySet DEF OrchTypes
    <2> QED BY <1>2, <2>1 DEF ScaleBegin, ScaleInv, vars
  <1>3. CASE ScaleActive
    BY <1>3 DEF ScaleActive, Drained, ScaleInv, vars, OrchTypes, PlanTypes, Calling
  <1>4. CASE ScaleIdle
    BY <1>4 DEF ScaleIdle, ScaleInv
  <1> QED
    BY <1>1, <1>2, <1>3, <1>4, OrchSteps
       DEF Dispatch, Reserve, Start, End, Decide, planVars, allVars

\* Scaling down is never decided while a request waits that was there when the
\* check began, whatever happens to the queue between its queries.
THEOREM DownIsDecidedDrained == OSpec => DownOnlyWhenDrained
  <1>1. OInit => OrchTypes /\ FreshInv /\ ScaleInv
    <2> SUFFICES ASSUME OInit PROVE OrchTypes /\ FreshInv /\ ScaleInv
      OBVIOUS
    <2>1. TypeOK
      BY SchedulerAssumption, SchedCallValues DEF OInit, Init, TypeOK, SchedulerAssumption
    <2>2. OrchTypes
      BY <2>1, FS_EmptySet DEF OInit, Init, NoCall, PlanTypes, Statuses, OrchTypes
    <2>3. FreshInv /\ ScaleInv
      BY DEF OInit, Init, Idle, NoCall, FreshInv, ScaleInv
    <2> QED BY <2>2, <2>3
  <1>2. OrchTypes /\ FreshInv /\ ScaleInv /\ [ONext]_allVars
          => OrchTypes' /\ FreshInv' /\ ScaleInv'
    BY SchedulerAssumption, OrchTypesNext, SchedulerStep, FreshNext, ScaleNext
       DEF OrchTypes
  <1>3. ScaleInv => [scaler.at = "active" /\ scaler'.at = "off"
                     /\ scaler'.decision = "down" => queue \cap scaler.seen = {}]_allVars
    BY DEF ScaleInv
  <1> QED
    BY <1>1, <1>2, <1>3, PTL DEF OSpec, DownOnlyWhenDrained
=============================================================================
