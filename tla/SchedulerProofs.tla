--------------------------- MODULE SchedulerProofs ---------------------------
(***************************************************************************)
(* Theorems about Scheduler, for every set of requests and workers, every  *)
(* bound per organisation and every size of the pool.                      *)
(***************************************************************************)
EXTENDS Scheduler, FiniteSetTheorems, TLAPS

LEMMA SchedCallFields ==
    ASSUME NEW k \in Calls
    PROVE  /\ k.at \in {"idle", "counted", "picked"}
           /\ k.at \in {"counted", "picked"} => k.request \in Requests
  BY DEF Calls

LEMMA SchedCallValues ==
    /\ Idle \in Calls
    /\ \A r \in Requests : /\ [at |-> "counted", request |-> r] \in Calls
                           /\ [at |-> "picked", request |-> r] \in Calls
  BY DEF Calls, Idle

LEMMA SchedTypeNext ==
    ASSUME SchedulerAssumption, TypeOK, [Next]_vars
    PROVE  TypeOK'
  <1>1. ASSUME NEW w \in Workers, NEW r \in Requests, EnqueueCount(w, r)
        PROVE  TypeOK'
    BY <1>1, SchedCallValues DEF EnqueueCount, TypeOK
  <1>2. ASSUME NEW w \in Workers, NEW r \in Requests, DequeueSelect(w, r)
        PROVE  TypeOK'
    BY <1>2, SchedCallValues DEF DequeueSelect, TypeOK
  <1>3. ASSUME NEW w \in Workers, EnqueueInsert(w)
        PROVE  TypeOK'
    <2>1. call[w].request \in Requests
      BY <1>3, SchedCallFields DEF EnqueueInsert, TypeOK
    <2> QED BY <1>3, <2>1, SchedCallValues DEF EnqueueInsert, TypeOK
  <1>4. ASSUME NEW w \in Workers, DequeueDelete(w)
        PROVE  TypeOK'
    <2>1. call[w].request \in Requests
      BY <1>4, SchedCallFields DEF DequeueDelete, TypeOK
    <2> QED BY <1>4, <2>1, SchedCallValues DEF DequeueDelete, Without, TypeOK
  <1>5. ASSUME NEW w \in Workers, Abort(w)
        PROVE  TypeOK'
    BY <1>5, SchedCallValues DEF Abort, TypeOK
  <1>6. ASSUME NEW o \in Orgs, DrainOrg(o)
        PROVE  TypeOK'
    BY <1>6 DEF DrainOrg, OfOrg, TypeOK
  <1>7. CASE Tick
    BY <1>7 DEF Tick, TypeOK, SchedulerAssumption
  <1>8. CASE UNCHANGED vars
    BY <1>8 DEF vars, TypeOK
  <1> QED
    BY <1>1, <1>2, <1>3, <1>4, <1>5, <1>6, <1>7, <1>8 DEF Next, WorkerStep

\* The queue and the locals of every operation always have their types.
THEOREM SchedulerTypeCorrect == Spec => []TypeOK
  <1>1. Init => TypeOK
    BY SchedulerAssumption, SchedCallValues DEF Init, TypeOK, SchedulerAssumption
  <1>2. TypeOK /\ [Next]_vars => TypeOK'
    BY SchedulerAssumption, SchedTypeNext
  <1> QED
    BY <1>1, <1>2, PTL DEF Spec

-----------------------------------------------------------------------------
(* What becomes of a request, whatever the pool's size.                    *)

LEMMA LostNext ==
    ASSUME TypeOK, NoRequestLost, [Next]_vars
    PROVE  NoRequestLost'
  <1>1. ASSUME NEW w \in Workers, EnqueueInsert(w)
        PROVE  NoRequestLost'
    BY <1>1 DEF EnqueueInsert, NoRequestLost
  <1>2. ASSUME NEW w \in Workers, DequeueDelete(w)
        PROVE  NoRequestLost'
    <2>1. call[w].request \in Requests
      BY <1>2, SchedCallFields DEF DequeueDelete, TypeOK
    <2>2. /\ handed'[call[w].request] > 0
          /\ \A r \in Requests : handed[r] > 0 => handed'[r] > 0
          /\ \A r \in queue : r = call[w].request \/ r \in queue'
      BY <1>2, <2>1 DEF DequeueDelete, Without, TypeOK
    <2> QED BY <1>2, <2>1, <2>2 DEF DequeueDelete, NoRequestLost, TypeOK
  <1>3. ASSUME NEW o \in Orgs, DrainOrg(o)
        PROVE  NoRequestLost'
    BY <1>3 DEF DrainOrg, NoRequestLost
  <1>4. CASE UNCHANGED <<queue, accepted, handed, drained>>
    BY <1>4 DEF NoRequestLost
  <1> QED
    BY <1>1, <1>2, <1>3, <1>4
       DEF Next, WorkerStep, EnqueueCount, DequeueSelect, Abort, Tick, vars

\* However the statements of two operations interleave, an accepted request is
\* waiting, was handed out, or was drained with its organisation's queue.
THEOREM NoRequestIsLost == Spec => []NoRequestLost
  <1>1. Init => NoRequestLost
    BY DEF Init, NoRequestLost
  <1>2. TypeOK /\ NoRequestLost /\ [Next]_vars => NoRequestLost'
    BY LostNext
  <1> QED
    BY <1>1, <1>2, SchedulerTypeCorrect, PTL DEF Spec

-----------------------------------------------------------------------------
(* The overshoot.  An insertion that is still to come is counted as if it  *)
(* had happened: that sum is what the check bounds, together with the      *)
(* number of enqueues that pass it at once.                                *)

Committed(k) ==
    /\ IsFiniteSet(queue)
    /\ \A o \in Orgs : Depth(o) + Cardinality(Counting(o)) <= MaxPerOrg - 1 + k

LEMMA FiniteParts ==
    ASSUME SchedulerAssumption, IsFiniteSet(queue), NEW o
    PROVE  /\ IsFiniteSet(OfOrg(o)) /\ Depth(o) \in Nat
           /\ IsFiniteSet(Counting(o)) /\ Cardinality(Counting(o)) \in Nat
           /\ IsFiniteSet(Holders) /\ Cardinality(Holders) \in Nat
           /\ Cardinality(Counting(o)) <= Cardinality(Holders)
  <1>1. IsFiniteSet(OfOrg(o))
    BY FS_Subset DEF OfOrg
  <1>2. IsFiniteSet(Holders)
    BY FS_Subset DEF Holders, SchedulerAssumption
  <1>3. Counting(o) \subseteq Holders
    BY DEF Counting, Holders
  <1>4. IsFiniteSet(Counting(o)) /\ Cardinality(Counting(o)) <= Cardinality(Holders)
    BY <1>2, <1>3, FS_Subset
  <1> QED
    BY <1>1, <1>2, <1>4, FS_CardinalityType DEF Depth

\* A step after which the queue and the pending insertions are no more than
\* before keeps the sum bounded.
LEMMA CommittedShrinks ==
    ASSUME SchedulerAssumption, NEW k \in Nat \ {0}, Committed(k), queue' \subseteq queue,
           \A o \in Orgs : Counting(o)' \subseteq Counting(o)
    PROVE  Committed(k)'
  <1>1. IsFiniteSet(queue')
    BY FS_Subset DEF Committed
  <1>2. ASSUME NEW o \in Orgs
        PROVE  (Depth(o) + Cardinality(Counting(o)) <= MaxPerOrg - 1 + k)'
    <2>1. /\ IsFiniteSet(OfOrg(o)) /\ Depth(o) \in Nat
          /\ IsFiniteSet(Counting(o)) /\ Cardinality(Counting(o)) \in Nat
      BY FiniteParts DEF Committed
    <2>2. OfOrg(o)' \subseteq OfOrg(o)
      BY DEF OfOrg
    <2>3. /\ Cardinality(OfOrg(o)') <= Cardinality(OfOrg(o))
          /\ Cardinality(OfOrg(o)') \in Nat
      BY <2>1, <2>2, FS_Subset, FS_CardinalityType
    <2>4. /\ Cardinality(Counting(o)') <= Cardinality(Counting(o))
          /\ Cardinality(Counting(o)') \in Nat
      BY <2>1, FS_Subset, FS_CardinalityType
    <2>5. Depth(o) + Cardinality(Counting(o)) <= MaxPerOrg - 1 + k
      BY DEF Committed
    <2> QED
      BY <2>1, <2>3, <2>4, <2>5 DEF Depth, SchedulerAssumption
  <1> QED
    BY <1>1, <1>2 DEF Committed

LEMMA CommittedCount ==
    ASSUME SchedulerAssumption, TypeOK, NEW k \in Nat \ {0}, Committed(k),
           NEW w \in Workers, NEW r \in Requests, EnqueueCount(w, r),
           (\A o \in Orgs : Cardinality(Counting(o)) <= k)'
    PROVE  Committed(k)'
  <1>1. /\ queue' = queue
        /\ call'[w] = [at |-> "counted", request |-> r]
        /\ \A v \in Workers : v # w => call'[v] = call[v]
        /\ call[w].at = "idle"
    BY DEF EnqueueCount, TypeOK, Idle
  <1>2. ASSUME NEW o \in Orgs
        PROVE  (Depth(o) + Cardinality(Counting(o)) <= MaxPerOrg - 1 + k)'
    <2>0. /\ Depth(o)' = Depth(o)
          /\ Depth(o) \in Nat
          /\ IsFiniteSet(Counting(o)) /\ Cardinality(Counting(o)) \in Nat
          /\ Cardinality(Holders) \in Nat
          /\ Cardinality(Counting(o)) <= Cardinality(Holders)
      BY <1>1, FiniteParts DEF Committed, Depth, OfOrg
    <2>1. CASE OrgOf[r] = o
      <3>1. Counting(o)' = Counting(o) \cup {w} /\ w \notin Counting(o)
        BY <1>1, <2>1 DEF Counting
      <3>2. Cardinality(Counting(o)') = Cardinality(Counting(o)) + 1
        BY <2>0, <3>1, FS_AddElement
      <3>3. Cardinality(Counting(o)') <= k /\ Depth(o) < MaxPerOrg
        BY <2>1 DEF EnqueueCount, HasRoom
      <3> QED BY <2>0, <3>2, <3>3 DEF SchedulerAssumption
    <2>2. CASE OrgOf[r] # o
      <3>1. Counting(o)' = Counting(o)
        BY <1>1, <2>2 DEF Counting
      <3> QED BY <2>0, <3>1 DEF Committed
    <2> QED BY <2>1, <2>2
  <1> QED
    BY <1>1, <1>2 DEF Committed

LEMMA CommittedInsert ==
    ASSUME SchedulerAssumption, TypeOK, NEW k \in Nat \ {0}, Committed(k),
           NEW w \in Workers, EnqueueInsert(w)
    PROVE  Committed(k)'
  <1> DEFINE r == call[w].request
  <1>1. /\ queue' = queue \cup {r}
        /\ call[w].at = "counted"
        /\ call'[w].at = "idle"
        /\ \A v \in Workers : v # w => call'[v] = call[v]
    BY DEF EnqueueInsert, TypeOK, Idle
  <1>2. IsFiniteSet(queue')
    BY <1>1, FS_AddElement DEF Committed
  <1>3. ASSUME NEW o \in Orgs
        PROVE  (Depth(o) + Cardinality(Counting(o)) <= MaxPerOrg - 1 + k)'
    <2>0. /\ IsFiniteSet(OfOrg(o)) /\ Depth(o) \in Nat
          /\ IsFiniteSet(Counting(o)) /\ Cardinality(Counting(o)) \in Nat
          /\ Depth(o) + Cardinality(Counting(o)) <= MaxPerOrg - 1 + k
      BY FiniteParts DEF Committed
    <2>1. CASE OrgOf[r] = o
      <3>1. OfOrg(o)' = OfOrg(o) \cup {r}
        BY <1>1, <2>1 DEF OfOrg
      <3>2. Counting(o)' = Counting(o) \ {w} /\ w \in Counting(o)
        BY <1>1, <2>1 DEF Counting
      <3>3. \/ Cardinality(OfOrg(o)') = Cardinality(OfOrg(o))
            \/ Cardinality(OfOrg(o)') = Cardinality(OfOrg(o)) + 1
        BY <2>0, <3>1, FS_AddElement, Zenon
      <3>4. Cardinality(Counting(o)') = Cardinality(Counting(o)) - 1
        BY <2>0, <3>2, FS_RemoveElement
      <3> QED BY <2>0, <3>3, <3>4 DEF Depth, SchedulerAssumption
    <2>2. CASE OrgOf[r] # o
      <3>1. OfOrg(o)' = OfOrg(o) /\ Counting(o)' = Counting(o)
        BY <1>1, <2>2 DEF OfOrg, Counting
      <3> QED BY <2>0, <3>1 DEF Depth
    <2> QED BY <2>1, <2>2
  <1> QED
    BY <1>2, <1>3 DEF Committed

LEMMA CommittedNext ==
    ASSUME SchedulerAssumption, TypeOK, NEW k \in Nat \ {0}, Committed(k), [Next]_vars,
           (\A o \in Orgs : Cardinality(Counting(o)) <= k)'
    PROVE  Committed(k)'
  <1>1. ASSUME NEW w \in Workers, NEW r \in Requests, EnqueueCount(w, r)
        PROVE  Committed(k)'
    BY <1>1, CommittedCount
  <1>2. ASSUME NEW w \in Workers, EnqueueInsert(w)
        PROVE  Committed(k)'
    BY <1>2, CommittedInsert
  <1>3. ASSUME NEW w \in Workers, NEW r \in Requests, DequeueSelect(w, r)
        PROVE  Committed(k)'
    BY <1>3, CommittedShrinks DEF DequeueSelect, Counting, TypeOK
  <1>4. ASSUME NEW w \in Workers, DequeueDelete(w)
        PROVE  Committed(k)'
    BY <1>4, CommittedShrinks DEF DequeueDelete, Without, Counting, Idle, TypeOK
  <1>5. ASSUME NEW w \in Workers, Abort(w)
        PROVE  Committed(k)'
    BY <1>5, CommittedShrinks DEF Abort, Counting, Idle, TypeOK
  <1>6. ASSUME NEW o \in Orgs, DrainOrg(o)
        PROVE  Committed(k)'
    BY <1>6, CommittedShrinks DEF DrainOrg, Counting
  <1>7. CASE Tick \/ UNCHANGED vars
    BY <1>7, CommittedShrinks DEF Tick, vars, Counting
  <1> QED
    BY <1>1, <1>2, <1>3, <1>4, <1>5, <1>6, <1>7 DEF Next, WorkerStep

LEMMA CommittedInit ==
    ASSUME SchedulerAssumption, NEW k \in Nat \ {0}, Init
    PROVE  Committed(k)
  <1>1. \A o \in Orgs : OfOrg(o) = {} /\ Counting(o) = {}
    BY DEF Init, OfOrg, Counting, Idle
  <1>2. IsFiniteSet(queue) /\ Cardinality({}) = 0
    BY FS_EmptySet DEF Init
  <1> QED
    BY <1>1, <1>2 DEF Committed, Depth, SchedulerAssumption

\* Only enqueues that count before one of them inserts exceed the bound, each by
\* one, whatever is dequeued, drained or cut short meanwhile.
THEOREM OvershootNeedsRace ==
    ASSUME NEW k \in Nat \ {0}
    PROVE  Spec => OvershootByRaceOnly(k)
  <1>1. Init => Committed(k)
    BY SchedulerAssumption, CommittedInit
  <1>2. TypeOK /\ Committed(k) /\ [Next]_vars
          /\ (\A o \in Orgs : Cardinality(Counting(o)) <= k)' => Committed(k)'
    BY SchedulerAssumption, CommittedNext
  <1>3. Committed(k) => \A o \in Orgs : Depth(o) <= MaxPerOrg - 1 + k
    <2> SUFFICES ASSUME Committed(k), NEW o \in Orgs
                 PROVE  Depth(o) <= MaxPerOrg - 1 + k
      OBVIOUS
    <2> QED BY SchedulerAssumption, FiniteParts DEF Committed, SchedulerAssumption
  <1> QED
    BY <1>1, <1>2, <1>3, SchedulerTypeCorrect, PTL DEF Spec, OvershootByRaceOnly

\* Every operation under way has a connection.
HoldersBounded == Cardinality(Holders) <= PoolSize

LEMMA HoldersNext ==
    ASSUME SchedulerAssumption, TypeOK, HoldersBounded, [Next]_vars
    PROVE  HoldersBounded'
  <1>1. IsFiniteSet(Holders) /\ Cardinality(Holders) \in Nat
    BY FS_Subset, FS_CardinalityType DEF Holders, SchedulerAssumption
  <1>2. ASSUME NEW w \in Workers, NEW r \in Requests, EnqueueCount(w, r) \/ DequeueSelect(w, r)
        PROVE  HoldersBounded'
    <2>1. Holders' = Holders \cup {w} /\ Cardinality(Holders) < PoolSize
      BY <1>2 DEF EnqueueCount, DequeueSelect, ConnectionFree, Holders, TypeOK
    <2>2. w \notin Holders
      BY <1>2 DEF EnqueueCount, DequeueSelect, Holders, Idle
    <2>3. Cardinality(Holders') = Cardinality(Holders) + 1
      BY <1>1, <2>1, <2>2, FS_AddElement
    <2> QED BY <1>1, <2>1, <2>3 DEF HoldersBounded, SchedulerAssumption
  <1>3. ASSUME Holders' \subseteq Holders
        PROVE  HoldersBounded'
    <2>1. Cardinality(Holders') <= Cardinality(Holders) /\ Cardinality(Holders') \in Nat
      BY <1>1, <1>3, FS_Subset, FS_CardinalityType
    <2> QED BY <1>1, <2>1 DEF HoldersBounded, SchedulerAssumption
  <1>4. ASSUME NEW w \in Workers, EnqueueInsert(w) \/ DequeueDelete(w) \/ Abort(w)
        PROVE  Holders' \subseteq Holders
    BY <1>4 DEF EnqueueInsert, DequeueDelete, Abort, Holders, Idle, TypeOK
  <1>5. CASE Tick \/ (\E o \in Orgs : DrainOrg(o)) \/ UNCHANGED vars
    BY <1>3, <1>5 DEF Tick, DrainOrg, vars, Holders
  <1> QED
    BY <1>2, <1>3, <1>4, <1>5 DEF Next, WorkerStep

\* With PoolSize connections the queue of an organisation holds at most
\* PoolSize - 1 requests more than max_per_org.
THEOREM OvershootIsBounded == Spec => []OvershootBounded
  <1> DEFINE Inv == HoldersBounded /\ Committed(PoolSize)
  <1>0. SchedulerAssumption /\ PoolSize \in Nat \ {0}
    BY SchedulerAssumption DEF SchedulerAssumption
  <1>1. Init => Inv
    <2> SUFFICES ASSUME Init PROVE Inv
      OBVIOUS
    <2>1. Holders = {}
      BY DEF Init, Holders, Idle
    <2>2. HoldersBounded
      BY <1>0, <2>1, FS_EmptySet DEF HoldersBounded
    <2> QED BY <1>0, <2>2, CommittedInit
  <1>2. TypeOK /\ Inv /\ [Next]_vars => Inv'
    <2> SUFFICES ASSUME TypeOK, Inv, [Next]_vars PROVE Inv'
      OBVIOUS
    <2>1. HoldersBounded'
      BY <1>0, HoldersNext
    <2>2. ASSUME NEW o \in Orgs PROVE Cardinality(Counting(o)') <= PoolSize
      <3>1. IsFiniteSet(Holders') /\ Counting(o)' \subseteq Holders'
        BY <1>0, FS_Subset DEF Holders, Counting, SchedulerAssumption
      <3>2. /\ Cardinality(Counting(o)') <= Cardinality(Holders')
            /\ Cardinality(Counting(o)') \in Nat /\ Cardinality(Holders') \in Nat
        BY <3>1, FS_Subset, FS_CardinalityType
      <3> QED BY <1>0, <2>1, <3>2 DEF HoldersBounded
    <2>3. Committed(PoolSize)'
      BY <1>0, <2>2, CommittedNext
    <2> QED BY <2>1, <2>3
  <1>3. Inv => OvershootBounded
    <2> SUFFICES ASSUME Inv, NEW o \in Orgs PROVE Depth(o) < MaxPerOrg + PoolSize
      BY DEF OvershootBounded
    <2>1. /\ Depth(o) \in Nat /\ Cardinality(Counting(o)) \in Nat
          /\ Depth(o) + Cardinality(Counting(o)) <= MaxPerOrg - 1 + PoolSize
      BY <1>0, FiniteParts DEF Committed
    <2> QED BY <1>0, <2>1 DEF SchedulerAssumption
  <1> QED
    BY <1>1, <1>2, <1>3, SchedulerTypeCorrect, PTL DEF Spec

-----------------------------------------------------------------------------
(* A request in one place.  Rows are inserted once for each request, so    *)
(* only a dequeue that deletes a row somebody else took can hand out twice.*)

PlaceInv ==
    /\ OnePlace
    /\ \A r \in Requests :
         r \in queue \/ handed[r] > 0 \/ r \in drained => r \in accepted
    /\ \A w \in Workers : call[w].at = "counted" => call[w].request \notin accepted
    /\ \A v, w \in Workers :
         /\ call[v].at = "counted" /\ call[w].at = "counted"
         /\ call[v].request = call[w].request
         => v = w

PickedWaits ==
    \A w \in Workers : call[w].at = "picked" => call[w].request \in queue

LEMMA PlaceNext ==
    ASSUME TypeOK, PlaceInv, PickedWaits, [Next]_vars
    PROVE  PlaceInv'
  <1>1. ASSUME NEW w \in Workers, NEW r \in Requests, EnqueueCount(w, r)
        PROVE  PlaceInv'
    <2>1. /\ call'[w] = [at |-> "counted", request |-> r]
          /\ \A v \in Workers : v # w => call'[v] = call[v]
          /\ UNCHANGED <<queue, accepted, handed, drained>>
          /\ r \notin accepted
          /\ \A v \in Workers : call[v].at = "counted" => call[v].request # r
      BY <1>1 DEF EnqueueCount, Taken, TypeOK
    <2> QED BY <2>1 DEF PlaceInv, OnePlace
  <1>2. ASSUME NEW w \in Workers, NEW r \in Requests, DequeueSelect(w, r)
        PROVE  PlaceInv'
    <2>1. /\ call'[w].at = "picked"
          /\ \A v \in Workers : v # w => call'[v] = call[v]
          /\ UNCHANGED <<queue, accepted, handed, drained>>
      BY <1>2 DEF DequeueSelect, TypeOK
    <2> QED BY <2>1 DEF PlaceInv, OnePlace
  <1>3. ASSUME NEW w \in Workers, EnqueueInsert(w)
        PROVE  PlaceInv'
    <2> DEFINE r == call[w].request
    <2>1. /\ call[w].at = "counted" /\ call'[w].at = "idle"
          /\ \A v \in Workers : v # w => call'[v] = call[v]
          /\ queue' = queue \cup {r} /\ accepted' = accepted \cup {r}
          /\ UNCHANGED <<handed, drained>>
          /\ r \in Requests
      BY <1>3, SchedCallFields DEF EnqueueInsert, Idle, TypeOK
    <2>2. r \notin accepted /\ handed[r] = 0 /\ r \notin drained
      BY <2>1 DEF PlaceInv, OnePlace, TypeOK
    <2>3. OnePlace'
      BY <2>1, <2>2 DEF PlaceInv, OnePlace
    <2> QED BY <2>1, <2>3 DEF PlaceInv
  <1>4. ASSUME NEW w \in Workers, DequeueDelete(w)
        PROVE  PlaceInv'
    <2> DEFINE r == call[w].request
    <2>1. /\ call[w].at = "picked" /\ call'[w].at = "idle"
          /\ \A v \in Workers : v # w => call'[v] = call[v]
          /\ queue' = queue \ {r} /\ handed'[r] = handed[r] + 1
          /\ \A q \in Requests : q # r => handed'[q] = handed[q]
          /\ UNCHANGED <<accepted, drained>>
          /\ r \in Requests
      BY <1>4, SchedCallFields DEF DequeueDelete, Without, Idle, TypeOK
    <2>2. r \in queue /\ handed[r] = 0 /\ r \notin drained /\ r \in accepted
      BY <2>1 DEF PlaceInv, OnePlace, PickedWaits
    <2>3. OnePlace'
      BY <2>1, <2>2 DEF PlaceInv, OnePlace
    <2> QED BY <2>1, <2>2, <2>3 DEF PlaceInv
  <1>5. ASSUME NEW w \in Workers, Abort(w)
        PROVE  PlaceInv'
    <2>1. /\ call'[w].at = "idle"
          /\ \A v \in Workers : v # w => call'[v] = call[v]
          /\ UNCHANGED <<queue, accepted, handed, drained>>
      BY <1>5 DEF Abort, Idle, TypeOK
    <2> QED BY <2>1 DEF PlaceInv, OnePlace
  <1>6. ASSUME NEW o \in Orgs, DrainOrg(o)
        PROVE  PlaceInv'
    BY <1>6 DEF DrainOrg, OfOrg, PlaceInv, OnePlace
  <1>7. CASE Tick \/ UNCHANGED vars
    BY <1>7 DEF Tick, vars, PlaceInv, OnePlace
  <1> QED
    BY <1>1, <1>2, <1>3, <1>4, <1>5, <1>6, <1>7 DEF Next, WorkerStep

\* However many connections there are, a request is handed out twice, or handed
\* out and drained, only when the row a dequeue selected is gone before it
\* deletes it.
THEOREM OnePlaceNeedsRace == Spec => OnePlaceUnlessRace
  <1>1. Init => PlaceInv
    BY DEF Init, Idle, PlaceInv, OnePlace
  <1>2. TypeOK /\ PlaceInv /\ PickedWaits /\ [Next]_vars => PlaceInv'
    BY PlaceNext
  <1>3. PlaceInv => OnePlace
    BY DEF PlaceInv
  <1> QED
    BY <1>1, <1>2, <1>3, SchedulerTypeCorrect, PTL
       DEF Spec, OnePlaceUnlessRace, PickedWaits

-----------------------------------------------------------------------------
(* The refinement, with one connection.                                    *)

\* What an operation's first statement read is still so at its second.
SchedSerialInv ==
    /\ \A v, w \in Holders : v = w
    /\ \A w \in Workers :
         /\ call[w].at = "counted" =>
              /\ call[w].request \notin accepted
              /\ HasRoom(OrgOf[call[w].request])
         /\ call[w].at = "picked" => First(call[w].request)

LEMMA SchedFreeMeansQuiet ==
    ASSUME SchedulerAssumption, PoolSize = 1, ConnectionFree
    PROVE  \A w \in Workers : call[w].at = "idle"
  <1>1. IsFiniteSet(Holders)
    BY FS_Subset DEF Holders, SchedulerAssumption
  <1>2. Cardinality(Holders) = 0
    BY <1>1, FS_CardinalityType DEF ConnectionFree
  <1>3. Holders = {}
    BY <1>1, <1>2, FS_EmptySet
  <1> QED
    BY <1>3 DEF Holders

LEMMA SchedSerialNext ==
    ASSUME SchedulerAssumption, PoolSize = 1, TypeOK, SchedSerialInv, [Next]_vars
    PROVE  SchedSerialInv'
  <1>1. ASSUME NEW w \in Workers, NEW r \in Requests, EnqueueCount(w, r)
        PROVE  SchedSerialInv'
    <2>1. \A v \in Workers : call[v].at = "idle"
      BY <1>1, SchedFreeMeansQuiet DEF EnqueueCount
    <2>2. /\ call'[w] = [at |-> "counted", request |-> r]
          /\ \A v \in Workers : v # w => call'[v].at = "idle"
          /\ r \notin accepted /\ HasRoom(OrgOf[r])
          /\ UNCHANGED <<queue, accepted>>
      BY <1>1, <2>1 DEF EnqueueCount, Taken, TypeOK
    <2>3. HasRoom(OrgOf[r])'
      BY <2>2 DEF HasRoom, Depth, OfOrg
    <2> QED BY <2>2, <2>3 DEF SchedSerialInv, Holders
  <1>2. ASSUME NEW w \in Workers, NEW r \in Requests, DequeueSelect(w, r)
        PROVE  SchedSerialInv'
    <2>1. \A v \in Workers : call[v].at = "idle"
      BY <1>2, SchedFreeMeansQuiet DEF DequeueSelect
    <2>2. /\ call'[w] = [at |-> "picked", request |-> r]
          /\ \A v \in Workers : v # w => call'[v].at = "idle"
          /\ First(r)
          /\ UNCHANGED <<queue, created>>
      BY <1>2, <2>1 DEF DequeueSelect, TypeOK
    <2> QED BY <2>2 DEF SchedSerialInv, Holders, First, Before
  <1>3. ASSUME NEW w \in Workers, EnqueueInsert(w) \/ DequeueDelete(w) \/ Abort(w)
        PROVE  SchedSerialInv'
    <2>1. \A v \in Workers : v # w => call[v].at = "idle"
      BY <1>3 DEF EnqueueInsert, DequeueDelete, Abort, SchedSerialInv, Holders
    <2>2. \A v \in Workers : call'[v].at = "idle"
      BY <1>3, <2>1 DEF EnqueueInsert, DequeueDelete, Abort, Idle, TypeOK
    <2> QED BY <2>2 DEF SchedSerialInv, Holders
  <1>4. ASSUME NEW o \in Orgs, DrainOrg(o)
        PROVE  SchedSerialInv'
    <2>1. \A w \in Workers : call[w].at = "idle" /\ call'[w].at = "idle"
      BY <1>4, SchedFreeMeansQuiet DEF DrainOrg
    <2> QED BY <2>1 DEF SchedSerialInv, Holders
  <1>5. CASE Tick \/ UNCHANGED vars
    BY <1>5 DEF Tick, vars, SchedSerialInv, Holders, HasRoom, Depth, OfOrg,
                First, Before
  <1> QED
    BY <1>1, <1>2, <1>3, <1>4, <1>5 DEF Next, WorkerStep

\* The second statement of an operation is the abstract operation; the first
\* changes nothing the abstract queue can see.
LEMMA SchedStepSimulates ==
    ASSUME SchedulerAssumption, PoolSize = 1, TypeOK, SchedSerialInv, [Next]_vars
    PROVE  [Queue!Next]_(Queue!vars)
  <1> USE DEF Queue!vars
  <1>1. ASSUME NEW w \in Workers, NEW r \in Requests,
               EnqueueCount(w, r) \/ DequeueSelect(w, r)
        PROVE  UNCHANGED Queue!vars
    BY <1>1 DEF EnqueueCount, DequeueSelect
  <1>2. ASSUME NEW w \in Workers, EnqueueInsert(w)
        PROVE  Queue!Next
    <2>1. call[w].request \in Requests
      BY <1>2, SchedCallFields DEF EnqueueInsert, TypeOK
    <2>2. Queue!Enqueue(call[w].request)
      BY <1>2 DEF EnqueueInsert, SchedSerialInv, HasRoom, Depth, OfOrg,
                  Queue!Enqueue, Queue!OfOrg, Queue!Cardinality, Cardinality
    <2> QED BY <2>1, <2>2 DEF Queue!Next
  <1>3. ASSUME NEW w \in Workers, DequeueDelete(w)
        PROVE  Queue!Next
    <2>1. call[w].request \in Requests
      BY <1>3, SchedCallFields DEF DequeueDelete, TypeOK
    <2>2. Queue!Dequeue(call[w].request)
      BY <1>3 DEF DequeueDelete, Without, SchedSerialInv, First, Before,
                  Queue!Dequeue, Queue!Before
    <2> QED BY <2>1, <2>2 DEF Queue!Next
  <1>4. ASSUME NEW w \in Workers, Abort(w)
        PROVE  UNCHANGED Queue!vars
    BY <1>4 DEF Abort
  <1>5. ASSUME NEW o \in Orgs, DrainOrg(o)
        PROVE  Queue!Next
    <2>1. Queue!Drain(o)
      BY <1>5 DEF DrainOrg, OfOrg, Queue!Drain, Queue!OfOrg
    <2> QED BY <2>1 DEF Queue!Next
  <1>6. CASE Tick
    <2>1. Queue!Tick
      BY <1>6 DEF Tick, Queue!Tick
    <2> QED BY <2>1 DEF Queue!Next
  <1>7. CASE UNCHANGED vars
    BY <1>7 DEF vars
  <1> QED
    BY <1>1, <1>2, <1>3, <1>4, <1>5, <1>6, <1>7 DEF Next, WorkerStep

\* With one connection the scheduler implements the bounded priority queue:
\* every INSERT and every DELETE happens under the condition that the
\* statement before it checked.
THEOREM SchedulerImplementsQueue ==
    ASSUME PoolSize = 1
    PROVE  Spec => ImplementsQueue
  <1>1. Init => SchedSerialInv /\ Queue!Init
    BY DEF Init, Idle, SchedSerialInv, Holders, Queue!Init
  <1>2. TypeOK /\ SchedSerialInv /\ [Next]_vars => SchedSerialInv'
    BY SchedulerAssumption, SchedSerialNext
  <1>3. TypeOK /\ SchedSerialInv /\ [Next]_vars => [Queue!Next]_(Queue!vars)
    BY SchedulerAssumption, SchedStepSimulates
  <1> QED
    BY <1>1, <1>2, <1>3, SchedulerTypeCorrect, PTL
       DEF Spec, ImplementsQueue, Queue!Spec

=============================================================================
