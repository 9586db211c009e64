--------------------------- MODULE LifecycleProofs ---------------------------
(***************************************************************************)
(* Theorems about Lifecycle, for every set of agents, organisations,       *)
(* delegations and callers, every size of the pool and every bound on the  *)
(* faults (where a theorem needs operations to be serialised, it says so). *)
(***************************************************************************)
EXTENDS LifecycleProps, TLAPS, FiniteSetTheorems

\* The locals an operation carries at each of its statements.
LEMMA CallFields ==
    ASSUME NEW k \in Calls
    PROVE  /\ k.at \in {"idle", "checked", "clear", "inserted", "found", "marked"}
           /\ k.at \in {"checked", "clear"} =>
                /\ k.agent \in Agents
                /\ k.to \in Orgs
                /\ k.deleg \in Delegations
           /\ k.at \in {"inserted", "found", "marked"} =>
                k.agent \in Agents /\ k.deleg \in Delegations
           /\ k.at = "idle" => k = Idle
  BY DEF Calls, Idle

LEMMA CallValues ==
    /\ Idle \in Calls
    /\ \A a \in Agents, d \in Delegations :
         /\ [at |-> "inserted", agent |-> a, deleg |-> d] \in Calls
         /\ [at |-> "found", agent |-> a, deleg |-> d] \in Calls
         /\ [at |-> "marked", agent |-> a, deleg |-> d] \in Calls
         /\ \A o \in Orgs :
              /\ [at |-> "checked", agent |-> a, to |-> o, deleg |-> d] \in Calls
              /\ [at |-> "clear", agent |-> a, to |-> o, deleg |-> d] \in Calls
  BY DEF Calls, Idle

LEMMA CycleFields ==
    ASSUME NEW k \in Cycles
    PROVE  /\ k.at \in {"waiting", "expired", "stale", "unregister", "return"}
           /\ k.at \in {"stale", "unregister"} => k.todo \subseteq Agents
           /\ k.at = "unregister" => k.agent \in Agents
           /\ k.at = "return" => k.todo \subseteq Delegations
           /\ k.at = "waiting" => k = Waiting
  BY DEF Cycles, Waiting

LEMMA CycleValues ==
    /\ Waiting \in Cycles
    /\ [at |-> "expired"] \in Cycles
    /\ \A S \in SUBSET Agents : [at |-> "stale", todo |-> S] \in Cycles
    /\ \A S \in SUBSET Agents, a \in Agents :
         [at |-> "unregister", todo |-> S, agent |-> a] \in Cycles
    /\ \A S \in SUBSET Delegations : [at |-> "return", todo |-> S] \in Cycles
  BY DEF Cycles, Waiting

\* What the statements with a WHERE clause do to the stages.
LEMMA PutType ==
    ASSUME NEW S, NEW v \in Stages, stage \in [Agents -> Stages]
    PROVE  /\ Put(stage, S, v) \in [Agents -> Stages]
           /\ \A a \in Agents : Put(stage, S, v)[a] = IF a \in S THEN v ELSE stage[a]
  BY DEF Put

-----------------------------------------------------------------------------
(* The type invariant.                                                     *)

LEMMA TypeAgentStep ==
    ASSUME TypeOK, NEW a \in Agents, AgentStep(a)
    PROVE  TypeOK'
  <1> USE DEF TypeOK, Stages
  <1>1. CASE Spawn(a)
    BY <1>1 DEF Spawn
  <1>2. CASE Activate(a)
    BY <1>2 DEF Activate, Activated
  <1>3. ASSUME NEW committed \in BOOLEAN, MonitorExit(a, committed)
        PROVE  TypeOK'
    BY <1>3 DEF MonitorExit
  <1>4. CASE Stop(a)
    BY <1>4, PutType DEF Stop
  <1>5. CASE Register(a) \/ Beat(a) \/ Unregister(a)
    BY <1>5 DEF Register, Beat, Unregister
  <1>6. CASE Grant(a) \/ RevokeAll(a)
    BY <1>6 DEF Grant, RevokeAll
  <1>7. CASE GrowStale(a)
    BY <1>7 DEF GrowStale
  <1>8. CASE GrowOld(a)
    BY <1>8 DEF GrowOld
  <1> QED
    BY <1>1, <1>2, <1>3, <1>4, <1>5, <1>6, <1>7, <1>8 DEF AgentStep

LEMMA TypeCallStep ==
    ASSUME LifecycleAssumption, TypeOK, NEW p \in Processes, CallStep(p)
    PROVE  TypeOK'
  <1> DEFINE k == call[p]
  <1>0. k \in Calls
    BY DEF TypeOK
  <1>1. CASE BorrowDetect(p)
    <2>1. /\ k.agent \in Agents /\ k.to \in Orgs /\ k.deleg \in Delegations
      BY <1>0, <1>1, CallFields DEF BorrowDetect
    <2>2. call' \in [Processes -> Calls]
      BY <1>1, <2>1, CallValues DEF BorrowDetect, TypeOK
    <2> QED BY <1>1, <2>2 DEF BorrowDetect, TypeOK
  <1>2. CASE BorrowInsert(p)
    <2>1. /\ k.agent \in Agents /\ k.to \in Orgs /\ k.deleg \in Delegations
      BY <1>0, <1>2, CallFields DEF BorrowInsert
    <2>2. call' \in [Processes -> Calls]
      BY <1>2, <2>1, CallValues DEF BorrowInsert, TypeOK
    <2> DEFINE row == [agent |-> k.agent, from |-> OrgOf[k.agent],
                       to |-> k.to, returned |-> FALSE, expired |-> FALSE]
    <2>3. row \in Rows
      BY <2>1 DEF Rows, LifecycleAssumption
    <2>4. deleg' = [e \in DOMAIN deleg \cup {k.deleg} |->
                      IF e = k.deleg THEN row ELSE deleg[e]]
      BY <1>2 DEF BorrowInsert, Insert
    <2> HIDE DEF row
    <2>5. /\ DOMAIN deleg' \subseteq Delegations
          /\ deleg' \in [DOMAIN deleg' -> Rows]
      BY <2>1, <2>3, <2>4 DEF TypeOK
    <2> QED BY <1>2, <2>2, <2>5 DEF BorrowInsert, TypeOK
  <1>3. CASE BorrowUpdate(p)
    <2>1. k.agent \in Agents
      BY <1>0, <1>3, CallFields DEF BorrowUpdate
    <2>2. call' \in [Processes -> Calls]
      BY <1>3, CallValues DEF BorrowUpdate, TypeOK
    <2> QED BY <1>3, <2>2 DEF BorrowUpdate, TypeOK, Stages
  <1>4. CASE ReturnMark(p)
    <2>1. k.agent \in Agents /\ k.deleg \in Delegations
      BY <1>0, <1>4, CallFields DEF ReturnMark
    <2>2. call' \in [Processes -> Calls]
      BY <1>4, <2>1, CallValues DEF ReturnMark, TypeOK
    <2>3. deleg' \in [DOMAIN deleg -> Rows] /\ DOMAIN deleg' = DOMAIN deleg
      BY <1>4 DEF ReturnMark, TypeOK, Rows
    <2> QED BY <1>4, <2>2, <2>3 DEF ReturnMark, TypeOK
  <1>5. CASE ReturnRestore(p)
    <2>1. call' \in [Processes -> Calls]
      BY <1>5, CallValues DEF ReturnRestore, TypeOK
    <2> QED BY <1>5, <2>1 DEF ReturnRestore, TypeOK, Stages
  <1> QED
    BY <1>1, <1>2, <1>3, <1>4, <1>5 DEF CallStep

LEMMA TypeCallerStep ==
    ASSUME LifecycleAssumption, TypeOK, NEW c \in Callers, CallerStep(c)
    PROVE  TypeOK'
  <1>0. c \in Processes
    BY DEF Processes
  <1>1. ASSUME NEW a \in Agents, NEW o \in Orgs, NEW d \in Delegations,
               BorrowSelect(c, a, o, d)
        PROVE  TypeOK'
    BY <1>0, <1>1, CallValues DEF BorrowSelect, TypeOK
  <1>2. ASSUME NEW d \in Delegations, ReturnSelect(c, d)
        PROVE  TypeOK'
    <2>1. deleg[d].agent \in Agents
      BY <1>2 DEF ReturnSelect, Returnable, TypeOK, Rows
    <2> QED BY <1>0, <1>2, <2>1, CallValues DEF ReturnSelect, TypeOK
  <1>3. CASE CallStep(c)
    BY <1>0, <1>3, TypeCallStep
  <1> QED
    BY <1>1, <1>2, <1>3 DEF CallerStep

LEMMA TypeReaperStep ==
    ASSUME LifecycleAssumption, TypeOK, ReaperStep
    PROVE  TypeOK'
  <1>0. cycle \in Cycles /\ Reaper \in Processes
    BY DEF TypeOK, Processes
  <1>1. ASSUME NEW a \in Agents, ReapStale(a)
        PROVE  TypeOK'
    <2>1. cycle.todo \subseteq Agents
      BY <1>0, <1>1, CycleFields DEF ReapStale
    <2>2. cycle' \in Cycles
      BY <1>1, <2>1, CycleValues DEF ReapStale
    <2> QED BY <1>1, <2>2, PutType DEF ReapStale, TypeOK, Stages
  <1>2. CASE ReapUnregister
    <2>1. cycle' \in Cycles
      BY <1>0, <1>2, CycleFields, CycleValues DEF ReapUnregister
    <2> QED BY <1>2, <2>1 DEF ReapUnregister, ReapedRow, TypeOK
  <1>3. CASE ReapZombies
    BY <1>3, PutType, CycleValues DEF ReapZombies, TypeOK, Stages
  <1>4. CASE ReapFindExpired
    <2>1. Expired \subseteq Delegations
      BY DEF Expired, TypeOK
    <2> QED BY <1>4, <2>1, CycleValues DEF ReapFindExpired, TypeOK
  <1>5. ASSUME NEW d \in Delegations, ReapReturn(d)
        PROVE  TypeOK'
    <2>1. CASE Returnable(d)
      <3>1. deleg[d].agent \in Agents
        BY <2>1 DEF Returnable, TypeOK, Rows
      <3>2. /\ call' = [call EXCEPT ![Reaper] =
                          [at |-> "found", agent |-> deleg[d].agent, deleg |-> d]]
            /\ cycle' = [cycle EXCEPT !.todo = @ \ {d}]
        BY <1>5, <2>1 DEF ReapReturn
      <3>3. cycle.at = "return" /\ cycle.todo \subseteq Delegations
        BY <1>0, <1>5, CycleFields DEF ReapReturn
      <3>4. cycle' \in Cycles
        BY <1>0, <3>2, <3>3 DEF Cycles
      <3>5. call' \in [Processes -> Calls]
        BY <1>0, <3>1, <3>2, CallValues DEF TypeOK
      <3> QED BY <1>5, <3>4, <3>5 DEF ReapReturn, TypeOK
    <2>2. CASE ~Returnable(d)
      BY <1>5, <2>2, CycleValues DEF ReapReturn, TypeOK
    <2> QED BY <2>1, <2>2
  <1>6. CASE CallStep(Reaper)
    BY <1>0, <1>6, TypeCallStep
  <1>7. CASE ReapScopes
    BY <1>7, CycleValues DEF ReapScopes, RulesKept, TypeOK
  <1> QED
    BY <1>1, <1>2, <1>3, <1>4, <1>5, <1>6, <1>7 DEF ReaperStep

LEMMA TypeNext ==
    ASSUME LifecycleAssumption, TypeOK, [Next]_vars
    PROVE  TypeOK'
  <1>1. ASSUME NEW a \in Agents, AgentStep(a)
        PROVE  TypeOK'
    BY <1>1, TypeAgentStep
  <1>2. ASSUME NEW o \in Orgs, StopOrg(o)
        PROVE  TypeOK'
    BY <1>2, PutType DEF StopOrg, TypeOK, Stages
  <1>3. CASE KillAll
    BY <1>3, PutType DEF KillAll, TypeOK, Stages
  <1>4. ASSUME NEW c \in Callers, CallerStep(c)
        PROVE  TypeOK'
    BY <1>4, TypeCallerStep
  <1>5. CASE ReapBegin
    BY <1>5, CycleValues DEF ReapBegin, TypeOK
  <1>6. CASE ReaperStep
    BY <1>6, TypeReaperStep
  <1>7. ASSUME NEW d \in Delegations, Expire(d)
        PROVE  TypeOK'
    BY <1>7 DEF Expire, TypeOK, Rows
  <1>8. ASSUME NEW p \in Processes, StatementFails(p)
        PROVE  TypeOK'
    BY <1>8, CallValues, CycleValues DEF StatementFails, TypeOK, LifecycleAssumption
  <1>9. CASE Crash
    BY <1>9, CallValues, CycleValues DEF Crash, TypeOK, LifecycleAssumption
  <1>10. CASE UNCHANGED vars
    BY <1>10 DEF vars, TypeOK
  <1> QED
    BY <1>1, <1>2, <1>3, <1>4, <1>5, <1>6, <1>7, <1>8, <1>9, <1>10 DEF Next

\* The tables and the locals of every operation always have their types.
THEOREM TypeCorrect == Spec => []TypeOK
  <1>1. Init => TypeOK
    BY LifecycleAssumption, CallValues, CycleValues
       DEF Init, TypeOK, Stages, LifecycleAssumption
  <1>2. TypeOK /\ [Next]_vars => TypeOK'
    BY LifecycleAssumption, TypeNext
  <1> QED
    BY <1>1, <1>2, PTL DEF Spec

-----------------------------------------------------------------------------
(* Settled agents.                                                         *)

\* Steps of one statement on agent rows revive nobody that has ended.
LEMMA SettledAgentStep ==
    ASSUME TypeOK, NEW a \in Agents, Settled(a), NEW b \in Agents, AgentStep(b)
    PROVE  Settled(a)'
  <1>1. UNCHANGED <<deleg, call>>
    BY DEF AgentStep, Spawn, Activate, MonitorExit, Stop, Register, Beat,
           Unregister, Grant, RevokeAll, GrowStale, GrowOld
  <1>2. stage[a] \in Ended
    BY DEF Settled
  <1>3. stage'[a] \in Ended
    <2>1. CASE Spawn(b)
      BY <1>2, <2>1 DEF Spawn, TypeOK, Ended, Terminal
    <2>2. CASE Activate(b)
      BY <1>2, <2>2 DEF Activate, Activated, TypeOK, Ended, Terminal
    <2>3. ASSUME NEW committed \in BOOLEAN, MonitorExit(b, committed)
          PROVE  stage'[a] \in Ended
      BY <1>2, <2>3 DEF MonitorExit, TypeOK, Ended, Terminal
    <2>4. CASE Stop(b)
      BY <1>2, <2>4, PutType DEF Stop, TypeOK, Stages, Ended, Terminal
    <2>5. CASE UNCHANGED stage
      BY <1>2, <2>5
    <2> QED
      BY <2>1, <2>2, <2>3, <2>4, <2>5
         DEF AgentStep, Register, Beat, Unregister, Grant, RevokeAll,
             GrowStale, GrowOld
  <1> QED
    BY <1>1, <1>3 DEF Settled, ActiveOf, Untouched

\* An operation in flight is about another agent, so its statements leave a
\* settled agent and its delegations alone.
LEMMA SettledCallStep ==
    ASSUME TypeOK, NEW a \in Agents, Settled(a), NEW p \in Processes, CallStep(p)
    PROVE  Settled(a)'
  <1> USE DEF Settled, ActiveOf, Untouched
  <1>1. call[p].at # "idle" => call[p].agent # a
    OBVIOUS
  <1>2. ASSUME call' = [call EXCEPT ![p] = Idle]
        PROVE  Untouched(a)'
    BY <1>2 DEF TypeOK, Idle
  <1>4. CASE BorrowDetect(p)
    <2>1. \/ call' = [call EXCEPT ![p] = Idle]
          \/ call' = [call EXCEPT ![p] =
                        [at |-> "clear", agent |-> call[p].agent,
                         to |-> call[p].to, deleg |-> call[p].deleg]]
      BY <1>4 DEF BorrowDetect
    <2>2. call[p].agent # a
      BY <1>1, <1>4 DEF BorrowDetect
    <2>3. Untouched(a)'
      <3>1. CASE call' = [call EXCEPT ![p] = Idle]
        BY <3>1, <1>2
      <3>2. CASE call' = [call EXCEPT ![p] =
                           [at |-> "clear", agent |-> call[p].agent,
                            to |-> call[p].to, deleg |-> call[p].deleg]]
        BY <3>2, <2>2 DEF TypeOK
      <3> QED BY <2>1, <3>1, <3>2
    <2> QED BY <1>4, <2>3 DEF BorrowDetect
  <1>5. CASE BorrowInsert(p)
    <2>1. call[p].agent # a
      BY <1>1, <1>5 DEF BorrowInsert
    <2>2. Untouched(a)'
      BY <1>5, <2>1 DEF BorrowInsert, TypeOK
    <2>3. ActiveOf(a)' = {}
      BY <1>5, <2>1 DEF BorrowInsert, Insert
    <2> QED BY <1>5, <2>2, <2>3 DEF BorrowInsert
  <1>6. CASE BorrowUpdate(p)
    BY <1>1, <1>2, <1>6 DEF BorrowUpdate, TypeOK
  <1>7. CASE ReturnMark(p)
    <2>1. /\ DOMAIN deleg' = DOMAIN deleg
          /\ \A d \in DOMAIN deleg :
               /\ deleg'[d].agent = deleg[d].agent
               /\ deleg[d].returned => deleg'[d].returned
      BY <1>7 DEF ReturnMark, TypeOK, Rows
    <2>2. Untouched(a)'
      BY <1>1, <1>7 DEF ReturnMark, TypeOK
    <2> QED BY <1>7, <2>1, <2>2 DEF ReturnMark
  <1>8. CASE ReturnRestore(p)
    BY <1>1, <1>2, <1>8 DEF ReturnRestore, TypeOK
  <1> QED
    BY <1>4, <1>5, <1>6, <1>7, <1>8 DEF CallStep

\* No operation that starts can read a settled agent: borrow_agent wants it
\* running, return_agent wants an active delegation of it.
LEMMA SettledCallerStep ==
    ASSUME TypeOK, NEW a \in Agents, Settled(a), NEW c \in Callers, CallerStep(c)
    PROVE  Settled(a)'
  <1>0. c \in Processes
    BY DEF Processes
  <1>1. ASSUME NEW b \in Agents, NEW o \in Orgs, NEW d \in Delegations,
               BorrowSelect(c, b, o, d)
        PROVE  Settled(a)'
    <2>1. b # a
      BY <1>1 DEF BorrowSelect, Borrowable, Settled, Ended, Terminal
    <2> QED BY <1>0, <1>1, <2>1 DEF BorrowSelect, TypeOK, Settled, ActiveOf, Untouched
  <1>2. ASSUME NEW d \in Delegations, ReturnSelect(c, d)
        PROVE  Settled(a)'
    <2>1. deleg[d].agent # a
      BY <1>2 DEF ReturnSelect, Returnable, Settled, ActiveOf
    <2> QED BY <1>0, <1>2, <2>1 DEF ReturnSelect, TypeOK, Settled, ActiveOf, Untouched
  <1>3. CASE CallStep(c)
    BY <1>0, <1>3, SettledCallStep
  <1> QED
    BY <1>1, <1>2, <1>3 DEF CallerStep

LEMMA SettledReaperStep ==
    ASSUME TypeOK, NEW a \in Agents, Settled(a), ReaperStep
    PROVE  Settled(a)'
  <1>0. Reaper \in Processes
    BY DEF Processes
  <1>1. ASSUME NEW b \in Agents, ReapStale(b)
        PROVE  Settled(a)'
    <2>1. stage'[a] \in Ended
      BY <1>1, PutType DEF ReapStale, TypeOK, Stages, Settled, Ended, Terminal
    <2> QED BY <1>1, <2>1 DEF ReapStale, Settled, ActiveOf, Untouched
  <1>2. CASE ReapZombies
    <2>1. stage'[a] \in Ended
      BY <1>2, PutType DEF ReapZombies, TypeOK, Stages, Settled, Ended, Terminal
    <2> QED BY <1>2, <2>1 DEF ReapZombies, Settled, ActiveOf, Untouched
  <1>3. ASSUME NEW d \in Delegations, ReapReturn(d)
        PROVE  Settled(a)'
    <2>1. CASE Returnable(d)
      <3>1. deleg[d].agent # a
        BY <2>1 DEF Returnable, Settled, ActiveOf
      <3> QED
        BY <1>0, <1>3, <2>1, <3>1
           DEF ReapReturn, TypeOK, Settled, ActiveOf, Untouched
    <2>2. CASE ~Returnable(d)
      BY <1>3, <2>2 DEF ReapReturn, Settled, ActiveOf, Untouched
    <2> QED BY <2>1, <2>2
  <1>4. CASE CallStep(Reaper)
    BY <1>0, <1>4, SettledCallStep
  <1>5. CASE ReapUnregister \/ ReapFindExpired \/ ReapScopes
    BY <1>5 DEF ReapUnregister, ReapFindExpired, ReapScopes, Settled, ActiveOf, Untouched
  <1> QED
    BY <1>1, <1>2, <1>3, <1>4, <1>5 DEF ReaperStep

LEMMA SettledNext ==
    ASSUME TypeOK, NEW a \in Agents, Settled(a), [Next]_vars
    PROVE  Settled(a)'
  <1>1. ASSUME NEW b \in Agents, AgentStep(b)
        PROVE  Settled(a)'
    BY <1>1, SettledAgentStep
  <1>2. ASSUME NEW o \in Orgs, StopOrg(o)
        PROVE  Settled(a)'
    <2>1. stage'[a] \in Ended
      BY <1>2, PutType DEF StopOrg, TypeOK, Stages, Settled, Ended, Terminal
    <2> QED BY <1>2, <2>1 DEF StopOrg, Settled, ActiveOf, Untouched
  <1>3. CASE KillAll
    <2>1. stage'[a] \in Ended
      BY <1>3, PutType DEF KillAll, TypeOK, Stages, Settled, Ended, Terminal
    <2> QED BY <1>3, <2>1 DEF KillAll, Settled, ActiveOf, Untouched
  <1>4. ASSUME NEW c \in Callers, CallerStep(c)
        PROVE  Settled(a)'
    BY <1>4, SettledCallerStep
  <1>5. CASE ReapBegin
    BY <1>5 DEF ReapBegin, Settled, ActiveOf, Untouched
  <1>6. CASE ReaperStep
    BY <1>6, SettledReaperStep
  <1>7. ASSUME NEW d \in Delegations, Expire(d)
        PROVE  Settled(a)'
    <2>1. /\ DOMAIN deleg' = DOMAIN deleg
          /\ \A e \in DOMAIN deleg : /\ deleg'[e].agent = deleg[e].agent
                                     /\ deleg'[e].returned = deleg[e].returned
      BY <1>7 DEF Expire, TypeOK, Rows
    <2> QED BY <1>7, <2>1 DEF Expire, Settled, ActiveOf, Untouched
  <1>8. ASSUME NEW p \in Processes, StatementFails(p)
        PROVE  Settled(a)'
    BY <1>8 DEF StatementFails, TypeOK, Idle, Settled, ActiveOf, Untouched
  <1>9. CASE Crash
    BY <1>9 DEF Crash, Idle, Settled, ActiveOf, Untouched
  <1>10. CASE UNCHANGED vars
    BY <1>10 DEF vars, Settled, ActiveOf, Untouched
  <1> QED
    BY <1>1, <1>2, <1>3, <1>4, <1>5, <1>6, <1>7, <1>8, <1>9, <1>10 DEF Next

\* However many operations run at once and whatever fails, an ended agent
\* without an active delegation that no operation in flight has read is never
\* revived, lent or touched by a later operation.
THEOREM SettledStaysSettled == Spec => SettledIsFinal
  <1>1. TypeOK /\ [Next]_vars => [\A a \in Agents : Settled(a) => Settled(a)']_vars
    BY SettledNext
  <1> QED
    BY <1>1, TypeCorrect, PTL DEF Spec, SettledIsFinal

-----------------------------------------------------------------------------
(* When the pool has one connection: an operation of several statements    *)
(* then runs without another one in between, and what its first statement  *)
(* read still holds at its last.                                           *)


OneHolder == \A p, q \in Holders : p = q

\* The reaper is inside return_agent only while it loops over its list.
ReaperReturns ==
    call[Reaper].at # "idle" =>
        cycle.at = "return" /\ call[Reaper].at \in {"found", "marked"}

BorrowOfRunning ==
    \A c \in Callers : call[c].at \in {"checked", "clear", "inserted"}
                         => stage[call[c].agent] = "running"

BorrowNotCircular ==
    \A c \in Callers : call[c].at = "clear"
                         => ~Circular(OrgOf[call[c].agent], call[c].to)

StaleList ==
    /\ cycle.at \in {"stale", "unregister"} =>
         \A a \in cycle.todo : heartbeat[a] = "stale"
    /\ cycle.at = "unregister" => cycle.agent \notin cycle.todo

\* The invariant: what an operation in flight has read is still so.
SerialInv ==
    /\ OneHolder
    /\ ReaperReturns
    /\ BorrowOfRunning
    /\ BorrowNotCircular
    /\ StaleList
    /\ NoMutualDelegation

-----------------------------------------------------------------------------
\* With one connection, an operation can only start when none is in flight.
LEMMA FreeMeansQuiet ==
    ASSUME LifecycleAssumption, PoolSize = 1, ConnectionFree
    PROVE  /\ Holders = {}
           /\ \A c \in Callers : call[c].at = "idle"
           /\ cycle.at = "waiting"
  <1>1. IsFiniteSet(Callers \cup {Reaper})
    BY FS_AddElement DEF LifecycleAssumption
  <1>2. Holders \subseteq Callers \cup {Reaper}
    BY DEF Holders
  <1>3. IsFiniteSet(Holders)
    BY <1>1, <1>2, FS_Subset
  <1>4. Cardinality(Holders) \in Nat
    BY <1>3, FS_CardinalityType
  <1>5. Cardinality(Holders) = 0
    BY <1>4 DEF ConnectionFree
  <1>6. Holders = {}
    BY <1>3, <1>5, FS_EmptySet
  <1> QED
    BY <1>6 DEF Holders

\* A process inside an operation holds the connection, and no other does.
LEMMA AloneInCall ==
    ASSUME LifecycleAssumption, SerialInv, NEW p \in Processes, call[p].at # "idle"
    PROVE  /\ \A c \in Callers : c # p => call[c].at = "idle"
           /\ p # Reaper => cycle.at = "waiting" /\ call[Reaper].at = "idle"
  <1>1. p \in Holders
    BY DEF SerialInv, ReaperReturns, Holders, Processes
  <1>2. \A q \in Holders : q = p
    BY <1>1 DEF SerialInv, OneHolder
  <1> QED
    BY <1>2 DEF Holders, SerialInv, ReaperReturns

LEMMA AloneInCycle ==
    ASSUME LifecycleAssumption, SerialInv, cycle.at # "waiting"
    PROVE  \A c \in Callers : call[c].at = "idle"
  <1>1. Reaper \in Holders
    BY DEF Holders
  <1>2. \A c \in Callers : call[c].at # "idle" => c \in Holders /\ c # Reaper
    BY DEF Holders, LifecycleAssumption
  <1> QED
    BY <1>1, <1>2 DEF SerialInv, OneHolder

\* An operation of one statement runs between two operations: it finds
\* nothing in flight and, with the delegations left alone, breaks nothing.
LEMMA SerialOneStatement ==
    ASSUME LifecycleAssumption, PoolSize = 1, SerialInv, ConnectionFree,
           UNCHANGED <<deleg, call, cycle>>
    PROVE  SerialInv'
  <1>1. /\ \A c \in Callers : call[c].at = "idle"
        /\ cycle.at = "waiting"
    BY FreeMeansQuiet
  <1>2. /\ OneHolder'
        /\ ReaperReturns'
        /\ BorrowOfRunning'
        /\ BorrowNotCircular'
        /\ StaleList'
    BY <1>1 DEF SerialInv, OneHolder, Holders, ReaperReturns, BorrowOfRunning,
                BorrowNotCircular, StaleList
  <1>3. NoMutualDelegation'
    BY DEF SerialInv, NoMutualDelegation
  <1> QED
    BY <1>2, <1>3 DEF SerialInv

LEMMA SerialAgentStep ==
    ASSUME LifecycleAssumption, PoolSize = 1, TypeOK, SerialInv,
           NEW a \in Agents, AgentStep(a)
    PROVE  SerialInv'
  <1>1. CASE ConnectionFree /\ UNCHANGED <<deleg, call, cycle>>
    BY <1>1, SerialOneStatement
  <1>2. CASE GrowStale(a)
    <2>1. StaleList'
      BY <1>2 DEF GrowStale, TypeOK, SerialInv, StaleList
    <2> QED
      BY <1>2, <2>1
         DEF GrowStale, SerialInv, OneHolder, Holders, ReaperReturns,
             BorrowOfRunning, BorrowNotCircular, Circular, NoMutualDelegation
  <1>3. CASE GrowOld(a)
    BY <1>3 DEF GrowOld, SerialInv, OneHolder, Holders, ReaperReturns, StaleList,
                BorrowOfRunning, BorrowNotCircular, Circular, NoMutualDelegation
  <1> QED
    BY <1>1, <1>2, <1>3
       DEF AgentStep, Spawn, Activate, MonitorExit, Stop, Register, Beat,
           Unregister, Grant, RevokeAll

\* The statements of an operation after its first.
LEMMA SerialCallStep ==
    ASSUME LifecycleAssumption, PoolSize = 1, TypeOK, SerialInv,
           NEW p \in Processes, CallStep(p)
    PROVE  SerialInv'
  <1> DEFINE k == call[p]
  <1>0. /\ k.at # "idle" /\ k \in Calls
        /\ UNCHANGED <<cycle, heartbeat>>
        /\ \A q \in Processes : q # p => call'[q] = call[q]
    BY DEF CallStep, BorrowDetect, BorrowInsert, BorrowUpdate, ReturnMark,
           ReturnRestore, TypeOK
  <1>1. /\ \A c \in Callers : c # p => call[c].at = "idle"
        /\ p # Reaper => cycle.at = "waiting" /\ call[Reaper].at = "idle"
    BY <1>0, AloneInCall
  <1>2. OneHolder'
    BY <1>0, <1>1 DEF OneHolder, Holders, Processes
  <1>3. StaleList'
    BY <1>0 DEF SerialInv, StaleList
  <1>4. Reaper \in Processes /\ Callers \subseteq Processes
    BY DEF Processes
  <1>5. CASE BorrowDetect(p)
    <2>1. p \in Callers /\ p # Reaper
      BY <1>5 DEF BorrowDetect, SerialInv, ReaperReturns, Processes, LifecycleAssumption
    <2>2. \/ call'[p] = Idle
          \/ /\ ~Circular(OrgOf[k.agent], k.to)
             /\ call'[p] = [at |-> "clear", agent |-> k.agent, to |-> k.to,
                            deleg |-> k.deleg]
      BY <1>5 DEF BorrowDetect, TypeOK
    <2>3. ReaperReturns'
      BY <1>0, <1>1, <1>4, <2>1 DEF ReaperReturns
    <2>4. UNCHANGED <<stage, deleg>> /\ k.at = "checked"
      BY <1>5 DEF BorrowDetect
    <2>5. BorrowOfRunning'
      BY <1>0, <1>1, <1>4, <2>1, <2>2, <2>4 DEF BorrowOfRunning, SerialInv, Idle
    <2>6. BorrowNotCircular'
      BY <1>0, <1>1, <1>4, <2>1, <2>2, <2>4 DEF BorrowNotCircular, SerialInv, Idle, Circular
    <2>7. NoMutualDelegation'
      BY <2>4 DEF NoMutualDelegation, SerialInv
    <2> QED BY <1>2, <1>3, <2>3, <2>5, <2>6, <2>7 DEF SerialInv
  <1>6. CASE BorrowInsert(p)
    <2>1. p \in Callers /\ p # Reaper
      BY <1>6 DEF BorrowInsert, SerialInv, ReaperReturns, Processes, LifecycleAssumption
    <2>2. /\ call'[p] = [at |-> "inserted", agent |-> k.agent, deleg |-> k.deleg]
          /\ stage' = stage
          /\ k.at = "clear"
      BY <1>6 DEF BorrowInsert, TypeOK
    <2>3. ReaperReturns'
      BY <1>0, <1>1, <1>4, <2>1 DEF ReaperReturns
    <2>4. BorrowOfRunning'
      BY <1>0, <1>1, <1>4, <2>1, <2>2 DEF BorrowOfRunning, SerialInv
    <2>5. BorrowNotCircular'
      BY <1>0, <1>1, <1>4, <2>1, <2>2 DEF BorrowNotCircular
    <2>6. /\ DOMAIN deleg' = DOMAIN deleg \cup {k.deleg}
          /\ \A d \in DOMAIN deleg : d # k.deleg => deleg'[d] = deleg[d]
          /\ deleg'[k.deleg].from = OrgOf[k.agent]
          /\ deleg'[k.deleg].to = k.to
      BY <1>6 DEF BorrowInsert, Insert
    <2>7. \A d \in DOMAIN deleg : ~(/\ deleg[d].from = k.to
                                    /\ deleg[d].to = OrgOf[k.agent]
                                    /\ ~deleg[d].returned)
      BY <2>1, <2>2 DEF SerialInv, BorrowNotCircular, Circular
    <2>8. NoMutualDelegation'
      BY <2>6, <2>7 DEF NoMutualDelegation, SerialInv
    <2> QED BY <1>2, <1>3, <2>3, <2>4, <2>5, <2>8 DEF SerialInv
  <1>7. CASE BorrowUpdate(p)
    <2>1. call'[p] = Idle /\ deleg' = deleg
      BY <1>7 DEF BorrowUpdate, TypeOK
    <2>2. \A c \in Callers : call'[c].at = "idle"
      BY <1>0, <1>1, <1>4, <2>1 DEF Idle
    <2>3. ReaperReturns'
      BY <1>0, <1>4, <2>1 DEF ReaperReturns, SerialInv, Idle
    <2>4. BorrowOfRunning' /\ BorrowNotCircular'
      BY <2>2 DEF BorrowOfRunning, BorrowNotCircular
    <2> QED BY <1>2, <1>3, <2>1, <2>3, <2>4 DEF SerialInv, NoMutualDelegation
  <1>8. CASE ReturnMark(p)
    <2>1. /\ call'[p] = [at |-> "marked", agent |-> k.agent, deleg |-> k.deleg]
          /\ k.at = "found"
      BY <1>8 DEF ReturnMark, TypeOK
    <2>2. /\ DOMAIN deleg' = DOMAIN deleg
          /\ \A d \in DOMAIN deleg : /\ deleg'[d].from = deleg[d].from
                                     /\ deleg'[d].to = deleg[d].to
                                     /\ deleg[d].returned => deleg'[d].returned
      BY <1>8 DEF ReturnMark, TypeOK, Rows
    <2>3. \A c \in Callers : call'[c].at \in {"idle", "marked"}
      BY <1>0, <1>1, <1>4, <2>1
    <2>4. BorrowOfRunning' /\ BorrowNotCircular'
      BY <2>3 DEF BorrowOfRunning, BorrowNotCircular
    <2>5. ReaperReturns'
      BY <1>0, <1>4, <2>1 DEF ReaperReturns, SerialInv
    <2>6. NoMutualDelegation'
      BY <2>2 DEF NoMutualDelegation, SerialInv
    <2> QED BY <1>2, <1>3, <2>4, <2>5, <2>6 DEF SerialInv
  <1>9. CASE ReturnRestore(p)
    <2>1. call'[p] = Idle /\ deleg' = deleg
      BY <1>9 DEF ReturnRestore, TypeOK
    <2>2. \A c \in Callers : call'[c].at = "idle"
      BY <1>0, <1>1, <1>4, <2>1 DEF Idle
    <2>3. ReaperReturns'
      BY <1>0, <1>4, <2>1 DEF ReaperReturns, SerialInv, Idle
    <2>4. BorrowOfRunning' /\ BorrowNotCircular'
      BY <2>2 DEF BorrowOfRunning, BorrowNotCircular
    <2> QED BY <1>2, <1>3, <2>1, <2>3, <2>4 DEF SerialInv, NoMutualDelegation
  <1> QED
    BY <1>5, <1>6, <1>7, <1>8, <1>9 DEF CallStep

LEMMA SerialCallerStep ==
    ASSUME LifecycleAssumption, PoolSize = 1, TypeOK, SerialInv,
           NEW c \in Callers, CallerStep(c)
    PROVE  SerialInv'
  <1>0. /\ c \in Processes /\ Reaper \in Processes /\ c # Reaper
        /\ Callers \subseteq Processes
    BY DEF Processes, LifecycleAssumption
  <1>1. CASE CallStep(c)
    BY <1>0, <1>1, SerialCallStep
  <1>2. ASSUME ConnectionFree, UNCHANGED <<stage, heartbeat, deleg, cycle>>,
               NEW v, call' = [call EXCEPT ![c] = v],
               \/ v.at = "found"
               \/ v.at = "checked" /\ stage[v.agent] = "running"
        PROVE  SerialInv'
    <2>1. /\ \A e \in Callers : call[e].at = "idle"
          /\ cycle.at = "waiting"
      BY <1>2, FreeMeansQuiet
    <2>2. call'[c] = v /\ \A q \in Processes : q # c => call'[q] = call[q]
      BY <1>0, <1>2 DEF TypeOK
    <2>3. OneHolder' /\ ReaperReturns' /\ StaleList' /\ BorrowNotCircular'
      BY <1>0, <1>2, <2>1, <2>2
         DEF SerialInv, OneHolder, Holders, ReaperReturns, StaleList, BorrowNotCircular
    <2>4. BorrowOfRunning'
      BY <1>0, <1>2, <2>1, <2>2 DEF BorrowOfRunning
    <2>5. NoMutualDelegation'
      BY <1>2 DEF NoMutualDelegation, SerialInv
    <2> QED BY <2>3, <2>4, <2>5 DEF SerialInv
  <1>3. ASSUME NEW a \in Agents, NEW o \in Orgs, NEW d \in Delegations,
               BorrowSelect(c, a, o, d)
        PROVE  SerialInv'
    BY <1>2, <1>3 DEF BorrowSelect, Borrowable
  <1>4. ASSUME NEW d \in Delegations, ReturnSelect(c, d)
        PROVE  SerialInv'
    BY <1>2, <1>4 DEF ReturnSelect
  <1> QED
    BY <1>1, <1>3, <1>4 DEF CallerStep

LEMMA SerialReaperStep ==
    ASSUME LifecycleAssumption, PoolSize = 1, TypeOK, SerialInv, ReaperStep
    PROVE  SerialInv'
  <1>0. Reaper \in Processes /\ Callers \subseteq Processes /\ Reaper \notin Callers
    BY DEF Processes, LifecycleAssumption
  <1>1. CASE CallStep(Reaper)
    BY <1>0, <1>1, SerialCallStep
  <1>2. ASSUME cycle.at # "waiting", ReaperReturns', StaleList', deleg' = deleg,
               \A c \in Callers : call'[c] = call[c]
        PROVE  SerialInv'
    <2>1. \A c \in Callers : call'[c].at = "idle"
      BY <1>2, AloneInCycle
    <2>2. OneHolder' /\ BorrowOfRunning' /\ BorrowNotCircular'
      BY <2>1 DEF OneHolder, Holders, BorrowOfRunning, BorrowNotCircular
    <2> QED BY <1>2, <2>2 DEF SerialInv, NoMutualDelegation
  <1>3. ASSUME NEW a \in Agents, ReapStale(a)
        PROVE  SerialInv'
    <2>1. ReaperReturns' /\ StaleList'
      BY <1>3 DEF ReapStale, SerialInv, ReaperReturns, StaleList
    <2> QED BY <1>2, <1>3, <2>1 DEF ReapStale
  <1>4. CASE ReapUnregister
    <2>1. ReaperReturns'
      BY <1>4 DEF ReapUnregister, SerialInv, ReaperReturns
    <2>2. StaleList'
      BY <1>4 DEF ReapUnregister, ReapedRow, SerialInv, StaleList, TypeOK
    <2> QED BY <1>2, <1>4, <2>1, <2>2 DEF ReapUnregister
  <1>5. CASE ReapZombies
    <2>1. ReaperReturns' /\ StaleList'
      BY <1>5 DEF ReapZombies, SerialInv, ReaperReturns, StaleList
    <2> QED BY <1>2, <1>5, <2>1 DEF ReapZombies
  <1>6. CASE ReapFindExpired
    <2>1. ReaperReturns' /\ StaleList'
      BY <1>6 DEF ReapFindExpired, SerialInv, ReaperReturns, StaleList
    <2> QED BY <1>2, <1>6, <2>1 DEF ReapFindExpired
  <1>7. ASSUME NEW d \in Delegations, ReapReturn(d)
        PROVE  SerialInv'
    <2>0. \A c \in Callers : call'[c] = call[c]
      BY <1>0, <1>7 DEF ReapReturn, TypeOK
    <2>1. CASE Returnable(d)
      <3>1. /\ call' = [call EXCEPT ![Reaper] =
                          [at |-> "found", agent |-> deleg[d].agent, deleg |-> d]]
            /\ cycle' = [cycle EXCEPT !.todo = @ \ {d}]
        BY <1>7, <2>1 DEF ReapReturn
      <3>2. cycle.at = "return" /\ cycle \in Cycles
        BY <1>7 DEF ReapReturn, TypeOK
      <3>3. cycle'.at = "return"
        BY <3>1, <3>2 DEF Cycles
      <3>4. ReaperReturns' /\ StaleList'
        BY <1>0, <3>1, <3>3 DEF ReaperReturns, StaleList, TypeOK
      <3> QED BY <1>2, <1>7, <2>0, <3>4 DEF ReapReturn
    <2>2. CASE ~Returnable(d)
      <3>1. ReaperReturns' /\ StaleList'
        BY <1>7, <2>2 DEF ReapReturn, Waiting, Idle, ReaperReturns, StaleList
      <3> QED BY <1>2, <1>7, <2>0, <3>1 DEF ReapReturn
    <2> QED BY <2>1, <2>2
  <1>8. CASE ReapScopes
    <2>1. ReaperReturns' /\ StaleList'
      BY <1>8 DEF ReapScopes, Waiting, Idle, ReaperReturns, StaleList
    <2> QED BY <1>2, <1>8, <2>1 DEF ReapScopes
  <1> QED
    BY <1>1, <1>3, <1>4, <1>5, <1>6, <1>7, <1>8 DEF ReaperStep

LEMMA SerialNext ==
    ASSUME LifecycleAssumption, PoolSize = 1, TypeOK, SerialInv, [Next]_vars
    PROVE  SerialInv'
  <1>0. Reaper \in Processes /\ Callers \subseteq Processes /\ Reaper \notin Callers
    BY DEF Processes, LifecycleAssumption
  <1>1. ASSUME NEW a \in Agents, AgentStep(a)
        PROVE  SerialInv'
    BY <1>1, SerialAgentStep
  <1>2. ASSUME NEW o \in Orgs, StopOrg(o)
        PROVE  SerialInv'
    BY <1>2, SerialOneStatement DEF StopOrg
  <1>3. CASE KillAll
    BY <1>3, SerialOneStatement DEF KillAll
  <1>4. ASSUME NEW c \in Callers, CallerStep(c)
        PROVE  SerialInv'
    BY <1>4, SerialCallerStep
  <1>5. CASE ReapBegin
    <2>1. \A c \in Callers : call[c].at = "idle"
      BY <1>5, FreeMeansQuiet DEF ReapBegin
    <2>2. call[Reaper].at = "idle"
      BY <1>5, FreeMeansQuiet DEF ReapBegin, SerialInv, ReaperReturns
    <2>3. /\ OneHolder' /\ ReaperReturns' /\ BorrowOfRunning'
          /\ BorrowNotCircular' /\ StaleList'
      BY <1>5, <2>1, <2>2
         DEF ReapBegin, OneHolder, Holders, ReaperReturns, BorrowOfRunning,
             BorrowNotCircular, StaleList
    <2> QED BY <1>5, <2>3 DEF ReapBegin, SerialInv, NoMutualDelegation
  <1>6. CASE ReaperStep
    BY <1>6, SerialReaperStep
  <1>7. ASSUME NEW d \in Delegations, Expire(d)
        PROVE  SerialInv'
    <2>1. /\ DOMAIN deleg' = DOMAIN deleg
          /\ \A e \in DOMAIN deleg : /\ deleg'[e].from = deleg[e].from
                                     /\ deleg'[e].to = deleg[e].to
                                     /\ deleg'[e].returned = deleg[e].returned
      BY <1>7 DEF Expire, TypeOK, Rows
    <2>2. BorrowNotCircular' /\ NoMutualDelegation'
      BY <1>7, <2>1
         DEF Expire, SerialInv, BorrowNotCircular, Circular, NoMutualDelegation
    <2> QED
      BY <1>7, <2>2
         DEF Expire, SerialInv, OneHolder, Holders, ReaperReturns,
             BorrowOfRunning, StaleList
  <1>8. ASSUME NEW p \in Processes, StatementFails(p)
        PROVE  SerialInv'
    <2>1. /\ call'[p] = Idle
          /\ \A q \in Processes : q # p => call'[q] = call[q]
          /\ p = Reaper => cycle'.at = "waiting"
          /\ p # Reaper => cycle' = cycle
          /\ UNCHANGED <<stage, heartbeat, deleg>>
      BY <1>8 DEF StatementFails, TypeOK, Waiting
    <2>2. Holders' \subseteq Holders
      BY <1>0, <2>1 DEF Holders, Idle
    <2>3. OneHolder' /\ ReaperReturns' /\ StaleList'
      BY <1>0, <2>1, <2>2 DEF SerialInv, OneHolder, ReaperReturns, StaleList, Idle
    <2>4. BorrowOfRunning' /\ BorrowNotCircular'
      BY <1>0, <2>1 DEF SerialInv, BorrowOfRunning, BorrowNotCircular, Circular, Idle
    <2> QED BY <2>1, <2>3, <2>4 DEF SerialInv, NoMutualDelegation
  <1>9. CASE Crash
    <2>1. \A p \in Processes : call'[p].at = "idle"
      BY <1>9 DEF Crash, Idle
    <2>2. cycle'.at = "waiting" /\ deleg' = deleg
      BY <1>9 DEF Crash, Waiting
    <2>3. /\ OneHolder' /\ ReaperReturns' /\ BorrowOfRunning'
          /\ BorrowNotCircular' /\ StaleList'
      BY <1>0, <2>1, <2>2
         DEF OneHolder, Holders, ReaperReturns, BorrowOfRunning,
             BorrowNotCircular, StaleList
    <2> QED BY <2>2, <2>3 DEF SerialInv, NoMutualDelegation
  <1>10. CASE UNCHANGED vars
    BY <1>10 DEF vars, SerialInv, OneHolder, Holders, ReaperReturns, StaleList,
                 BorrowOfRunning, BorrowNotCircular, Circular, NoMutualDelegation
  <1> QED
    BY <1>1, <1>2, <1>3, <1>4, <1>5, <1>6, <1>7, <1>8, <1>9, <1>10 DEF Next

THEOREM SerialInvariant ==
    ASSUME PoolSize = 1
    PROVE  Spec => []SerialInv
  <1>1. Init => SerialInv
    <2> SUFFICES ASSUME Init PROVE SerialInv
      OBVIOUS
    <2>1. \A p \in Processes : call[p].at = "idle"
      BY DEF Init, Idle
    <2>2. cycle.at = "waiting" /\ DOMAIN deleg = {}
      BY DEF Init, Waiting
    <2> QED
      BY <2>1, <2>2
         DEF Processes, SerialInv, OneHolder, Holders, ReaperReturns, StaleList,
             BorrowOfRunning, BorrowNotCircular, NoMutualDelegation
  <1>2. TypeOK /\ SerialInv /\ [Next]_vars => SerialInv'
    BY LifecycleAssumption, SerialNext
  <1> QED
    BY <1>1, <1>2, TypeCorrect, PTL DEF Spec

\* With one connection the check of detect_circular and the INSERT after it
\* act as one: no two organisations ever lend agents to each other at once.
THEOREM SerialNoMutual ==
    ASSUME PoolSize = 1
    PROVE  Spec => []NoMutualDelegation
  <1>1. SerialInv => NoMutualDelegation
    BY DEF SerialInv
  <1> QED
    BY <1>1, SerialInvariant, PTL

-----------------------------------------------------------------------------
(* Who writes 'borrowed' and who writes 'reaped'.                          *)

LEMMA WhoBorrows ==
    ASSUME TypeOK, Next, NEW a \in Agents,
           stage'[a] = "borrowed", stage[a] # "borrowed"
    PROVE  \E p \in Processes : call[p].at = "inserted" /\ call[p].agent = a
  <1>1. ASSUME NEW b \in Agents, AgentStep(b)
        PROVE  FALSE
    BY <1>1, PutType
       DEF AgentStep, Spawn, Activate, Activated, MonitorExit, Stop, Register, Beat,
           Unregister, Grant, RevokeAll, GrowStale, GrowOld, TypeOK, Stages
  <1>2. ASSUME NEW o \in Orgs, StopOrg(o)
        PROVE  FALSE
    BY <1>2, PutType DEF StopOrg, TypeOK, Stages
  <1>3. ~KillAll
    BY PutType DEF KillAll, TypeOK, Stages
  <1>4. ASSUME NEW p \in Processes, CallStep(p)
        PROVE  call[p].at = "inserted" /\ call[p].agent = a
    BY <1>4 DEF CallStep, BorrowDetect, BorrowInsert, BorrowUpdate, ReturnMark,
                ReturnRestore, TypeOK
  <1>5. ASSUME NEW c \in Callers, CallerStep(c), ~CallStep(c)
        PROVE  FALSE
    BY <1>5 DEF CallerStep, BorrowSelect, ReturnSelect
  <1>6. ASSUME ReaperStep, ~CallStep(Reaper)
        PROVE  FALSE
    <2>1. ASSUME NEW b \in Agents, ReapStale(b)
          PROVE  FALSE
      BY <2>1, PutType DEF ReapStale, TypeOK, Stages
    <2>2. ~ReapZombies
      BY PutType DEF ReapZombies, TypeOK, Stages
    <2> QED
      BY <1>6, <2>1, <2>2
         DEF ReaperStep, ReapUnregister, ReapFindExpired, ReapReturn, ReapScopes
  <1>7. stage' # stage
    OBVIOUS
  <1>8. Reaper \in Processes /\ Callers \subseteq Processes
    BY DEF Processes
  <1> QED
    BY <1>1, <1>2, <1>3, <1>4, <1>5, <1>6, <1>7, <1>8
       DEF Next, ReapBegin, Expire, StatementFails, Crash

LEMMA WhoReaps ==
    ASSUME TypeOK, Next, NEW a \in Agents,
           stage'[a] = "reaped", stage[a] # "reaped"
    PROVE  \/ cycle.at = "stale" /\ a \in cycle.todo
           \/ a \in Zombies
  <1>1. ASSUME NEW b \in Agents, AgentStep(b)
        PROVE  FALSE
    BY <1>1, PutType
       DEF AgentStep, Spawn, Activate, Activated, MonitorExit, Stop, Register, Beat,
           Unregister, Grant, RevokeAll, GrowStale, GrowOld, TypeOK, Stages
  <1>2. ASSUME NEW o \in Orgs, StopOrg(o)
        PROVE  FALSE
    BY <1>2, PutType DEF StopOrg, TypeOK, Stages
  <1>3. ~KillAll
    BY PutType DEF KillAll, TypeOK, Stages
  <1>4. ASSUME NEW p \in Processes, CallStep(p)
        PROVE  FALSE
    BY <1>4 DEF CallStep, BorrowDetect, BorrowInsert, BorrowUpdate, ReturnMark,
                ReturnRestore, TypeOK
  <1>5. ASSUME NEW c \in Callers, CallerStep(c), ~CallStep(c)
        PROVE  FALSE
    BY <1>5 DEF CallerStep, BorrowSelect, ReturnSelect
  <1>6. ASSUME NEW b \in Agents, ReapStale(b)
        PROVE  cycle.at = "stale" /\ a \in cycle.todo
    BY <1>6, PutType DEF ReapStale, NotTerminal, TypeOK, Stages
  <1>7. CASE ReapZombies
    BY <1>7, PutType DEF ReapZombies, TypeOK, Stages
  <1>8. stage' # stage
    OBVIOUS
  <1>9. Reaper \in Processes /\ Callers \subseteq Processes
    BY DEF Processes
  <1> QED
    BY <1>1, <1>2, <1>3, <1>4, <1>5, <1>6, <1>7, <1>8, <1>9
       DEF Next, ReaperStep, ReapUnregister, ReapFindExpired, ReapReturn,
           ReapScopes, ReapBegin, Expire, StatementFails, Crash

\* With one connection, the stage borrow_agent verified with its first
\* statement is still the stage when its last one writes 'borrowed'.
THEOREM SerialBorrowedWasRunning ==
    ASSUME PoolSize = 1
    PROVE  Spec => BorrowedWasRunning
  <1>1. ASSUME TypeOK, SerialInv, Next, NEW a \in Agents,
               stage'[a] = "borrowed", stage[a] # "borrowed"
        PROVE  stage[a] = "running"
    <2>1. PICK p \in Processes : call[p].at = "inserted" /\ call[p].agent = a
      BY <1>1, WhoBorrows
    <2>2. p \in Callers
      BY <1>1, <2>1 DEF SerialInv, ReaperReturns, Processes
    <2> QED
      BY <1>1, <2>1, <2>2 DEF SerialInv, BorrowOfRunning
  <1>2. TypeOK /\ SerialInv /\ [Next]_vars =>
          [\A a \in Agents : stage'[a] = "borrowed" /\ stage[a] # "borrowed"
                                => stage[a] = "running"]_vars
    BY <1>1
  <1> QED
    BY <1>2, TypeCorrect, SerialInvariant, PTL DEF Spec, BorrowedWasRunning

\* With one connection, the list find_stale returned does not go out of date
\* while the reaper works through it.
THEOREM SerialReapedWasStale ==
    ASSUME PoolSize = 1
    PROVE  Spec => ReapedWasStale
  <1>1. ASSUME TypeOK, SerialInv, Next, NEW a \in Agents,
               stage'[a] = "reaped", stage[a] # "reaped"
        PROVE  heartbeat[a] = "stale" \/ (stage[a] = "spawning" /\ a \in old)
    <2>1. CASE cycle.at = "stale" /\ a \in cycle.todo
      BY <1>1, <2>1 DEF SerialInv, StaleList
    <2>2. CASE a \in Zombies
      BY <2>2 DEF Zombies
    <2> QED BY <1>1, <2>1, <2>2, WhoReaps
  <1>2. TypeOK /\ SerialInv /\ [Next]_vars =>
          [\A a \in Agents : stage'[a] = "reaped" /\ stage[a] # "reaped"
             => heartbeat[a] = "stale" \/ (stage[a] = "spawning" /\ a \in old)]_vars
    BY <1>1
  <1> QED
    BY <1>2, TypeCorrect, SerialInvariant, PTL DEF Spec, ReapedWasStale

-----------------------------------------------------------------------------
(* However many connections: each promise breaks by one race only.  What an *)
(* operation has read stays so until it uses it, if nobody takes part in    *)
(* that race, although any number of other operations go on meanwhile.      *)

\* No delegation is new, changes its parties or becomes active again, and no
\* further call has found no circle.
NoNewLoan ==
    /\ DOMAIN deleg' = DOMAIN deleg
    /\ \A d \in DOMAIN deleg : /\ deleg'[d].from = deleg[d].from
                               /\ deleg'[d].to = deleg[d].to
                               /\ deleg[d].returned => deleg'[d].returned
    /\ \A p \in Processes : call'[p].at = "clear" => call'[p] = call[p]

ClearedNotCircular ==
    \A p \in Processes : call[p].at = "clear"
                           => ~Circular(OrgOf[call[p].agent], call[p].to)

\* Any statement but the second and the third of borrow_agent.
LEMMA QuietForCircles ==
    ASSUME TypeOK, [Next]_vars,
           \A p \in Processes : ~BorrowDetect(p) /\ ~BorrowInsert(p)
    PROVE  NoNewLoan
  <1> USE DEF NoNewLoan
  <1>0. Reaper \in Processes /\ Callers \subseteq Processes
    BY DEF Processes
  <1>1. ASSUME UNCHANGED <<deleg, call>>
        PROVE  NoNewLoan
    BY <1>1
  <1>2. ASSUME NEW p \in Processes, ReturnMark(p)
        PROVE  NoNewLoan
    BY <1>2 DEF ReturnMark, TypeOK, Rows
  <1>3. ASSUME deleg' = deleg,
               NEW p \in Processes, NEW v, v.at # "clear",
               call' = [call EXCEPT ![p] = v]
        PROVE  NoNewLoan
    BY <1>3 DEF TypeOK
  <1>4. ASSUME NEW p \in Processes, CallStep(p)
        PROVE  NoNewLoan
    <2>1. CASE BorrowUpdate(p) \/ ReturnRestore(p)
      BY <1>3, <2>1 DEF BorrowUpdate, ReturnRestore, Idle
    <2> QED BY <1>2, <1>4, <2>1 DEF CallStep
  <1>5. ASSUME NEW c \in Callers, CallerStep(c)
        PROVE  NoNewLoan
    <2>1. ASSUME NEW a \in Agents, NEW o \in Orgs, NEW d \in Delegations,
                 BorrowSelect(c, a, o, d)
          PROVE  NoNewLoan
      BY <1>0, <1>3, <2>1 DEF BorrowSelect
    <2>2. ASSUME NEW d \in Delegations, ReturnSelect(c, d)
          PROVE  NoNewLoan
      BY <1>0, <1>3, <2>2 DEF ReturnSelect
    <2> QED BY <1>0, <1>4, <1>5, <2>1, <2>2 DEF CallerStep
  <1>6. ASSUME ReaperStep
        PROVE  NoNewLoan
    <2>1. ASSUME NEW d \in Delegations, ReapReturn(d)
          PROVE  NoNewLoan
      BY <1>0, <1>1, <1>3, <2>1 DEF ReapReturn
    <2>2. CASE \/ \E a \in Agents : ReapStale(a)
               \/ ReapUnregister \/ ReapZombies \/ ReapFindExpired \/ ReapScopes
      BY <1>1, <2>2 DEF ReapStale, ReapUnregister, ReapZombies, ReapFindExpired,
                        ReapScopes
    <2> QED BY <1>0, <1>4, <1>6, <2>1, <2>2 DEF ReaperStep
  <1>7. ASSUME NEW d \in Delegations, Expire(d)
        PROVE  NoNewLoan
    BY <1>7 DEF Expire, TypeOK, Rows
  <1>8. ASSUME NEW p \in Processes, StatementFails(p)
        PROVE  NoNewLoan
    BY <1>3, <1>8 DEF StatementFails, Idle
  <1>9. ASSUME Crash
        PROVE  NoNewLoan
    BY <1>9 DEF Crash, Idle
  <1>10. ASSUME \/ \E a \in Agents : AgentStep(a)
                \/ \E o \in Orgs : StopOrg(o)
                \/ KillAll \/ ReapBegin \/ UNCHANGED vars
         PROVE  UNCHANGED <<deleg, call>>
    BY <1>10 DEF AgentStep, Spawn, Activate, MonitorExit, Stop, Register, Beat,
                 Unregister, Grant, RevokeAll, GrowStale, GrowOld, StopOrg, KillAll,
                 ReapBegin, vars
  <1> QED
    BY <1>1, <1>5, <1>6, <1>7, <1>8, <1>9, <1>10 DEF Next

LEMMA CirclesNext ==
    ASSUME TypeOK, [Next]_vars, ClearedNotCircular, NoMutualDelegation,
           \A p, q \in Processes : ~Opposed(p, q)
    PROVE  ClearedNotCircular' /\ NoMutualDelegation'
  <1>1. CASE \A p \in Processes : ~BorrowDetect(p) /\ ~BorrowInsert(p)
    <2>1. NoNewLoan
      BY <1>1, QuietForCircles
    <2>2. ClearedNotCircular'
      BY <2>1 DEF NoNewLoan, ClearedNotCircular, Circular
    <2>3. NoMutualDelegation'
      BY <2>1 DEF NoNewLoan, NoMutualDelegation
    <2> QED BY <2>2, <2>3
  <1>2. ASSUME NEW p \in Processes, BorrowDetect(p)
        PROVE  ClearedNotCircular' /\ NoMutualDelegation'
    <2>1. /\ \/ call'[p] = Idle
             \/ /\ ~Circular(OrgOf[call[p].agent], call[p].to)
                /\ call'[p] = [at |-> "clear", agent |-> call[p].agent,
                               to |-> call[p].to, deleg |-> call[p].deleg]
          /\ \A q \in Processes : q # p => call'[q] = call[q]
          /\ deleg' = deleg
      BY <1>2 DEF BorrowDetect, TypeOK
    <2> QED BY <2>1 DEF ClearedNotCircular, NoMutualDelegation, Circular, Idle
  <1>3. ASSUME NEW p \in Processes, BorrowInsert(p)
        PROVE  ClearedNotCircular' /\ NoMutualDelegation'
    <2> DEFINE k == call[p]
    <2>1. /\ k.at = "clear"
          /\ call'[p].at = "inserted"
          /\ \A q \in Processes : q # p => call'[q] = call[q]
      BY <1>3 DEF BorrowInsert, TypeOK
    <2>2. /\ DOMAIN deleg' = DOMAIN deleg \cup {k.deleg}
          /\ \A d \in DOMAIN deleg : d # k.deleg => deleg'[d] = deleg[d]
          /\ deleg'[k.deleg].from = OrgOf[k.agent]
          /\ deleg'[k.deleg].to = k.to
      BY <1>3 DEF BorrowInsert, Insert
    <2>3. ~Circular(OrgOf[k.agent], k.to)
      BY <2>1 DEF ClearedNotCircular
    <2>4. NoMutualDelegation'
      BY <2>2, <2>3 DEF NoMutualDelegation, Circular
    <2>5. ASSUME NEW q \in Processes, call'[q].at = "clear"
          PROVE  ~Circular(OrgOf[call[q].agent], call[q].to)'
      <3>1. q # p /\ call'[q] = call[q]
        BY <2>1, <2>5
      <3>2. ~(OrgOf[k.agent] = call[q].to /\ k.to = OrgOf[call[q].agent])
        BY <2>1, <2>5, <3>1 DEF Opposed
      <3>3. ~Circular(OrgOf[call[q].agent], call[q].to)
        BY <2>5, <3>1 DEF ClearedNotCircular
      <3> QED BY <2>2, <3>1, <3>2, <3>3 DEF Circular
    <2> QED BY <2>4, <2>5 DEF ClearedNotCircular
  <1> QED
    BY <1>1, <1>2, <1>3

\* The only way to lend in a circle of two: two borrows in opposite directions,
\* both past their check.  No fault, return or expiry does it, for any number of
\* connections and callers.
THEOREM MutualNeedsRace == Spec => MutualOnlyByRace
  <1> DEFINE NoRace == \A p, q \in Processes : ~Opposed(p, q)
  <1>1. Init => ClearedNotCircular /\ NoMutualDelegation
    <2> SUFFICES ASSUME Init PROVE ClearedNotCircular /\ NoMutualDelegation
      OBVIOUS
    <2>1. /\ \A p \in Processes : call[p].at = "idle"
          /\ DOMAIN deleg = {}
      BY DEF Init, Idle
    <2> QED BY <2>1 DEF ClearedNotCircular, NoMutualDelegation
  <1>2. /\ TypeOK /\ ClearedNotCircular /\ NoMutualDelegation
        /\ NoRace /\ [Next]_vars
        => ClearedNotCircular' /\ NoMutualDelegation'
    BY CirclesNext
  <1>3. MutualOnlyByRace <=> ([]NoRace => []NoMutualDelegation)
    BY DEF MutualOnlyByRace
  <1> HIDE DEF NoRace
  <1> QED
    BY <1>1, <1>2, <1>3, TypeCorrect, PTL DEF Spec

\* What borrow_agent has read of the stage.
StageStillRunning ==
    \A p \in Processes : Borrowing(p) => stage[call[p].agent] = "running"

\* A borrow begins with a running agent, and goes on with the one it read.
LEMMA WhoIsBorrowing ==
    ASSUME TypeOK, [Next]_vars, NEW p \in Processes, Borrowing(p)'
    PROVE  \/ Borrowing(p) /\ ~BorrowUpdate(p) /\ call'[p].agent = call[p].agent
           \/ stage[call'[p].agent] = "running" /\ stage' = stage
  <1> DEFINE Goal == \/ /\ Borrowing(p) /\ ~BorrowUpdate(p)
                        /\ call'[p].agent = call[p].agent
                     \/ stage[call'[p].agent] = "running" /\ stage' = stage
  <1>0. Reaper \in Processes /\ Callers \subseteq Processes
    BY DEF Processes
  <1>1. ASSUME call' = call
        PROVE  Goal
    BY <1>1 DEF Borrowing, BorrowUpdate, TypeOK, Idle
  <1>2. ASSUME NEW q \in Processes, NEW v, call' = [call EXCEPT ![q] = v],
               v.at \in {"idle", "found", "marked"}
        PROVE  Goal
    BY <1>2 DEF Borrowing, BorrowUpdate, TypeOK, Idle
  <1>3. ASSUME NEW q \in Processes, CallStep(q)
        PROVE  Goal
    <2>1. CASE BorrowDetect(q) \/ BorrowInsert(q)
      BY <1>3, <2>1 DEF BorrowDetect, BorrowInsert, BorrowUpdate, Borrowing, TypeOK, Idle
    <2>2. CASE BorrowUpdate(q) \/ ReturnMark(q) \/ ReturnRestore(q)
      BY <1>2, <2>2 DEF BorrowUpdate, ReturnMark, ReturnRestore, Idle
    <2> QED BY <1>3, <2>1, <2>2 DEF CallStep
  <1>4. ASSUME NEW c \in Callers, NEW a \in Agents, NEW o \in Orgs,
               NEW d \in Delegations, BorrowSelect(c, a, o, d)
        PROVE  Goal
    BY <1>0, <1>4 DEF BorrowSelect, Borrowable, Borrowing, BorrowUpdate, TypeOK, Idle
  <1>5. ASSUME NEW c \in Callers, NEW d \in Delegations, ReturnSelect(c, d)
        PROVE  Goal
    BY <1>0, <1>2, <1>5 DEF ReturnSelect
  <1>6. ASSUME NEW d \in Delegations, ReapReturn(d)
        PROVE  Goal
    BY <1>0, <1>1, <1>2, <1>6 DEF ReapReturn
  <1>7. ASSUME NEW q \in Processes, StatementFails(q)
        PROVE  Goal
    BY <1>2, <1>7 DEF StatementFails, Idle
  <1>8. ~Crash
    BY DEF Crash, Idle, Borrowing
  <1>9. ASSUME \/ \E a \in Agents : AgentStep(a) \/ ReapStale(a)
               \/ \E o \in Orgs : StopOrg(o)
               \/ KillAll \/ ReapBegin \/ ReapUnregister \/ ReapZombies
               \/ ReapFindExpired \/ ReapScopes
               \/ \E d \in Delegations : Expire(d)
               \/ UNCHANGED vars
        PROVE  call' = call
    BY <1>9 DEF AgentStep, Spawn, Activate, MonitorExit, Stop, Register, Beat,
                Unregister, Grant, RevokeAll, GrowStale, GrowOld, StopOrg, KillAll,
                ReapBegin, ReapStale, ReapUnregister, ReapZombies, ReapFindExpired,
                ReapScopes, Expire, vars
  <1> HIDE DEF Goal
  <1>10. Goal
    BY <1>0, <1>1, <1>3, <1>4, <1>5, <1>6, <1>7, <1>8, <1>9
       DEF Next, CallerStep, ReaperStep
  <1> QED
    BY <1>10 DEF Goal

\* The only way to borrow an agent that is not running: somebody else writes its
\* stage while the borrow is under way.  Returns, faults, the reaper's loops and
\* other borrows do no harm as long as they concern other agents.
THEOREM BorrowNeedsRace == Spec => BorrowedOnlyByRace
  <1> DEFINE Alone == \A p \in Processes : Borrowing(p) /\ ~BorrowUpdate(p)
                        => stage'[call[p].agent] = stage[call[p].agent]
             Right == \A a \in Agents :
                        stage'[a] = "borrowed" /\ stage[a] # "borrowed"
                          => stage[a] = "running"
  <1>1. Init => StageStillRunning
    BY DEF Init, Idle, StageStillRunning, Borrowing
  <1>2. TypeOK /\ StageStillRunning /\ [Next]_vars /\ [Alone]_vars
          => StageStillRunning'
    <2> SUFFICES ASSUME TypeOK, StageStillRunning, [Next]_vars, [Alone]_vars,
                        NEW p \in Processes, Borrowing(p)'
                 PROVE  stage'[call'[p].agent] = "running"
      BY DEF StageStillRunning
    <2>1. Alone
      BY DEF vars
    <2> QED BY <2>1, WhoIsBorrowing DEF StageStillRunning
  <1>3. TypeOK /\ StageStillRunning /\ [Next]_vars => [Right]_vars
    BY WhoBorrows DEF StageStillRunning, Borrowing
  <1>4. BorrowedOnlyByRace <=> ([][Alone]_vars => [][Right]_vars)
    BY DEF BorrowedOnlyByRace, BorrowedWasRunning
  <1> HIDE DEF Alone, Right
  <1> QED
    BY <1>1, <1>2, <1>3, <1>4, TypeCorrect, PTL DEF Spec

\* The reaper's list only shrinks until its next cycle, which lists what is
\* stale then.
LEMMA WhoIsListed ==
    ASSUME TypeOK, [Next]_vars, NEW a \in Agents, Listed(a)'
    PROVE  \/ Listed(a)
           \/ heartbeat[a] = "stale" /\ heartbeat' = heartbeat
  <1>1. CASE ReapBegin
    BY <1>1 DEF ReapBegin, Listed
  <1>2. ASSUME NEW b \in Agents, ReapStale(b)
        PROVE  Listed(a)
    BY <1>2 DEF ReapStale, Listed
  <1>3. CASE ReapUnregister \/ ReapZombies \/ ReapFindExpired \/ ReapScopes \/ Crash
    BY <1>3 DEF ReapUnregister, ReapZombies, ReapFindExpired, ReapScopes, Crash,
                Waiting, Listed
  <1>4. ASSUME NEW d \in Delegations, ReapReturn(d)
        PROVE  Listed(a)
    <2>1. cycle'.at \in {"return", "waiting"}
      BY <1>4 DEF ReapReturn, Waiting, TypeOK, Cycles
    <2> QED BY <2>1 DEF Listed
  <1>5. ASSUME NEW p \in Processes, StatementFails(p)
        PROVE  Listed(a)
    BY <1>5 DEF StatementFails, Waiting, Listed
  <1>6. ASSUME cycle' = cycle
        PROVE  Listed(a)
    BY <1>6 DEF Listed
  <1>7. ASSUME \/ \E b \in Agents : AgentStep(b)
               \/ \E o \in Orgs : StopOrg(o)
               \/ KillAll \/ CallStep(Reaper)
               \/ \E c \in Callers : CallerStep(c)
               \/ \E d \in Delegations : Expire(d)
               \/ UNCHANGED vars
        PROVE  cycle' = cycle
    BY <1>7 DEF AgentStep, Spawn, Activate, MonitorExit, Stop, Register, Beat,
                Unregister, Grant, RevokeAll, GrowStale, GrowOld, StopOrg, KillAll,
                CallerStep, CallStep, BorrowSelect, ReturnSelect, BorrowDetect,
                BorrowInsert, BorrowUpdate, ReturnMark, ReturnRestore, Expire, vars
  <1> QED
    BY <1>1, <1>2, <1>3, <1>4, <1>5, <1>6, <1>7 DEF Next, ReaperStep

\* The only way to reap an agent whose heartbeat is not stale: it is written
\* while the agent waits for its turn in the reaper's loop.
THEOREM ReapNeedsRace == Spec => ReapedOnlyByRace
  <1> DEFINE StillStale == \A a \in Agents : Listed(a) => heartbeat[a] = "stale"
             Alone == \A a \in Agents : Listed(a) => heartbeat'[a] = heartbeat[a]
             Right == \A a \in Agents :
                        stage'[a] = "reaped" /\ stage[a] # "reaped"
                          => heartbeat[a] = "stale" \/ (stage[a] = "spawning" /\ a \in old)
  <1>1. Init => StillStale
    BY DEF Init, Waiting, Listed
  <1>2. TypeOK /\ StillStale /\ [Next]_vars /\ [Alone]_vars => StillStale'
    <2> SUFFICES ASSUME TypeOK, StillStale, [Next]_vars, [Alone]_vars,
                        NEW a \in Agents, Listed(a)'
                 PROVE  heartbeat'[a] = "stale"
      OBVIOUS
    <2>1. Alone
      BY DEF vars
    <2> QED BY <2>1, WhoIsListed
  <1>3. TypeOK /\ StillStale /\ [Next]_vars => [Right]_vars
    <2> SUFFICES ASSUME TypeOK, StillStale, Next, NEW a \in Agents,
                        stage'[a] = "reaped", stage[a] # "reaped"
                 PROVE  heartbeat[a] = "stale" \/ (stage[a] = "spawning" /\ a \in old)
      OBVIOUS
    <2> QED BY WhoReaps DEF Listed, Zombies
  <1>4. ReapedOnlyByRace <=> ([][Alone]_vars => [][Right]_vars)
    BY DEF ReapedOnlyByRace, ReapedWasStale
  <1> HIDE DEF StillStale, Alone, Right
  <1> QED
    BY <1>1, <1>2, <1>3, <1>4, TypeCorrect, PTL DEF Spec

-----------------------------------------------------------------------------
(* Stages and delegations, when in addition no operation is cut short.     *)

Lent(a) == stage[a] \in {"borrowed"} \cup Ended

AtHomeOrLent(a) ==
    \/ ActiveOf(a) = {} /\ stage[a] # "borrowed"
    \/ Lent(a) /\ \E d \in DOMAIN deleg : ActiveOf(a) = {d}

Changing(p) == call[p].at \in {"inserted", "found", "marked"}

\* Every agent is at home or lent, except the one an operation in flight is
\* about: for it, the operation's position says what has been done already.
LoanInv ==
    /\ \A a \in Agents :
         (\A p \in Processes : Changing(p) => call[p].agent # a) => AtHomeOrLent(a)
    /\ \A p \in Processes :
         LET k == call[p] IN
         /\ k.at \in {"checked", "clear"} => k.deleg \notin DOMAIN deleg
         /\ k.at = "inserted" => ActiveOf(k.agent) = {k.deleg}
         /\ k.at = "found" => Lent(k.agent) /\ ActiveOf(k.agent) = {k.deleg}
         /\ k.at = "marked" => Lent(k.agent) /\ ActiveOf(k.agent) = {}

LEMMA LoanQuiet ==
    ASSUME LoanInv, NEW a \in Agents, \A p \in Processes : ~Changing(p)
    PROVE  AtHomeOrLent(a)
  BY DEF LoanInv

\* Between two operations a stage may move on to an ended one or towards
\* 'running' from before it.
Forward(a) ==
    \/ stage'[a] = stage[a]
    \/ stage'[a] \in Ended
    \/ stage[a] \in {"none", "spawning"} /\ stage'[a] \in {"spawning", "running"}

LEMMA LoanForward ==
    ASSUME TypeOK, LoanInv, \A p \in Processes : ~Changing(p), UNCHANGED deleg,
           \A a \in Agents : Forward(a),
           \A p \in Processes :
              \/ call'[p] = call[p]
              \/ call'[p].at = "idle"
    PROVE  LoanInv'
  <1>1. ASSUME NEW a \in Agents
        PROVE  AtHomeOrLent(a)'
    <2>1. AtHomeOrLent(a) /\ Forward(a)
      BY LoanQuiet
    <2> QED
      BY <2>1 DEF AtHomeOrLent, ActiveOf, Lent, Forward, Ended, Terminal
  <1>2. \A p \in Processes : call'[p].at \notin {"inserted", "found", "marked"}
    BY DEF Changing
  <1>3. \A p \in Processes : call'[p].at \in {"checked", "clear"}
                               => call'[p].deleg \notin DOMAIN deleg'
    BY DEF LoanInv
  <1> QED
    BY <1>1, <1>2, <1>3 DEF LoanInv

LEMMA LoanAgentStep ==
    ASSUME LifecycleAssumption, PoolSize = 1, TypeOK, SerialInv, LoanInv,
           NEW a \in Agents, AgentStep(a)
    PROVE  LoanInv'
  <1>1. UNCHANGED <<deleg, call>>
    BY DEF AgentStep, Spawn, Activate, MonitorExit, Stop, Register, Beat,
           Unregister, Grant, RevokeAll, GrowStale, GrowOld
  <1>2. CASE UNCHANGED stage
    BY <1>1, <1>2 DEF LoanInv, AtHomeOrLent, ActiveOf, Lent, Changing
  <1>3. CASE ConnectionFree
    <2>1. \A p \in Processes : ~Changing(p)
      BY <1>3, FreeMeansQuiet DEF Changing, Processes, SerialInv, ReaperReturns
    <2>2. \A b \in Agents : Forward(b)
      BY PutType
         DEF AgentStep, Spawn, Activate, Activated, MonitorExit, Stop, Register,
             Beat, Unregister, Grant, RevokeAll, GrowStale, GrowOld, Forward,
             Ended, Terminal, TypeOK, Stages
    <2> QED BY <1>1, <2>1, <2>2, LoanForward
  <1> QED
    BY <1>2, <1>3 DEF AgentStep, Spawn, Activate, MonitorExit, Stop, Register,
                      Beat, Unregister, Grant, RevokeAll, GrowStale, GrowOld

\* While p is inside an operation, p is the only process that is.
LEMMA LoanAlone ==
    ASSUME LifecycleAssumption, TypeOK, SerialInv,
           NEW p \in Processes, call[p].at # "idle"
    PROVE  \A q \in Processes : q # p => call[q].at = "idle"
  BY AloneInCall DEF Processes

LEMMA LoanCallStep ==
    ASSUME LifecycleAssumption, PoolSize = 1, TypeOK, SerialInv, LoanInv,
           NEW p \in Processes, CallStep(p)
    PROVE  LoanInv'
  <1> DEFINE k == call[p]
  <1>0. /\ k.at # "idle" /\ k \in Calls
        /\ \A q \in Processes : q # p => call'[q] = call[q]
    BY DEF CallStep, BorrowDetect, BorrowInsert, BorrowUpdate, ReturnMark,
           ReturnRestore, TypeOK
  <1>1. \A q \in Processes : q # p => call[q].at = "idle" /\ call'[q].at = "idle"
    BY <1>0, LoanAlone
  <1>2. CASE BorrowDetect(p)
    <2>1. /\ k.at = "checked"
          /\ UNCHANGED <<stage, deleg>>
          /\ \/ call'[p] = Idle
             \/ call'[p] = [at |-> "clear", agent |-> k.agent, to |-> k.to,
                            deleg |-> k.deleg]
      BY <1>2 DEF BorrowDetect, TypeOK
    <2>2. \A q \in Processes : ~Changing(q)
      BY <1>1, <2>1 DEF Changing
    <2>3. ASSUME NEW a \in Agents
          PROVE  AtHomeOrLent(a)'
      BY <2>1, <2>2, LoanQuiet DEF AtHomeOrLent, ActiveOf, Lent
    <2> QED BY <1>1, <2>1, <2>3 DEF LoanInv, Idle
  <1>3. CASE BorrowInsert(p)
    <2>1. /\ k.at = "clear"
          /\ stage' = stage
          /\ call'[p] = [at |-> "inserted", agent |-> k.agent, deleg |-> k.deleg]
      BY <1>3 DEF BorrowInsert, TypeOK
    <2>2. \A q \in Processes : ~Changing(q)
      BY <1>1, <2>1 DEF Changing
    <2>3. k.agent \in Agents /\ k.deleg \notin DOMAIN deleg
      BY <1>0, <2>1, CallFields DEF LoanInv
    <2>4. stage[k.agent] = "running"
      BY <2>1 DEF SerialInv, BorrowOfRunning, ReaperReturns, Processes
    <2>5. ActiveOf(k.agent) = {}
      BY <2>2, <2>3, <2>4, LoanQuiet DEF AtHomeOrLent, Lent, Ended, Terminal
    <2>6. /\ DOMAIN deleg' = DOMAIN deleg \cup {k.deleg}
          /\ \A d \in DOMAIN deleg : deleg'[d] = deleg[d]
          /\ deleg'[k.deleg].agent = k.agent
          /\ ~deleg'[k.deleg].returned
      BY <1>3, <2>3 DEF BorrowInsert, Insert
    <2>7. ActiveOf(k.agent)' = {k.deleg}
      BY <2>1, <2>5, <2>6 DEF ActiveOf
    <2>8. ASSUME NEW a \in Agents, a # k.agent
          PROVE  AtHomeOrLent(a)'
      <3>1. ActiveOf(a)' = ActiveOf(a)
        BY <2>6, <2>8 DEF ActiveOf
      <3> QED BY <2>1, <2>2, <2>6, <2>8, <3>1, LoanQuiet DEF AtHomeOrLent, Lent
    <2> QED BY <1>1, <2>1, <2>7, <2>8 DEF LoanInv, Changing
  <1>4. CASE BorrowUpdate(p)
    <2>1. /\ k.at = "inserted"
          /\ deleg' = deleg
          /\ call'[p].at = "idle"
          /\ stage' = [stage EXCEPT ![k.agent] = "borrowed"]
      BY <1>4 DEF BorrowUpdate, TypeOK, Idle
    <2>2. ActiveOf(k.agent) = {k.deleg} /\ k.agent \in Agents
      BY <1>0, <2>1, CallFields DEF LoanInv
    <2>3. ASSUME NEW a \in Agents
          PROVE  AtHomeOrLent(a)'
      <3>1. ActiveOf(a)' = ActiveOf(a)
        BY <2>1 DEF ActiveOf
      <3>2. CASE a = k.agent
        <4>1. k.deleg \in DOMAIN deleg
          BY <2>2 DEF ActiveOf
        <4> QED BY <2>1, <2>2, <3>1, <3>2, <4>1 DEF AtHomeOrLent, Lent, TypeOK
      <3>3. CASE a # k.agent
        <4>1. AtHomeOrLent(a)
          BY <1>1, <3>3 DEF LoanInv, Changing
        <4> QED BY <2>1, <3>1, <3>3, <4>1 DEF AtHomeOrLent, Lent, TypeOK
      <3> QED BY <3>2, <3>3
    <2> QED BY <1>1, <2>1, <2>3 DEF LoanInv
  <1>5. CASE ReturnMark(p)
    <2>1. /\ k.at = "found"
          /\ stage' = stage
          /\ call'[p] = [at |-> "marked", agent |-> k.agent, deleg |-> k.deleg]
      BY <1>5 DEF ReturnMark, TypeOK
    <2>2. /\ Lent(k.agent) /\ ActiveOf(k.agent) = {k.deleg}
          /\ k.agent \in Agents
      BY <1>0, <2>1, CallFields DEF LoanInv
    <2>3. k.deleg \in DOMAIN deleg
      BY <2>2 DEF ActiveOf
    <2>4. /\ DOMAIN deleg' = DOMAIN deleg
          /\ \A d \in DOMAIN deleg :
               /\ deleg'[d].agent = deleg[d].agent
               /\ deleg'[d].returned <=> deleg[d].returned \/ d = k.deleg
      BY <1>5, <2>3 DEF ReturnMark, TypeOK, Rows
    <2>5. ActiveOf(k.agent)' = {}
      BY <2>1, <2>2, <2>4 DEF ActiveOf
    <2>6. ASSUME NEW a \in Agents, a # k.agent
          PROVE  AtHomeOrLent(a)'
      <3>1. k.deleg \notin ActiveOf(a)
        BY <2>2, <2>6 DEF ActiveOf
      <3>2. ActiveOf(a)' = ActiveOf(a)
        BY <2>4, <3>1 DEF ActiveOf
      <3>3. AtHomeOrLent(a)
        BY <1>1, <2>6 DEF LoanInv, Changing
      <3> QED BY <2>1, <2>4, <3>2, <3>3 DEF AtHomeOrLent, Lent
    <2> QED BY <1>1, <2>1, <2>2, <2>5, <2>6 DEF LoanInv, Changing, Lent
  <1>6. CASE ReturnRestore(p)
    <2>1. /\ k.at = "marked"
          /\ deleg' = deleg
          /\ call'[p].at = "idle"
          /\ stage' = [stage EXCEPT ![k.agent] = "running"]
      BY <1>6 DEF ReturnRestore, TypeOK, Idle
    <2>2. ActiveOf(k.agent) = {} /\ k.agent \in Agents
      BY <1>0, <2>1, CallFields DEF LoanInv
    <2>3. ASSUME NEW a \in Agents
          PROVE  AtHomeOrLent(a)'
      <3>1. ActiveOf(a)' = ActiveOf(a)
        BY <2>1 DEF ActiveOf
      <3>2. CASE a = k.agent
        BY <2>1, <2>2, <3>1, <3>2 DEF AtHomeOrLent, TypeOK
      <3>3. CASE a # k.agent
        <4>1. AtHomeOrLent(a)
          BY <1>1, <3>3 DEF LoanInv, Changing
        <4> QED BY <2>1, <3>1, <3>3, <4>1 DEF AtHomeOrLent, Lent, TypeOK
      <3> QED BY <3>2, <3>3
    <2> QED BY <1>1, <2>1, <2>3 DEF LoanInv
  <1> QED
    BY <1>2, <1>3, <1>4, <1>5, <1>6 DEF CallStep

\* The SELECT of return_agent finds an agent that is lent by just the
\* delegation being returned.
LEMMA LoanFound ==
    ASSUME TypeOK, LoanInv, NEW p \in Processes, NEW d \in Delegations,
           Returnable(d), \A q \in Processes : call[q].at = "idle",
           UNCHANGED <<stage, deleg>>,
           call' = [call EXCEPT ![p] = [at |-> "found", agent |-> deleg[d].agent,
                                        deleg |-> d]]
    PROVE  LoanInv'
  <1> DEFINE b == deleg[d].agent
  <1>1. b \in Agents /\ d \in ActiveOf(b)
    BY DEF Returnable, ActiveOf, TypeOK, Rows
  <1>2. \A a \in Agents : AtHomeOrLent(a)
    BY LoanQuiet DEF Changing
  <1>3. Lent(b) /\ ActiveOf(b) = {d}
    BY <1>1, <1>2 DEF AtHomeOrLent
  <1>4. /\ call'[p] = [at |-> "found", agent |-> b, deleg |-> d]
        /\ \A q \in Processes : q # p => call'[q].at = "idle"
    BY DEF TypeOK
  <1>5. \A a \in Agents : /\ ActiveOf(a)' = ActiveOf(a)
                          /\ Lent(a)' <=> Lent(a)
                          /\ AtHomeOrLent(a)'
    BY <1>2 DEF ActiveOf, Lent, AtHomeOrLent
  <1> HIDE DEF b
  <1> QED
    BY <1>1, <1>3, <1>4, <1>5 DEF LoanInv

LEMMA LoanCallerStep ==
    ASSUME LifecycleAssumption, PoolSize = 1, TypeOK, SerialInv, LoanInv,
           NEW c \in Callers, CallerStep(c)
    PROVE  LoanInv'
  <1>0. c \in Processes
    BY DEF Processes
  <1>1. ConnectionFree => \A q \in Processes : call[q].at = "idle"
    BY FreeMeansQuiet DEF Processes, SerialInv, ReaperReturns
  <1>2. ASSUME NEW a \in Agents, NEW o \in Orgs, NEW d \in Delegations,
               BorrowSelect(c, a, o, d)
        PROVE  LoanInv'
    <2>1. /\ call'[c] = [at |-> "checked", agent |-> a, to |-> o, deleg |-> d]
          /\ \A q \in Processes : q # c => call'[q].at = "idle"
          /\ d \notin DOMAIN deleg
          /\ UNCHANGED <<stage, deleg>>
          /\ \A q \in Processes : ~Changing(q)
      BY <1>0, <1>1, <1>2 DEF BorrowSelect, UsedIds, TypeOK, Changing
    <2>2. ASSUME NEW b \in Agents
          PROVE  AtHomeOrLent(b)'
      BY <2>1, LoanQuiet DEF AtHomeOrLent, ActiveOf, Lent
    <2> QED BY <1>0, <2>1, <2>2 DEF LoanInv
  <1>3. ASSUME NEW d \in Delegations, ReturnSelect(c, d)
        PROVE  LoanInv'
    BY <1>0, <1>1, <1>3, LoanFound DEF ReturnSelect
  <1>4. CASE CallStep(c)
    BY <1>0, <1>4, LoanCallStep
  <1> QED
    BY <1>2, <1>3, <1>4 DEF CallerStep

LEMMA LoanReaperStep ==
    ASSUME LifecycleAssumption, PoolSize = 1, TypeOK, SerialInv, LoanInv, ReaperStep
    PROVE  LoanInv'
  <1>0. Reaper \in Processes
    BY DEF Processes
  <1>1. CASE CallStep(Reaper)
    BY <1>0, <1>1, LoanCallStep
  <1>2. ASSUME cycle.at # "waiting", call[Reaper].at = "idle"
        PROVE  \A q \in Processes : call[q].at = "idle" /\ ~Changing(q)
    BY <1>2, AloneInCycle DEF Processes, Changing
  <1>3. ASSUME NEW a \in Agents, ReapStale(a)
        PROVE  LoanInv'
    <2>1. \A q \in Processes : ~Changing(q)
      BY <1>2, <1>3 DEF ReapStale, SerialInv, ReaperReturns
    <2>2. \A b \in Agents : Forward(b)
      BY <1>3, PutType DEF ReapStale, Forward, TypeOK, Stages, Ended, Terminal
    <2> QED BY <1>3, <2>1, <2>2, LoanForward DEF ReapStale
  <1>4. CASE ReapZombies
    <2>1. \A q \in Processes : ~Changing(q)
      BY <1>2, <1>4 DEF ReapZombies, SerialInv, ReaperReturns
    <2>2. \A b \in Agents : Forward(b)
      BY <1>4, PutType DEF ReapZombies, Forward, TypeOK, Stages, Ended, Terminal
    <2> QED BY <1>4, <2>1, <2>2, LoanForward DEF ReapZombies
  <1>5. ASSUME NEW d \in Delegations, ReapReturn(d)
        PROVE  LoanInv'
    <2>1. \A q \in Processes : call[q].at = "idle"
      BY <1>2, <1>5 DEF ReapReturn, Idle
    <2>2. CASE Returnable(d)
      BY <1>0, <1>5, <2>1, <2>2, LoanFound DEF ReapReturn
    <2>3. CASE ~Returnable(d)
      BY <1>5, <2>3 DEF ReapReturn, LoanInv, AtHomeOrLent, ActiveOf, Lent, Changing
    <2> QED BY <2>2, <2>3
  <1>6. CASE ReapUnregister \/ ReapFindExpired \/ ReapScopes
    BY <1>6 DEF ReapUnregister, ReapFindExpired, ReapScopes, LoanInv, AtHomeOrLent,
                ActiveOf, Lent, Changing
  <1> QED
    BY <1>1, <1>3, <1>4, <1>5, <1>6 DEF ReaperStep

\* Faults are never undone.
LEMMA FaultsStay ==
    ASSUME TypeOK, [Next]_vars, faults' = 0
    PROVE  faults = 0
  <1>1. ASSUME NEW a \in Agents, AgentStep(a)
        PROVE  faults' = faults
    BY <1>1 DEF AgentStep, Spawn, Activate, MonitorExit, Stop, Register, Beat,
                Unregister, Grant, RevokeAll, GrowStale, GrowOld
  <1>2. ASSUME NEW c \in Callers, CallerStep(c)
        PROVE  faults' = faults
    BY <1>2 DEF CallerStep, CallStep, BorrowSelect, BorrowDetect, BorrowInsert,
                BorrowUpdate, ReturnSelect, ReturnMark, ReturnRestore
  <1>3. CASE ReaperStep
    BY <1>3 DEF ReaperStep, CallStep, BorrowDetect, BorrowInsert, BorrowUpdate,
                ReturnMark, ReturnRestore, ReapStale, ReapUnregister, ReapZombies,
                ReapFindExpired, ReapReturn, ReapScopes
  <1>4. CASE Crash \/ \E p \in Processes : StatementFails(p)
    BY <1>4 DEF Crash, StatementFails, TypeOK
  <1> QED
    BY <1>1, <1>2, <1>3, <1>4
       DEF Next, vars, StopOrg, KillAll, ReapBegin, Expire

LEMMA LoanNext ==
    ASSUME LifecycleAssumption, PoolSize = 1, TypeOK, SerialInv, LoanInv,
           [Next]_vars, faults' = 0
    PROVE  LoanInv'
  <1>0. ConnectionFree => \A q \in Processes : ~Changing(q)
    BY FreeMeansQuiet DEF Processes, SerialInv, ReaperReturns, Changing
  <1>1. ASSUME NEW a \in Agents, AgentStep(a)
        PROVE  LoanInv'
    BY <1>1, LoanAgentStep
  <1>2. ASSUME NEW o \in Orgs, StopOrg(o)
        PROVE  LoanInv'
    <2>1. \A b \in Agents : Forward(b)
      BY <1>2, PutType DEF StopOrg, Forward, TypeOK, Stages, Ended, Terminal
    <2> QED BY <1>0, <1>2, <2>1, LoanForward DEF StopOrg
  <1>3. CASE KillAll
    <2>1. \A b \in Agents : Forward(b)
      BY <1>3, PutType DEF KillAll, Forward, TypeOK, Stages, Ended, Terminal
    <2> QED BY <1>0, <1>3, <2>1, LoanForward DEF KillAll
  <1>4. ASSUME NEW c \in Callers, CallerStep(c)
        PROVE  LoanInv'
    BY <1>4, LoanCallerStep
  <1>5. CASE ReapBegin
    BY <1>5 DEF ReapBegin, LoanInv, AtHomeOrLent, ActiveOf, Lent, Changing
  <1>6. CASE ReaperStep
    BY <1>6, LoanReaperStep
  <1>7. ASSUME NEW d \in Delegations, Expire(d)
        PROVE  LoanInv'
    <2>1. /\ DOMAIN deleg' = DOMAIN deleg
          /\ \A e \in DOMAIN deleg : /\ deleg'[e].agent = deleg[e].agent
                                     /\ deleg'[e].returned = deleg[e].returned
      BY <1>7 DEF Expire, TypeOK, Rows
    <2>2. \A a : ActiveOf(a)' = ActiveOf(a)
      BY <2>1 DEF ActiveOf
    <2> QED BY <1>7, <2>1, <2>2 DEF Expire, LoanInv, AtHomeOrLent, Lent, Changing
  <1>8. ~Crash /\ \A p \in Processes : ~StatementFails(p)
    BY DEF Crash, StatementFails, TypeOK
  <1>9. CASE UNCHANGED vars
    BY <1>9 DEF vars, LoanInv, AtHomeOrLent, ActiveOf, Lent, Changing
  <1> QED
    BY <1>1, <1>2, <1>3, <1>4, <1>5, <1>6, <1>7, <1>8, <1>9 DEF Next

\* With one connection, the stage of an agent and the delegations of it agree
\* whenever no operation is in flight, until one is cut short.
THEOREM StageAgreesWithDelegations ==
    ASSUME PoolSize = 1
    PROVE  Spec => []StageMatchesDelegations
  <1> DEFINE Inv == faults = 0 => LoanInv
  <1>1. Init => Inv
    BY DEF Init, Idle, LoanInv, AtHomeOrLent, ActiveOf
  <1>2. TypeOK /\ SerialInv /\ Inv /\ [Next]_vars => Inv'
    BY LifecycleAssumption, FaultsStay, LoanNext
  <1>3. SerialInv /\ Inv => StageMatchesDelegations
    <2> SUFFICES ASSUME SerialInv, LoanInv, Holders = {}, NEW a \in Agents
                 PROVE  AtHomeOrLent(a)
      BY DEF StageMatchesDelegations, Quiet, AtHomeOrLent, Lent
    <2>1. \A p \in Processes : ~Changing(p)
      BY DEF Holders, Processes, Changing, SerialInv, ReaperReturns
    <2> QED BY <2>1, LoanQuiet
  <1> HIDE DEF Inv
  <1> QED
    BY <1>1, <1>2, <1>3, TypeCorrect, SerialInvariant, PTL DEF Spec

-----------------------------------------------------------------------------
(* The refinement: with one connection, Lifecycle implements AgentLease.   *)
(* The last statement of borrow_agent is the lending, the last of          *)
(* return_agent the taking back, and the statements before them change     *)
(* nothing that the abstract lending can see.                              *)

\* What an operation in flight knows of its delegation's row.
CallRow(k) ==
    /\ k.at \in {"checked", "clear"} => k.deleg \notin DOMAIN deleg
    /\ k.at \in {"inserted", "found", "marked"} =>
         k.deleg \in DOMAIN deleg /\ deleg[k.deleg].agent = k.agent
    /\ k.at \in {"inserted", "found"} => ~deleg[k.deleg].returned
    /\ k.at = "marked" => deleg[k.deleg].returned

\* Rows name the owner; operations agree with their rows; a monitored agent
\* has a row of its own.
RowInv ==
    /\ \A d \in DOMAIN deleg : deleg[d].from = OrgOf[deleg[d].agent]
    /\ \A p \in Processes : CallRow(call[p])
    /\ \A a \in Agents : watch[a] # "none" => stage[a] # "none"

-----------------------------------------------------------------------------
(* The statements that end agents.                                         *)

EndsOrStays(a) == \/ stage'[a] = stage[a]
                  \/ stage[a] # "none" /\ stage'[a] \in Ended

LEMMA PutEnds ==
    ASSUME TypeOK, NEW S, NEW v \in Terminal, stage' = Put(stage, S, v),
           \A a \in S : stage[a] # "none"
    PROVE  \A a \in Agents : EndsOrStays(a)
  <1>1. v \in Stages
    BY DEF Terminal, Stages
  <1>2. \A a \in Agents : stage'[a] = IF a \in S THEN v ELSE stage[a]
    BY <1>1, PutType DEF TypeOK
  <1> QED
    BY <1>2 DEF EndsOrStays, Ended

\* Kill-all, stopping an organisation, and the reaper's own statements only end
\* agents.
LEMMA SweepEnds ==
    ASSUME TypeOK,
           \/ KillAll \/ ReapBegin \/ \E o \in Orgs : StopOrg(o)
           \/ (\E a \in Agents : ReapStale(a)) \/ ReapUnregister \/ ReapZombies
           \/ ReapFindExpired \/ ReapScopes
    PROVE  /\ UNCHANGED <<deleg, call, watch, faults>>
           /\ \A a \in Agents : EndsOrStays(a)
  <1>1. UNCHANGED <<deleg, call, watch, faults>>
    BY DEF KillAll, ReapBegin, StopOrg, ReapStale, ReapUnregister, ReapZombies,
           ReapFindExpired, ReapScopes
  <1>2. "stopped" \in Terminal /\ "reaped" \in Terminal
    BY DEF Terminal
  <1>3. \A S : \A a \in NotTerminal(S) : stage[a] # "none"
    BY DEF NotTerminal
  <1>4. UNCHANGED stage => \A a \in Agents : EndsOrStays(a)
    BY DEF EndsOrStays
  <1>5. CASE KillAll
    BY <1>1, <1>2, <1>5, PutEnds DEF KillAll
  <1>6. ASSUME NEW o \in Orgs, StopOrg(o)
        PROVE  \A a \in Agents : EndsOrStays(a)
    BY <1>2, <1>3, <1>6, PutEnds DEF StopOrg
  <1>7. ASSUME NEW a \in Agents, ReapStale(a)
        PROVE  \A b \in Agents : EndsOrStays(b)
    BY <1>2, <1>3, <1>7, PutEnds DEF ReapStale
  <1>8. CASE ReapZombies
    <2>1. \A a \in Zombies : stage[a] # "none"
      BY DEF Zombies
    <2> QED BY <1>1, <1>2, <1>8, <2>1, PutEnds DEF ReapZombies
  <1>9. CASE ReapBegin \/ ReapUnregister \/ ReapFindExpired \/ ReapScopes
    BY <1>1, <1>4, <1>9 DEF ReapBegin, ReapUnregister, ReapFindExpired, ReapScopes
  <1> QED
    BY <1>1, <1>5, <1>6, <1>7, <1>8, <1>9

-----------------------------------------------------------------------------
(* The invariant.                                                          *)

\* A step that leaves the delegations alone, starts no operation and erases no
\* stage keeps it.
LEMMA RowKept ==
    ASSUME RowInv, UNCHANGED deleg,
           \A p \in Processes : call'[p] = call[p] \/ call'[p].at = "idle",
           \A a \in Agents : watch'[a] # "none" => stage'[a] # "none"
    PROVE  RowInv'
  BY DEF RowInv, CallRow

LEMMA RowCallStep ==
    ASSUME LifecycleAssumption, TypeOK, SerialInv, RowInv,
           NEW p \in Processes, CallStep(p)
    PROVE  RowInv'
  <1> DEFINE k == call[p]
  <1>0. /\ k.at # "idle" /\ k \in Calls
        /\ UNCHANGED watch
        /\ \A q \in Processes : q # p => call'[q] = call[q] /\ call'[q].at = "idle"
    BY LoanAlone DEF CallStep, BorrowDetect, BorrowInsert, BorrowUpdate, ReturnMark,
           ReturnRestore, TypeOK
  <1>1. \A a \in Agents : watch'[a] # "none" => stage'[a] # "none"
    BY <1>0 DEF CallStep, BorrowDetect, BorrowInsert, BorrowUpdate, ReturnMark,
           ReturnRestore, TypeOK, RowInv
  <1>2. \A q \in Processes : q # p => CallRow(call[q])'
    BY <1>0 DEF CallRow
  <1>3. CASE BorrowDetect(p)
    <2>1. call'[p].at = "idle" \/ (call'[p].at = "clear" /\ call'[p].deleg = k.deleg)
      BY <1>3 DEF BorrowDetect, TypeOK, Idle
    <2> QED
      BY <1>1, <1>2, <1>3, <2>1 DEF BorrowDetect, RowInv, CallRow
  <1>4. CASE BorrowInsert(p)
    <2>1. /\ k.at = "clear" /\ k.agent \in Agents /\ k.deleg \notin DOMAIN deleg
          /\ DOMAIN deleg' = DOMAIN deleg \cup {k.deleg}
          /\ \A d \in DOMAIN deleg : deleg'[d] = deleg[d]
          /\ deleg'[k.deleg].agent = k.agent /\ ~deleg'[k.deleg].returned
          /\ deleg'[k.deleg].from = OrgOf[k.agent]
          /\ call'[p].at = "inserted" /\ call'[p].agent = k.agent
          /\ call'[p].deleg = k.deleg
      BY <1>0, <1>4, CallFields DEF BorrowInsert, Insert, RowInv, CallRow, TypeOK
    <2> QED
      BY <1>1, <1>2, <2>1 DEF RowInv, CallRow
  <1>5. CASE ReturnMark(p)
    <2>1. /\ k.at = "found" /\ k.deleg \in DOMAIN deleg
          /\ DOMAIN deleg' = DOMAIN deleg
          /\ \A d \in DOMAIN deleg : /\ deleg'[d].agent = deleg[d].agent
                                     /\ deleg'[d].from = deleg[d].from
          /\ deleg'[k.deleg].returned
          /\ call'[p].at = "marked" /\ call'[p].agent = k.agent
          /\ call'[p].deleg = k.deleg
      BY <1>5 DEF ReturnMark, RowInv, CallRow, TypeOK, Rows
    <2> QED
      BY <1>1, <1>2, <2>1 DEF RowInv, CallRow
  <1>6. CASE BorrowUpdate(p) \/ ReturnRestore(p)
    BY <1>0, <1>1, <1>6, RowKept DEF BorrowUpdate, ReturnRestore, Idle, TypeOK
  <1> QED
    BY <1>3, <1>4, <1>5, <1>6 DEF CallStep

LEMMA RowNext ==
    ASSUME LifecycleAssumption, TypeOK, SerialInv, RowInv, [Next]_vars
    PROVE  RowInv'
  <1>1. ASSUME NEW a \in Agents, AgentStep(a)
        PROVE  RowInv'
    <2>1. UNCHANGED <<deleg, call>>
      BY <1>1 DEF AgentStep, Spawn, Activate, MonitorExit, Stop, Register, Beat,
                  Unregister, Grant, RevokeAll, GrowStale, GrowOld
    <2>2. \A b \in Agents : watch'[b] # "none" => stage'[b] # "none"
      BY <1>1, PutType
         DEF AgentStep, Spawn, Activate, Activated, MonitorExit, Stop, Register,
             Beat, Unregister, Grant, RevokeAll, GrowStale, GrowOld, RowInv,
             TypeOK, Stages
    <2> QED BY <2>1, <2>2, RowKept
  <1>2. CASE KillAll \/ ReapBegin \/ \E o \in Orgs : StopOrg(o)
    <2>1. UNCHANGED <<deleg, call, watch>> /\ \A b \in Agents : EndsOrStays(b)
      BY <1>2, SweepEnds
    <2>2. \A b \in Agents : watch'[b] # "none" => stage'[b] # "none"
      BY <2>1 DEF EndsOrStays, Ended, Terminal, RowInv
    <2> QED BY <2>1, <2>2, RowKept
  <1>3. ASSUME NEW p \in Processes, CallStep(p)
        PROVE  RowInv'
    BY <1>3, RowCallStep
  <1>4. ASSUME NEW c \in Callers, NEW a \in Agents, NEW o \in Orgs,
               NEW d \in Delegations, BorrowSelect(c, a, o, d)
        PROVE  RowInv'
    BY <1>4 DEF BorrowSelect, UsedIds, RowInv, CallRow, TypeOK, Processes
  <1>5. ASSUME NEW c \in Callers, NEW d \in Delegations, ReturnSelect(c, d)
        PROVE  RowInv'
    BY <1>5 DEF ReturnSelect, Returnable, RowInv, CallRow, TypeOK, Processes
  <1>6. ASSUME NEW d \in Delegations, ReapReturn(d)
        PROVE  RowInv'
    BY <1>6 DEF ReapReturn, Returnable, RowInv, CallRow, TypeOK, Processes
  <1>7. CASE (\E a \in Agents : ReapStale(a)) \/ ReapUnregister \/ ReapZombies
             \/ ReapFindExpired \/ ReapScopes
    <2>1. UNCHANGED <<deleg, call, watch>> /\ \A b \in Agents : EndsOrStays(b)
      BY <1>7, SweepEnds
    <2>2. \A b \in Agents : watch'[b] # "none" => stage'[b] # "none"
      BY <2>1 DEF EndsOrStays, Ended, Terminal, RowInv
    <2> QED BY <2>1, <2>2, RowKept
  <1>8. ASSUME NEW d \in Delegations, Expire(d)
        PROVE  RowInv'
    <2>1. /\ DOMAIN deleg' = DOMAIN deleg
          /\ \A e \in DOMAIN deleg : /\ deleg'[e].agent = deleg[e].agent
                                     /\ deleg'[e].from = deleg[e].from
                                     /\ deleg'[e].returned = deleg[e].returned
      BY <1>8 DEF Expire, TypeOK, Rows
    <2> QED BY <1>8, <2>1 DEF Expire, RowInv, CallRow
  <1>9. CASE Crash \/ \E p \in Processes : StatementFails(p)
    <2>1. /\ UNCHANGED <<deleg, stage>>
          /\ \A q \in Processes : call'[q] = call[q] \/ call'[q].at = "idle"
          /\ \A b \in Agents : watch'[b] # "none" => stage[b] # "none"
      BY <1>9 DEF Crash, StatementFails, Idle, RowInv, TypeOK
    <2> QED BY <2>1, RowKept
  <1>10. CASE UNCHANGED vars
    BY <1>10 DEF vars, RowInv, CallRow
  <1> QED
    BY <1>1, <1>2, <1>3, <1>4, <1>5, <1>6, <1>7, <1>8, <1>9, <1>10
       DEF Next, CallerStep, ReaperStep, Processes

-----------------------------------------------------------------------------
(* Simulation.                                                             *)

LEMMA LifeValues ==
    ASSUME NEW s \in Stages
    PROVE  /\ LifeOf(s) = "none" <=> s = "none"
           /\ LifeOf(s) = "starting" <=> s = "spawning"
           /\ LifeOf(s) = "home" <=> s = "running"
           /\ LifeOf(s) = "lent" <=> s = "borrowed"
           /\ LifeOf(s) = "ended" <=> s \in Ended
  BY DEF LifeOf, Stages, Ended, Terminal

LEMMA SameTerms ==
    ASSUME LeaseRows' = LeaseRows,
           \A d \in LeaseRows : /\ deleg'[d].agent = deleg[d].agent
                                /\ deleg'[d].to = deleg[d].to
    PROVE  LeaseTerms' = LeaseTerms
  BY DEF LeaseTerms

\* Steps that only end agents are the abstract End of those that had not.
LEMMA LeaseEnds ==
    ASSUME TypeOK, TypeOK', UNCHANGED <<LeaseTerms, faults>>,
           \A a \in Agents : EndsOrStays(a)
    PROVE  [Lease!Next]_(Lease!vars)
  <1> DEFINE S == {a \in Agents : LeaseLife'[a] # LeaseLife[a]}
  <1>1. ASSUME NEW a \in Agents
        PROVE  \/ LeaseLife'[a] = LeaseLife[a]
               \/ LeaseLife'[a] = "ended" /\ LeaseLife[a] \notin {"none", "ended"}
    <2>1. stage[a] \in Stages /\ stage'[a] \in Stages
      BY DEF TypeOK
    <2>2. LeaseLife[a] = LifeOf(stage[a]) /\ LeaseLife'[a] = LifeOf(stage'[a])
      BY DEF LeaseLife
    <2>3. CASE stage'[a] = stage[a]
      BY <2>2, <2>3
    <2>4. CASE stage[a] # "none" /\ stage'[a] \in Ended
      BY <2>1, <2>2, <2>4, LifeValues
    <2> QED BY <2>3, <2>4 DEF EndsOrStays
  <1>2. LeaseLife' = [a \in Agents |-> IF a \in S THEN "ended" ELSE LeaseLife[a]]
    BY <1>1 DEF LeaseLife
  <1>3. Lease!End(S)
    BY <1>1, <1>2 DEF Lease!End
  <1> QED
    BY <1>3 DEF Lease!Next

\* One agent goes from one stage to the next.
LEMMA LeaseAgentStep ==
    ASSUME TypeOK, TypeOK', RowInv, NEW a \in Agents, AgentStep(a)
    PROVE  [Lease!Next]_(Lease!vars)
  <1>1. UNCHANGED <<deleg, call, faults>>
    BY DEF AgentStep, Spawn, Activate, MonitorExit, Stop, Register, Beat,
           Unregister, Grant, RevokeAll, GrowStale, GrowOld
  <1>2. UNCHANGED LeaseTerms
    BY <1>1 DEF LeaseTerms, LeaseRows, HeldAt
  <1>3. ASSUME NEW s \in Stages, stage' = [stage EXCEPT ![a] = s]
        PROVE  LeaseLife' = [LeaseLife EXCEPT ![a] = LifeOf(s)]
    BY <1>3 DEF LeaseLife, TypeOK
  <1>4. CASE Spawn(a)
    <2>1. Lease!Start(a)
      BY <1>1, <1>2, <1>3, <1>4, LifeValues
         DEF Spawn, Lease!Start, Stages, LeaseLife, TypeOK
    <2> QED BY <2>1 DEF Lease!Next
  <1>5. CASE Activate(a) /\ stage[a] = "spawning"
    <2>1. Lease!Arrive(a)
      BY <1>1, <1>2, <1>3, <1>5, LifeValues
         DEF Activate, Activated, Lease!Arrive, Stages, LeaseLife, TypeOK
    <2> QED BY <2>1 DEF Lease!Next
  <1>6. CASE UNCHANGED stage
    BY <1>1, <1>2, <1>6, LeaseEnds DEF EndsOrStays
  <1>7. CASE Stop(a)
    <2>1. \A b \in NotTerminal({a}) : stage[b] # "none"
      BY DEF NotTerminal
    <2>2. \A b \in Agents : EndsOrStays(b)
      BY <1>7, <2>1, PutEnds DEF Stop, Terminal
    <2> QED BY <1>1, <1>2, <2>2, LeaseEnds
  <1>8. ASSUME NEW committed \in BOOLEAN, MonitorExit(a, committed)
        PROVE  [Lease!Next]_(Lease!vars)
    <2>1. stage[a] # "none"
      BY <1>8 DEF MonitorExit, RowInv
    <2>2. \A b \in Agents : EndsOrStays(b)
      BY <1>8, <2>1 DEF MonitorExit, EndsOrStays, Ended, Terminal, TypeOK
    <2> QED BY <1>1, <1>2, <2>2, LeaseEnds
  <1> QED
    BY <1>4, <1>5, <1>6, <1>7, <1>8
       DEF AgentStep, Activate, Activated, Register, Beat, Unregister, Grant,
           RevokeAll, GrowStale, GrowOld

\* No operation is at a statement the mapping hides.
LEMMA NothingHeld ==
    ASSUME \A p \in Processes : call[p].at \notin {"inserted", "marked"}
    PROVE  LeaseRows = {d \in DOMAIN deleg : ~deleg[d].returned}
  BY DEF LeaseRows, HeldAt

\* The INSERT of borrow_agent, seen once the stage is written or the call lost.
LEMMA LeaseBegins ==
    ASSUME LifecycleAssumption, TypeOK, SerialInv, RowInv, UNCHANGED deleg,
           NEW p \in Processes, call[p].at = "inserted",
           \A q \in Processes : q # p => call[q].at = "idle",
           \A q \in Processes : call'[q].at = "idle"
    PROVE  \E a \in Agents, o \in Orgs, d \in Delegations :
              /\ a = call[p].agent
              /\ Lease!MayLend(a, o, d)
              /\ LeaseTerms' = Lease!With(d, a, o)
  <1> DEFINE k == call[p]
             d == k.deleg
             a == k.agent
             o == deleg[d].to
  <1>1. /\ d \in DOMAIN deleg /\ deleg[d].agent = a /\ ~deleg[d].returned
        /\ deleg[d].from = OrgOf[a]
    BY DEF RowInv, CallRow
  <1>2. a \in Agents /\ o \in Orgs /\ d \in Delegations
    BY <1>1, CallFields DEF TypeOK, Rows
  <1>3. p \in Callers
    BY DEF SerialInv, ReaperReturns, Processes
  <1>4. HeldAt("inserted") = {d} /\ HeldAt("marked") = {}
    BY DEF HeldAt
  <1>5. HeldAt("inserted")' = {} /\ HeldAt("marked")' = {}
    BY DEF HeldAt
  <1>6. /\ LeaseRows = {e \in DOMAIN deleg : ~deleg[e].returned} \ {d}
        /\ LeaseRows' = {e \in DOMAIN deleg : ~deleg[e].returned}
    BY <1>4, <1>5 DEF LeaseRows
  <1>7. LeaseRows' = LeaseRows \cup {d} /\ d \notin LeaseRows
    BY <1>1, <1>6
  <1>8. LeaseLife[a] = "home"
    <2>1. stage[a] = "running"
      BY <1>3 DEF SerialInv, BorrowOfRunning
    <2> QED BY <1>2, <2>1, LifeValues DEF LeaseLife, TypeOK
  <1>9. ~Lease!Lends(o, OrgOf[a])
    <2> SUFFICES ASSUME NEW e \in LeaseRows,
                        OrgOf[deleg[e].agent] = o, deleg[e].to = OrgOf[a]
                 PROVE  FALSE
      BY DEF Lease!Lends, LeaseTerms
    <2>1. e \in DOMAIN deleg /\ ~deleg[e].returned /\ e # d
      BY <1>6
    <2>2. deleg[e].from = o
      BY <2>1 DEF RowInv
    <2> QED
      BY <1>1, <2>1, <2>2 DEF SerialInv, NoMutualDelegation
  <1>10. Lease!MayLend(a, o, d)
    BY <1>7, <1>8, <1>9 DEF Lease!MayLend, LeaseTerms
  <1>11. LeaseTerms' = Lease!With(d, a, o)
    BY <1>1, <1>7 DEF LeaseTerms, Lease!With
  <1> QED
    BY <1>2, <1>10, <1>11

\* The UPDATE of the delegation by return_agent, seen once the stage is written
\* or the call lost.
LEMMA LeaseStops ==
    ASSUME TypeOK, RowInv, UNCHANGED deleg,
           NEW p \in Processes, call[p].at = "marked",
           \A q \in Processes : q # p => call[q].at = "idle",
           \A q \in Processes : call'[q].at = "idle"
    PROVE  \E d \in DOMAIN LeaseTerms :
              /\ LeaseTerms[d].agent = call[p].agent
              /\ LeaseTerms' = Lease!Without(d)
  <1> DEFINE d == call[p].deleg
  <1>1. /\ d \in DOMAIN deleg /\ deleg[d].agent = call[p].agent
        /\ deleg[d].returned
    BY DEF RowInv, CallRow
  <1>2. HeldAt("inserted") = {} /\ HeldAt("marked") = {d}
    BY DEF HeldAt
  <1>3. HeldAt("inserted")' = {} /\ HeldAt("marked")' = {}
    BY DEF HeldAt
  <1>4. d \in LeaseRows /\ LeaseRows' = LeaseRows \ {d}
    BY <1>1, <1>2, <1>3 DEF LeaseRows
  <1>5. d \in DOMAIN LeaseTerms /\ LeaseTerms[d].agent = call[p].agent
    BY <1>1, <1>4 DEF LeaseTerms
  <1>6. LeaseTerms' = Lease!Without(d)
    BY <1>4 DEF LeaseTerms, Lease!Without
  <1> QED
    BY <1>5, <1>6

LEMMA LeaseCallStep ==
    ASSUME LifecycleAssumption, TypeOK, SerialInv, RowInv,
           NEW p \in Processes, CallStep(p)
    PROVE  [Lease!Next]_(Lease!vars)
  <1> DEFINE k == call[p]
  <1>0. /\ k.at # "idle" /\ k \in Calls /\ UNCHANGED faults
        /\ \A q \in Processes : q # p => call'[q] = call[q] /\ call[q].at = "idle"
    BY LoanAlone DEF CallStep, BorrowDetect, BorrowInsert, BorrowUpdate, ReturnMark,
           ReturnRestore, TypeOK
  <1>1. ASSUME UNCHANGED stage, LeaseTerms' = LeaseTerms
        PROVE  UNCHANGED Lease!vars
    BY <1>0, <1>1 DEF Lease!vars, LeaseLife
  <1>2. CASE BorrowDetect(p)
    <2>1. /\ \A q \in Processes : call[q].at \notin {"inserted", "marked"}
          /\ \A q \in Processes : call'[q].at \notin {"inserted", "marked"}
      BY <1>0, <1>2 DEF BorrowDetect, Idle, TypeOK
    <2>2. LeaseRows' = LeaseRows
      BY <1>2, <2>1 DEF BorrowDetect, LeaseRows, HeldAt
    <2> QED BY <1>1, <1>2, <2>2, SameTerms DEF BorrowDetect
  <1>3. CASE BorrowInsert(p)
    <2>1. /\ k.deleg \notin DOMAIN deleg
          /\ DOMAIN deleg' = DOMAIN deleg \cup {k.deleg}
          /\ \A d \in DOMAIN deleg : deleg'[d] = deleg[d]
          /\ UNCHANGED stage
      BY <1>3 DEF BorrowInsert, Insert, RowInv, CallRow
    <2>2. LeaseRows = {d \in DOMAIN deleg : ~deleg[d].returned}
      BY <1>0, <1>3, NothingHeld DEF BorrowInsert
    <2>3. HeldAt("inserted")' = {k.deleg} /\ HeldAt("marked")' = {}
      BY <1>0, <1>3 DEF BorrowInsert, HeldAt, TypeOK
    <2>4. LeaseRows' = LeaseRows
      BY <2>1, <2>2, <2>3 DEF LeaseRows
    <2> QED BY <1>1, <2>1, <2>2, <2>4, SameTerms
  <1>4. CASE ReturnMark(p)
    <2>1. /\ k.deleg \in DOMAIN deleg /\ ~deleg[k.deleg].returned
          /\ DOMAIN deleg' = DOMAIN deleg
          /\ deleg'[k.deleg].returned
          /\ \A d \in DOMAIN deleg :
               /\ deleg'[d].agent = deleg[d].agent /\ deleg'[d].to = deleg[d].to
               /\ d # k.deleg => deleg'[d] = deleg[d]
          /\ UNCHANGED stage
      BY <1>4 DEF ReturnMark, RowInv, CallRow, TypeOK, Rows
    <2>2. LeaseRows = {d \in DOMAIN deleg : ~deleg[d].returned}
      BY <1>0, <1>4, NothingHeld DEF ReturnMark
    <2>3. HeldAt("inserted")' = {} /\ HeldAt("marked")' = {k.deleg}
      BY <1>0, <1>4 DEF ReturnMark, HeldAt, TypeOK
    <2>4. LeaseRows' = LeaseRows
      BY <2>1, <2>2, <2>3 DEF LeaseRows
    <2> QED BY <1>1, <2>1, <2>2, <2>4, SameTerms
  <1>5. ASSUME BorrowUpdate(p) \/ ReturnRestore(p)
        PROVE  /\ UNCHANGED deleg
               /\ \A q \in Processes : call'[q].at = "idle"
               /\ k.agent \in Agents
    BY <1>0, <1>5, CallFields DEF BorrowUpdate, ReturnRestore, Idle, TypeOK
  <1>6. ASSUME NEW s \in Stages, stage' = [stage EXCEPT ![k.agent] = s]
        PROVE  LeaseLife' = [LeaseLife EXCEPT ![k.agent] = LifeOf(s)]
    BY <1>6 DEF LeaseLife, TypeOK
  <1>7. CASE BorrowUpdate(p)
    <2>1. PICK o \in Orgs, d \in Delegations :
             Lease!MayLend(k.agent, o, d) /\ LeaseTerms' = Lease!With(d, k.agent, o)
      BY <1>0, <1>5, <1>7, LeaseBegins DEF BorrowUpdate
    <2>2. LeaseLife' = [LeaseLife EXCEPT ![k.agent] = "lent"]
      BY <1>6, <1>7, LifeValues DEF BorrowUpdate, Stages
    <2>3. Lease!Lend(k.agent, o, d)
      BY <1>0, <2>1, <2>2 DEF Lease!Lend
    <2> QED BY <1>5, <1>7, <2>3 DEF Lease!Next
  <1>8. CASE ReturnRestore(p)
    <2>1. PICK d \in DOMAIN LeaseTerms :
             LeaseTerms[d].agent = k.agent /\ LeaseTerms' = Lease!Without(d)
      BY <1>0, <1>5, <1>8, LeaseStops DEF ReturnRestore
    <2>2. LeaseLife' = [LeaseLife EXCEPT ![k.agent] = "home"]
      BY <1>6, <1>8, LifeValues DEF ReturnRestore, Stages
    <2>3. Lease!TakeBack(d)
      BY <1>0, <2>1, <2>2 DEF Lease!TakeBack
    <2> QED BY <2>3 DEF Lease!Next
  <1> QED
    BY <1>2, <1>3, <1>4, <1>7, <1>8 DEF CallStep

\* A fault that finds p inside an operation, or nobody.
LEMMA LeaseFault ==
    ASSUME LifecycleAssumption, TypeOK, SerialInv, RowInv, NEW p \in Processes,
           \A q \in Processes : q # p => call[q].at = "idle",
           \A q \in Processes : call'[q].at = "idle",
           UNCHANGED <<deleg, stage>>, faults < MaxFaults, faults' = faults + 1
    PROVE  [Lease!Next]_(Lease!vars)
  <1>1. UNCHANGED LeaseLife
    BY DEF LeaseLife
  <1>2. CASE call[p].at = "inserted"
    <2>1. PICK a \in Agents, o \in Orgs, d \in Delegations :
             Lease!MayLend(a, o, d) /\ LeaseTerms' = Lease!With(d, a, o)
      BY <1>2, LeaseBegins
    <2> QED BY <1>1, <2>1 DEF Lease!Fault, Lease!Next
  <1>3. CASE call[p].at = "marked"
    <2>1. PICK d \in DOMAIN LeaseTerms : LeaseTerms' = Lease!Without(d)
      BY <1>3, LeaseStops
    <2> QED BY <1>1, <2>1 DEF Lease!Fault, Lease!Next
  <1>4. CASE call[p].at \notin {"inserted", "marked"}
    <2>1. /\ HeldAt("inserted") = {} /\ HeldAt("marked") = {}
          /\ HeldAt("inserted")' = {} /\ HeldAt("marked")' = {}
      BY <1>4 DEF HeldAt
    <2>2. LeaseTerms' = LeaseTerms
      BY <2>1, SameTerms DEF LeaseRows
    <2> QED BY <1>1, <2>2 DEF Lease!Fault, Lease!Next
  <1> QED
    BY <1>2, <1>3, <1>4

LEMMA LeaseNext ==
    ASSUME LifecycleAssumption, TypeOK, TypeOK', SerialInv, RowInv, [Next]_vars
    PROVE  [Lease!Next]_(Lease!vars)
  <1>1. ASSUME NEW a \in Agents, AgentStep(a)
        PROVE  [Lease!Next]_(Lease!vars)
    BY <1>1, LeaseAgentStep
  <1>2. CASE \/ KillAll \/ ReapBegin \/ \E o \in Orgs : StopOrg(o)
             \/ (\E a \in Agents : ReapStale(a)) \/ ReapUnregister \/ ReapZombies
             \/ ReapFindExpired \/ ReapScopes
    <2>1. /\ UNCHANGED <<deleg, call, faults>>
          /\ \A a \in Agents : EndsOrStays(a)
      BY <1>2, SweepEnds
    <2>2. UNCHANGED LeaseTerms
      BY <2>1 DEF LeaseTerms, LeaseRows, HeldAt
    <2> QED BY <2>1, <2>2, LeaseEnds
  <1>3. ASSUME NEW p \in Processes, CallStep(p)
        PROVE  [Lease!Next]_(Lease!vars)
    BY <1>3, LeaseCallStep
  <1>4. ASSUME UNCHANGED <<stage, deleg, faults>>, NEW p \in Processes,
               call[p].at = "idle", call'[p].at \in {"idle", "checked", "found"},
               \A q \in Processes : q # p => call'[q] = call[q]
        PROVE  UNCHANGED Lease!vars
    <2>1. /\ HeldAt("inserted")' = HeldAt("inserted")
          /\ HeldAt("marked")' = HeldAt("marked")
      BY <1>4 DEF HeldAt
    <2>2. LeaseTerms' = LeaseTerms
      BY <1>4, <2>1, SameTerms DEF LeaseRows
    <2> QED BY <1>4, <2>2 DEF Lease!vars, LeaseLife
  <1>5. ASSUME NEW c \in Callers, NEW a \in Agents, NEW o \in Orgs,
               NEW d \in Delegations, BorrowSelect(c, a, o, d)
        PROVE  UNCHANGED Lease!vars
    BY <1>4, <1>5 DEF BorrowSelect, Idle, TypeOK, Processes
  <1>6. ASSUME NEW c \in Callers, NEW d \in Delegations, ReturnSelect(c, d)
        PROVE  UNCHANGED Lease!vars
    BY <1>4, <1>6 DEF ReturnSelect, Idle, TypeOK, Processes
  <1>7. ASSUME NEW d \in Delegations, ReapReturn(d)
        PROVE  UNCHANGED Lease!vars
    BY <1>4, <1>7 DEF ReapReturn, Idle, TypeOK, Processes
  <1>8. ASSUME NEW d \in Delegations, Expire(d)
        PROVE  UNCHANGED Lease!vars
    <2>1. /\ DOMAIN deleg' = DOMAIN deleg
          /\ \A e \in DOMAIN deleg : /\ deleg'[e].agent = deleg[e].agent
                                     /\ deleg'[e].to = deleg[e].to
                                     /\ deleg'[e].returned = deleg[e].returned
      BY <1>8 DEF Expire, TypeOK, Rows
    <2>2. LeaseRows' = LeaseRows /\ LeaseRows \subseteq DOMAIN deleg
      <3>1. HeldAt("marked") \subseteq DOMAIN deleg
        BY DEF HeldAt, RowInv, CallRow
      <3> QED BY <1>8, <2>1, <3>1 DEF Expire, LeaseRows, HeldAt
    <2> QED BY <1>8, <2>1, <2>2, SameTerms DEF Expire, Lease!vars, LeaseLife
  <1>9. ASSUME NEW p \in Processes, StatementFails(p)
        PROVE  [Lease!Next]_(Lease!vars)
    <2>1. /\ call'[p].at = "idle"
          /\ \A q \in Processes : q # p => call'[q] = call[q]
          /\ UNCHANGED <<deleg, stage>> /\ faults < MaxFaults /\ faults' = faults + 1
      BY <1>9 DEF StatementFails, Idle, TypeOK
    <2>2. \A q \in Holders : q = p
      BY <1>9 DEF StatementFails, SerialInv, OneHolder
    <2>3. \A q \in Processes : q # p => call[q].at = "idle"
      BY <2>2 DEF Holders, Processes, SerialInv, ReaperReturns
    <2> QED BY <2>1, <2>3, LeaseFault
  <1>10. CASE Crash
    <2>1. /\ \A q \in Processes : call'[q].at = "idle"
          /\ UNCHANGED <<deleg, stage>> /\ faults < MaxFaults /\ faults' = faults + 1
      BY <1>10 DEF Crash, Idle
    <2>2. PICK p \in Processes : \A q \in Processes : q # p => call[q].at = "idle"
      BY LoanAlone DEF Processes
    <2> QED BY <2>1, <2>2, LeaseFault
  <1>11. CASE UNCHANGED vars
    <2>1. UNCHANGED Lease!vars
      BY <1>11 DEF vars, Lease!vars, LeaseLife, LeaseTerms, LeaseRows, HeldAt
    <2> QED BY <2>1
  <1> QED
    BY <1>1, <1>2, <1>3, <1>5, <1>6, <1>7, <1>8, <1>9, <1>10, <1>11
       DEF Next, CallerStep, ReaperStep, Processes

\* With one connection, borrow_agent and return_agent are single steps for
\* everybody else: delegation is the lending of module AgentLease, for any
\* number of agents, organisations, callers and delegations, and a fault leaves
\* at most half of one step behind.
THEOREM LifecycleImplementsLease ==
    ASSUME PoolSize = 1
    PROVE  Spec => ImplementsLease
  <1>1. Init => RowInv /\ Lease!Init
    <2> SUFFICES ASSUME Init PROVE RowInv /\ Lease!Init
      OBVIOUS
    <2>1. RowInv
      BY DEF Init, RowInv, CallRow, Idle
    <2>2. LeaseLife = [a \in Agents |-> "none"]
      BY DEF Init, LeaseLife, LifeOf
    <2>3. LeaseRows = {}
      BY DEF Init, LeaseRows, HeldAt, Idle
    <2>4. LeaseTerms = [d \in {} |-> 0]
      BY <2>3 DEF LeaseTerms
    <2> QED BY <2>1, <2>2, <2>4 DEF Init, Lease!Init
  <1>2. TypeOK /\ SerialInv /\ RowInv /\ [Next]_vars => RowInv'
    BY LifecycleAssumption, RowNext
  <1>3. TypeOK /\ TypeOK' /\ SerialInv /\ RowInv /\ [Next]_vars
          => [Lease!Next]_(Lease!vars)
    BY LifecycleAssumption, LeaseNext
  <1> QED
    BY <1>1, <1>2, <1>3, TypeCorrect, SerialInvariant, PTL
       DEF Spec, ImplementsLease, Lease!Spec

=============================================================================
