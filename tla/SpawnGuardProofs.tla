--------------------------- MODULE SpawnGuardProofs ---------------------------
(***************************************************************************)
(* Theorems about SpawnGuard, for every limit, window and threshold.       *)
(***************************************************************************)
EXTENDS SpawnGuard, FiniteSetTheorems, TLAPS

\* The tables of the limiter always have their types.
THEOREM GuardTypeCorrect == Spec => []TypeOK
  <1>1. Init => TypeOK
    BY SpawnGuardAssumption DEF Init, TypeOK, Verdicts, SpawnGuardAssumption
  <1>2. TypeOK /\ [Next]_vars => TypeOK'
    <2> SUFFICES ASSUME TypeOK, [Next]_vars PROVE TypeOK'
      OBVIOUS
    <2> USE DEF TypeOK, Verdicts
    <2>1. ASSUME NEW r \in Requests, NEW o \in Orgs, Limit(r, o)
          PROVE  TypeOK'
      BY <2>1 DEF Limit, Kept, Recent
    <2>2. ASSUME NEW r \in Requests, NEW o \in Orgs, NEW ok \in BOOLEAN,
                 Admit(r, o, ok)
          PROVE  TypeOK'
      BY <2>2 DEF Admit, Kept, Recent
    <2>3. CASE Tick
      BY <2>3, SpawnGuardAssumption DEF Tick, SpawnGuardAssumption
    <2>4. CASE Restart
      BY <2>4, SpawnGuardAssumption DEF Restart, SpawnGuardAssumption
    <2>5. CASE UNCHANGED vars
      BY <2>5 DEF vars
    <2> QED BY <2>1, <2>2, <2>3, <2>4, <2>5 DEF Next
  <1> QED
    BY <1>1, <1>2, PTL DEF Spec

-----------------------------------------------------------------------------
(* The rate bound.  The limiter forgets admissions, so the bound by itself *)
(* is not inductive: the invariant adds that it never forgets one that is  *)
(* still in the window.                                                    *)

RememberedSo(o) ==
    /\ IsFiniteSet(admitted[o])
    /\ stamps[o] \subseteq admitted[o]
    /\ InWindow(o, now) \subseteq stamps[o]
    /\ \A r \in admitted[o] : at[r] <= now /\ verdict[r] # "pending"

Remembered == \A o \in Orgs : RememberedSo(o)

LEMMA RememberedInit == Init => Remembered
  <1> SUFFICES ASSUME Init PROVE Remembered
    OBVIOUS
  <1>1. \A o \in Orgs : InWindow(o, now) = {}
    BY DEF Init, InWindow
  <1> QED
    BY <1>1, FS_EmptySet DEF Init, Remembered, RememberedSo

LEMMA RememberedNext ==
    ASSUME TypeOK, Remembered, [Next]_vars
    PROVE  Remembered'
  <1> SUFFICES ASSUME NEW p \in Orgs PROVE RememberedSo(p)'
    BY DEF Remembered
  <1>0. RememberedSo(p)
    BY DEF Remembered
  <1> USE SpawnGuardAssumption DEF SpawnGuardAssumption
  <1>1. ASSUME NEW r \in Requests, NEW o \in Orgs, Limit(r, o)
        PROVE  RememberedSo(p)'
    <2>1. Kept(o) \subseteq stamps[o]
      BY DEF Kept, Recent
    <2>2. o = p => InWindow(p, now) \subseteq Kept(o)
      BY <1>0 DEF RememberedSo, InWindow, Kept, Recent
    <2> QED
      BY <1>0, <1>1, <2>1, <2>2 DEF Limit, RememberedSo, InWindow, TypeOK
  <1>2. ASSUME NEW r \in Requests, NEW o \in Orgs, NEW ok \in BOOLEAN,
               Admit(r, o, ok)
        PROVE  RememberedSo(p)'
    <2>1. /\ r \notin admitted[p]
          /\ \A q \in admitted[p] : at'[q] = at[q] /\ verdict'[q] = verdict[q]
          /\ now' = now
      BY <1>0, <1>2 DEF Admit, RememberedSo, TypeOK
    <2>2. CASE o # p
      BY <1>0, <1>2, <2>1, <2>2 DEF Admit, RememberedSo, InWindow, TypeOK
    <2>3. CASE o = p
      <3>1. /\ admitted'[p] = admitted[p] \cup {r}
            /\ stamps'[p] = Kept(p) \cup {r}
            /\ at'[r] = now
            /\ verdict'[r] # "pending"
        BY <1>2, <2>3 DEF Admit, TypeOK
      <3>2. IsFiniteSet(admitted'[p])
        <4>1. IsFiniteSet(admitted[p])
          BY <1>0 DEF RememberedSo
        <4>2. IsFiniteSet(admitted[p] \cup {r})
          BY ONLY <4>1, FS_AddElement, Zenon
        <4> QED BY ONLY <3>1, <4>2, Zenon
      <3>3. Kept(p) \subseteq admitted[p]
        BY <1>0 DEF RememberedSo, Kept, Recent
      <3>4. InWindow(p, now)' \subseteq Kept(p) \cup {r}
        BY <1>0, <2>1, <3>1 DEF RememberedSo, InWindow, Kept, Recent
      <3> QED
        BY <1>0, <2>1, <3>1, <3>2, <3>3, <3>4 DEF RememberedSo, TypeOK
    <2> QED BY <2>2, <2>3
  <1>3. CASE Tick
    BY <1>0, <1>3 DEF Tick, RememberedSo, InWindow, TypeOK
  <1>4. CASE Restart
    BY <1>4, FS_EmptySet DEF Restart, RememberedSo, InWindow
  <1>5. CASE UNCHANGED vars
    BY <1>0, <1>5 DEF vars, RememberedSo, InWindow
  <1> QED
    BY <1>1, <1>2, <1>3, <1>4, <1>5 DEF Next

LEMMA RateBoundNext ==
    ASSUME TypeOK, Remembered, RateBound, [Next]_vars
    PROVE  RateBound'
  <1> SUFFICES ASSUME NEW p \in Orgs, NEW t \in 0..MaxTime
               PROVE  Cardinality(InWindow(p, t))' <= RateLimitMax
    BY DEF RateBound
  <1>0. RememberedSo(p) /\ Cardinality(InWindow(p, t)) <= RateLimitMax
    BY DEF Remembered, RateBound
  <1> USE SpawnGuardAssumption DEF SpawnGuardAssumption
  <1>1. ASSUME InWindow(p, t)' = InWindow(p, t)
        PROVE  Cardinality(InWindow(p, t))' <= RateLimitMax
    BY <1>0, <1>1
  <1>2. ASSUME NEW r \in Requests, NEW o \in Orgs, NEW ok \in BOOLEAN,
               Admit(r, o, ok)
        PROVE  Cardinality(InWindow(p, t))' <= RateLimitMax
    <2>1. /\ r \notin admitted[p]
          /\ \A q \in admitted[p] : at'[q] = at[q]
          /\ at'[r] = now
      BY <1>0, <1>2 DEF Admit, RememberedSo, TypeOK
    <2>2. CASE o # p
      <3>1. admitted'[p] = admitted[p]
        BY <1>2, <2>2 DEF Admit, TypeOK
      <3> QED BY <1>1, <2>1, <3>1 DEF InWindow
    <2>3. CASE o = p /\ t < now
      <3>1. admitted'[p] = admitted[p] \cup {r}
        BY <1>2, <2>3 DEF Admit, TypeOK
      <3>2. InWindow(p, t)' = InWindow(p, t)
        BY <2>1, <2>3, <3>1 DEF InWindow, TypeOK
      <3> QED BY <1>1, <3>2
    <2>4. CASE o = p /\ ~(t < now)
      <3>1. admitted'[p] = admitted[p] \cup {r}
        BY <1>2, <2>4 DEF Admit, TypeOK
      <3>2. InWindow(p, t)' \subseteq Kept(p) \cup {r}
        BY <1>0, <2>1, <2>4, <3>1
           DEF RememberedSo, InWindow, Kept, Recent, TypeOK
      <3>3. IsFiniteSet(Kept(p))
        BY <1>0, FS_Subset DEF RememberedSo, Kept, Recent
      <3>4. Cardinality(Kept(p)) < RateLimitMax /\ Cardinality(Kept(p)) \in Nat
        BY <1>2, <2>4, <3>3, FS_CardinalityType DEF Admit, Full
      <3>5. /\ IsFiniteSet(Kept(p) \cup {r})
            /\ \/ Cardinality(Kept(p) \cup {r}) = Cardinality(Kept(p))
               \/ Cardinality(Kept(p) \cup {r}) = Cardinality(Kept(p)) + 1
        BY <3>3, FS_AddElement, Zenon
      <3>6. Cardinality(InWindow(p, t)') <= Cardinality(Kept(p) \cup {r})
        BY <3>2, <3>5, FS_Subset
      <3>7. /\ Cardinality(InWindow(p, t)') \in Nat
            /\ Cardinality(Kept(p) \cup {r}) \in Nat
        BY <3>2, <3>5, FS_Subset, FS_CardinalityType
      <3> QED BY <3>4, <3>5, <3>6, <3>7
    <2> QED BY <2>2, <2>3, <2>4
  <1>3. ASSUME NEW r \in Requests, NEW o \in Orgs, Limit(r, o)
        PROVE  Cardinality(InWindow(p, t))' <= RateLimitMax
    BY <1>1, <1>3 DEF Limit, InWindow
  <1>4. CASE Tick
    BY <1>1, <1>4 DEF Tick, InWindow
  <1>5. CASE Restart
    <2>1. InWindow(p, t)' = {}
      BY <1>5 DEF Restart, InWindow
    <2> QED BY <2>1, FS_EmptySet
  <1>6. CASE UNCHANGED vars
    BY <1>1, <1>6 DEF vars, InWindow
  <1> QED
    BY <1>2, <1>3, <1>4, <1>5, <1>6 DEF Next

\* No window of RateWindow seconds, wherever it lies, holds more than
\* RateLimitMax admissions of one organisation by one run of the daemon,
\* although the limiter forgets all but the last window.
THEOREM RateIsBounded == Spec => []RateBound
  <1>1. Init => RateBound
    <2> SUFFICES ASSUME Init PROVE RateBound
      OBVIOUS
    <2>1. \A o \in Orgs, t \in 0..MaxTime : InWindow(o, t) = {}
      BY DEF Init, InWindow
    <2> QED
      BY <2>1, FS_EmptySet, SpawnGuardAssumption
         DEF RateBound, SpawnGuardAssumption
  <1>2. TypeOK /\ Remembered /\ RateBound /\ [Next]_vars => Remembered' /\ RateBound'
    BY RememberedNext, RateBoundNext
  <1> QED
    BY <1>1, <1>2, RememberedInit, GuardTypeCorrect, PTL DEF Spec

-----------------------------------------------------------------------------
(* Refusals and alerts have their cause.  What the limiter counts is a     *)
(* part of what was admitted, so its count never exceeds the admissions    *)
(* the properties count.                                                   *)

LEMMA LimitedWithCauseStep ==
    ASSUME TypeOK, Remembered, [Next]_vars, NEW r \in Requests, NEW o \in Orgs,
           r \in refused'[o] \ refused[o]
    PROVE  /\ Cardinality(InWindow(o, now)) >= RateLimitMax
           /\ \A p \in Orgs : InWindow(p, now) \subseteq stamps'[p]
  <1>1. PICK q \in Requests, e \in Orgs : Limit(q, e)
    BY DEF Next, Admit, Tick, Restart, vars
  <1>2. e = o
    BY <1>1 DEF Limit, TypeOK
  <1>3. RememberedSo(o)
    BY DEF Remembered
  <1>4. Kept(o) \subseteq InWindow(o, now)
    BY <1>3 DEF RememberedSo, InWindow, Kept, Recent
  <1>5. IsFiniteSet(InWindow(o, now))
    <2>1. InWindow(o, now) \subseteq admitted[o]
      BY DEF InWindow
    <2> QED BY <1>3, <2>1, FS_Subset DEF RememberedSo
  <1>6. Cardinality(Kept(o)) <= Cardinality(InWindow(o, now))
    BY <1>4, <1>5, FS_Subset
  <1>7. /\ Cardinality(Kept(o)) \in Nat
        /\ Cardinality(InWindow(o, now)) \in Nat
    BY <1>4, <1>5, FS_Subset, FS_CardinalityType
  <1>8. Cardinality(Kept(o)) >= RateLimitMax
    BY <1>1, <1>2 DEF Limit, Full
  <1>9. Cardinality(InWindow(o, now)) >= RateLimitMax
    BY <1>6, <1>7, <1>8, SpawnGuardAssumption DEF SpawnGuardAssumption
  <1>10. ASSUME NEW p \in Orgs
         PROVE  InWindow(p, now) \subseteq stamps'[p]
    <2>1. InWindow(p, now) \subseteq stamps[p]
      BY DEF Remembered, RememberedSo
    <2>2. InWindow(p, now) \subseteq Kept(p)
      BY <2>1 DEF InWindow, Kept, Recent
    <2>3. stamps'[p] = stamps[p] \/ stamps'[p] = Kept(p)
      BY <1>1 DEF Limit, TypeOK
    <2> QED BY <2>1, <2>2, <2>3
  <1> QED
    BY <1>9, <1>10

\* Nobody is refused without cause: the organisation a request is refused for
\* really has RateLimitMax admissions in the last RateWindow seconds, however
\* busy the others are, and the refusal forgets no admission of any
\* organisation that is still in the window.
THEOREM LimitedHasCause == Spec => LimitedWithCause
  <1>1. TypeOK /\ Remembered /\ [Next]_vars =>
          [\A r \in Requests, o \in Orgs :
             r \in refused'[o] \ refused[o] =>
               /\ Cardinality(InWindow(o, now)) >= RateLimitMax
               /\ \A p \in Orgs : InWindow(p, now) \subseteq stamps'[p]]_vars
    BY LimitedWithCauseStep
  <1>2. TypeOK /\ Remembered /\ [Next]_vars => Remembered'
    BY RememberedNext
  <1> QED
    BY <1>1, <1>2, RememberedInit, GuardTypeCorrect, PTL
       DEF Spec, LimitedWithCause

LEMMA AlertNotFalseStep ==
    ASSUME TypeOK, Remembered, [Next]_vars, NEW r \in Requests,
           r \in alerted' \ alerted
    PROVE  \E o \in Orgs : /\ r \in admitted'[o]
                           /\ Cardinality(InAlertWindow(o)') >= AlertThreshold
  <1>1. ASSUME NEW q \in Requests, NEW o \in Orgs, NEW ok \in BOOLEAN,
               Admit(q, o, ok)
        PROVE  q = r
    BY <1>1 DEF Admit
  <1>2. PICK o \in Orgs, ok \in BOOLEAN : Admit(r, o, ok)
    BY <1>1 DEF Next, Limit, Tick, Restart, vars
  <1> DEFINE Counted == Recent(Kept(o), AlertWindow) \cup {r}
  <1>3. RememberedSo(o)
    BY DEF Remembered
  <1>4. /\ admitted'[o] = admitted[o] \cup {r}
        /\ r \notin admitted[o]
        /\ at'[r] = now
        /\ now' = now
        /\ \A q \in admitted[o] : at'[q] = at[q]
    BY <1>2, <1>3 DEF Admit, RememberedSo, TypeOK
  <1>5. Cardinality(Counted) >= AlertThreshold
    BY <1>2 DEF Admit, FiresAlert, AlertCount
  <1>6. Counted \subseteq InAlertWindow(o)'
    BY <1>3, <1>4, SpawnGuardAssumption
       DEF RememberedSo, Kept, Recent, InAlertWindow, TypeOK, SpawnGuardAssumption
  <1>7. IsFiniteSet(InAlertWindow(o)')
    <2>1. InAlertWindow(o)' \subseteq admitted[o] \cup {r}
      BY <1>4 DEF InAlertWindow
    <2>2. IsFiniteSet(admitted[o])
      BY <1>3 DEF RememberedSo
    <2>3. IsFiniteSet(admitted[o] \cup {r})
      BY ONLY <2>2, FS_AddElement, Zenon
    <2> QED BY ONLY <2>1, <2>3, FS_Subset, Zenon
  <1>8. Cardinality(Counted) <= Cardinality(InAlertWindow(o)')
    BY <1>6, <1>7, FS_Subset
  <1>9. /\ Cardinality(Counted) \in Nat
        /\ Cardinality(InAlertWindow(o)') \in Nat
    BY <1>6, <1>7, FS_Subset, FS_CardinalityType
  <1> HIDE DEF Counted
  <1>10. Cardinality(InAlertWindow(o)') >= AlertThreshold
    BY <1>5, <1>8, <1>9, SpawnGuardAssumption DEF SpawnGuardAssumption
  <1> QED
    BY <1>4, <1>10

\* An alert is fired only for an organisation that did have AlertThreshold
\* admissions in the alert window, the alerting one included.
THEOREM AlertHasCause == Spec => AlertNotFalse
  <1>1. TypeOK /\ Remembered /\ [Next]_vars =>
          [\A r \in Requests :
             r \in alerted' \ alerted =>
               \E o \in Orgs :
                 /\ r \in admitted'[o]
                 /\ Cardinality(InAlertWindow(o)') >= AlertThreshold]_vars
    BY AlertNotFalseStep
  <1>2. TypeOK /\ Remembered /\ [Next]_vars => Remembered'
    BY RememberedNext
  <1> QED
    BY <1>1, <1>2, RememberedInit, GuardTypeCorrect, PTL
       DEF Spec, AlertNotFalse

=============================================================================
