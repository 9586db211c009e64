-------------------------- MODULE AdaptationProofs --------------------------
(***************************************************************************)
(* Theorems about Adaptation: its type invariant, and that an agent whose  *)
(* polls reach back at least one second misses no change, for every set of *)
(* keys, pool, clock and number of writes and faults.                      *)
(***************************************************************************)
EXTENDS Adaptation, TLAPS, SequenceTheorems

USE AdaptationAssumption

\* Time and writes only grow, so an entry stays one.
LEMMA EntriesGrow ==
    ASSUME TypeOK, now' \in Nat, now' >= now, writes' \in Nat, writes' >= writes
    PROVE  /\ Entries \subseteq Entries'
           /\ Absent \in Entries'
BY DEF TypeOK, Entries, Absent

\* What check_sentinel answers is a sentinel or none.
LEMMA CheckSentinelType ==
    ASSUME NEW F \in SUBSET Sentinels
    PROVE  CheckSentinel(F) \in Sentinels \cup {"none"}
<1>1. CASE F = {}
  BY <1>1 DEF CheckSentinel
<1>2. CASE F # {}
  <2>1. \E s \in F : \A r \in F : Rank[s] <= Rank[r]
    <3>1. Rank["STOP"] = 1 /\ Rank["PRIORITY_CHANGE"] = 2 /\ Rank["CHECKPOINT_READY"] = 3
      BY DEF Rank
    <3>2. CASE "STOP" \in F
      BY <3>1, <3>2 DEF Sentinels
    <3>3. CASE "STOP" \notin F /\ "PRIORITY_CHANGE" \in F
      BY <3>1, <3>3 DEF Sentinels
    <3>4. CASE "STOP" \notin F /\ "PRIORITY_CHANGE" \notin F
      <4>1. F = {"CHECKPOINT_READY"}
        BY <1>2, <3>4 DEF Sentinels
      <4> QED BY <3>1, <4>1
    <3> QED BY <3>2, <3>3, <3>4
  <2>2. (CHOOSE s \in F : \A r \in F : Rank[s] <= Rank[r]) \in F
    BY <2>1
  <2> QED BY <1>2, <2>2 DEF CheckSentinel
<1> QED BY <1>1, <1>2

\* A sequence of more than one element has a tail that is not empty.
LEMMA LongTail ==
    ASSUME NEW S, NEW s \in Seq(S), s # <<>>, Len(s) # 1
    PROVE  Tail(s) # <<>>
<1> DEFINE t == Tail(s)
<1>1. Len(t) = Len(s) - 1 /\ Len(s) \in Nat
  BY HeadTailProperties, LenProperties
<1>2. Len(<<>>) = 0
  OBVIOUS
<1> HIDE DEF t
<1>3. t = <<>> => Len(t) = 0
  BY <1>2, Zenon
<1>4. t # <<>>
  BY <1>1, <1>3
<1> QED BY <1>4 DEF t

\* The steps of the writers keep every variable in its type.
LEMMA WriterType ==
    ASSUME TypeOK, NEW w \in Writers,
           (\E k \in Keys : SetUpsert(w, k)) \/ SeedBegin(w) \/ WriterStep(w)
    PROVE  TypeOK'
<1>1. ASSUME NEW k \in Keys, SetUpsert(w, k) PROVE TypeOK'
  <2>1. Entries \subseteq Entries' /\ Absent \in Entries'
    BY <1>1, EntriesGrow DEF SetUpsert, TypeOK
  <2>2. Upserted(k) \in Entries'
    BY <1>1 DEF SetUpsert, TypeOK, Entries, Upserted
  <2>3. rows' \in [Keys -> Entries'] /\ news' \in [Keys -> Entries']
        /\ view' \in [Keys -> Entries']
    BY <1>1, <2>1, <2>2 DEF SetUpsert, TypeOK
  <2>4. call' \in [Writers -> Calls']
    <3>1. [at |-> "written", key |-> k, value |-> writes + 1] \in Calls
      BY DEF TypeOK, Calls
    <3> QED BY <1>1, <3>1 DEF SetUpsert, TypeOK, Calls
  <2> QED BY <1>1, <2>3, <2>4 DEF SetUpsert, TypeOK
<1>2. ASSUME SeedBegin(w) PROVE TypeOK'
  <2>1. ASSUME NEW s \in SeedLists PROVE [at |-> "seeding", todo |-> s] \in Calls
    <3>1. s \in Seq(Keys)
      BY DEF SeedLists
    <3>2. s # <<>>
      BY DEF SeedLists
    <3> QED BY <3>1, <3>2 DEF Calls
  <2>2. PICK s \in SeedLists : call' = [call EXCEPT ![w] = [at |-> "seeding", todo |-> s]]
    BY <1>2 DEF SeedBegin
  <2>3. call' \in [Writers -> Calls']
    BY <2>1, <2>2 DEF TypeOK, Calls
  <2> QED BY <1>2, <2>3 DEF SeedBegin, TypeOK, Entries
<1>3. ASSUME SetAnswer(w) PROVE TypeOK'
  BY <1>3 DEF SetAnswer, TypeOK, Calls, Idle, Entries
<1>4. ASSUME SeedInsert(w) PROVE TypeOK'
  <2> DEFINE todo == call[w].todo
             k == Head(todo)
  <2>1. todo \in Seq(Keys) /\ todo # <<>> /\ call[w] = [at |-> "seeding", todo |-> todo]
    BY <1>4 DEF SeedInsert, TypeOK, Calls, Idle
  <2>2. k \in Keys /\ Tail(todo) \in Seq(Keys) /\ (Len(todo) # 1 => Tail(todo) # <<>>)
    BY <2>1, HeadTailProperties, LongTail
  <2>3. writes' \in Nat /\ writes' >= writes
    BY <1>4 DEF SeedInsert, TypeOK
  <2>4. Entries \subseteq Entries' /\ Absent \in Entries'
    BY <1>4, <2>3, EntriesGrow DEF SeedInsert, TypeOK
  <2>5. rows' \in [Keys -> Entries']
    <3>1. CASE Present(k)
      BY <1>4, <2>4, <3>1 DEF SeedInsert, TypeOK
    <3>2. CASE ~Present(k)
      <4>1. /\ writes' = writes + 1
            /\ rows' = [rows EXCEPT ![k] = [value |-> writes + 1, version |-> 1, at |-> now]]
        BY <1>4, <3>2 DEF SeedInsert
      <4>2. [value |-> writes + 1, version |-> 1, at |-> now] \in Entries'
        BY <1>4, <4>1 DEF SeedInsert, TypeOK, Entries
      <4> QED BY <2>2, <2>4, <4>1, <4>2 DEF TypeOK
    <3> QED BY <3>1, <3>2
  <2>6. call' \in [Writers -> Calls']
    <3>1. CASE Len(todo) = 1
      BY <1>4, <3>1 DEF SeedInsert, TypeOK, Calls
    <3>2. CASE Len(todo) # 1
      <4>1. [at |-> "seeding", todo |-> Tail(todo)] \in Calls
        BY <2>2, <3>2 DEF Calls
      <4>2. call' = [call EXCEPT ![w] = [at |-> "seeding", todo |-> Tail(todo)]]
        BY <1>4, <3>2 DEF SeedInsert
      <4> QED BY <4>1, <4>2 DEF TypeOK, Calls
    <3> QED BY <3>1, <3>2
  <2> HIDE DEF todo, k
  <2> QED BY <1>4, <2>3, <2>4, <2>5, <2>6 DEF SeedInsert, TypeOK
<1> QED BY <1>1, <1>2, <1>3, <1>4 DEF WriterStep

\* So do all other steps.
LEMMA StepType ==
    ASSUME TypeOK, [Next]_vars
    PROVE  TypeOK'
<1>1. ASSUME NEW k \in Keys, Delete(k) PROVE TypeOK'
  BY <1>1, EntriesGrow DEF Delete, TypeOK, Calls, Entries, Absent
<1>2. CASE PollQuery
  <2>1. news' \in [Keys -> Entries']
    BY <1>2, EntriesGrow DEF PollQuery, TypeOK, Entries, Absent
  <2> QED BY <1>2, <2>1 DEF PollQuery, TypeOK, Polling, Entries
<1>3. CASE PollSentinel
  <2>1. told' \in Sentinels \cup {"none"}
    BY <1>3, CheckSentinelType DEF PollSentinel, TypeOK
  <2> QED BY <1>3, <2>1 DEF PollSentinel, TypeOK, Polling, Entries
<1>4. CASE Receive
  <2>1. view' \in [Keys -> Entries'] /\ news' \in [Keys -> Entries']
    BY <1>4, EntriesGrow DEF Receive, TypeOK, Entries, Absent, Nothing
  <2>2. cursor' \in 0..now'
    BY <1>4 DEF Receive
  <2> QED BY <1>4, <2>1, <2>2 DEF Receive, TypeOK, Polling, Entries
<1>5. CASE ClearSentinel
  BY <1>5 DEF ClearSentinel, TypeOK, Polling, Entries
<1>6. ASSUME NEW s \in Sentinels, WriteSentinel(s) PROVE TypeOK'
  BY <1>6 DEF WriteSentinel, TypeOK, Entries
<1>7. CASE Tick
  <2>1. Entries \subseteq Entries'
    BY <1>7, EntriesGrow DEF Tick, TypeOK
  <2> QED BY <1>7, <2>1 DEF Tick, TypeOK
<1>8. CASE Crash
  <2>1. news' \in [Keys -> Entries']
    BY <1>8, EntriesGrow DEF Crash, TypeOK, Entries, Absent, Nothing
  <2>2. call' \in [Writers -> Calls']
    <3>1. Idle \in Calls'
      BY DEF Calls
    <3> QED BY <1>8, <3>1 DEF Crash
  <2>3. poll' \in Polling /\ told' \in Sentinels \cup {"none"}
    BY <1>8 DEF Crash, TypeOK, Polling
  <2> QED BY <1>8, <2>1, <2>2, <2>3 DEF Crash, TypeOK, Entries
<1>9. CASE UNCHANGED vars
  BY <1>9 DEF vars, TypeOK, Entries, Calls
<1> QED BY <1>1, <1>2, <1>3, <1>4, <1>5, <1>6, <1>7, <1>8, <1>9, WriterType DEF Next

\* The types of the clock, the tables, the calls, the poll and the agent's
\* view; no entry is of a later time than now.
THEOREM TypeCorrect == Spec => []TypeOK
<1>1. Init => TypeOK
  BY DEF Init, TypeOK, Entries, Absent, Nothing, Calls, Idle, Polling
<1>2. TypeOK /\ [Next]_vars => TypeOK'
  BY StepType
<1> QED BY <1>1, <1>2, PTL DEF Spec

-----------------------------------------------------------------------------
(* While an answer is on its way, what the agent does not know is in it, or is no *)
(* older than anything in it, so that the poll after it will report it.    *)

InAnswer(k) == news[k] = rows[k]
Known(k)    == view[k] = rows[k] /\ news[k] = Absent
Later(k)    == rows[k].at >= cursor /\ \A j \in Keys : news[j].at <= rows[k].at

AnswerInv ==
    poll \in {"queried", "answered"} =>
        \A k \in Keys : Present(k) => InAnswer(k) \/ Known(k) \/ Later(k)

PollInv == NothingMissed /\ AnswerInv

\* A write of now is reported by the next poll and later than any answer.
LEMMA WriteIsNew ==
    ASSUME TypeOK, Overlap >= 1, PollInv, NEW k \in Keys, NEW e,
           rows' = [rows EXCEPT ![k] = e], e.at = now,
           UNCHANGED <<poll, news, cursor, view>>
    PROVE  PollInv'
<1>1. ASSUME NEW j \in Keys, j # k, Present(j)' PROVE Present(j) /\ rows'[j] = rows[j]
  BY <1>1 DEF Present, TypeOK
<1>2. rows'[k].at = now
  BY DEF TypeOK
<1>3. Reported(k)' \/ ~Present(k)'
  BY <1>2 DEF Reported, TypeOK
<1>4. Later(k)'
  BY <1>2 DEF Later, TypeOK, Entries
<1>5. NothingMissed'
  BY <1>1, <1>3 DEF PollInv, NothingMissed, Reported
<1>6. ASSUME poll \in {"queried", "answered"}, NEW j \in Keys, j # k, Present(j)'
      PROVE  (InAnswer(j) \/ Known(j) \/ Later(j))'
  BY <1>1, <1>6 DEF PollInv, AnswerInv, InAnswer, Known, Later
<1> QED BY <1>4, <1>5, <1>6 DEF PollInv, AnswerInv

\* An agent whose polls reach back a second will be told of everything it does
\* not know, however writes, polls, seconds and crashes interleave.
THEOREM ReachingBackMissesNothing ==
    ASSUME Overlap >= 1
    PROVE  Spec => []NothingMissed
<1>1. Init => PollInv
  BY DEF Init, PollInv, NothingMissed, AnswerInv, Nothing, Absent, Present
<1>2. ASSUME TypeOK, PollInv, [Next]_vars PROVE PollInv'
  <2>1. ASSUME NEW w \in Writers, NEW k \in Keys, SetUpsert(w, k) PROVE PollInv'
    <3> DEFINE e == Upserted(k)
    <3>1. /\ rows' = [rows EXCEPT ![k] = e]
          /\ UNCHANGED <<poll, news, cursor, view>>
      BY <2>1 DEF SetUpsert
    <3>2. e.at = now
      BY DEF Upserted
    <3> HIDE DEF e
    <3> QED BY <1>2, <3>1, <3>2, WriteIsNew
  <2>2. ASSUME NEW w \in Writers, SeedInsert(w) PROVE PollInv'
    <3> DEFINE k == Head(call[w].todo)
    <3>1. k \in Keys
      BY <1>2, <2>2, HeadTailProperties DEF SeedInsert, TypeOK, Calls, Idle
    <3>2. CASE Present(k)
      BY <1>2, <2>2, <3>2 DEF SeedInsert, PollInv, NothingMissed, AnswerInv,
                              Present, Reported, InAnswer, Known, Later
    <3>3. CASE ~Present(k)
      <4> DEFINE e == [value |-> writes + 1, version |-> 1, at |-> now]
      <4>1. /\ rows' = [rows EXCEPT ![k] = e]
            /\ UNCHANGED <<poll, news, cursor, view>>
        BY <2>2, <3>3 DEF SeedInsert
      <4>2. e.at = now
        OBVIOUS
      <4> HIDE DEF e
      <4> QED BY <1>2, <3>1, <4>1, <4>2, WriteIsNew
    <3> QED BY <3>2, <3>3
  <2>3. ASSUME NEW k \in Keys, Delete(k) PROVE PollInv'
    <3>1. \A j \in Keys : Present(j)' => Present(j) /\ rows'[j] = rows[j]
      BY <1>2, <2>3 DEF Delete, Present, Absent, TypeOK
    <3> QED BY <1>2, <2>3, <3>1 DEF Delete, PollInv, NothingMissed, AnswerInv,
                                   Reported, InAnswer, Known, Later
  <2>4. CASE PollQuery
    <3>1. NothingMissed'
      BY <1>2, <2>4 DEF PollQuery, PollInv, NothingMissed, Present, Reported
    <3>2. ASSUME NEW k \in Keys, Present(k) PROVE (InAnswer(k) \/ Known(k))'
      BY <1>2, <2>4, <3>2 DEF PollQuery, PollInv, NothingMissed, InAnswer, Known
    <3> QED BY <2>4, <3>1, <3>2 DEF PollQuery, PollInv, AnswerInv, Present
  <2>5. CASE PollSentinel
    BY <1>2, <2>5 DEF PollSentinel, PollInv, NothingMissed, AnswerInv,
                      Present, Reported, InAnswer, Known, Later
  <2>6. CASE Receive
    <3>1. ASSUME NEW k \in Keys, Present(k) PROVE view'[k] = rows[k] \/ Reported(k)'
      <4>1. InAnswer(k) \/ Known(k) \/ Later(k)
        BY <1>2, <2>6, <3>1 DEF Receive, PollInv, AnswerInv
      <4>2. CASE InAnswer(k)
        <5>1. rows[k] # Absent
          BY <3>1 DEF Present, Absent
        <5> QED BY <2>6, <4>2, <5>1 DEF Receive, InAnswer
      <4>3. CASE Known(k)
        BY <2>6, <4>3 DEF Receive, Known
      <4>4. CASE Later(k)
        <5>1. cursor' = cursor \/ \E j \in Keys : cursor' = news[j].at
          BY <2>6 DEF Receive, Latest
        <5>2. cursor' <= rows[k].at
          BY <4>4, <5>1 DEF Later, TypeOK
        <5>3. rows[k].at \in Int /\ cursor' \in Int
          BY <1>2, <2>6 DEF Receive, TypeOK, Entries
        <5> QED BY <2>6, <3>1, <5>2, <5>3 DEF Receive, Reported, Present
      <4> QED BY <4>1, <4>2, <4>3, <4>4
    <3> QED BY <2>6, <3>1 DEF Receive, PollInv, NothingMissed, AnswerInv, Present
  <2>7. CASE ClearSentinel
    BY <1>2, <2>7 DEF ClearSentinel, PollInv, NothingMissed, AnswerInv, Present, Reported
  <2>8. CASE Crash
    BY <1>2, <2>8 DEF Crash, PollInv, NothingMissed, AnswerInv, Present, Reported
  <2>9. ASSUME UNCHANGED <<rows, poll, news, cursor, view>> PROVE PollInv'
    BY <1>2, <2>9 DEF PollInv, NothingMissed, AnswerInv,
                      Present, Reported, InAnswer, Known, Later
  <2>10. ASSUME NEW w \in Writers, SeedBegin(w) \/ SetAnswer(w) PROVE PollInv'
    BY <2>9, <2>10 DEF SeedBegin, SetAnswer
  <2>11. ASSUME (\E s \in Sentinels : WriteSentinel(s)) \/ Tick \/ UNCHANGED vars
         PROVE  PollInv'
    BY <2>9, <2>11 DEF WriteSentinel, Tick, vars
  <2> QED BY <1>2, <2>1, <2>2, <2>3, <2>4, <2>5, <2>6, <2>7, <2>8, <2>10, <2>11
          DEF Next, WriterStep
<1>3. PollInv => NothingMissed
  BY DEF PollInv
<1> QED BY <1>1, <1>2, <1>3, TypeCorrect, PTL DEF Spec

=============================================================================
