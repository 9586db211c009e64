------------------------------ MODULE Adaptation ------------------------------
(***************************************************************************)
(* The context of one agent (art_context) and the polling by which the     *)
(* agent keeps up with it and with the sentinel files of its workspace.    *)
(*                                                                         *)
(* Any caller may set, delete or seed keys, one SQL statement per step,    *)
(* over a pool of PoolSize connections.  The agent polls with the time of  *)
(* the last change it has been told of.  It is not part of the repository: *)
(* it is modelled as adaptation.rs describes its callers (poll, process,   *)
(* clear the sentinel), and Overlap is how far before that time it asks.   *)
(*                                                                         *)
(* Time is what datetime('now') writes: whole seconds.                     *)
(***************************************************************************)
EXTENDS Integers, Sequences, FiniteSets

CONSTANTS
    Keys,       \* keys of the agent's context
    Writers,    \* calls of set and seed that may be under way at once
    PoolSize,   \* connections in the pool
    Overlap,    \* seconds by which the agent's next poll reaches back
    MaxTime,    \* bound on the clock
    MaxWrites,  \* bound on the calls of set and seed
    MaxFaults   \* bound on crashes and lost answers

ASSUME AdaptationAssumption ==
    /\ PoolSize \in Nat \ {0}
    /\ Overlap \in Nat
    /\ MaxTime \in Nat \ {0}
    /\ MaxWrites \in Nat
    /\ MaxFaults \in Nat

VARIABLES
    now,     \* the clock
    rows,    \* art_context: the entry of each key
    writes,  \* values written so far; the n-th is called n
    call,    \* the writers' calls
    poll,    \* how far the agent's poll has got
    news,    \* the changes on their way to the agent
    told,    \* the sentinel on its way to the agent, or being processed by it
    cursor,  \* the latest updated_at the agent has been told of
    view,    \* the entries the agent knows
    files,   \* sentinel files in the workspace
    faults

vars == <<now, rows, writes, call, poll, news, told, cursor, view, files, faults>>

\* A row of art_context; Absent stands for none (no value is called 0).
Entries == [value : 0..writes, version : 0..writes, at : 0..now]
Absent  == [value |-> 0, version |-> 0, at |-> 0]

Present(k) == rows[k].value > 0

\* VALID_SENTINELS, and their order in check_sentinel.
Sentinels == {"STOP", "PRIORITY_CHANGE", "CHECKPOINT_READY"}
Rank == [STOP |-> 1, PRIORITY_CHANGE |-> 2, CHECKPOINT_READY |-> 3]

\* What seed inserts: depends on the task_id of the agent's row, on whether
\* there is such a task, and on its columns.
SeedLists ==
    Seq(Keys) \cap {<<"org_id">>,
                    <<"org_id", "task_id">>,
                    <<"org_id", "task_id", "instructions">>,
                    <<"org_id", "task_id", "plan_id">>,
                    <<"org_id", "task_id", "instructions", "plan_id">>}

Idle == [at |-> "idle"]

Calls == {Idle}
    \cup [at : {"written"}, key : Keys, value : Nat]
    \cup [at : {"seeding"}, todo : Seq(Keys) \ {<<>>}]

Polling == {"idle", "queried", "answered", "acting"}

TypeOK ==
    /\ now \in 1..MaxTime
    /\ rows \in [Keys -> Entries]
    /\ writes \in Nat
    /\ call \in [Writers -> Calls]
    /\ poll \in Polling
    /\ news \in [Keys -> Entries]
    /\ told \in Sentinels \cup {"none"}
    /\ cursor \in 0..now
    /\ view \in [Keys -> Entries]
    /\ files \subseteq Sentinels
    /\ faults \in 0..MaxFaults

Nothing == [k \in Keys |-> Absent]

Init ==
    /\ now = 1
    /\ rows = Nothing
    /\ writes = 0
    /\ call = [w \in Writers |-> Idle]
    /\ poll = "idle"
    /\ news = Nothing
    /\ told = "none"
    /\ cursor = 0
    /\ view = Nothing
    /\ files = {}
    /\ faults = 0

Busy == {w \in Writers : call[w].at # "idle"}
ConnectionFree ==
    Cardinality(Busy) + (IF poll = "queried" THEN 1 ELSE 0) < PoolSize

-----------------------------------------------------------------------------
(* context.rs                                                              *)

\* Mutants of Upserted: the UPDATE leaves updated_at alone; it writes
\* the local time of a zone to the east.
UpsertedSilently(k) ==
    [value |-> writes + 1, version |-> rows[k].version + 1,
     at |-> IF Present(k) THEN rows[k].at ELSE now]
UpsertedLocalTime(k) ==
    [value |-> writes + 1, version |-> rows[k].version + 1, at |-> now + 1]

\* INSERT ... ON CONFLICT DO UPDATE: a new row has version 1.
Upserted(k) ==
    [value |-> writes + 1, version |-> rows[k].version + 1, at |-> now]

SetUpsert(w, k) ==
    /\ writes < MaxWrites
    /\ call[w].at = "idle"
    /\ ConnectionFree
    /\ rows' = [rows EXCEPT ![k] = Upserted(k)]
    /\ writes' = writes + 1
    /\ call' = [call EXCEPT ![w] = [at |-> "written", key |-> k, value |-> writes + 1]]
    /\ UNCHANGED <<now, poll, news, told, cursor, view, files, faults>>

\* set reads the entry back and answers with it, or with an internal error
\* when the key has been deleted meanwhile.
SetAnswer(w) ==
    /\ call[w].at = "written"
    /\ call' = [call EXCEPT ![w] = Idle]
    /\ UNCHANGED <<now, rows, writes, poll, news, told, cursor, view, files, faults>>

\* delete leaves nothing behind that a poll could report.
Delete(k) ==
    /\ Present(k)
    /\ ConnectionFree
    /\ rows' = [rows EXCEPT ![k] = Absent]
    /\ UNCHANGED <<now, writes, call, poll, news, told, cursor, view, files, faults>>

SeedBegin(w) ==
    /\ writes < MaxWrites
    /\ call[w].at = "idle"
    /\ ConnectionFree
    /\ \E s \in SeedLists : call' = [call EXCEPT ![w] = [at |-> "seeding", todo |-> s]]
    /\ UNCHANGED <<now, rows, writes, poll, news, told, cursor, view, files, faults>>

\* INSERT OR IGNORE of the next key.
SeedInsert(w) ==
    /\ call[w].at = "seeding"
    /\ LET k == Head(call[w].todo) IN
       IF Present(k)
       THEN UNCHANGED <<rows, writes>>
       ELSE /\ rows' = [rows EXCEPT ![k] = [value |-> writes + 1, version |-> 1,
                                            at |-> now]]
            /\ writes' = writes + 1
    /\ call' = [call EXCEPT ![w] =
                  IF Len(@.todo) = 1 THEN Idle
                  ELSE [at |-> "seeding", todo |-> Tail(@.todo)]]
    /\ UNCHANGED <<now, poll, news, told, cursor, view, files, faults>>

WriterStep(w) == SetAnswer(w) \/ SeedInsert(w)

-----------------------------------------------------------------------------
(* adaptation.rs: the poll, and what the agent makes of it.                *)

\* Mutant of Reported: the next poll starts a second too late.
ReportedLate(k) == Present(k) /\ rows[k].at > cursor - Overlap + 1

\* updated_at > since
Reported(k) == Present(k) /\ rows[k].at > cursor - Overlap

PollQuery ==
    /\ poll = "idle"
    /\ ConnectionFree
    /\ news' = [k \in Keys |-> IF Reported(k) THEN rows[k] ELSE Absent]
    /\ poll' = "queried"
    /\ UNCHANGED <<now, rows, writes, call, told, cursor, view, files, faults>>

\* Mutant of CheckSentinel: the last of the list.
CheckSentinelLast(F) ==
    IF F = {} THEN "none" ELSE CHOOSE s \in F : \A r \in F : Rank[r] <= Rank[s]

\* check_sentinel: the first of the list that exists.  (The files are looked at
\* in one step: what is written in between counts as written after it.)
CheckSentinel(F) ==
    IF F = {} THEN "none" ELSE CHOOSE s \in F : \A r \in F : Rank[s] <= Rank[r]

PollSentinel ==
    /\ poll = "queried"
    /\ told' = CheckSentinel(files)
    /\ poll' = "answered"
    /\ UNCHANGED <<now, rows, writes, call, news, cursor, view, files, faults>>

\* The time of the last change in the answer (it is ordered by updated_at).
Latest(t) == \/ t = cursor /\ \A k \in Keys : news[k] = Absent
             \/ /\ \E k \in Keys : news[k] # Absent /\ news[k].at = t
                /\ \A k \in Keys : news[k].at <= t

Receive ==
    /\ poll = "answered"
    /\ view' = [k \in Keys |-> IF news[k] = Absent THEN view[k] ELSE news[k]]
    /\ cursor' \in {t \in 0..now : Latest(t)}
    /\ news' = Nothing
    /\ poll' = IF told = "none" THEN "idle" ELSE "acting"
    /\ UNCHANGED <<now, rows, writes, call, told, files, faults>>

\* "Clear a sentinel file after it has been processed."
ClearSentinel ==
    /\ poll = "acting"
    /\ ConnectionFree
    /\ files' = files \ {told}
    /\ told' = "none"
    /\ poll' = "idle"
    /\ UNCHANGED <<now, rows, writes, call, news, cursor, view, faults>>

WriteSentinel(s) ==
    /\ ConnectionFree
    /\ files' = files \cup {s}
    /\ UNCHANGED <<now, rows, writes, call, poll, news, told, cursor, view, faults>>

-----------------------------------------------------------------------------
(* The clock; answers that get lost, and the daemon's crash.               *)

Tick ==
    /\ now < MaxTime
    /\ now' = now + 1
    /\ UNCHANGED <<rows, writes, call, poll, news, told, cursor, view, files, faults>>

\* The agent gets no answer and will ask again; what was being written stays
\* half written.  A sentinel the agent is processing is not affected.
Crash ==
    /\ faults < MaxFaults
    /\ faults' = faults + 1
    /\ call' = [w \in Writers |-> Idle]
    /\ IF poll \in {"queried", "answered"}
       THEN poll' = "idle" /\ news' = Nothing /\ told' = "none"
       ELSE UNCHANGED <<poll, news, told>>
    /\ UNCHANGED <<now, rows, writes, cursor, view, files>>

Next ==
    \/ \E w \in Writers : \/ \E k \in Keys : SetUpsert(w, k)
                          \/ SeedBegin(w)
                          \/ WriterStep(w)
    \/ \E k \in Keys : Delete(k)
    \/ PollQuery \/ PollSentinel \/ Receive \/ ClearSentinel
    \/ \E s \in Sentinels : WriteSentinel(s)
    \/ Tick
    \/ Crash

Spec == Init /\ [][Next]_vars

(***************************************************************************)
(* Fairness: a call under way goes on; the agent keeps polling ("Agents    *)
(* call poll_updates periodically") and clears what it has processed, and  *)
(* gets a connection if connections keep becoming free.                    *)
(***************************************************************************)
Fairness ==
    /\ \A w \in Writers : WF_vars(WriterStep(w))
    /\ SF_vars(PollQuery)
    /\ WF_vars(PollSentinel)
    /\ WF_vars(Receive)
    /\ SF_vars(ClearSentinel)

FairSpec == Spec /\ Fairness

-----------------------------------------------------------------------------
\* What the agent does not know yet, its next poll will report, however
\* writes, seconds and polls interleave and whatever answer is lost; provided
\* it reaches back a second (Overlap >= 1): several changes carry the same
\* updated_at, and a poll may fall between them.
NothingMissed ==
    \A k \in Keys : Present(k) => view[k] = rows[k] \/ Reported(k)

\* Once nobody writes any more (MaxWrites sees to that) the agent comes to know
\* every entry as it is, and does not unlearn it, whatever was lost before.
CatchesUp == <>[](\A k \in Keys : Present(k) => view[k] = rows[k])

\* A STOP reaches the agent even if the other sentinels are written again and
\* again: it is the first that check_sentinel looks for.
StopArrives == "STOP" \in files ~> told = "STOP"

=============================================================================
