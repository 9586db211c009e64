------------------------------ MODULE SpawnGuard ------------------------------
(***************************************************************************)
(* The spawn rate limiter and the alert on anomalous spawn rates, as       *)
(* handle_spawn uses them.  The limiter is a tokio Mutex around a map from *)
(* organisation to the instants of its recent admissions; a check holds    *)
(* the mutex from beginning to end, so it is one step.                     *)
(*                                                                         *)
(* The code keeps a Vec of instants and only filters, counts and pushes:   *)
(* here it is the set of the requests that pushed them, each with its      *)
(* instant.  admitted is a history variable: the limiter forgets what has  *)
(* left its window, the properties do not.                                 *)
(***************************************************************************)
EXTENDS Naturals, FiniteSets

CONSTANTS
    Orgs,
    Requests,        \* spawn requests that reach the rate limiter (a bound)
    RateLimitMax,    \* RATE_LIMIT_MAX
    RateWindow,      \* RATE_LIMIT_WINDOW_SECS
    AlertThreshold,  \* ALERT_THRESHOLD
    AlertWindow,     \* ALERT_WINDOW_SECS
    MaxTime,         \* bound on the clock
    MaxRestarts      \* bound on restarts of the daemon

ASSUME SpawnGuardAssumption ==
    /\ RateLimitMax \in Nat \ {0}
    /\ RateWindow \in Nat \ {0}
    /\ AlertThreshold \in Nat
    /\ AlertWindow \in Nat \ {0}
    /\ MaxTime \in Nat
    /\ MaxRestarts \in Nat

VARIABLES
    now,       \* the monotonic clock
    stamps,    \* the limiter's map
    at,        \* the instant of each request that was checked
    verdict,   \* what became of each request
    admitted,  \* all requests admitted since the daemon started, by
               \* organisation (history)
    refused,   \* all requests refused, by organisation (history)
    alerted,   \* requests at which an alert was fired
    restarts

vars == <<now, stamps, at, verdict, admitted, refused, alerted, restarts>>

Verdicts == {"pending", "limited", "rejected", "spawning"}

TypeOK ==
    /\ now \in 0..MaxTime
    /\ stamps \in [Orgs -> SUBSET Requests]
    /\ at \in [Requests -> 0..MaxTime]
    /\ verdict \in [Requests -> Verdicts]
    /\ admitted \in [Orgs -> SUBSET Requests]
    /\ refused \in [Orgs -> SUBSET Requests]
    /\ alerted \subseteq Requests
    /\ restarts \in 0..MaxRestarts

Init ==
    /\ now = 0
    /\ stamps = [o \in Orgs |-> {}]
    /\ at = [r \in Requests |-> 0]
    /\ verdict = [r \in Requests |-> "pending"]
    /\ admitted = [o \in Orgs |-> {}]
    /\ refused = [o \in Orgs |-> {}]
    /\ alerted = {}
    /\ restarts = 0

\* The requests of S whose instant is less than w ago.
Recent(S, w) == {r \in S : now < at[r] + w}

\* timestamps.retain(...)
Kept(o) == Recent(stamps[o], RateWindow)

\* Mutants of Full: one too many gets in; one list for all organisations.
FullLate(o) == Cardinality(Kept(o)) > RateLimitMax
FullTogether(o) == Cardinality(UNION {Kept(p) : p \in Orgs}) >= RateLimitMax

Full(o) == Cardinality(Kept(o)) >= RateLimitMax

\* The count maybe_fire_alert gets: of the pruned list.
AlertCount(o, r) == Cardinality(Recent(Kept(o), AlertWindow) \cup {r})

\* Mutant of FiresAlert: the threshold off by one.
FiresAlertEarly(n) == n + 1 >= AlertThreshold

FiresAlert(n) == n >= AlertThreshold

\* check_rate_limit refuses: the pruning stays.
Limit(r, o) ==
    /\ verdict[r] = "pending"
    /\ Full(o)
    /\ stamps' = [stamps EXCEPT ![o] = Kept(o)]
    /\ verdict' = [verdict EXCEPT ![r] = "limited"]
    /\ refused' = [refused EXCEPT ![o] = @ \cup {r}]
    /\ UNCHANGED <<now, at, admitted, alerted, restarts>>

\* check_rate_limit admits and the alert fires or not; only then does
\* handle_spawn look at the tier, so a request it rejects has used a slot.
Admit(r, o, tierAllowed) ==
    /\ verdict[r] = "pending"
    /\ ~Full(o)
    /\ stamps' = [stamps EXCEPT ![o] = Kept(o) \cup {r}]
    /\ at' = [at EXCEPT ![r] = now]
    /\ admitted' = [admitted EXCEPT ![o] = @ \cup {r}]
    /\ alerted' = IF FiresAlert(AlertCount(o, r)) THEN alerted \cup {r} ELSE alerted
    /\ verdict' = [verdict EXCEPT ![r] = IF tierAllowed THEN "spawning"
                                                        ELSE "rejected"]
    /\ UNCHANGED <<now, refused, restarts>>

Tick ==
    /\ now < MaxTime
    /\ now' = now + 1
    /\ UNCHANGED <<stamps, at, verdict, admitted, refused, alerted, restarts>>

\* The daemon restarts: new_rate_limiter() starts with an empty map.
Restart ==
    /\ restarts < MaxRestarts
    /\ restarts' = restarts + 1
    /\ stamps' = [o \in Orgs |-> {}]
    /\ admitted' = [o \in Orgs |-> {}]
    /\ UNCHANGED <<now, at, verdict, refused, alerted>>

Next ==
    \/ \E r \in Requests, o \in Orgs : Limit(r, o)
    \/ \E r \in Requests, o \in Orgs, ok \in BOOLEAN : Admit(r, o, ok)
    \/ Tick
    \/ Restart

Spec == Init /\ [][Next]_vars

-----------------------------------------------------------------------------
\* Admissions of organisation o, since the daemon started, in the window of
\* RateWindow ending at t.
InWindow(o, t) == {r \in admitted[o] : at[r] <= t /\ t < at[r] + RateWindow}

\* No window of RateWindow seconds, wherever it lies, holds more than
\* RateLimitMax admissions of one organisation (spawn_guard.rs:11) by one run
\* of the daemon; a restart forgets the window and begins a new count.
RateBound ==
    \A o \in Orgs, t \in 0..MaxTime : Cardinality(InWindow(o, t)) <= RateLimitMax

\* Nobody is refused without cause: a request is refused only when its own
\* organisation really has RateLimitMax admissions in the last RateWindow
\* seconds, none of them from before a restart, however busy the others are;
\* and the refusal forgets nothing that any organisation has in its window.
LimitedWithCause ==
    [][\A r \in Requests, o \in Orgs :
         r \in refused'[o] \ refused[o] =>
           /\ Cardinality(InWindow(o, now)) >= RateLimitMax
           /\ \A p \in Orgs : InWindow(p, now) \subseteq stamps'[p]]_vars

\* Admissions of o in the alert window ending now, request r's included.
InAlertWindow(o) == {r \in admitted[o] : now < at[r] + AlertWindow}

\* An alert is fired only for an organisation that did have AlertThreshold
\* spawns in the alert window.
AlertNotFalse ==
    [][\A r \in Requests :
         r \in alerted' \ alerted =>
           \E o \in Orgs : /\ r \in admitted'[o]
                           /\ Cardinality(InAlertWindow(o)') >= AlertThreshold]_vars

\* "fire Telegram if this many spawns in ALERT_WINDOW_SECS": every admission
\* that brings an organisation to the threshold in the alert window alerts.
AlertNotMissed ==
    [][\A r \in Requests, o \in Orgs :
         /\ r \in admitted'[o] \ admitted[o]
         /\ Cardinality(InAlertWindow(o)') >= AlertThreshold
         => r \in alerted']_vars
=============================================================================
