------------------------------ MODULE Workspace ------------------------------
(***************************************************************************)
(* The worktrees under <repo>/.worktrees: the reap cycles of crate         *)
(* convergio-workspace that collect them by age (the cron task and the     *)
(* routes reap and gc, any of them at once), the ownership check agents    *)
(* are to make before they touch one, and the users of the worktrees.      *)
(*                                                                         *)
(* Git keeps three things that remove_worktree takes away one by one: the  *)
(* directory, its registration with the branch checked out there, and the  *)
(* branch.  Ages go from 0 (just changed) to Day.                          *)
(***************************************************************************)
EXTENDS Naturals, FiniteSets

CONSTANTS
    Names,          \* names of directories under .worktrees
    BranchPrefixes, \* what precedes a name in a branch
    DoctorNames,    \* names of the form _doctor_test_spawn_*
    Agents,         \* who may own a worktree
    Nobody,         \* the owner of a directory without .worktree-owner
    Cycles,         \* reap cycles that may run at once
    Day,            \* the age the cron task waits for, in levels
    Cron,           \* the one the scheduler starts every six hours
    MaxFaults       \* bound on the failures of git and of rm -rf

ASSUME WorkspaceAssumption ==
    /\ DoctorNames \subseteq Names
    /\ Nobody \notin Agents \cup Names \cup (BranchPrefixes \X Names)
    /\ Cron \in Cycles
    /\ Day \in Nat \ {0}
    /\ MaxFaults \in Nat

VARIABLES
    dirs,      \* the directories: their age and owner
    reg,       \* git's registrations: the branch checked out
    branches,  \* local branches
    cycle,     \* where each reap cycle is
    trusted,   \* names check-owner told an agent are its own
    disturbed, \* cycles that a failure or a user got in the way of (history)
    faults

vars == <<dirs, reg, branches, cycle, trusted, disturbed, faults>>

Branches == BranchPrefixes \X Names

\* Mutant of Patterns: the branch is taken to be called like the directory.
PatternsPlain(n) == {<<"", n>>}

\* The branches remove_worktree tries for a directory.
Patterns(n) == {"agent/", "task/", "wave/", ""} \X {n}

Off == [at |-> "off"]
Stages == {"listed", "doomed", "detached", "bare"}
Positions == {Off} \cup [at : Stages, todo : SUBSET Names, old : SUBSET Names,
                         name : Names \cup {Nobody},
                         was : Branches \cup {Nobody}]

TypeOK ==
    /\ DOMAIN dirs \subseteq Names
    /\ dirs \in [DOMAIN dirs -> [age : 0..Day, owner : Agents \cup {Nobody}]]
    /\ DOMAIN reg \subseteq Names
    /\ reg \in [DOMAIN reg -> Branches]
    /\ \A m, n \in DOMAIN reg : reg[m] = reg[n] => m = n
    /\ branches \subseteq Branches
    /\ \A n \in DOMAIN reg : reg[n] \in branches
    /\ cycle \in [Cycles -> Positions]
    /\ trusted \in [Agents -> SUBSET Names]
    /\ disturbed \subseteq Cycles
    /\ faults \in 0..MaxFaults

Init ==
    /\ dirs = [n \in {} |-> 0]
    /\ reg = [n \in {} |-> 0]
    /\ branches = {}
    /\ cycle = [c \in Cycles |-> Off]
    /\ trusted = [a \in Agents |-> {}]
    /\ disturbed = {}
    /\ faults = 0

With(f, n, v)  == [m \in DOMAIN f \cup {n} |-> IF m = n THEN v ELSE f[m]]
Without(f, n)  == [m \in DOMAIN f \ {n} |-> f[m]]

CheckedOut == {reg[n] : n \in DOMAIN reg}
At(c, stage) == cycle[c].at = stage
Running(c) == cycle[c] # Off
Target(c) == cycle[c].name

Fault == faults < MaxFaults /\ faults' = faults + 1

-----------------------------------------------------------------------------
(* A reap cycle.                                                           *)

\* `now` is read once, after the directory was opened: what counts is how old
\* an entry is then.  Cron and the route reap wait for a day, gc for an hour
\* or for what it is told, 0 included.
Begin(c, threshold) ==
    /\ ~Running(c)
    /\ c = Cron => threshold = Day
    /\ cycle' = [cycle EXCEPT ![c] =
         [at |-> "listed", todo |-> DOMAIN dirs,
          old |-> {n \in DOMAIN dirs : dirs[n].age >= threshold},
          name |-> Nobody, was |-> Nobody]]
    /\ disturbed' = disturbed \ {c}
    /\ UNCHANGED <<dirs, reg, branches, trusted, faults>>

\* An entry that is gone, younger than the threshold or changed since the
\* cycle began (its age is then an error) is passed over.
Look(c, n) ==
    /\ At(c, "listed")
    /\ n \in cycle[c].todo
    /\ LET go == n \in DOMAIN dirs /\ n \in cycle[c].old
       IN  cycle' = [cycle EXCEPT
             ![c].todo = @ \ {n},
             ![c].old  = @ \ {n},
             ![c].at   = IF go THEN "doomed" ELSE @,
             ![c].name = IF go THEN n ELSE @,
             ![c].was  = IF go /\ n \in DOMAIN reg THEN reg[n] ELSE Nobody]
    /\ disturbed' = disturbed \ {c}
    /\ UNCHANGED <<dirs, reg, branches, trusted, faults>>

\* Mutant of GitRemove: `?` instead of `let _ =`, the entry is given up when
\* git does not know it.
GitRemoveOrGiveUp(c) ==
    /\ At(c, "doomed")
    /\ IF Target(c) \in DOMAIN reg
       THEN /\ dirs' = Without(dirs, Target(c))
            /\ reg' = Without(reg, Target(c))
            /\ cycle' = [cycle EXCEPT ![c].at = "detached"]
       ELSE /\ cycle' = [cycle EXCEPT ![c].at = "listed"]
            /\ UNCHANGED <<dirs, reg>>
    /\ UNCHANGED <<branches, trusted, disturbed, faults>>

\* git worktree remove --force: directory and registration, also when only
\* the latter is left; an error, which is ignored, for what git does not know.
GitRemove(c) ==
    /\ At(c, "doomed")
    /\ \/ /\ IF Target(c) \in DOMAIN reg
             THEN /\ dirs' = Without(dirs, Target(c))
                  /\ reg' = Without(reg, Target(c))
             ELSE UNCHANGED <<dirs, reg>>
          /\ UNCHANGED <<disturbed, faults>>
       \/ /\ Fault
          /\ disturbed' = disturbed \cup {c}
          /\ UNCHANGED <<dirs, reg>>
    /\ cycle' = [cycle EXCEPT ![c].at = "detached"]
    /\ UNCHANGED <<branches, trusted>>

\* Mutant of DeleteBranches: the refs deleted without asking where they are
\* checked out.
DeleteRefs(c) ==
    /\ At(c, "detached")
    /\ branches' = branches \ Patterns(Target(c))
    /\ cycle' = [cycle EXCEPT ![c].at = "bare"]
    /\ UNCHANGED <<dirs, reg, trusted, disturbed, faults>>

\* git branch -D for the four names: git keeps what is checked out.
DeleteBranches(c) ==
    /\ At(c, "detached")
    /\ \/ /\ branches' = branches \ (Patterns(Target(c)) \ CheckedOut)
          /\ UNCHANGED <<disturbed, faults>>
       \/ /\ Fault
          /\ disturbed' = disturbed \cup {c}
          /\ UNCHANGED branches
    /\ cycle' = [cycle EXCEPT ![c].at = "bare"]
    /\ UNCHANGED <<dirs, reg, trusted>>

\* rm -rf of what is at the path by then; a failure is reported.
RemoveRest(c) ==
    /\ At(c, "bare")
    /\ \/ /\ dirs' = Without(dirs, Target(c))
          /\ UNCHANGED faults
       \/ /\ Target(c) \in DOMAIN dirs
          /\ Fault
          /\ UNCHANGED dirs
    /\ cycle' = [cycle EXCEPT ![c].at = "listed", ![c].name = Nobody,
                              ![c].was = Nobody]
    /\ UNCHANGED <<reg, branches, trusted, disturbed>>

\* The branches of doctor runs are pruned; fetch --prune touches no local one.
Finish(c) ==
    /\ At(c, "listed")
    /\ cycle[c].todo = {}
    /\ branches' = branches \ (({"agent/"} \X DoctorNames) \ CheckedOut)
    /\ cycle' = [cycle EXCEPT ![c] = Off]
    /\ UNCHANGED <<dirs, reg, trusted, disturbed, faults>>

CycleStep(c) ==
    \/ \E threshold \in 0..Day : Begin(c, threshold)
    \/ \E n \in Names : Look(c, n)
    \/ GitRemove(c) \/ DeleteBranches(c) \/ RemoveRest(c) \/ Finish(c)

-----------------------------------------------------------------------------
(* The ownership guard.                                                    *)

\* Mutant of Owned: no owner file, no objection.
OwnedOrFree(a, n) == n \in DOMAIN dirs /\ dirs[n].owner \in {a, Nobody}

\* handle_check_owner; handle_list_owned asks the same of every entry.
Owned(a, n) == n \in DOMAIN dirs /\ dirs[n].owner = a
ListOwned(a) == {n \in Names : Owned(a, n)}

CheckOwner(a, n) ==
    /\ trusted' = [trusted EXCEPT ![a] = IF Owned(a, n) THEN @ \cup {n}
                                         ELSE @ \ {n}]
    /\ UNCHANGED <<dirs, reg, branches, cycle, disturbed, faults>>

AskForAll(a) ==
    /\ trusted' = [trusted EXCEPT ![a] = ListOwned(a)]
    /\ UNCHANGED <<dirs, reg, branches, cycle, disturbed, faults>>

-----------------------------------------------------------------------------
(* The users of the worktrees.                                             *)

\* A cycle sees a later time of change at n than its own.
Changed(n) == [c \in Cycles |-> IF Running(c)
                                THEN [cycle[c] EXCEPT !.old = @ \ {n}]
                                ELSE Off]

\* Cycles that have n, or the branch b it was on, in hand.
Handling(n, b) == {c \in Cycles : Running(c) /\ (Target(c) = n \/ cycle[c].was = b)}

\* git worktree add, on a branch that is new or not checked out; git refuses
\* a name that is still registered.
AddWorktree(n, b, owner) ==
    /\ n \notin DOMAIN dirs \cup DOMAIN reg
    /\ b \notin CheckedOut
    /\ dirs' = With(dirs, n, [age |-> 0, owner |-> owner])
    /\ reg' = With(reg, n, b)
    /\ branches' = branches \cup {b}
    /\ cycle' = Changed(n)
    /\ disturbed' = disturbed \cup Handling(n, b)
    /\ UNCHANGED <<trusted, faults>>

\* A directory that git knows nothing of.
MakeDirectory(n) ==
    /\ n \notin DOMAIN dirs \cup DOMAIN reg
    /\ dirs' = With(dirs, n, [age |-> 0, owner |-> Nobody])
    /\ cycle' = Changed(n)
    /\ UNCHANGED <<reg, branches, trusted, disturbed, faults>>

\* A file comes or goes at the top of the directory.
Touch(n) ==
    /\ n \in DOMAIN dirs
    /\ dirs' = [dirs EXCEPT ![n].age = 0]
    /\ cycle' = Changed(n)
    /\ UNCHANGED <<reg, branches, trusted, disturbed, faults>>

\* An agent removes a worktree it was told is its own.
Discard(a, n) ==
    /\ n \in trusted[a]
    /\ n \in DOMAIN dirs
    /\ dirs' = Without(dirs, n)
    /\ reg' = Without(reg, n)
    /\ trusted' = [trusted EXCEPT ![a] = @ \ {n}]
    /\ UNCHANGED <<branches, cycle, disturbed, faults>>

GrowOld(n) ==
    /\ n \in DOMAIN dirs
    /\ dirs[n].age < Day
    /\ dirs' = [dirs EXCEPT ![n].age = @ + 1]
    /\ UNCHANGED <<reg, branches, cycle, trusted, disturbed, faults>>

\* The daemon stops: cycles end where they are.
Crash ==
    /\ \E c \in Cycles : Running(c)
    /\ Fault
    /\ cycle' = [c \in Cycles |-> Off]
    /\ disturbed' = {}
    /\ UNCHANGED <<dirs, reg, branches, trusted>>

UserStep(n) ==
    \/ \E b \in Branches, owner \in Agents \cup {Nobody} : AddWorktree(n, b, owner)
    \/ MakeDirectory(n)
    \/ Touch(n)
    \/ GrowOld(n)
    \/ \E a \in Agents : CheckOwner(a, n) \/ Discard(a, n)

Next ==
    \/ \E c \in Cycles : CycleStep(c)
    \/ \E n \in Names : UserStep(n)
    \/ \E a \in Agents : AskForAll(a)
    \/ Crash

Spec == Init /\ [][Next]_vars

\* The cron task starts a cycle again and again, and a cycle that runs gets on.
Fairness ==
    /\ WF_vars(Begin(Cron, Day))
    /\ \A c \in Cycles :
         /\ \A n \in Names : WF_vars(Look(c, n))
         /\ WF_vars(GitRemove(c) \/ DeleteBranches(c) \/ RemoveRest(c) \/ Finish(c))

FairSpec == Spec /\ Fairness
=============================================================================
