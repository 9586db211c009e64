------------------------------ MODULE Delivery ------------------------------
(***************************************************************************)
(* What becomes of an agent's commits, on top of SpawnPipeline: the branch *)
(* agent/{worktree} they are made on, the push and the pull request by the *)
(* monitor (or by an agent that may push), the report to the plan, and who *)
(* deletes branches: a new spawn under the name and the worktree reaper.   *)
(*                                                                         *)
(* Every action of the pipeline that touches none of this is taken as it   *)
(* is; the others are the pipeline's action and their effect on branches.  *)
(* HEAD of the daemon's repository is taken to be on origin/main: a branch *)
(* starts with no commit of its own.                                       *)
(***************************************************************************)
EXTENDS SpawnPipelineProps

CONSTANT MaxCommits \* bound on the commits of an agent

ASSUME DeliveryAssumption == MaxCommits \in Nat

VARIABLES
    branches, \* the local branches, by worktree name: the commits on each
    remote,   \* the same for the branches on origin
    merged,   \* commits that origin/main has
    prs,      \* branches with an open pull request
    found,    \* agents whose monitor found new commits at the end
    handled,  \* agents whose monitor is through with push and report
    overdue   \* agents whose worktree got old before their monitor was
              \* through (history)

gitVars == <<branches, remote, merged, prs, found, handled, overdue>>
allVars == <<vars, gitVars>>

Commits == Agents \X (1..MaxCommits)
NoBranch == [t \in {} |-> {}]

GitTypeOK ==
    /\ DOMAIN branches \subseteq Trees
    /\ branches \in [DOMAIN branches -> SUBSET Commits]
    /\ DOMAIN remote \subseteq Trees
    /\ remote \in [DOMAIN remote -> SUBSET Commits]
    /\ merged \subseteq Commits
    /\ prs \subseteq DOMAIN remote
    /\ found \subseteq Agents
    /\ handled \subseteq Agents
    /\ overdue \subseteq Agents

DInit ==
    /\ Init
    /\ branches = NoBranch
    /\ remote = NoBranch
    /\ merged = {}
    /\ prs = {}
    /\ found = {}
    /\ handled = {}
    /\ overdue = {}

\* Set branch t of f to the commits in S; drop the branches in T.
With(f, t, S)   == [u \in DOMAIN f \cup {t} |-> IF u = t THEN S ELSE f[u]]
Without(f, T)   == [u \in DOMAIN f \ T |-> f[u]]

\* The commits anybody can still get at.
Kept == merged \cup (UNION {branches[t] : t \in DOMAIN branches})
               \cup (UNION {remote[t] : t \in DOMAIN remote})

-----------------------------------------------------------------------------
(* Branches come and go with worktrees.                                    *)

\* create_worktree: a branch of the name is deleted, whatever is on it, and
\* the new one starts at HEAD, not at the branch of a parent.
BranchedTree(a) ==
    /\ AddTree(a)
    /\ IF tree[a] \in DOMAIN dirs'
       THEN branches' = With(branches, tree[a], {})
       ELSE branches' \in {branches, Without(branches, {tree[a]})}
    /\ UNCHANGED <<remote, merged, prs, found, handled, overdue>>

\* Mutant of CleanedBranches: the branch deleted from the main repository.
CleanedBranchesToo(a) == Without(branches, {tree[a]})

\* remove_worktree runs git in the worktree it has just removed: none of its
\* `branch -D` can start, and the branch outlives the worktree.
CleanedBranches(a) == branches

CleanupTree(a) ==
    /\ Cleanup(a)
    /\ branches' = CleanedBranches(a)
    /\ UNCHANGED <<remote, merged, prs, found, handled, overdue>>

\* The worktree reaper deletes the branch with the worktree; for one that is
\* gone it reports an error and goes on.
SweepBranch ==
    /\ SweepRemove
    /\ branches' = Without(branches, sweep.doomed \cap DOMAIN dirs)
    /\ UNCHANGED <<remote, merged, prs, found, handled, overdue>>

-----------------------------------------------------------------------------
(* The process.                                                            *)

Made(a) == {i \in 1..MaxCommits : \E t \in DOMAIN branches : <<a, i>> \in branches[t]}

\* The agent commits in its worktree.
Commit(a) ==
    /\ Live(a)
    /\ Owns(a)
    /\ \E i \in 1..MaxCommits :
          /\ \A j \in 1..MaxCommits : j < i <=> j \in Made(a)
          /\ branches' = [branches EXCEPT ![tree[a]] = @ \cup {<<a, i>>}]
    /\ UNCHANGED <<vars, remote, merged, prs, found, handled, overdue>>

\* git push takes a fast-forward only.
Pushable(t) == /\ t \in DOMAIN branches
               /\ t \in DOMAIN remote => remote[t] \subseteq branches[t]

\* An agent that is not told to leave it pushes and opens a pull request.
PushOwn(a) ==
    /\ Live(a)
    /\ Owns(a)
    /\ Pushable(tree[a])
    /\ branches[tree[a]] \ merged # {}
    /\ remote' = With(remote, tree[a], branches[tree[a]])
    /\ prs' = prs \cup {tree[a]}
    /\ UNCHANGED <<vars, branches, merged, found, handled, overdue>>

\* Somebody merges a pull request.
Merge(t) ==
    /\ t \in prs
    /\ prs' = prs \ {t}
    /\ merged' = merged \cup remote[t]
    /\ UNCHANGED <<vars, branches, remote, found, handled, overdue>>

-----------------------------------------------------------------------------
(* monitor_agent.                                                          *)

\* Mutant of NewCommits: compared with the branch's own upstream.
NewCommitsUpstream(t, known) == /\ t \in DOMAIN dirs \cap DOMAIN branches
                                /\ IF t \in DOMAIN remote
                                   THEN branches[t] \ remote[t] # {}
                                   ELSE branches[t] \ known # {}

\* has_new_commits: HEAD of the worktree against origin/main, which the last
\* fetch may not have brought up to date.
NewCommits(t, known) == /\ t \in DOMAIN dirs \cap DOMAIN branches
                        /\ branches[t] \ known # {}

\* The commits decide which stage the row ends in, now, and what is reported
\* later.
DNotice(a) ==
    /\ \E known \in {{}, merged} :
          found' = IF NewCommits(tree[a], known) THEN found \cup {a} ELSE found
    /\ Notice(a) \/ NoticeFails(a)
    /\ UNCHANGED <<branches, remote, merged, prs, handled, overdue>>

\* What the plan is told; the request is sent once and not waited for.
Report(a) == IF a \in found THEN "submitted" ELSE "failed"

\* Mutant of PushBranch: the outcome of the push is not looked at.
PushBranchBlindly(a) ==
    \E pushed \in BOOLEAN :
        /\ remote' = IF pushed /\ Pushable(tree[a])
                     THEN With(remote, tree[a], branches[tree[a]]) ELSE remote
        /\ prs' = IF a \in found THEN prs \cup {tree[a]} ELSE prs

\* Nothing is pushed in single_branch mode, when gh lists a pull request for
\* the branch, or when the push fails; the pull request may fail after it.
PushBranch(a) ==
    \/ UNCHANGED <<remote, prs>>
    \/ \E gh \in BOOLEAN :
          /\ a \in found
          /\ ~(gh /\ tree[a] \in prs)
          /\ tree[a] \in DOMAIN dirs
          /\ Pushable(tree[a])
          /\ remote' = With(remote, tree[a], branches[tree[a]])
          /\ prs' = IF gh THEN prs \cup {tree[a]} ELSE prs

\* Push, pull request and report; the row has had its final stage before.
Deliver(a) ==
    /\ at[a] = "written"
    /\ a \notin handled
    /\ PushBranch(a)
    /\ handled' = handled \cup {a}
    /\ UNCHANGED <<vars, branches, merged, found, overdue>>

DRespawn(a, c) ==
    /\ a \in handled
    /\ Respawn(a, c)
    /\ UNCHANGED gitVars

DFinish(a) ==
    /\ a \in handled
    /\ Finish(a)
    /\ UNCHANGED gitVars

\* Two hours without a new file at the top of the worktree.
DGrowOld(t) ==
    /\ GrowOld(t)
    /\ overdue' = overdue \cup {a \in Agents : tree[a] = t /\ at[a] \in Watching}
    /\ UNCHANGED <<branches, remote, merged, prs, found, handled>>

-----------------------------------------------------------------------------
\* What the pipeline does besides.
Elsewhere ==
    /\ \/ \E a \in Agents, n \in Names, hasBudget \in BOOLEAN :
             SpawnRow(a, n, hasBudget)
       \/ \E a \in Agents :
             \/ CountTrees(a) \/ DryRun(a) \/ Launch(a)
             \/ Activate(a) \/ ActivateContinuation(a) \/ ActivateFails(a)
             \/ SaveCheckpoint(a) \/ Exit(a)
       \/ SweepBegin \/ SweepEnd
       \/ \E t \in sweep.todo : SweepLook(t)
       \/ KillAll \/ StopRows
       \/ \E d \in Loans, a \in Agents : Borrow(d, a)
       \/ \E w \in due : LoanWrite(w)
       \/ Crash
    /\ UNCHANGED gitVars

DNext ==
    \/ Elsewhere
    \/ \E a \in Agents :
          \/ BranchedTree(a) \/ CleanupTree(a)
          \/ Commit(a) \/ PushOwn(a)
          \/ DNotice(a) \/ Deliver(a) \/ DFinish(a)
          \/ \E c \in Agents : DRespawn(a, c)
    \/ SweepBranch
    \/ \E t \in prs : Merge(t)
    \/ \E t \in DOMAIN dirs : DGrowOld(t)

DSpec == DInit /\ [][DNext]_allVars
=============================================================================
