---------------------------- MODULE DeliveryProofs ----------------------------
(***************************************************************************)
(* Theorems about Delivery, for every number of agents, names and commits, *)
(* every quota, limit of respawns and bound on the faults, as long as      *)
(* requests take only free names.                                          *)
(***************************************************************************)
EXTENDS DeliveryProps, SpawnPipelineProofs

-----------------------------------------------------------------------------
(* The pipeline in it.                                                     *)

\* Every step is one of the pipeline, or of git alone.
LEMMA PipelineStep ==
    ASSUME [DNext]_allVars
    PROVE  [Next]_vars
  <1>1. CASE UNCHANGED vars
    BY <1>1
  <1>2. CASE Elsewhere
    BY <1>2 DEF Elsewhere, Next, TaskStep, SweepStep
  <1>3. ASSUME NEW a \in Agents, AddTree(a) \/ Cleanup(a) \/ Finish(a)
        PROVE  [Next]_vars
    BY <1>3 DEF Next, TaskStep
  <1>4. ASSUME NEW a \in Agents, DNotice(a)
        PROVE  [Next]_vars
    BY <1>4 DEF DNotice, Next, TaskStep
  <1>5. ASSUME NEW a \in Agents, NEW c \in Agents, Respawn(a, c)
        PROVE  [Next]_vars
    BY <1>5 DEF Next, TaskStep
  <1>6. CASE SweepRemove \/ \E t \in DOMAIN dirs : GrowOld(t)
    BY <1>6 DEF Next, SweepStep
  <1> QED
    BY <1>1, <1>2, <1>3, <1>4, <1>5, <1>6
       DEF DNext, BranchedTree, CleanupTree, Commit, PushOwn, Deliver, DFinish,
           DRespawn, SweepBranch, Merge, DGrowOld, allVars

\* What the pipeline's theorems say holds here too, whatever git does.
THEOREM DeliveryUsesPipeline == DSpec => Spec
  <1>1. DInit => Init
    BY DEF DInit
  <1>2. [DNext]_allVars => [Next]_vars
    BY PipelineStep
  <1> QED
    BY <1>1, <1>2, PTL DEF DSpec, Spec

-----------------------------------------------------------------------------
(* Branches.                                                               *)

\* An agent whose worktree has not been made yet, or is being made.
Fresh == {"unused", "row", "counted"}

\* A task that has not come to its agent's end.
Before == Fresh \cup {"added", "launched", "watched"}

MadeBy(c, t) == at[c[1]] \notin Fresh /\ tree[c[1]] = t

\* Agent a's worktree was made, and its task or its process goes on.
AtWork(a) == at[a] \notin Fresh /\ Working(a)

\* A branch, here or on origin, holds commits of agents for whom a worktree of
\* the name was made: that of an agent at work only its own, and origin has
\* none of its commits that the branch has not.  (Origin may still have the
\* branch of an agent that had the name before.)
BranchInv ==
    /\ \A t \in DOMAIN branches : \A c \in branches[t] : MadeBy(c, t)
    /\ \A t \in DOMAIN remote : \A c \in remote[t] : MadeBy(c, t)
    /\ \A a \in Agents : AtWork(a) /\ tree[a] \in DOMAIN branches =>
         /\ branches[tree[a]] \subseteq CommitsOf(a)
         /\ tree[a] \in DOMAIN remote
              => remote[tree[a]] \cap CommitsOf(a) \subseteq branches[tree[a]]

\* The scan can only take the worktree of a watched agent if it got old in that
\* time; otherwise worktree and branch are there until the agent's end.
WatchInv ==
    \A a \in Agents :
        /\ at[a] \in Watching /\ tree[a] \in old \cup sweep.doomed => a \in overdue
        /\ at[a] \in {"added", "launched", "watched"} /\ a \notin overdue
             => tree[a] \in DOMAIN dirs \cap DOMAIN branches
        /\ at[a] \in Before => a \notin found

\* What the monitor has found out is still so when it reports.
ReportInv ==
    \A a \in Agents \ overdue :
        at[a] = "written" => IF a \in found THEN CommitsOf(a) \cap Kept # {}
                             ELSE CommitsOf(a) \cap Kept \subseteq merged

GitInv == PipeInv /\ GitTypeOK /\ BranchInv /\ WatchInv /\ ReportInv

-----------------------------------------------------------------------------
(* How a task moves on in a step of the pipeline.                          *)

Progress(b) ==
    /\ Used(b) => Used(b)' /\ tree'[b] = tree[b]
    /\ at[b] \notin Fresh => at'[b] \notin Fresh
    /\ at'[b] \in Before => at[b] \in Before
    /\ at'[b] \in Watching => at[b] \in Watching \cup {"launched"}
    /\ at'[b] \in {"launched", "watched"} => at[b] \in {"added", "launched", "watched"}
    /\ proc'[b] = "live" => proc[b] = "live" \/ at[b] = "added"

LEMMA TasksProgress ==
    ASSUME TypeInv, BlankRows, [Next]_vars
    PROVE  \A b \in Agents : Progress(b)
  <1> USE DEF Progress, Used, Fresh, Before, Building, Watching
  <1>1. ASSUME UNCHANGED at, UNCHANGED tree, \A b \in Agents : proc'[b] = "live" => proc[b] = "live"
        PROVE  \A b \in Agents : Progress(b)
    BY <1>1
  <1>2. ASSUME NEW a \in Agents, NEW n \in Names, NEW hasBudget \in BOOLEAN,
               SpawnRow(a, n, hasBudget)
        PROVE  \A b \in Agents : Progress(b)
    BY <1>2 DEF SpawnRow, Goto, TypeInv, TypeOK
  <1>3. ASSUME NEW a \in Agents, CountTrees(a) \/ AddTree(a) \/ DryRun(a) \/ Launch(a)
        PROVE  \A b \in Agents : Progress(b)
    BY <1>3 DEF CountTrees, AddTree, DryRun, Launch, Goto, TypeInv, TypeOK
  <1>4. ASSUME NEW a \in Agents,
               Activate(a) \/ ActivateContinuation(a) \/ ActivateFails(a)
        PROVE  \A b \in Agents : Progress(b)
    BY <1>4 DEF Activate, ActivateContinuation, ActivateFails, Goto, TypeInv, TypeOK
  <1>5. ASSUME NEW a \in Agents,
               Notice(a) \/ NoticeFails(a) \/ Finish(a) \/ Cleanup(a)
        PROVE  \A b \in Agents : Progress(b)
    BY <1>5 DEF Notice, NoticeFails, Finish, Cleanup, Goto, TypeInv, TypeOK
  <1>6. ASSUME NEW a \in Agents, NEW c \in Agents, Respawn(a, c)
        PROVE  \A b \in Agents : Progress(b)
    BY <1>6 DEF Respawn, TypeInv, TypeOK
  <1>7. CASE Crash
    BY <1>7 DEF Crash, TypeInv, TypeOK
  <1>8. CASE \/ \E a \in Agents : SaveCheckpoint(a) \/ Exit(a)
             \/ SweepStep \/ (\E t \in DOMAIN dirs : GrowOld(t))
             \/ UNCHANGED vars
    BY <1>1, <1>8 DEF SaveCheckpoint, Exit, SweepStep, SweepBegin, SweepLook,
                      SweepRemove, SweepEnd, GrowOld, vars, TypeInv, TypeOK
  <1>9. CASE RowsStep
    BY <1>1, <1>9, RowsOnly
  <1> QED
    BY <1>2, <1>3, <1>4, <1>5, <1>6, <1>7, <1>8, <1>9 DEF Next, TaskStep, RowsStep

-----------------------------------------------------------------------------
(* Types of the branches.                                                  *)

BranchMap(f) == DOMAIN f \subseteq Trees /\ f \in [DOMAIN f -> SUBSET Commits]

\* What a step may do to the branches: nothing, add an empty one for an agent's
\* new worktree, drop some, add a commit, or copy one to origin.
AddsBranch(a) ==
    /\ at[a] = "counted" /\ at'[a] \in {"added", "failed"}
    /\ \/ branches' = With(branches, tree[a], {})
       \/ branches' = Without(branches, {tree[a]})

AddsCommit(a) ==
    /\ Live(a) /\ Used(a)
    /\ \E i \in 1..MaxCommits :
          branches' = [branches EXCEPT ![tree[a]] = @ \cup {<<a, i>>}]

Copies(a) ==
    /\ tree[a] \in DOMAIN branches
    /\ tree[a] \in DOMAIN remote => remote[tree[a]] \subseteq branches[tree[a]]
    /\ remote' = With(remote, tree[a], branches[tree[a]])

LEMMA GitSteps ==
    ASSUME TypeInv, BlankRows, [DNext]_allVars
    PROVE  /\ \/ UNCHANGED branches
              \/ \E a \in Agents : AddsBranch(a)
              \/ SweepRemove /\ branches' = Without(branches, sweep.doomed \cap DOMAIN dirs)
              \/ \E a \in Agents : AddsCommit(a)
           /\ UNCHANGED branches \/ UNCHANGED <<remote, merged, prs, found>>
           /\ UNCHANGED remote \/ \E a \in Agents : Copies(a)
           /\ \/ UNCHANGED merged
              \/ \E t \in prs : merged' = merged \cup remote[t] /\ UNCHANGED remote
           /\ overdue \subseteq overdue'
  <1>1. ASSUME NEW a \in Agents, Live(a)
        PROVE  Used(a)
    BY <1>1 DEF Live, BlankRows
  <1>2. CASE Elsewhere \/ (\E a \in Agents : DFinish(a) \/ \E c \in Agents : DRespawn(a, c))
             \/ UNCHANGED allVars
    BY <1>2 DEF Elsewhere, DFinish, DRespawn, gitVars, allVars
  <1>3. ASSUME NEW a \in Agents, BranchedTree(a)
        PROVE  /\ UNCHANGED branches \/ AddsBranch(a)
               /\ UNCHANGED <<remote, merged, prs, found, overdue>>
    BY <1>3 DEF BranchedTree, AddTree, AddsBranch, Goto, TypeInv, TypeOK
  <1>4. ASSUME NEW a \in Agents, CleanupTree(a)
        PROVE  UNCHANGED gitVars
    BY <1>4 DEF CleanupTree, CleanedBranches, gitVars
  <1>5. ASSUME NEW a \in Agents, Commit(a)
        PROVE  AddsCommit(a) /\ UNCHANGED <<remote, merged, prs, found, overdue>>
    BY <1>1, <1>5 DEF Commit, AddsCommit
  <1>6. ASSUME NEW a \in Agents, PushOwn(a)
        PROVE  Copies(a) /\ UNCHANGED <<branches, merged, found, overdue>>
    BY <1>6 DEF PushOwn, Pushable, Copies
  <1>7. ASSUME NEW a \in Agents, DNotice(a)
        PROVE  UNCHANGED <<branches, remote, merged, prs, overdue>>
    BY <1>7 DEF DNotice
  <1>8. ASSUME NEW a \in Agents, Deliver(a)
        PROVE  /\ UNCHANGED remote \/ Copies(a)
               /\ UNCHANGED <<branches, merged, found, overdue>>
    BY <1>8 DEF Deliver, PushBranch, Pushable, Copies
  <1>9. CASE SweepBranch \/ (\E t \in prs : Merge(t)) \/ (\E t \in DOMAIN dirs : DGrowOld(t))
    BY <1>9 DEF SweepBranch, Merge, DGrowOld
  <1> QED
    BY <1>2, <1>3, <1>4, <1>5, <1>6, <1>7, <1>8, <1>9 DEF DNext, gitVars

LEMMA BranchAdded ==
    ASSUME BranchMap(branches), NEW a \in Agents, tree[a] \in Trees,
           branches' = With(branches, tree[a], {})
    PROVE  /\ BranchMap(branches')
           /\ DOMAIN branches' = DOMAIN branches \cup {tree[a]}
           /\ branches'[tree[a]] = {}
           /\ \A u \in DOMAIN branches : u # tree[a] => branches'[u] = branches[u]
  BY DEF With, BranchMap

LEMMA BranchDropped ==
    ASSUME BranchMap(branches), NEW T, branches' = Without(branches, T)
    PROVE  /\ BranchMap(branches')
           /\ DOMAIN branches' = DOMAIN branches \ T
           /\ \A u \in DOMAIN branches' : branches'[u] = branches[u]
  BY DEF Without, BranchMap

LEMMA BranchExtended ==
    ASSUME BranchMap(branches), NEW a \in Agents, NEW i \in 1..MaxCommits,
           branches' = [branches EXCEPT ![tree[a]] = @ \cup {<<a, i>>}]
    PROVE  /\ BranchMap(branches')
           /\ DOMAIN branches' = DOMAIN branches
           /\ \A u \in DOMAIN branches :
                branches'[u] = IF u = tree[a] THEN branches[u] \cup {<<a, i>>}
                                              ELSE branches[u]
  <1>1. <<a, i>> \in Commits
    BY DEF Commits
  <1> QED
    BY <1>1 DEF BranchMap

LEMMA BranchCopied ==
    ASSUME BranchMap(branches), BranchMap(remote), NEW a \in Agents, Copies(a)
    PROVE  /\ BranchMap(remote')
           /\ DOMAIN remote' = DOMAIN remote \cup {tree[a]}
           /\ remote'[tree[a]] = branches[tree[a]]
           /\ \A u \in DOMAIN remote : u # tree[a] => remote'[u] = remote[u]
  BY DEF Copies, With, BranchMap

LEMMA GitTypeNext ==
    ASSUME TypeInv, BlankRows, GitTypeOK, [DNext]_allVars
    PROVE  GitTypeOK'
  <1>0. BranchMap(branches) /\ BranchMap(remote)
    BY DEF GitTypeOK, BranchMap
  <1>1. \A a \in Agents : Used(a) => tree[a] \in Trees
    BY DEF TypeInv
  <1>2. BranchMap(branches')
    <2>1. ASSUME NEW a \in Agents, AddsBranch(a)
          PROVE  BranchMap(branches')
      <3>1. tree[a] \in Trees
        BY <1>1, <2>1 DEF AddsBranch, Used
      <3> QED BY <1>0, <2>1, <3>1, BranchAdded, BranchDropped DEF AddsBranch
    <2>2. ASSUME NEW T, branches' = Without(branches, T)
          PROVE  BranchMap(branches')
      BY <1>0, <2>2, BranchDropped
    <2>3. ASSUME NEW a \in Agents, AddsCommit(a)
          PROVE  BranchMap(branches')
      BY <1>0, <2>3, BranchExtended DEF AddsCommit
    <2> QED BY <1>0, <2>1, <2>2, <2>3, GitSteps
  <1>3. ASSUME NEW a \in Agents, Copies(a)
        PROVE  BranchMap(remote') /\ DOMAIN remote' = DOMAIN remote \cup {tree[a]}
    BY <1>0, <1>3, BranchCopied
  <1>4. BranchMap(remote') /\ DOMAIN remote \subseteq DOMAIN remote'
    BY <1>0, <1>3, GitSteps
  <1>5. merged' \subseteq Commits
    <2>1. \A t \in prs : remote[t] \subseteq Commits
      BY DEF GitTypeOK
    <2> QED BY <2>1, GitSteps DEF GitTypeOK
  <1>6. prs' \subseteq DOMAIN remote'
    <2>1. ASSUME NEW a \in Agents, Deliver(a) \/ PushOwn(a)
          PROVE  prs' \subseteq DOMAIN remote'
      <3>1. CASE UNCHANGED <<remote, prs>>
        BY <3>1 DEF GitTypeOK
      <3>2. CASE Copies(a) /\ prs' \subseteq prs \cup {tree[a]}
        BY <1>3, <3>2 DEF GitTypeOK
      <3> QED
        BY <2>1, <3>1, <3>2 DEF Deliver, PushBranch, PushOwn, Pushable, Copies
    <2>2. CASE prs' \subseteq prs
      BY <1>4, <2>2 DEF GitTypeOK
    <2> QED
      BY <2>1, <2>2 DEF DNext, Elsewhere, BranchedTree, CleanupTree, Commit, DNotice,
                        DFinish, DRespawn, SweepBranch, Merge, DGrowOld, gitVars, allVars
  <1>7. found' \subseteq Agents /\ handled' \subseteq Agents /\ overdue' \subseteq Agents
    BY DEF DNext, Elsewhere, BranchedTree, CleanupTree, Commit, PushOwn, Deliver, DNotice,
           DFinish, DRespawn, SweepBranch, Merge, DGrowOld, gitVars, allVars, GitTypeOK
  <1> QED
    BY <1>2, <1>4, <1>5, <1>6, <1>7 DEF GitTypeOK, BranchMap

-----------------------------------------------------------------------------
(* Whose branches they are.                                                *)

LEMMA TreeIsAdded ==
    ASSUME TypeInv, [DNext]_allVars, NEW a \in Agents, at'[a] = "added", at[a] # "added"
    PROVE  BranchedTree(a)
  <1> USE DEF Goto, TypeInv, TypeOK
  <1>1. CASE Elsewhere
    <2>1. \A b \in Agents, n \in Names, hasBudget \in BOOLEAN : ~SpawnRow(b, n, hasBudget)
      BY DEF SpawnRow
    <2>2. \A b \in Agents : ~CountTrees(b) /\ ~DryRun(b) /\ ~Launch(b)
      BY DEF CountTrees, DryRun, Launch
    <2>3. \A b \in Agents : ~Activate(b) /\ ~ActivateContinuation(b) /\ ~ActivateFails(b)
      BY DEF Activate, ActivateContinuation, ActivateFails
    <2>4. ~Crash
      BY DEF Crash, Building
    <2>5. ~RowsStep
      BY RowsOnly
    <2>6. \/ \E b \in Agents : SaveCheckpoint(b) \/ Exit(b)
          \/ SweepBegin \/ SweepEnd
          \/ \E t \in sweep.todo : SweepLook(t)
      BY ONLY <1>1, <2>1, <2>2, <2>3, <2>4, <2>5 DEF Elsewhere, RowsStep
    <2> QED
      BY <2>6 DEF SaveCheckpoint, Exit, SweepBegin, SweepEnd, SweepLook
  <1>2. \A b \in Agents : b # a => ~BranchedTree(b)
    BY DEF BranchedTree, AddTree
  <1>3. \A b \in Agents : ~CleanupTree(b) /\ ~DFinish(b) /\ ~DNotice(b)
    BY DEF CleanupTree, Cleanup, DFinish, Finish, DNotice, Notice, NoticeFails
  <1>4. \A b, c \in Agents : ~DRespawn(b, c)
    BY DEF DRespawn, Respawn
  <1>5. CASE UNCHANGED at
    BY <1>5
  <1> QED
    BY <1>1, <1>2, <1>3, <1>4, <1>5
       DEF DNext, Commit, PushOwn, Deliver, SweepBranch, SweepRemove, Merge, DGrowOld,
           GrowOld, allVars, vars

\* An agent comes to be at work by the making of its worktree only.
LEMMA WorkBegins ==
    ASSUME PipeInv, [DNext]_allVars, NEW a \in Agents, AtWork(a)'
    PROVE  \/ AtWork(a) /\ tree'[a] = tree[a]
           \/ BranchedTree(a) /\ at'[a] = "added"
  <1>1. Progress(a)
    BY PipelineStep, TasksProgress DEF PipeInv
  <1>2. AtWork(a) => tree'[a] = tree[a]
    BY <1>1 DEF AtWork, Fresh, Progress, Used
  <1>3. CASE Live(a)'
    <2>1. proc[a] = "live" \/ at[a] = "added"
      BY <1>1, <1>3 DEF Progress, Live
    <2>2. proc[a] = "live" => at[a] \notin Fresh
      BY DEF PipeInv, TreeInv, TaskInv, BlankRows, Used, Fresh
    <2> QED BY <1>2, <2>1, <2>2 DEF AtWork, Working, Live, Building, Fresh
  <1>4. CASE at'[a] \in Watching \cup {"launched"}
    <2>1. at[a] \in Watching \cup {"added", "launched"}
      BY <1>1, <1>4 DEF Progress, Watching
    <2> QED BY <1>2, <2>1 DEF AtWork, Working, Building, Watching, Fresh
  <1>5. CASE at'[a] = "added" /\ at[a] # "added"
    BY <1>5, TreeIsAdded DEF PipeInv
  <1>6. CASE at[a] = "added"
    BY <1>2, <1>6 DEF AtWork, Working, Building, Fresh
  <1> QED
    BY <1>3, <1>4, <1>5, <1>6 DEF AtWork, Working, Building, Fresh

\* The agent whose worktree is being made has the name to itself.
LEMMA OwnName ==
    ASSUME PipeInv, NEW a \in Agents, at[a] = "counted", NEW b \in Agents, AtWork(b)
    PROVE  b # a /\ tree[b] # tree[a]
  <1>1. Working(a) /\ b # a
    BY DEF Working, Building, AtWork, Fresh
  <1> QED
    BY <1>1 DEF PipeInv, WorkInv, AtWork

LEMMA BranchNext ==
    ASSUME PipeInv, GitTypeOK, BranchInv, [DNext]_allVars
    PROVE  BranchInv'
  <1>0. /\ BranchMap(branches) /\ BranchMap(remote)
        /\ \A t \in DOMAIN branches : branches[t] \subseteq Commits
        /\ \A t \in DOMAIN remote : remote[t] \subseteq Commits
        /\ \A c \in Commits : c[1] \in Agents
    BY DEF GitTypeOK, Commits, BranchMap
  <1>1. \A t : \A c \in Commits : MadeBy(c, t) => MadeBy(c, t)'
    <2>1. \A b \in Agents : Progress(b)
      BY PipelineStep, TasksProgress DEF PipeInv
    <2> QED BY <1>0, <2>1 DEF MadeBy, Progress, Used, Fresh
  <1>2. /\ \A t \in DOMAIN branches : \A c \in branches[t] : MadeBy(c, t)'
        /\ \A t \in DOMAIN remote : \A c \in remote[t] : MadeBy(c, t)'
    BY <1>0, <1>1 DEF BranchInv
  <1>3. ASSUME NEW a \in Agents, BranchedTree(a), at'[a] = "added"
        PROVE  BranchInv'
    <2>1. /\ at[a] = "counted" /\ UNCHANGED <<tree, remote>>
          /\ branches' = With(branches, tree[a], {})
          /\ \A b \in Agents : b # a => at'[b] = at[b]
      BY <1>3 DEF BranchedTree, AddTree, Goto, PipeInv, TypeInv, TypeOK
    <2>2. tree[a] \in Trees
      BY <2>1 DEF PipeInv, TypeInv, Used
    <2>3. /\ DOMAIN branches' = DOMAIN branches \cup {tree[a]}
          /\ branches'[tree[a]] = {}
          /\ \A u \in DOMAIN branches : u # tree[a] => branches'[u] = branches[u]
      BY <1>0, <2>1, <2>2, BranchAdded
    <2>4. \A u \in DOMAIN branches' : \A c \in branches'[u] : MadeBy(c, u)'
      BY <1>2, <2>3
    <2>5. \A u \in DOMAIN remote : remote[u] \cap CommitsOf(a) = {}
      BY <2>1 DEF BranchInv, MadeBy, CommitsOf, Fresh
    <2>6. ASSUME NEW b \in Agents, AtWork(b)', tree'[b] \in DOMAIN branches', b # a
          PROVE  /\ branches'[tree'[b]] \subseteq CommitsOf(b)
                 /\ tree'[b] \in DOMAIN remote'
                      => remote'[tree'[b]] \cap CommitsOf(b) \subseteq branches'[tree'[b]]
      <3>1. AtWork(b)
        BY <2>1, <2>6, WorkBegins DEF BranchedTree, AddTree, Goto, PipeInv, TypeInv, TypeOK
      <3>2. tree[b] # tree[a]
        BY <2>1, <3>1, OwnName
      <3> QED BY <2>1, <2>3, <2>6, <3>1, <3>2 DEF BranchInv
    <2> QED BY <1>2, <2>1, <2>3, <2>4, <2>5, <2>6 DEF BranchInv, CommitsOf
  <1>4. ASSUME ~\E a \in Agents : BranchedTree(a) /\ at'[a] = "added"
        PROVE  BranchInv'
    <2>1. \A b \in Agents : AtWork(b)' => AtWork(b) /\ tree'[b] = tree[b]
      BY <1>4, WorkBegins
    <2>2. ASSUME NEW a \in Agents, AddsBranch(a), UNCHANGED remote
          PROVE  BranchInv'
      <3>1. tree[a] \in Trees
        BY <2>2 DEF AddsBranch, PipeInv, TypeInv, Used
      <3>2. /\ DOMAIN branches' \subseteq DOMAIN branches \cup {tree[a]}
            /\ tree[a] \in DOMAIN branches' => branches'[tree[a]] = {}
            /\ \A u \in DOMAIN branches' : u # tree[a] => branches'[u] = branches[u]
        <4>1. CASE branches' = With(branches, tree[a], {})
          <5>1. /\ DOMAIN branches' = DOMAIN branches \cup {tree[a]}
                /\ branches'[tree[a]] = {}
                /\ \A u \in DOMAIN branches : u # tree[a] => branches'[u] = branches[u]
            BY <1>0, <3>1, <4>1, BranchAdded
          <5> QED BY ONLY <5>1
        <4>2. CASE branches' = Without(branches, {tree[a]})
          <5>1. /\ DOMAIN branches' = DOMAIN branches \ {tree[a]}
                /\ \A u \in DOMAIN branches' : branches'[u] = branches[u]
            BY <1>0, <4>2, BranchDropped
          <5> QED BY ONLY <5>1
        <4> QED BY <2>2, <4>1, <4>2 DEF AddsBranch
      <3>3. \A b \in Agents : AtWork(b) => tree[b] # tree[a]
        BY <2>2, OwnName DEF AddsBranch
      <3>4. \A u \in DOMAIN branches' : \A c \in branches'[u] : MadeBy(c, u)'
        BY <1>2, <3>2
      <3> QED BY <1>2, <2>1, <2>2, <3>2, <3>3, <3>4 DEF BranchInv, CommitsOf
    <2>3. ASSUME NEW T, branches' = Without(branches, T), UNCHANGED remote
          PROVE  BranchInv'
      <3>1. /\ DOMAIN branches' = DOMAIN branches \ T
            /\ \A u \in DOMAIN branches' : branches'[u] = branches[u]
        BY <1>0, <2>3, BranchDropped
      <3> QED BY <1>2, <2>1, <2>3, <3>1 DEF BranchInv, CommitsOf
    <2>4. ASSUME NEW a \in Agents, AddsCommit(a), UNCHANGED remote
          PROVE  BranchInv'
      <3>1. PICK i \in 1..MaxCommits :
              branches' = [branches EXCEPT ![tree[a]] = @ \cup {<<a, i>>}]
        BY <2>4 DEF AddsCommit
      <3>2. /\ DOMAIN branches' = DOMAIN branches
            /\ \A u \in DOMAIN branches :
                 branches'[u] = IF u = tree[a] THEN branches[u] \cup {<<a, i>>}
                                               ELSE branches[u]
        BY <1>0, <3>1, BranchExtended
      <3>3. AtWork(a)
        BY <2>4 DEF AddsCommit, Live, AtWork, Working, Fresh, PipeInv, TreeInv, TaskInv, Used
      <3>4. <<a, i>> \in Commits /\ <<a, i>> \in CommitsOf(a) /\ MadeBy(<<a, i>>, tree[a])
        BY <3>3 DEF Commits, CommitsOf, MadeBy, AtWork
      <3>5. \A u \in DOMAIN branches' : \A c \in branches'[u] : MadeBy(c, u)'
        BY <1>1, <1>2, <3>2, <3>4
      <3>6. \A b \in Agents : AtWork(b) /\ tree[b] = tree[a] => b = a
        BY <3>3 DEF AtWork, PipeInv, WorkInv
      <3> QED BY <1>2, <2>1, <2>4, <3>2, <3>4, <3>5, <3>6 DEF BranchInv, CommitsOf
    <2>5. ASSUME NEW a \in Agents, Copies(a), UNCHANGED branches
          PROVE  BranchInv'
      <3>1. /\ tree[a] \in DOMAIN branches
            /\ DOMAIN remote' = DOMAIN remote \cup {tree[a]}
            /\ remote'[tree[a]] = branches[tree[a]]
            /\ \A u \in DOMAIN remote : u # tree[a] => remote'[u] = remote[u]
        BY <1>0, <2>5, BranchCopied DEF Copies
      <3>2. \A u \in DOMAIN remote' : \A c \in remote'[u] : MadeBy(c, u)'
        BY <1>2, <3>1
      <3> QED BY <1>2, <2>1, <2>5, <3>1, <3>2 DEF BranchInv, CommitsOf
    <2>6. ASSUME UNCHANGED <<branches, remote>>
          PROVE  BranchInv'
      BY <1>2, <2>1, <2>6 DEF BranchInv, CommitsOf
    <2>7. \/ \E a \in Agents : AddsBranch(a) /\ UNCHANGED remote
          \/ \E T : branches' = Without(branches, T) /\ UNCHANGED remote
          \/ \E a \in Agents : AddsCommit(a) /\ UNCHANGED remote
          \/ \E a \in Agents : Copies(a) /\ UNCHANGED branches
          \/ UNCHANGED <<branches, remote>>
      BY GitSteps DEF PipeInv
    <2> QED
      BY <2>2, <2>3, <2>4, <2>5, <2>6, <2>7
  <1> QED
    BY <1>3, <1>4

-----------------------------------------------------------------------------
(* What a watched agent keeps.                                             *)

\* Steps that age worktrees or choose one to remove.
LEMMA AgeSteps ==
    ASSUME TypeInv, [DNext]_allVars
    PROVE  /\ \/ old' \subseteq old
              \/ \E t : /\ old' = old \cup {t} /\ UNCHANGED at
                        /\ {a \in Agents : tree[a] = t /\ at[a] \in Watching} \subseteq overdue'
           /\ sweep'.doomed \subseteq sweep.doomed \cup old
  <1>1. \/ old' \subseteq old
        \/ \E t : /\ old' = old \cup {t} /\ UNCHANGED at
                  /\ {a \in Agents : tree[a] = t /\ at[a] \in Watching} \subseteq overdue'
    <2>1. CASE \E t \in DOMAIN dirs : DGrowOld(t)
      BY <2>1 DEF DGrowOld, GrowOld
    <2>2. CASE ~\E t \in DOMAIN dirs : DGrowOld(t)
      <3>1. UNCHANGED old \/ (\E a \in Agents : AddTree(a) \/ DryRun(a) \/ Cleanup(a))
              \/ SweepRemove
        <4>1. CASE RowsStep
          BY <4>1, RowsOnly
        <4>2. CASE ~RowsStep
          BY <2>2, <4>2
             DEF DNext, Elsewhere, BranchedTree, CleanupTree, Commit, PushOwn, DNotice,
                 Deliver, DFinish, DRespawn, SweepBranch, Merge, allVars, vars, RowsStep,
                 SpawnRow, CountTrees, Launch, Activate, ActivateContinuation,
                 ActivateFails, SaveCheckpoint, Exit, Notice, NoticeFails, Respawn,
                 Finish, SweepBegin, SweepEnd, SweepLook, Crash
        <4> QED BY <4>1, <4>2
      <3> QED BY <3>1 DEF AddTree, DryRun, Cleanup, SweepRemove, Remove
    <2> QED BY <2>1, <2>2
  <1>2. SweepStep \/ Crash \/ RowsStep \/ UNCHANGED sweep
    BY PipelineStep DEF Next, TaskStep, SpawnRow, CountTrees, AddTree, DryRun, Launch,
                        Activate, ActivateContinuation, ActivateFails, SaveCheckpoint,
                        Exit, Notice, NoticeFails, Respawn, Finish, Cleanup, RowsStep,
                        GrowOld, vars
  <1>3. sweep'.doomed \subseteq sweep.doomed \cup old
    <2>1. ASSUME NEW t \in sweep.todo, SweepLook(t)
          PROVE  sweep'.doomed \subseteq old
      BY <2>1 DEF SweepLook, TypeInv, TypeOK
    <2>2. CASE SweepBegin \/ SweepRemove \/ SweepEnd \/ Crash
      BY <2>2 DEF SweepBegin, SweepRemove, SweepEnd, Crash, NoSweep, TypeInv, TypeOK
    <2> QED BY <1>2, <2>1, <2>2, RowsOnly DEF SweepStep
  <1> QED
    BY <1>1, <1>3

\* Until the agent's end its worktree stays, unless the scan takes it.
LEMMA TreeStays ==
    ASSUME PipeInv, [DNext]_allVars, NEW a \in Agents,
           at[a] \in {"added", "launched", "watched"},
           at'[a] \in {"added", "launched", "watched"},
           tree[a] \in DOMAIN dirs, tree[a] \notin sweep.doomed
    PROVE  tree[a] \in DOMAIN dirs'
  <1>1. \A b \in Agents : Working(b) /\ b # a => tree[b] # tree[a]
    BY DEF PipeInv, WorkInv, Working, Building, Watching
  <1>2. ASSUME NEW b \in Agents, AddTree(b) \/ DryRun(b) \/ Cleanup(b)
        PROVE  tree[a] \in DOMAIN dirs'
    <2>1. b # a /\ Working(b)
      BY <1>2 DEF AddTree, DryRun, Cleanup, Goto, Working, Building, Watching, PipeInv,
                  TypeInv, TypeOK
    <2> QED BY <1>1, <1>2, <2>1 DEF AddTree, DryRun, Cleanup, Remove
  <1>3. CASE SweepRemove
    BY <1>3 DEF SweepRemove, Remove
  <1>4. CASE UNCHANGED dirs
    BY <1>4
  <1>5. CASE RowsStep
    BY <1>5, RowsOnly DEF PipeInv
  <1> QED
    BY <1>2, <1>3, <1>4, <1>5, PipelineStep
       DEF Next, TaskStep, SweepStep, SpawnRow, CountTrees, Launch, Activate,
           ActivateContinuation, ActivateFails, SaveCheckpoint, Exit, Notice, NoticeFails,
           Respawn, Finish, SweepBegin, SweepEnd, SweepLook, RowsStep, Crash, GrowOld, vars

LEMMA WatchNext ==
    ASSUME PipeInv, GitTypeOK, BranchInv, WatchInv, [DNext]_allVars
    PROVE  WatchInv'
  <1>0. BranchMap(branches) /\ overdue \subseteq overdue'
    BY GitSteps DEF GitTypeOK, BranchMap, PipeInv
  <1>1. \A b \in Agents : Progress(b)
    BY PipelineStep, TasksProgress DEF PipeInv
  <1>2. ASSUME NEW a \in Agents, at'[a] \in Watching,
               tree'[a] \in old' \cup sweep'.doomed
        PROVE  a \in overdue'
    <2>1. Used(a) /\ tree'[a] = tree[a] /\ at[a] \in Watching \cup {"launched"}
      BY <1>1, <1>2 DEF Progress, Used, Watching
    <2>2. CASE tree[a] \in old \cup sweep.doomed
      <3>1. at[a] \notin Building
        BY <2>2 DEF PipeInv, TreeInv, SweepInv
      <3> QED BY <1>0, <2>1, <2>2, <3>1 DEF WatchInv, Building
    <2>3. CASE tree[a] \notin old \cup sweep.doomed
      <3>1. PICK t : /\ old' = old \cup {t} /\ UNCHANGED at
                     /\ {b \in Agents : tree[b] = t /\ at[b] \in Watching} \subseteq overdue'
        BY <1>2, <2>1, <2>3, AgeSteps DEF PipeInv
      <3>2. sweep'.doomed \subseteq sweep.doomed \cup old
        BY AgeSteps DEF PipeInv
      <3> QED BY <1>2, <2>1, <2>3, <3>1, <3>2
    <2> QED BY <2>2, <2>3
  <1>3. ASSUME NEW a \in Agents, at'[a] \in {"added", "launched", "watched"},
               a \notin overdue'
        PROVE  tree'[a] \in DOMAIN dirs' \cap DOMAIN branches'
    <2>1. CASE BranchedTree(a)
      <3>1. /\ at[a] = "counted" /\ at'[a] # "failed" /\ UNCHANGED tree
            /\ tree[a] \in DOMAIN dirs'
        BY <1>3, <2>1 DEF BranchedTree, AddTree, Goto, PipeInv, TypeInv, TypeOK
      <3>2. tree[a] \in Trees
        BY <3>1 DEF PipeInv, TypeInv, Used
      <3>3. tree[a] \in DOMAIN branches'
        BY <1>0, <2>1, <3>1, <3>2, BranchAdded DEF BranchedTree
      <3> QED BY <3>1, <3>3
    <2>2. CASE ~BranchedTree(a)
      <3>1. at[a] \in {"added", "launched", "watched"} /\ tree'[a] = tree[a]
        <4>1. at'[a] = "added" => at[a] = "added"
          BY <2>2, TreeIsAdded DEF PipeInv
        <4> QED BY <1>1, <1>3, <4>1 DEF Progress, Used
      <3>2. a \notin overdue
        BY <1>0, <1>3
      <3>3. tree[a] \in DOMAIN dirs \cap DOMAIN branches
        BY <3>1, <3>2 DEF WatchInv
      <3>4. tree[a] \notin sweep.doomed
        <4>1. at[a] \in Building \/ at[a] \in Watching
          BY <3>1 DEF Building, Watching
        <4> QED BY <3>2, <4>1 DEF WatchInv, PipeInv, TreeInv, SweepInv
      <3>5. tree[a] \in DOMAIN dirs'
        BY <1>3, <3>1, <3>3, <3>4, TreeStays
      <3>6. tree[a] \in DOMAIN branches'
        <4>1. ASSUME NEW b \in Agents, AddsBranch(b)
              PROVE  tree[a] \in DOMAIN branches'
          <5>1. AtWork(a) /\ Used(b)
            BY <3>1, <4>1 DEF AddsBranch, AtWork, Working, Fresh, Building, Watching, Used
          <5>2. tree[b] # tree[a] /\ tree[b] \in Trees
            BY <4>1, <5>1, OwnName DEF AddsBranch, PipeInv, TypeInv
          <5>3. DOMAIN branches \ {tree[b]} \subseteq DOMAIN branches'
            BY <1>0, <4>1, <5>2, BranchAdded DEF AddsBranch, Without
          <5> QED BY <3>3, <5>2, <5>3
        <4>2. ASSUME NEW b \in Agents, AddsCommit(b)
              PROVE  tree[a] \in DOMAIN branches'
          BY <1>0, <3>3, <4>2, BranchExtended DEF AddsCommit
        <4>3. CASE branches' = Without(branches, sweep.doomed \cap DOMAIN dirs)
          BY <3>3, <3>4, <4>3 DEF Without
        <4> QED BY <3>3, <4>1, <4>2, <4>3, GitSteps DEF PipeInv
      <3> QED BY <3>1, <3>5, <3>6
    <2> QED BY <2>1, <2>2
  <1>4. ASSUME NEW a \in Agents, at'[a] \in Before
        PROVE  a \notin found'
    <2>1. at[a] \in Before /\ a \notin found
      BY <1>1, <1>4 DEF Progress, WatchInv
    <2>2. ASSUME NEW b \in Agents, DNotice(b)
          PROVE  a \notin found'
      <3>1. at'[b] = "written"
        BY <2>2 DEF DNotice, Notice, NoticeFails, Goto, PipeInv, TypeInv, TypeOK
      <3>2. b # a
        BY <1>4, <3>1 DEF Before, Fresh
      <3> QED BY <2>1, <2>2, <3>2 DEF DNotice
    <2>3. CASE UNCHANGED found
      BY <2>1, <2>3
    <2> QED
      BY <2>2, <2>3 DEF DNext, Elsewhere, BranchedTree, CleanupTree, Commit, PushOwn,
                        Deliver, DFinish, DRespawn, SweepBranch, Merge, DGrowOld, gitVars,
                        allVars
  <1> QED
    BY <1>2, <1>3, <1>4 DEF WatchInv

-----------------------------------------------------------------------------
(* What becomes of commits.                                                *)

LEMMA KeptMembers ==
    /\ \A c : c \in Kept <=> \/ c \in merged
                             \/ \E t \in DOMAIN branches : c \in branches[t]
                             \/ \E t \in DOMAIN remote : c \in remote[t]
    /\ \A c : c \in Kept' <=> \/ c \in merged'
                              \/ \E t \in DOMAIN branches' : c \in branches'[t]
                              \/ \E t \in DOMAIN remote' : c \in remote'[t]
  BY DEF Kept

\* No step loses a commit of an agent whose task is not over, unless its
\* worktree had got old.
LEMMA NothingLost ==
    ASSUME PipeInv, GitTypeOK, BranchInv, WatchInv, [DNext]_allVars,
           NEW a \in Agents, a \notin overdue, at[a] \notin TaskEnded
    PROVE  CommitsOf(a) \cap Kept \subseteq Kept'
  <1>0. BranchMap(branches) /\ BranchMap(remote)
    BY DEF GitTypeOK, BranchMap
  <1>1. \A t \in DOMAIN remote : \A c \in remote[t] : c \in Kept'
    <2>1. ASSUME NEW b \in Agents, Copies(b), NEW t \in DOMAIN remote, NEW c \in remote[t]
          PROVE  c \in Kept'
      <3>1. c \in remote'[t] /\ t \in DOMAIN remote'
        BY <1>0, <2>1, BranchCopied DEF Copies
      <3> QED BY <3>1, KeptMembers
    <2> QED BY <2>1, GitSteps, KeptMembers DEF PipeInv
  <1>2. merged \subseteq Kept'
    BY GitSteps, KeptMembers DEF PipeInv
  <1>3. ASSUME NEW t \in DOMAIN branches, NEW c \in branches[t], c \in CommitsOf(a)
        PROVE  t \in DOMAIN branches' /\ c \in branches'[t]
    <2>1. at[a] \notin Fresh /\ tree[a] = t /\ at[a] \in Building \cup Watching
      BY <1>3 DEF BranchInv, MadeBy, CommitsOf, Fresh, PipeInv, TypeInv, TypeOK
    <2>2. ASSUME NEW b \in Agents, AddsBranch(b)
          PROVE  t \in DOMAIN branches' /\ c \in branches'[t]
      <3>1. tree[b] # t /\ tree[b] \in Trees
        BY <2>1, <2>2, OwnName DEF AddsBranch, AtWork, Working, PipeInv, TypeInv, Used
      <3>2. CASE branches' = With(branches, tree[b], {})
        BY <1>0, <1>3, <3>1, <3>2, BranchAdded
      <3>3. CASE branches' = Without(branches, {tree[b]})
        BY <1>3, <3>1, <3>3 DEF Without
      <3> QED BY <2>2, <3>2, <3>3 DEF AddsBranch
    <2>3. ASSUME NEW b \in Agents, AddsCommit(b)
          PROVE  t \in DOMAIN branches' /\ c \in branches'[t]
      <3>1. PICK i \in 1..MaxCommits :
              branches' = [branches EXCEPT ![tree[b]] = @ \cup {<<b, i>>}]
        BY <2>3 DEF AddsCommit
      <3> QED BY <1>0, <1>3, <3>1, BranchExtended
    <2>4. CASE branches' = Without(branches, sweep.doomed \cap DOMAIN dirs)
      <3>1. t \notin sweep.doomed
        BY <2>1 DEF WatchInv, PipeInv, TreeInv, SweepInv
      <3> QED BY <1>3, <2>4, <3>1 DEF Without
    <2> QED BY <1>3, <2>2, <2>3, <2>4, GitSteps DEF PipeInv
  <1>4. \A t \in DOMAIN branches : CommitsOf(a) \cap branches[t] \subseteq Kept'
    BY <1>3, KeptMembers
  <1> QED
    BY <1>1, <1>2, <1>4, KeptMembers

\* Only the process makes commits of its agent.
LEMMA NothingGained ==
    ASSUME PipeInv, GitTypeOK, [DNext]_allVars, NEW a \in Agents, ~Live(a)
    PROVE  CommitsOf(a) \cap Kept' \subseteq Kept
  <1>0. BranchMap(branches) /\ BranchMap(remote)
    BY DEF GitTypeOK, BranchMap
  <1>1. ASSUME NEW t \in DOMAIN branches', NEW c \in branches'[t], c \in CommitsOf(a)
        PROVE  c \in Kept
    <2>1. ASSUME NEW b \in Agents, AddsBranch(b)
          PROVE  t \in DOMAIN branches /\ c \in branches[t]
      <3>1. tree[b] \in Trees
        BY <2>1 DEF AddsBranch, PipeInv, TypeInv, Used
      <3>2. CASE branches' = With(branches, tree[b], {})
        <4>1. /\ DOMAIN branches' = DOMAIN branches \cup {tree[b]}
              /\ branches'[tree[b]] = {}
              /\ \A u \in DOMAIN branches : u # tree[b] => branches'[u] = branches[u]
          BY <1>0, <3>1, <3>2, BranchAdded
        <4> QED BY <1>1, <4>1
      <3>3. CASE branches' = Without(branches, {tree[b]})
        BY <1>1, <3>3 DEF Without
      <3> QED BY <2>1, <3>2, <3>3 DEF AddsBranch
    <2>2. ASSUME NEW b \in Agents, AddsCommit(b)
          PROVE  t \in DOMAIN branches /\ c \in branches[t]
      <3>1. PICK i \in 1..MaxCommits :
              branches' = [branches EXCEPT ![tree[b]] = @ \cup {<<b, i>>}]
        BY <2>2 DEF AddsCommit
      <3>2. b # a
        BY <2>2 DEF AddsCommit
      <3>3. c # <<b, i>>
        BY <1>1, <3>2 DEF CommitsOf
      <3> QED BY <1>0, <1>1, <3>1, <3>3, BranchExtended
    <2>3. ASSUME NEW T, branches' = Without(branches, T)
          PROVE  t \in DOMAIN branches /\ c \in branches[t]
      BY <1>1, <2>3 DEF Without
    <2>4. t \in DOMAIN branches /\ c \in branches[t]
      BY <1>1, <2>1, <2>2, <2>3, GitSteps DEF PipeInv
    <2> QED BY <2>4, KeptMembers
  <1>2. ASSUME NEW t \in DOMAIN remote', NEW c \in remote'[t]
        PROVE  c \in Kept
    <2>1. ASSUME NEW b \in Agents, Copies(b)
          PROVE  c \in Kept
      <3>1. /\ tree[b] \in DOMAIN branches
            /\ t = tree[b] => c \in branches[tree[b]]
            /\ t # tree[b] => t \in DOMAIN remote /\ c \in remote[t]
        BY <1>0, <1>2, <2>1, BranchCopied DEF Copies
      <3> QED BY <3>1, KeptMembers
    <2> QED BY <1>2, <2>1, GitSteps, KeptMembers DEF PipeInv
  <1>3. merged' \subseteq Kept
    BY GitSteps, KeptMembers DEF GitTypeOK, PipeInv
  <1> QED
    BY <1>1, <1>2, <1>3, KeptMembers

\* What the monitor looks at when its agent ends tells what is Kept.
LEMMA NoticeIsRight ==
    ASSUME PipeInv, GitTypeOK, BranchInv, WatchInv, [DNext]_allVars,
           NEW a \in Agents, DNotice(a), a \notin overdue
    PROVE  IF a \in found' THEN CommitsOf(a) \cap Kept # {}
           ELSE CommitsOf(a) \cap Kept \subseteq merged
  <1>0. /\ BranchMap(branches) /\ at[a] = "watched"
        /\ \A t \in DOMAIN branches : branches[t] \subseteq Commits
    BY DEF DNotice, Notice, NoticeFails, GitTypeOK, BranchMap
  <1>1. Used(a) /\ a \notin found /\ tree[a] \in DOMAIN dirs \cap DOMAIN branches
    BY <1>0 DEF WatchInv, Before, Used
  <1>2. PICK known \in {{}, merged} :
          found' = IF NewCommits(tree[a], known) THEN found \cup {a} ELSE found
    BY DEF DNotice
  <1>3. /\ branches[tree[a]] \subseteq CommitsOf(a)
        /\ tree[a] \in DOMAIN remote
             => remote[tree[a]] \cap CommitsOf(a) \subseteq branches[tree[a]]
    BY <1>0, <1>1 DEF BranchInv, AtWork, Working, Fresh, Watching
  <1>4. CASE NewCommits(tree[a], known)
    <2>1. PICK c \in branches[tree[a]] : TRUE
      BY <1>4 DEF NewCommits
    <2>2. c \in CommitsOf(a) /\ c \in Kept
      BY <1>1, <1>3, <2>1, KeptMembers
    <2> QED BY <1>2, <1>4, <2>2
  <1>5. CASE ~NewCommits(tree[a], known)
    <2>1. branches[tree[a]] \subseteq merged
      BY <1>1, <1>5 DEF NewCommits
    <2>2. tree[a] \in DOMAIN remote => remote[tree[a]] \cap CommitsOf(a) \subseteq merged
      BY <1>3, <2>1
    <2>3. /\ \A t \in DOMAIN branches : \A c \in branches[t] \cap CommitsOf(a) : t = tree[a]
          /\ \A t \in DOMAIN remote : \A c \in remote[t] \cap CommitsOf(a) : t = tree[a]
      BY DEF BranchInv, MadeBy, CommitsOf
    <2>4. CommitsOf(a) \cap Kept \subseteq merged
      BY <2>1, <2>2, <2>3, KeptMembers
    <2> QED BY <1>1, <1>2, <1>5, <2>4
  <1> QED
    BY <1>4, <1>5

LEMMA EndIsNoticed ==
    ASSUME TypeInv, [DNext]_allVars, NEW a \in Agents, at'[a] = "written",
           at[a] # "written"
    PROVE  DNotice(a)
  <1> USE DEF Goto, TypeInv, TypeOK
  <1>1. CASE Elsewhere
    <2>1. \A b \in Agents, n \in Names, hasBudget \in BOOLEAN : ~SpawnRow(b, n, hasBudget)
      BY DEF SpawnRow
    <2>2. \A b \in Agents : ~CountTrees(b) /\ ~DryRun(b) /\ ~Launch(b)
      BY DEF CountTrees, DryRun, Launch
    <2>3. \A b \in Agents : ~Activate(b) /\ ~ActivateContinuation(b) /\ ~ActivateFails(b)
      BY DEF Activate, ActivateContinuation, ActivateFails
    <2>4. ~Crash
      BY DEF Crash
    <2>5. ~RowsStep
      BY RowsOnly
    <2>6. \/ \E b \in Agents : SaveCheckpoint(b) \/ Exit(b)
          \/ SweepBegin \/ SweepEnd
          \/ \E t \in sweep.todo : SweepLook(t)
      BY ONLY <1>1, <2>1, <2>2, <2>3, <2>4, <2>5 DEF Elsewhere, RowsStep
    <2> QED
      BY <2>6 DEF SaveCheckpoint, Exit, SweepBegin, SweepEnd, SweepLook
  <1>2. \A b \in Agents : b # a => ~DNotice(b)
    BY DEF DNotice, Notice, NoticeFails
  <1>3. \A b \in Agents : ~BranchedTree(b) /\ ~CleanupTree(b) /\ ~DFinish(b)
    BY DEF BranchedTree, AddTree, CleanupTree, Cleanup, DFinish, Finish
  <1>4. \A b, c \in Agents : ~DRespawn(b, c)
    BY DEF DRespawn, Respawn
  <1>5. CASE UNCHANGED at
    BY <1>5
  <1> QED
    BY <1>1, <1>2, <1>3, <1>4, <1>5
       DEF DNext, Commit, PushOwn, Deliver, SweepBranch, SweepRemove, Merge, DGrowOld,
           GrowOld, allVars, vars

LEMMA ReportNext ==
    ASSUME PipeInv, GitTypeOK, BranchInv, WatchInv, ReportInv, [DNext]_allVars
    PROVE  ReportInv'
  <1> SUFFICES ASSUME NEW a \in Agents, a \notin overdue', at'[a] = "written"
               PROVE  IF a \in found' THEN CommitsOf(a) \cap Kept' # {}
                      ELSE CommitsOf(a) \cap Kept' \subseteq merged'
    BY DEF ReportInv, CommitsOf
  <1>1. a \notin overdue /\ merged \subseteq merged'
    BY GitSteps DEF PipeInv
  <1>2. CASE DNotice(a)
    <2>1. IF a \in found' THEN CommitsOf(a) \cap Kept # {}
          ELSE CommitsOf(a) \cap Kept \subseteq merged
      BY <1>1, <1>2, NoticeIsRight
    <2>2. UNCHANGED <<branches, remote, merged>> /\ Kept' = Kept
      BY <1>2 DEF DNotice, Kept
    <2> QED BY <2>1, <2>2
  <1>3. CASE ~DNotice(a)
    <2>1. at[a] = "written" /\ (a \in found' <=> a \in found)
      <3>1. at[a] = "written"
        BY <1>3, EndIsNoticed DEF PipeInv
      <3>2. ASSUME NEW b \in Agents, DNotice(b)
            PROVE  a \in found' <=> a \in found
        BY <1>3, <3>2 DEF DNotice
      <3> QED
        BY <3>1, <3>2
           DEF DNext, Elsewhere, BranchedTree, CleanupTree, Commit, PushOwn, Deliver,
               DFinish, DRespawn, SweepBranch, Merge, DGrowOld, gitVars, allVars
    <2>2. ~Live(a) /\ at[a] \notin TaskEnded
      BY <2>1 DEF Live, TaskEnded, PipeInv, TreeInv, TaskInv
    <2>3. CommitsOf(a) \cap Kept \subseteq Kept' /\ CommitsOf(a) \cap Kept' \subseteq Kept
      BY <1>1, <2>2, NothingLost, NothingGained
    <2> QED BY <1>1, <2>1, <2>3 DEF ReportInv
  <1> QED
    BY <1>2, <1>3

LEMMA GitInvNext ==
    ASSUME GitInv, [DNext]_allVars, [FreeSpawns]_vars
    PROVE  GitInv'
  <1>1. PipeInv'
    BY PipelineStep, FreeSpawnsStep, PipeInvNext DEF GitInv
  <1> QED
    BY <1>1, GitTypeNext, BranchNext, WatchNext, ReportNext DEF GitInv, PipeInv

LEMMA GitInvHolds == DSpec /\ FreeNamesOnly => []GitInv
  <1>1. DInit => GitInv
    <2> SUFFICES ASSUME DInit PROVE GitInv
      OBVIOUS
    <2>1. PipeInv
      BY PipeInvInit DEF DInit
    <2>2. GitTypeOK
      BY DEF DInit, NoBranch, GitTypeOK
    <2>3. BranchInv
      BY DEF DInit, NoBranch, BranchInv
    <2>4. WatchInv /\ ReportInv
      BY DEF DInit, Init, NoSweep, WatchInv, ReportInv, Watching
    <2> QED BY <2>1, <2>2, <2>3, <2>4 DEF GitInv
  <1>2. GitInv /\ [DNext]_allVars /\ [FreeSpawns]_vars => GitInv'
    BY GitInvNext
  <1> QED
    BY <1>1, <1>2, FreeNamesStep, PTL DEF DSpec

-----------------------------------------------------------------------------
(* The theorems.                                                           *)

\* Branches and commits always have their types, whatever names are requested.
THEOREM GitTypeCorrect == DSpec => []GitTypeOK
  <1>1. DInit => TypeInv /\ BlankRows /\ GitTypeOK
    BY PipeInvInit DEF DInit, NoBranch, GitTypeOK, PipeInv
  <1>2. TypeInv /\ BlankRows /\ GitTypeOK /\ [DNext]_allVars
          => TypeInv' /\ BlankRows' /\ GitTypeOK'
    BY PipelineAssumption, PipelineStep, TypeNext, BlankNext, GitTypeNext
  <1> QED
    BY <1>1, <1>2, PTL DEF DSpec

\* Nobody's commits are lost before the agent's task is over, whoever removes
\* worktrees and branches, pushes, merges or fails meanwhile, unless the agent's
\* worktree got old first.  Names may be used again when they are free, also
\* those that still have a branch.
THEOREM CommitsOutliveTheirAgent == DSpec => (FreeNamesOnly => LostOnlyWhenOver)
  <1>1. GitInv /\ [DNext]_allVars
          => [\A a \in Agents \ overdue :
                CommitsOf(a) \cap Kept \subseteq Kept' \/ at[a] \in TaskEnded]_allVars
    BY NothingLost DEF GitInv
  <1> QED
    BY <1>1, GitInvHolds, PTL DEF DSpec, LostOnlyWhenOver

\* The plan is told the truth: what the monitor found out when the process had
\* ended still holds when it reports, however much later that is, and whatever
\* the last agent of the name has left on origin.
THEOREM ReportIsTrue == DSpec => (FreeNamesOnly => ReportTrue)
  <1>1. ASSUME GitInv, [DNext]_allVars, NEW a \in Agents \ overdue, a \in handled' \ handled
        PROVE  IF Report(a) = "submitted" THEN CommitsOf(a) \cap Kept # {}
               ELSE CommitsOf(a) \cap Kept \subseteq merged
    <2>1. at[a] = "written"
      BY <1>1 DEF DNext, Elsewhere, BranchedTree, CleanupTree, Commit, PushOwn, DNotice,
                  Deliver, DFinish, DRespawn, SweepBranch, Merge, DGrowOld, gitVars, allVars
    <2> QED BY <1>1, <2>1 DEF GitInv, ReportInv, Report
  <1>2. GitInv /\ [DNext]_allVars
          => [\A a \in Agents \ overdue :
                a \in handled' \ handled =>
                    IF Report(a) = "submitted" THEN CommitsOf(a) \cap Kept # {}
                    ELSE CommitsOf(a) \cap Kept \subseteq merged]_allVars
    BY <1>1
  <1> QED
    BY <1>2, GitInvHolds, PTL DEF DSpec, ReportTrue

\* With a name per request both hold, for such a name is always free.
COROLLARY DeliveryOncePerName ==
    ASSUME ReuseNames = FALSE
    PROVE  DSpec => LostOnlyWhenOver /\ ReportTrue
  BY OnceMeansFree, DeliveryUsesPipeline, CommitsOutliveTheirAgent, ReportIsTrue, PTL
=============================================================================
