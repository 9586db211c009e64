-------------------------- MODULE SpawnPipelineProofs --------------------------
(***************************************************************************)
(* Theorems about SpawnPipeline, for every number of agents and names,     *)
(* every quota and limit of respawns, and every bound on the faults; some  *)
(* as long as requests take only free names, or take each name once.       *)
(***************************************************************************)
EXTENDS SpawnPipelineProps, TLAPS, FiniteSetTheorems

Used(a) == at[a] # "unused"

\* The points of a task before its agent can be respawned.
Early == Building \cup {"watched", "written"}

\* A row that is not used yet is blank.
BlankRows ==
    \A a \in Agents : ~Used(a) => tree[a] = NoTree /\ proc[a] = "none"

\* Versions stay within max_respawns, no two agents have one worktree name,
\* and only the newest agent of a lineage may still be respawned.
LineageInv ==
    /\ \A a \in Agents : Used(a) => /\ tree[a].name \in Names
                                    /\ tree[a].version \in 0..MaxRespawns
    /\ \A a, b \in Agents : Used(a) /\ Used(b) /\ tree[a] = tree[b] => a = b
    /\ \A a, b \in Agents :
         at[a] \in Early /\ Used(b) /\ tree[b].name = tree[a].name
           => tree[b].version <= tree[a].version

\* What an agent's task has done so far: no process before the launch, no path
\* in the row while it is building, a dead process once the stage is written.
TaskInv ==
    \A a \in Agents :
        /\ at[a] \in {"row", "counted", "added"} => proc[a] = "none"
        /\ at[a] \in Building => a \notin located
        /\ at[a] \in {"written", "continued", "timer"} => proc[a] = "dead"
        /\ a \in located => Used(a)

\* Agent a works on a row that the scan has to heed.
Charge(a) == a \in located \ sweep.late /\ stage[a] \in Active /\ proc[a] = "live"

\* A scan cannot take the worktree of an agent that is being built, for it is
\* new; nor of one that works, for it was new or active when the scan began,
\* or made active again since.
SweepInv ==
    /\ ~sweep.on => sweep.todo = {} /\ sweep.doomed = {}
    /\ \A a \in Agents :
         /\ at[a] \in {"row", "counted"} => tree[a] \notin DOMAIN dirs \cup sweep.doomed
         /\ at[a] \in Building => tree[a] \notin old \cup sweep.doomed
         /\ Charge(a) =>
              /\ tree[a] \notin sweep.doomed
              /\ tree[a] \in sweep.todo \cap old => tree[a] \in sweep.active

-----------------------------------------------------------------------------
(* Types.                                                                  *)

\* The steps of those that know the rows only.
RowsStep == \/ KillAll \/ StopRows
            \/ \E d \in Loans, a \in Agents : Borrow(d, a)
            \/ \E w \in due : LoanWrite(w)

\* Rows in use name a worktree, and only they have a path.
TypeInv ==
    /\ TypeOK
    /\ \A a \in Agents : Used(a) => tree[a] \in Trees
    /\ \A a \in located : Used(a)

\* The values at may have beside "unused".
Points  == Building \cup Watching \cup TaskEnded
AtTypes == [Agents -> {"unused"} \cup Building \cup Watching \cup TaskEnded]

LEMMA GotoType ==
    ASSUME TypeInv, NEW a \in Agents, Used(a), NEW point \in Points, Goto(a, point)
    PROVE  /\ at' \in AtTypes
           /\ at'[a] = point
           /\ \A b \in Agents : b # a => at'[b] = at[b]
           /\ \A b \in Agents : Used(b)' <=> Used(b)
  BY DEF Goto, TypeInv, TypeOK, AtTypes, Points, Used, Building, Watching, TaskEnded

\* A task moves on and the disk changes, if at all, by a removal.
LEMMA TypeMoved ==
    ASSUME TypeInv, UNCHANGED <<parent, tree, located, funded, sweep, due>>,
           at' \in AtTypes,
           \A b \in Agents : Used(b)' <=> Used(b),
           stage' \in [Agents -> {"none", "ended"} \cup Active],
           proc' \in [Agents -> {"none", "live", "dead"}],
           saved' \subseteq Agents, faults' \in 0..MaxFaults,
           \/ UNCHANGED <<dirs, old>>
           \/ \E S : Remove(S)
    PROVE  TypeInv'
  <1>1. /\ DOMAIN dirs' \subseteq Trees
        /\ dirs' \in [DOMAIN dirs' -> Agents]
        /\ old' \subseteq DOMAIN dirs'
    BY DEF TypeInv, TypeOK, Remove
  <1>2. TypeOK'
    BY <1>1 DEF TypeInv, TypeOK, AtTypes
  <1> QED
    BY <1>2 DEF TypeInv, TypeOK, Used

LEMMA TypeTaskStep ==
    ASSUME PipelineAssumption, TypeInv, NEW a \in Agents, TaskStep(a) \/ DryRun(a)
    PROVE  TypeInv'
  <1> USE DEF Points, Building, Watching, TaskEnded
  <1>1. CASE CountTrees(a)
    BY <1>1, GotoType, TypeMoved DEF CountTrees, TypeInv, TypeOK, Used
  <1>2. CASE AddTree(a)
    <2>1. tree[a] \in Trees
      BY <1>2 DEF AddTree, TypeInv, Used
    <2>2. CASE Remove({tree[a]}) /\ Goto(a, "failed")
      BY <1>2, <2>2, GotoType, TypeMoved DEF AddTree, TypeInv, TypeOK, Used
    <2>3. CASE /\ dirs' = [t \in DOMAIN dirs \cup {tree[a]} |->
                             IF t = tree[a] THEN a ELSE dirs[t]]
               /\ old' = old \ {tree[a]}
               /\ \E point \in {"added", "failed"} : Goto(a, point)
      <3>1. PICK point \in {"added", "failed"} : Goto(a, point)
        BY <2>3
      <3>2. /\ at' \in AtTypes
            /\ \A b \in Agents : Used(b)' <=> Used(b)
        BY <1>2, <3>1, GotoType DEF AddTree, Used
      <3>3. /\ DOMAIN dirs' \subseteq Trees
            /\ dirs' \in [DOMAIN dirs' -> Agents]
            /\ old' \subseteq DOMAIN dirs'
        BY <2>1, <2>3 DEF TypeInv, TypeOK
      <3> QED
        BY <1>2, <3>2, <3>3 DEF AddTree, TypeInv, TypeOK, AtTypes
    <2> QED BY <1>2, <2>2, <2>3 DEF AddTree
  <1>3. CASE DryRun(a)
    BY <1>3, GotoType, TypeMoved DEF DryRun, TypeInv, TypeOK, Used
  <1>4. CASE Launch(a)
    BY <1>4, GotoType, TypeMoved DEF Launch, TypeInv, TypeOK, Used
  <1>5. CASE Activate(a) \/ ActivateContinuation(a)
    <2>1. /\ at' \in AtTypes
          /\ \A b \in Agents : Used(b)' <=> Used(b)
          /\ Used(a)
      BY <1>5, GotoType DEF Activate, ActivateContinuation, Used
    <2>2. stage' \in [Agents -> {"none", "ended"} \cup Active]
      BY <1>5 DEF Activate, ActivateContinuation, TypeInv, TypeOK, Active
    <2> QED
      BY <1>5, <2>1, <2>2
         DEF Activate, ActivateContinuation, TypeInv, TypeOK, AtTypes, Used
  <1>6. CASE Notice(a)
    BY <1>6, GotoType, TypeMoved DEF Notice, TypeInv, TypeOK, Used
  <1>7. ASSUME NEW c \in Agents, Respawn(a, c)
        PROVE  TypeInv'
    <2>1. /\ tree[a] \in Trees /\ a # c
          /\ at' = [at EXCEPT ![a] = "continued", ![c] = "row"]
      BY <1>7 DEF Respawn, TypeInv, Used
    <2>2. ContinuationTree(tree[a]) \in Trees
      BY <2>1 DEF ContinuationTree, Trees
    <2>3. tree' \in [Agents -> Trees \cup {NoTree}] /\ tree'[c] \in Trees
      BY <1>7, <2>2 DEF Respawn, TypeInv, TypeOK
    <2>4. \A b \in Agents : b # c => tree'[b] = tree[b]
      BY <1>7 DEF Respawn, TypeInv, TypeOK
    <2>5. stage' \in [Agents -> {"none", "ended"} \cup Active]
      BY <1>7 DEF Respawn, TypeInv, TypeOK, Active
    <2> QED
      BY <1>7, <2>1, <2>3, <2>4, <2>5 DEF Respawn, TypeInv, TypeOK, AtTypes, Used
  <1>8. CASE Finish(a)
    BY <1>8, GotoType, TypeMoved DEF Finish, TypeInv, TypeOK, Used
  <1>9. CASE Cleanup(a)
    BY <1>9, GotoType, TypeMoved DEF Cleanup, TypeInv, TypeOK, Used
  <1> QED
    BY <1>1, <1>2, <1>3, <1>4, <1>5, <1>6, <1>7, <1>8, <1>9 DEF TaskStep

LEMMA TypeSweepStep ==
    ASSUME TypeInv, SweepStep
    PROVE  TypeInv'
  <1>1. UNCHANGED <<at, stage, parent, tree, located, funded, saved, proc, faults, due>>
    BY DEF SweepStep, SweepBegin, SweepLook, SweepRemove, SweepEnd
  <1>2. ActivePaths \subseteq Trees
    BY DEF ActivePaths, TypeInv, TypeOK
  <1>3. sweep' \in [on : BOOLEAN, active : SUBSET Trees, todo : SUBSET Trees,
                    doomed : SUBSET Trees, late : SUBSET Agents]
    <2>1. CASE SweepBegin
      <3>1. In("repo") \subseteq Trees
        BY DEF In, TypeInv, TypeOK
      <3> QED BY <1>2, <2>1, <3>1 DEF SweepBegin
    <2>2. ASSUME NEW t \in sweep.todo, SweepLook(t)
          PROVE  sweep' \in [on : BOOLEAN, active : SUBSET Trees, todo : SUBSET Trees,
                              doomed : SUBSET Trees, late : SUBSET Agents]
      <3> DEFINE D == IF t \in old /\ t \notin sweep.active THEN {t} ELSE {}
      <3>1. sweep \in [on : BOOLEAN, active : SUBSET Trees, todo : SUBSET Trees,
                       doomed : SUBSET Trees, late : SUBSET Agents]
        BY DEF TypeInv, TypeOK
      <3>2. t \in Trees
        BY <3>1
      <3>3. D \subseteq Trees /\ sweep.todo \ {t} \subseteq Trees
        BY <3>1, <3>2
      <3>4. sweep' = [sweep EXCEPT !.todo = sweep.todo \ {t}, !.doomed = D]
        BY <2>2 DEF SweepLook
      <3> HIDE DEF D
      <3> QED BY <3>1, <3>3, <3>4
    <2>3. CASE SweepRemove
      BY <2>3 DEF SweepRemove, TypeInv, TypeOK
    <2>4. CASE SweepEnd
      BY <2>4 DEF SweepEnd, NoSweep, TypeInv, TypeOK
    <2> QED BY <2>1, <2>2, <2>3, <2>4 DEF SweepStep
  <1>4. /\ DOMAIN dirs' \subseteq Trees
        /\ dirs' \in [DOMAIN dirs' -> Agents]
        /\ old' \subseteq DOMAIN dirs'
    <2>1. UNCHANGED <<dirs, old>> \/ Remove(sweep.doomed)
      BY DEF SweepStep, SweepBegin, SweepLook, SweepRemove, SweepEnd
    <2> QED BY <2>1 DEF Remove, TypeInv, TypeOK
  <1>5. TypeOK'
    BY <1>1, <1>3, <1>4 DEF TypeInv, TypeOK
  <1> QED
    BY <1>1, <1>5 DEF TypeInv, Used

LEMMA TypeRowsStep ==
    ASSUME TypeInv, RowsStep
    PROVE  TypeInv'
  <1>1. ASSUME NEW S, EndRows(S)
        PROVE  TypeInv'
    <2>1. stage' \in [Agents -> {"none", "ended"} \cup Active]
      BY <1>1 DEF EndRows, TypeInv, TypeOK
    <2> QED BY <1>1, <2>1 DEF EndRows, TypeInv, TypeOK, Used
  <1>2. ASSUME NEW d \in Loans, NEW a \in Agents, Borrow(d, a)
        PROVE  TypeInv'
    <2>1. due' \subseteq [loan : Loans, agent : Agents, stage : {"borrowed", "running"}]
      BY <1>2 DEF Borrow, TypeInv, TypeOK
    <2> QED BY <1>2, <2>1 DEF Borrow, TypeInv, TypeOK, Used
  <1>3. ASSUME NEW w \in due, LoanWrite(w)
        PROVE  TypeInv'
    <2>1. w.agent \in Agents /\ w.stage \in Active
      BY DEF TypeInv, TypeOK, Active
    <2>2. stage' \in [Agents -> {"none", "ended"} \cup Active]
      BY <1>3, <2>1 DEF LoanWrite, TypeInv, TypeOK
    <2>3. sweep' \in [on : BOOLEAN, active : SUBSET Trees, todo : SUBSET Trees,
                      doomed : SUBSET Trees, late : SUBSET Agents]
      <3>1. sweep \in [on : BOOLEAN, active : SUBSET Trees, todo : SUBSET Trees,
                       doomed : SUBSET Trees, late : SUBSET Agents]
        BY DEF TypeInv, TypeOK
      <3>2. sweep.late \cup {w.agent} \subseteq Agents
        BY <2>1, <3>1
      <3> DEFINE L == sweep.late \cup {w.agent}
      <3>3. sweep' = sweep \/ sweep' = [sweep EXCEPT !.late = L]
        BY <1>3 DEF LoanWrite
      <3>4. L \subseteq Agents
        BY <3>2
      <3> HIDE DEF L
      <3> QED BY <3>1, <3>3, <3>4
    <2>4. due' \subseteq [loan : Loans, agent : Agents, stage : {"borrowed", "running"}]
      BY <1>3 DEF LoanWrite, TypeInv, TypeOK
    <2> QED BY <1>3, <2>2, <2>3, <2>4 DEF LoanWrite, TypeInv, TypeOK, Used
  <1> QED
    BY <1>1, <1>2, <1>3 DEF RowsStep, KillAll, StopRows

LEMMA TypeNext ==
    ASSUME PipelineAssumption, TypeInv, [Next]_vars
    PROVE  TypeInv'
  <1>1. ASSUME NEW a \in Agents, NEW n \in Names, NEW hasBudget \in BOOLEAN,
               SpawnRow(a, n, hasBudget)
        PROVE  TypeInv'
    <2>1. /\ at' = [at EXCEPT ![a] = "row"]
          /\ tree' = [tree EXCEPT ![a] = [name |-> n, version |-> 0]]
          /\ [name |-> n, version |-> 0] \in Trees
      BY <1>1 DEF SpawnRow, Goto, Trees
    <2>2. TypeOK'
      BY <1>1, <2>1 DEF SpawnRow, TypeInv, TypeOK, Building, Active
    <2> QED BY <1>1, <2>1, <2>2 DEF SpawnRow, TypeInv, TypeOK, Used
  <1>2. ASSUME NEW a \in Agents, TaskStep(a) \/ DryRun(a)
        PROVE  TypeInv'
    BY <1>2, TypeTaskStep
  <1>3. ASSUME NEW a \in Agents, SaveCheckpoint(a) \/ Exit(a)
        PROVE  TypeInv'
    BY <1>3 DEF SaveCheckpoint, Exit, TypeInv, TypeOK, Used
  <1>4. ASSUME NEW a \in Agents, ActivateFails(a) \/ NoticeFails(a)
        PROVE  TypeInv'
    <2>1. faults' \in 0..MaxFaults
      BY <1>4 DEF ActivateFails, NoticeFails, TypeInv, TypeOK, PipelineAssumption
    <2>2. \E point \in Points : Goto(a, point)
      BY <1>4 DEF ActivateFails, NoticeFails, Points, Building, Watching, TaskEnded
    <2> QED
      BY <1>4, <2>1, <2>2, GotoType, TypeMoved
         DEF ActivateFails, NoticeFails, TypeInv, TypeOK, AtTypes, Points, Used
  <1>5. CASE SweepStep
    BY <1>5, TypeSweepStep
  <1>6. CASE RowsStep
    BY <1>6, TypeRowsStep
  <1>7. ASSUME NEW t \in DOMAIN dirs, GrowOld(t)
        PROVE  TypeInv'
    BY <1>7 DEF GrowOld, TypeInv, TypeOK, Used
  <1>8. CASE Crash
    <2>1. faults' \in 0..MaxFaults
      BY <1>8 DEF Crash, TypeInv, TypeOK, PipelineAssumption
    <2>2. /\ at' \in AtTypes
          /\ \A b \in Agents : Used(b)' <=> Used(b)
      BY <1>8 DEF Crash, TypeInv, TypeOK, AtTypes, Used, Building, Watching, TaskEnded
    <2>3. TypeOK'
      BY <1>8, <2>1, <2>2 DEF Crash, NoSweep, TypeInv, TypeOK, AtTypes
    <2> QED
      BY <1>8, <2>2, <2>3 DEF Crash, TypeInv, TypeOK, Used
  <1>9. CASE UNCHANGED vars
    BY <1>9 DEF vars, TypeInv, TypeOK, Used
  <1> QED
    BY <1>1, <1>2, <1>3, <1>4, <1>5, <1>6, <1>7, <1>8, <1>9 DEF Next, RowsStep

LEMMA TypeInvHolds == Spec => []TypeInv
  <1>1. Init => TypeInv
    BY PipelineAssumption DEF Init, NoSweep, NoTree, TypeInv, TypeOK, Used,
                              PipelineAssumption
  <1>2. TypeInv /\ [Next]_vars => TypeInv'
    BY PipelineAssumption, TypeNext
  <1> QED
    BY <1>1, <1>2, PTL DEF Spec

\* Rows, tasks, worktrees and the scan always have their types, however the
\* names are chosen and whatever fails.
THEOREM PipelineTypeCorrect == Spec => []TypeOK
  <1>1. TypeInv => TypeOK
    BY DEF TypeInv
  <1> QED
    BY <1>1, TypeInvHolds, PTL

-----------------------------------------------------------------------------
(* Lineages.                                                               *)

NewRow == \/ \E a \in Agents, n \in Names, hasBudget \in BOOLEAN :
                SpawnRow(a, n, hasBudget)
          \/ \E a, c \in Agents : Respawn(a, c)

\* Every other step leaves the names alone and lets tasks only move on.
TasksMoveOn ==
    /\ UNCHANGED tree
    /\ \A b \in Agents : /\ Used(b)' <=> Used(b)
                         /\ at'[b] \in Early => at[b] \in Early
                         /\ ~Used(b) => proc'[b] = "none"
                         /\ Working(b)' => Working(b)

\* Those that know the rows only write stages, and the scan goes on as it was.
LEMMA RowsOnly ==
    ASSUME TypeInv, RowsStep
    PROVE  /\ UNCHANGED <<at, tree, located, proc, dirs, old>>
           /\ sweep'.on = sweep.on
           /\ sweep'.active = sweep.active
           /\ sweep'.todo = sweep.todo
           /\ sweep'.doomed = sweep.doomed
  <1>1. CASE \/ \E S : EndRows(S)
             \/ \E d \in Loans, a \in Agents : Borrow(d, a)
    BY <1>1 DEF EndRows, Borrow
  <1>2. ASSUME NEW w \in due, LoanWrite(w)
        PROVE  /\ UNCHANGED <<at, tree, located, proc, dirs, old>>
               /\ sweep'.on = sweep.on
               /\ sweep'.active = sweep.active
               /\ sweep'.todo = sweep.todo
               /\ sweep'.doomed = sweep.doomed
    BY <1>2 DEF LoanWrite, TypeInv, TypeOK
  <1> QED
    BY <1>1, <1>2 DEF RowsStep, KillAll, StopRows

LEMMA NoNewRow ==
    ASSUME TypeInv, BlankRows, [Next]_vars, ~NewRow
    PROVE  TasksMoveOn
  <1> USE DEF TasksMoveOn, BlankRows, Used, Working, Live
  <1>1. ASSUME UNCHANGED at, UNCHANGED tree, UNCHANGED proc
        PROVE  TasksMoveOn
    BY <1>1
  <1>2. ASSUME NEW a \in Agents, TaskStep(a) \/ DryRun(a)
        PROVE  TasksMoveOn
    <2> USE DEF Early, Building, Watching, TypeInv, TypeOK
    <2>1. \A c \in Agents : ~Respawn(a, c)
      BY <1>2 DEF NewRow
    <2>2. CASE CountTrees(a) \/ AddTree(a)
      BY <2>2 DEF CountTrees, AddTree, Goto
    <2>3. CASE DryRun(a) \/ Finish(a) \/ Cleanup(a)
      BY <2>3 DEF DryRun, Finish, Cleanup, Goto
    <2>4. CASE Launch(a) \/ Activate(a) \/ ActivateContinuation(a)
      BY <2>4 DEF Launch, Activate, ActivateContinuation, Goto
    <2>5. CASE Notice(a)
      BY <2>5 DEF Notice, Goto
    <2> QED BY <1>2, <2>1, <2>2, <2>3, <2>4, <2>5 DEF TaskStep
  <1>3. ASSUME NEW a \in Agents, SaveCheckpoint(a) \/ Exit(a)
        PROVE  TasksMoveOn
    BY <1>3 DEF SaveCheckpoint, Exit, TypeInv, TypeOK
  <1>4. ASSUME NEW a \in Agents, ActivateFails(a) \/ NoticeFails(a)
        PROVE  TasksMoveOn
    BY <1>4 DEF ActivateFails, NoticeFails, Goto, Early, Building, Watching,
                TypeInv, TypeOK
  <1>5. CASE SweepStep \/ RowsStep \/ \E t \in DOMAIN dirs : GrowOld(t)
    BY <1>1, <1>5, RowsOnly DEF SweepStep, SweepBegin, SweepLook, SweepRemove, SweepEnd,
                                GrowOld
  <1>6. CASE Crash
    BY <1>6 DEF Crash, Early, Building, Watching, TypeInv, TypeOK
  <1>7. CASE UNCHANGED vars
    BY <1>1, <1>7 DEF vars
  <1> QED
    BY <1>2, <1>3, <1>4, <1>5, <1>6, <1>7 DEF Next, NewRow, RowsStep

LEMMA LineageSpawn ==
    ASSUME PipelineAssumption, ReuseNames = FALSE, TypeInv, BlankRows, LineageInv,
           NEW a \in Agents, NEW n \in Names, NEW hasBudget \in BOOLEAN,
           SpawnRow(a, n, hasBudget)
    PROVE  BlankRows' /\ LineageInv'
  <1>1. /\ at'[a] = "row" /\ tree'[a] = [name |-> n, version |-> 0]
        /\ \A b \in Agents : b # a => at'[b] = at[b] /\ tree'[b] = tree[b]
        /\ UNCHANGED proc
        /\ ~Used(a)
        /\ \A b \in Agents : tree[b].name # n
    BY DEF SpawnRow, Goto, Used, TypeInv, TypeOK
  <1>2. 0 \in 0..MaxRespawns
    BY DEF PipelineAssumption
  <1>3. BlankRows'
    BY <1>1 DEF BlankRows, Used
  <1>4. LineageInv'
    BY <1>1, <1>2 DEF LineageInv, Used
  <1> QED
    BY <1>3, <1>4

LEMMA LineageRespawn ==
    ASSUME PipelineAssumption, TypeInv, BlankRows, LineageInv,
           NEW a \in Agents, NEW c \in Agents, Respawn(a, c)
    PROVE  BlankRows' /\ LineageInv'
  <1> DEFINE n == tree[a].name
             v == tree[a].version
  <1>1. /\ Used(a) /\ ~Used(c) /\ a # c /\ at[a] \in Early
        /\ at'[a] = "continued" /\ at'[c] = "row"
        /\ tree'[c] = [name |-> n, version |-> v + 1]
        /\ \A b \in Agents : b # c => tree'[b] = tree[b]
        /\ \A b \in Agents : b # a /\ b # c => at'[b] = at[b]
        /\ UNCHANGED proc
        /\ v < MaxRespawns
    BY DEF Respawn, ContinuationTree, MayRespawn, Used, Early, TypeInv, TypeOK
  <1>2. n \in Names /\ v \in 0..MaxRespawns /\ v + 1 \in 0..MaxRespawns
    BY <1>1 DEF LineageInv, PipelineAssumption
  <1>3. \A b \in Agents : Used(b) /\ tree[b].name = n =>
            tree[b].version \in 0..MaxRespawns /\ tree[b].version <= v
    BY <1>1 DEF LineageInv
  <1>4. BlankRows'
    BY <1>1 DEF BlankRows, Used
  <1>5. \A b \in Agents : Used(b)' <=> Used(b) \/ b = c
    BY <1>1 DEF Used
  <1>6. \A b \in Agents : Used(b)' => /\ tree'[b].name \in Names
                                      /\ tree'[b].version \in 0..MaxRespawns
    BY <1>1, <1>2, <1>5 DEF LineageInv
  <1>7. \A b \in Agents : Used(b) => tree[b] # tree'[c]
    BY <1>1, <1>2, <1>3
  <1>8. \A b, e \in Agents : Used(b)' /\ Used(e)' /\ tree'[b] = tree'[e] => b = e
    BY <1>1, <1>5, <1>7 DEF LineageInv
  <1>9. ASSUME NEW b \in Agents, NEW e \in Agents, at'[b] \in Early, Used(e)',
               tree'[e].name = tree'[b].name
        PROVE  tree'[e].version <= tree'[b].version
    <2>1. b # a
      BY <1>1, <1>9 DEF Early, Building
    <2>2. CASE b = c
      BY <1>1, <1>2, <1>3, <1>5, <1>9, <2>2
    <2>3. CASE b # c /\ e # c
      BY <1>1, <1>5, <1>9, <2>1, <2>3 DEF LineageInv
    <2>4. CASE b # c /\ e = c
      <3>1. Used(b) /\ at[b] \in Early /\ tree[b].name = n
        BY <1>1, <1>9, <2>1, <2>4 DEF Used, Early, Building
      <3>2. tree[b].version <= v /\ v <= tree[b].version
        BY <1>1, <1>3, <3>1 DEF LineageInv
      <3>3. tree[b] \in Trees /\ tree[a] \in Trees
        BY <1>1, <3>1 DEF TypeInv
      <3>4. tree[b] = tree[a]
        BY <3>1, <3>2, <3>3 DEF Trees
      <3> QED BY <1>1, <2>1, <3>1, <3>4 DEF LineageInv
    <2> QED BY <2>2, <2>3, <2>4
  <1>10. LineageInv'
    BY <1>6, <1>8, <1>9 DEF LineageInv
  <1> QED
    BY <1>4, <1>10

LEMMA LineageNext ==
    ASSUME PipelineAssumption, ReuseNames = FALSE, TypeInv, BlankRows, LineageInv,
           [Next]_vars
    PROVE  BlankRows' /\ LineageInv'
  <1>1. CASE NewRow
    BY <1>1, LineageSpawn, LineageRespawn DEF NewRow
  <1>2. CASE ~NewRow
    BY <1>2, NoNewRow DEF TasksMoveOn, BlankRows, LineageInv
  <1> QED
    BY <1>1, <1>2

\* Different versions within max_respawns: that bounds the lineage.
LEMMA LineageCount ==
    ASSUME PipelineAssumption, TypeInv, BlankRows, LineageInv
    PROVE  LineageBounded
  <1> SUFFICES ASSUME NEW n \in Names
               PROVE  Cardinality({a \in Agents : tree[a].name = n})
                        <= MaxRespawns + 1
    BY DEF LineageBounded
  <1> DEFINE S == {a \in Agents : tree[a].name = n}
             f == [a \in S |-> tree[a].version]
  <1>1. \A a \in S : Used(a)
    BY DEF BlankRows, NoTree, PipelineAssumption
  <1>2. f \in [S -> 0..MaxRespawns]
    BY <1>1 DEF LineageInv
  <1>3. ASSUME NEW a \in S, NEW b \in S, f[a] = f[b]
        PROVE  a = b
    <2>1. tree[a] \in Trees /\ tree[b] \in Trees
      BY <1>1 DEF TypeInv
    <2>2. tree[a] = tree[b]
      BY <1>3, <2>1 DEF Trees
    <2> QED BY <1>1, <2>2 DEF LineageInv
  <1>4. f \in Injection(S, 0..MaxRespawns)
    BY <1>2, <1>3 DEF Injection, IsInjective
  <1>5. /\ IsFiniteSet(0..MaxRespawns)
        /\ Cardinality(0..MaxRespawns) = MaxRespawns + 1
    BY FS_Interval DEF PipelineAssumption
  <1>6. Cardinality(S) <= Cardinality(0..MaxRespawns)
    BY <1>4, <1>5, FS_Injection
  <1> QED
    BY <1>5, <1>6

LEMMA LineageInvHolds ==
    ASSUME ReuseNames = FALSE
    PROVE  Spec => [](TypeInv /\ BlankRows /\ LineageInv)
  <1>1. Init => BlankRows /\ LineageInv
    BY DEF Init, BlankRows, LineageInv, Used, Early, Building
  <1>2. TypeInv /\ BlankRows /\ LineageInv /\ [Next]_vars
          => BlankRows' /\ LineageInv'
    BY PipelineAssumption, LineageNext
  <1> QED
    BY <1>1, <1>2, TypeInvHolds, PTL DEF Spec

\* With a name per request, one request leads to at most max_respawns
\* continuations, for any number of agents, whatever processes and daemon do.
THEOREM LineageIsBounded ==
    ASSUME ReuseNames = FALSE
    PROVE  Spec => []LineageBounded
  <1>1. TypeInv /\ BlankRows /\ LineageInv => LineageBounded
    BY PipelineAssumption, LineageCount
  <1> QED
    BY <1>1, LineageInvHolds, PTL

-----------------------------------------------------------------------------
(* Who works under a name.                                                 *)

\* No two agents that work have one worktree, and an agent that may still be
\* respawned has the highest version of its name at work, on disk, or in the
\* reaper's hand.
WorkInv ==
    /\ \A a, b \in Agents : Working(a) /\ Working(b) /\ tree[a] = tree[b] => a = b
    /\ \A a, b \in Agents :
         at[a] \in Early /\ Working(b) /\ tree[b].name = tree[a].name
           => tree[b].version <= tree[a].version
    /\ \A a \in Agents, t \in DOMAIN dirs \cup sweep.doomed :
         at[a] \in Early /\ t.name = tree[a].name => t.version <= tree[a].version

\* Every worktree that exists, or that a scan has listed, was made for an agent.
KnownTrees ==
    \A t \in DOMAIN dirs \cup sweep.todo \cup sweep.doomed :
        \E a \in Agents : Used(a) /\ tree[a] = t

\* A new row names a worktree that neither the disk nor the scan's hand has.
NewRowIsNew ==
    \A c \in Agents : ~Used(c) /\ Used(c)' => tree'[c] \notin DOMAIN dirs \cup sweep.doomed

FreeSpawns == \A a \in Agents, n \in Names, hasBudget \in BOOLEAN :
                 SpawnRow(a, n, hasBudget) => NameFree(n)

LEMMA WhoWorks ==
    ASSUME TypeInv, BlankRows, NEW a \in Agents
    PROVE  /\ at[a] \in Early => Working(a)
           /\ Working(a) => Used(a) /\ tree[a] \in Trees
  BY DEF Working, Live, Early, Building, Watching, Used, BlankRows, TypeInv

\* Only AddTree adds to the disk and to what a scan has listed or doomed.
LEMMA DiskGrows ==
    ASSUME TypeInv, [Next]_vars
    PROVE  /\ \A t \in DOMAIN dirs' \cup sweep'.doomed :
                \/ t \in DOMAIN dirs \cup sweep.doomed
                \/ \E a \in Agents : AddTree(a) /\ t = tree[a]
           /\ \A t \in sweep'.todo : t \in DOMAIN dirs \cup sweep.todo
  <1> DEFINE Goal == /\ \A t \in DOMAIN dirs' \cup sweep'.doomed :
                          \/ t \in DOMAIN dirs \cup sweep.doomed
                          \/ \E a \in Agents : AddTree(a) /\ t = tree[a]
                     /\ \A t \in sweep'.todo : t \in DOMAIN dirs \cup sweep.todo
  <1>1. ASSUME DOMAIN dirs' \subseteq DOMAIN dirs, UNCHANGED sweep
        PROVE  Goal
    BY <1>1
  <1>2. ASSUME NEW a \in Agents, AddTree(a)
        PROVE  Goal
    <2>1. DOMAIN dirs' \subseteq DOMAIN dirs \cup {tree[a]} /\ UNCHANGED sweep
      BY <1>2 DEF AddTree, Remove
    <2> QED BY <1>2, <2>1
  <1>3. ASSUME SweepStep
        PROVE  Goal
    <2>1. CASE SweepBegin
      BY <2>1 DEF SweepBegin, In
    <2>2. ASSUME NEW t \in sweep.todo, SweepLook(t)
          PROVE  Goal
      <3>1. /\ UNCHANGED dirs
            /\ sweep'.todo \subseteq sweep.todo
            /\ sweep'.doomed \subseteq DOMAIN dirs
        BY <2>2 DEF SweepLook, TypeInv, TypeOK
      <3> QED BY <3>1
    <2>3. CASE SweepRemove \/ SweepEnd
      BY <2>3 DEF SweepRemove, SweepEnd, Remove, NoSweep, TypeInv, TypeOK
    <2> QED BY <1>3, <2>1, <2>2, <2>3 DEF SweepStep
  <1>4. ASSUME Crash
        PROVE  Goal
    BY <1>4 DEF Crash, NoSweep
  <1>5. ASSUME NEW a \in Agents, TaskStep(a) \/ DryRun(a), ~AddTree(a)
        PROVE  DOMAIN dirs' \subseteq DOMAIN dirs /\ UNCHANGED sweep
    BY <1>5 DEF TaskStep, DryRun, CountTrees, Launch, Activate, ActivateContinuation,
                Notice, Respawn, Finish, Cleanup, Remove
  <1>6. ASSUME \/ \E a \in Agents, n \in Names, hasBudget \in BOOLEAN :
                    SpawnRow(a, n, hasBudget)
               \/ \E a \in Agents : SaveCheckpoint(a) \/ Exit(a) \/ ActivateFails(a)
                                    \/ NoticeFails(a)
               \/ UNCHANGED vars \/ \E t \in DOMAIN dirs : GrowOld(t)
        PROVE  DOMAIN dirs' \subseteq DOMAIN dirs /\ UNCHANGED sweep
    BY <1>6 DEF SpawnRow, SaveCheckpoint, Exit, ActivateFails, NoticeFails, GrowOld,
                vars
  <1>7. ASSUME RowsStep
        PROVE  Goal
    BY <1>7, RowsOnly
  <1> HIDE DEF Goal
  <1>8. Goal
    BY <1>1, <1>2, <1>3, <1>4, <1>5, <1>6, <1>7 DEF Next, RowsStep
  <1> QED
    BY <1>8 DEF Goal

LEMMA WorkSpawn ==
    ASSUME PipelineAssumption, TypeInv, BlankRows, WorkInv,
           NEW a \in Agents, NEW n \in Names, NEW hasBudget \in BOOLEAN,
           SpawnRow(a, n, hasBudget), NameFree(n)
    PROVE  BlankRows' /\ WorkInv' /\ NewRowIsNew
  <1>1. /\ at'[a] = "row" /\ tree'[a] = [name |-> n, version |-> 0]
        /\ \A b \in Agents : b # a => at'[b] = at[b] /\ tree'[b] = tree[b]
        /\ UNCHANGED <<proc, dirs, sweep>>
        /\ ~Used(a)
    BY DEF SpawnRow, Goto, Used, TypeInv, TypeOK
  <1>2. \A b \in Agents : b # a => (Working(b)' <=> Working(b)) /\ (Used(b)' <=> Used(b))
    BY <1>1 DEF Working, Live, Used
  <1>3. \A b \in Agents : Working(b) => tree[b].name # n
    BY DEF NameFree
  <1>4. \A b \in Agents : b # a /\ (at[b] \in Early \/ Working(b)) =>
            Working(b) /\ tree[b].name # n
    BY <1>3, WhoWorks
  <1>5. \A t \in DOMAIN dirs \cup sweep.doomed : t.name # n
    BY DEF NameFree
  <1>6. BlankRows'
    BY <1>1, <1>2 DEF BlankRows, Used
  <1>7. WorkInv'
    <2>1. \A b, c \in Agents : Working(b)' /\ Working(c)' /\ tree'[b] = tree'[c] => b = c
      BY <1>1, <1>2, <1>4 DEF WorkInv
    <2>2. \A b, c \in Agents :
            at'[b] \in Early /\ Working(c)' /\ tree'[c].name = tree'[b].name
              => tree'[c].version <= tree'[b].version
      BY <1>1, <1>2, <1>4 DEF WorkInv
    <2>3. \A b \in Agents, t \in DOMAIN dirs' \cup sweep'.doomed :
            at'[b] \in Early /\ t.name = tree'[b].name => t.version <= tree'[b].version
      BY <1>1, <1>5 DEF WorkInv
    <2> QED BY <2>1, <2>2, <2>3 DEF WorkInv
  <1>8. NewRowIsNew
    BY <1>1, <1>2, <1>5 DEF NewRowIsNew
  <1> QED
    BY <1>6, <1>7, <1>8

LEMMA WorkRespawn ==
    ASSUME PipelineAssumption, TypeInv, BlankRows, WorkInv,
           NEW a \in Agents, NEW c \in Agents, Respawn(a, c)
    PROVE  BlankRows' /\ WorkInv' /\ NewRowIsNew
  <1> DEFINE n == tree[a].name
             v == tree[a].version
  <1>1. /\ Used(a) /\ ~Used(c) /\ a # c /\ at[a] \in Early
        /\ at'[a] = "continued" /\ at'[c] = "row"
        /\ tree'[c] = [name |-> n, version |-> v + 1]
        /\ \A b \in Agents : b # c => tree'[b] = tree[b]
        /\ \A b \in Agents : b # a /\ b # c => at'[b] = at[b]
        /\ UNCHANGED <<proc, dirs, sweep>>
    BY DEF Respawn, ContinuationTree, Used, Early, TypeInv, TypeOK
  <1>2. Working(a) /\ tree[a] \in Trees /\ v \in Nat
    BY <1>1, WhoWorks DEF Trees
  <1>3. \A b \in Agents : b # c => (Working(b)' => Working(b))
    BY <1>1, <1>2 DEF Working, Live
  <1>4. \A b \in Agents : b # c => (Used(b)' <=> Used(b))
    BY <1>1 DEF Used
  <1>5. \A b \in Agents : Working(b) => tree[b] \in Trees /\ tree[b].version \in Nat
    BY WhoWorks DEF Trees
  <1>6. \A b \in Agents : Working(b) /\ tree[b].name = n => tree[b].version <= v
    BY <1>1 DEF WorkInv
  <1>7. \A t \in DOMAIN dirs \cup sweep.doomed :
            t.name = n => t.version <= v /\ t.version \in Nat
    <2>1. DOMAIN dirs \cup sweep.doomed \subseteq Trees
      BY DEF TypeInv, TypeOK
    <2> QED BY <1>1, <2>1 DEF WorkInv, Trees
  <1>8. \A b \in Agents : b # c /\ at'[b] \in Early => /\ at[b] \in Early
                                                       /\ Working(b)
                                                       /\ tree[b].name # n
    <2> SUFFICES ASSUME NEW b \in Agents, b # c, at'[b] \in Early
                 PROVE  at[b] \in Early /\ Working(b) /\ tree[b].name # n
      OBVIOUS
    <2>1. b # a /\ at[b] \in Early
      BY <1>1 DEF Early, Building
    <2>2. Working(b)
      BY <2>1, WhoWorks
    <2>3. tree[b].name # n
      <3> SUFFICES ASSUME tree[b].name = n PROVE FALSE
        OBVIOUS
      <3>1. tree[b].version <= v /\ v <= tree[b].version
        BY <1>2, <1>6, <2>1, <2>2 DEF WorkInv
      <3>2. tree[b] = tree[a]
        BY <1>2, <1>5, <2>2, <3>1 DEF Trees
      <3> QED BY <1>2, <2>1, <2>2, <3>2 DEF WorkInv
    <2> QED BY <2>1, <2>2, <2>3
  <1>9. BlankRows'
    BY <1>1, <1>4 DEF BlankRows, Used
  <1>10. \A b, e \in Agents : Working(b)' /\ Working(e)' /\ tree'[b] = tree'[e] => b = e
    <2>1. \A b \in Agents : b # c /\ Working(b)' => tree[b] # tree'[c]
      BY <1>1, <1>2, <1>3, <1>5, <1>6
    <2> QED BY <1>1, <1>3, <2>1 DEF WorkInv
  <1>11. \A b, e \in Agents :
            at'[b] \in Early /\ Working(e)' /\ tree'[e].name = tree'[b].name
              => tree'[e].version <= tree'[b].version
    <2> SUFFICES ASSUME NEW b \in Agents, NEW e \in Agents, at'[b] \in Early,
                        Working(e)', tree'[e].name = tree'[b].name
                 PROVE  tree'[e].version <= tree'[b].version
      OBVIOUS
    <2>1. CASE b # c
      <3>1. at[b] \in Early /\ tree[b].name # n /\ tree'[b] = tree[b]
        BY <1>1, <1>8, <2>1
      <3>2. e # c
        BY <1>1, <3>1
      <3> QED BY <1>1, <1>3, <3>1, <3>2 DEF WorkInv
    <2>2. CASE b = c /\ e # c
      <3>1. tree[e].version <= v /\ tree[e].version \in Nat
        BY <1>1, <1>3, <1>5, <1>6, <2>2
      <3> QED BY <1>1, <1>2, <2>2, <3>1
    <2>3. CASE b = c /\ e = c
      BY <1>1, <1>2, <2>3
    <2> QED BY <2>1, <2>2, <2>3
  <1>12. \A b \in Agents, t \in DOMAIN dirs' \cup sweep'.doomed :
            at'[b] \in Early /\ t.name = tree'[b].name => t.version <= tree'[b].version
    <2> SUFFICES ASSUME NEW b \in Agents, NEW t \in DOMAIN dirs \cup sweep.doomed,
                        at'[b] \in Early, t.name = tree'[b].name
                 PROVE  t.version <= tree'[b].version
      BY <1>1
    <2>1. CASE b # c
      BY <1>1, <1>8, <2>1 DEF WorkInv
    <2>2. CASE b = c
      BY <1>1, <1>2, <1>7, <2>2
    <2> QED BY <2>1, <2>2
  <1>13. NewRowIsNew
    <2>1. tree'[c] \notin DOMAIN dirs \cup sweep.doomed
      BY <1>1, <1>2, <1>7
    <2> QED BY <1>1, <1>4, <2>1 DEF NewRowIsNew
  <1> QED
    BY <1>9, <1>10, <1>11, <1>12, <1>13 DEF WorkInv

LEMMA WorkNext ==
    ASSUME PipelineAssumption, TypeInv, BlankRows, WorkInv, [Next]_vars, FreeSpawns
    PROVE  BlankRows' /\ WorkInv' /\ NewRowIsNew
  <1>1. CASE NewRow
    BY <1>1, WorkSpawn, WorkRespawn DEF NewRow, FreeSpawns
  <1>2. CASE ~NewRow
    <2>1. TasksMoveOn
      BY <1>2, NoNewRow
    <2>2. BlankRows' /\ NewRowIsNew
      BY <2>1 DEF TasksMoveOn, BlankRows, NewRowIsNew
    <2>3. ASSUME NEW a \in Agents, NEW t \in DOMAIN dirs' \cup sweep'.doomed,
                 at'[a] \in Early, t.name = tree'[a].name
          PROVE  t.version <= tree'[a].version
      <3>1. at[a] \in Early /\ tree'[a] = tree[a]
        BY <2>1, <2>3 DEF TasksMoveOn
      <3>2. CASE t \in DOMAIN dirs \cup sweep.doomed
        BY <2>3, <3>1, <3>2 DEF WorkInv
      <3>3. ASSUME NEW b \in Agents, AddTree(b), t = tree[b]
            PROVE  t.version <= tree'[a].version
        <4>1. Working(b)
          BY <3>3 DEF AddTree, Working, Building
        <4> QED BY <2>3, <3>1, <3>3, <4>1 DEF WorkInv
      <3> QED BY <3>2, <3>3, DiskGrows
    <2>4. WorkInv'
      BY <2>1, <2>3 DEF TasksMoveOn, WorkInv
    <2> QED BY <2>2, <2>4
  <1> QED
    BY <1>1, <1>2

LEMMA BlankNext ==
    ASSUME TypeInv, BlankRows, [Next]_vars
    PROVE  BlankRows'
  <1>1. CASE NewRow
    BY <1>1 DEF NewRow, SpawnRow, Respawn, Goto, BlankRows, Used, TypeInv, TypeOK
  <1>2. CASE ~NewRow
    BY <1>2, NoNewRow DEF TasksMoveOn, BlankRows
  <1> QED
    BY <1>1, <1>2

\* Rows stay, and keep the name of their worktree.
LEMMA KnownNext ==
    ASSUME TypeInv, BlankRows, KnownTrees, [Next]_vars
    PROVE  KnownTrees'
  <1>1. \A a \in Agents : Used(a) => Used(a)' /\ tree'[a] = tree[a]
    <2>1. CASE NewRow
      BY <2>1 DEF NewRow, SpawnRow, Respawn, Goto, Used, TypeInv, TypeOK
    <2>2. CASE ~NewRow
      BY <2>2, NoNewRow DEF TasksMoveOn
    <2> QED BY <2>1, <2>2
  <1> SUFFICES ASSUME NEW t \in DOMAIN dirs' \cup sweep'.todo \cup sweep'.doomed
               PROVE  \E a \in Agents : Used(a)' /\ tree'[a] = t
    BY DEF KnownTrees
  <1>2. CASE t \in DOMAIN dirs \cup sweep.todo \cup sweep.doomed
    BY <1>1, <1>2 DEF KnownTrees
  <1>3. ASSUME NEW a \in Agents, AddTree(a), t = tree[a]
        PROVE  \E b \in Agents : Used(b)' /\ tree'[b] = t
    BY <1>1, <1>3 DEF AddTree, Used
  <1> QED
    BY <1>2, <1>3, DiskGrows

\* A name that is never requested twice is free when it is requested.
LEMMA OnceIsFree ==
    ASSUME ReuseNames = FALSE, KnownTrees
    PROVE  FreeSpawns
  BY DEF FreeSpawns, NameFree, SpawnRow, KnownTrees

-----------------------------------------------------------------------------
(* The worktree of an agent that works.                                    *)

TreeInv == TaskInv /\ SweepInv

\* Agent a gets no path, does not begin to be built, and does not begin to work
\* (unless the scan knows).
Settles(a) ==
    /\ a \in located' => a \in located
    /\ at'[a] \in {"row", "counted"} => at[a] \in {"row", "counted"}
    /\ at'[a] \in Building => at[a] \in Building
    /\ at'[a] \in {"row", "counted", "added"} => proc'[a] = "none"
    /\ at'[a] \in {"written", "continued", "timer"} => proc'[a] = "dead"
    /\ sweep'.on /\ Charge(a)' => Charge(a)

\* Nothing appears on disk or in the lists of the scan.
Shrinks ==
    /\ DOMAIN dirs' \subseteq DOMAIN dirs
    /\ old' \subseteq old
    /\ sweep'.todo \subseteq sweep.todo
    /\ sweep'.doomed \subseteq sweep.doomed
    /\ sweep'.todo = {} \/ sweep'.active = sweep.active
    /\ ~sweep'.on => sweep'.todo = {} /\ sweep'.doomed = {}

LEMMA TreeSettles ==
    ASSUME TreeInv, Shrinks, UNCHANGED tree,
           \A a \in Agents : (Used(a)' <=> Used(a)) /\ Settles(a)
    PROVE  TreeInv'
  <1>1. TaskInv'
    BY DEF TreeInv, TaskInv, Settles
  <1>2. ~sweep'.on => sweep'.todo = {} /\ sweep'.doomed = {}
    BY DEF Shrinks
  <1>3. ASSUME NEW a \in Agents
        PROVE  /\ at'[a] \in {"row", "counted"} =>
                    tree'[a] \notin DOMAIN dirs' \cup sweep'.doomed
               /\ at'[a] \in Building => tree'[a] \notin old' \cup sweep'.doomed
               /\ Charge(a)' =>
                    /\ tree'[a] \notin sweep'.doomed
                    /\ tree'[a] \in sweep'.todo \cap old' => tree'[a] \in sweep'.active
    BY DEF TreeInv, SweepInv, Settles, Shrinks
  <1> QED
    BY <1>1, <1>2, <1>3 DEF TreeInv, SweepInv

\* A row that becomes active during a scan is known to be late.
LEMMA BecomesActive ==
    ASSUME TypeInv, RowsStep, NEW b \in Agents, sweep.on, b \notin sweep'.late,
           stage'[b] \in Active
    PROVE  b \notin sweep.late /\ stage[b] \in Active
  <1>1. ASSUME NEW S, EndRows(S)
        PROVE  b \notin sweep.late /\ stage[b] \in Active
    BY <1>1 DEF EndRows, Active
  <1>2. ASSUME NEW d \in Loans, NEW a \in Agents, Borrow(d, a)
        PROVE  b \notin sweep.late /\ stage[b] \in Active
    BY <1>2 DEF Borrow
  <1>3. ASSUME NEW w \in due, LoanWrite(w)
        PROVE  b \notin sweep.late /\ stage[b] \in Active
    <2>1. w.agent \in Agents
      BY DEF TypeInv, TypeOK
    <2> QED BY <1>3, <2>1 DEF LoanWrite, TypeInv, TypeOK
  <1> QED
    BY <1>1, <1>2, <1>3 DEF RowsStep, KillAll, StopRows

\* Steps of tasks, processes and the environment that build nothing.
LEMMA TreeQuietStep ==
    ASSUME TypeInv, BlankRows, TreeInv,
           \/ \E a \in Agents : \/ CountTrees(a) \/ DryRun(a) \/ Launch(a)
                                \/ Notice(a)
                                \/ Finish(a) \/ Cleanup(a) \/ SaveCheckpoint(a) \/ Exit(a)
                                \/ ActivateFails(a) \/ NoticeFails(a)
           \/ RowsStep \/ Crash
    PROVE  TreeInv'
  <1>0. ~sweep.on => sweep.todo = {} /\ sweep.doomed = {}
    BY DEF TreeInv, SweepInv
  <1>1. ASSUME NEW a \in Agents, CountTrees(a) \/ DryRun(a) \/ Launch(a)
        PROVE  TreeInv'
    <2>1. Shrinks /\ UNCHANGED tree
      BY <1>0, <1>1 DEF CountTrees, DryRun, Launch, Remove, Shrinks
    <2>2. \A b \in Agents : (Used(b)' <=> Used(b)) /\ Settles(b)
      BY <1>1 DEF CountTrees, DryRun, Launch, Goto, Used, Settles, Charge, Building,
                  TypeInv, TypeOK, TreeInv, TaskInv
    <2> QED BY <2>1, <2>2, TreeSettles
  <1>2. ASSUME NEW a \in Agents,
               \/ Notice(a)
               \/ Finish(a) \/ Cleanup(a)
        PROVE  TreeInv'
    <2>1. Shrinks /\ UNCHANGED tree
      BY <1>0, <1>2 DEF Notice, Finish, Cleanup, Remove, Shrinks
    <2>2. \A b \in Agents : (Used(b)' <=> Used(b)) /\ Settles(b)
      BY <1>2 DEF Notice, Finish, Cleanup, Goto, Used, Settles, Charge, Building,
                  TypeInv, TypeOK, TreeInv, TaskInv
    <2> QED BY <2>1, <2>2, TreeSettles
  <1>3. ASSUME NEW a \in Agents,
               \/ SaveCheckpoint(a) \/ Exit(a) \/ ActivateFails(a) \/ NoticeFails(a)
        PROVE  TreeInv'
    <2>1. Shrinks /\ UNCHANGED tree
      BY <1>0, <1>3 DEF SaveCheckpoint, Exit, ActivateFails, NoticeFails, Shrinks
    <2>2. \A b \in Agents : (Used(b)' <=> Used(b)) /\ Settles(b)
      BY <1>3 DEF SaveCheckpoint, Exit, ActivateFails, NoticeFails, Goto, Used,
                  Settles, Charge, Building, TypeInv, TypeOK, TreeInv, TaskInv
    <2> QED BY <2>1, <2>2, TreeSettles
  <1>4. CASE Crash
    <2>1. Shrinks /\ UNCHANGED tree
      BY <1>0, <1>4 DEF Crash, NoSweep, Shrinks
    <2>2. \A b \in Agents : (Used(b)' <=> Used(b)) /\ Settles(b)
      BY <1>4 DEF Crash, NoSweep, Used, Settles, Charge, Building, Watching, TypeInv,
                  TypeOK, TreeInv, TaskInv
    <2> QED BY <2>1, <2>2, TreeSettles
  <1>5. CASE RowsStep
    <2>1. Shrinks /\ UNCHANGED tree
      BY <1>0, <1>5, RowsOnly DEF Shrinks
    <2>2. ASSUME NEW b \in Agents, sweep.on, b \notin sweep'.late, stage'[b] \in Active
          PROVE  b \notin sweep.late /\ stage[b] \in Active
      BY <1>5, <2>2, BecomesActive
    <2>3. \A b \in Agents : (Used(b)' <=> Used(b)) /\ Settles(b)
      BY <1>5, <2>2, RowsOnly DEF Used, Settles, Charge, Building, TreeInv, TaskInv
    <2> QED BY <2>1, <2>3, TreeSettles
  <1> QED
    BY <1>1, <1>2, <1>3, <1>4, <1>5

\* A new worktree is that of the agent that adds it and of no other.
LEMMA TreeAdded ==
    ASSUME TypeInv, WorkInv, TreeInv, NEW a \in Agents, AddTree(a)
    PROVE  TreeInv'
  <1>1. /\ at[a] = "counted" /\ Used(a) /\ at'[a] \in {"added", "failed"}
        /\ \A b \in Agents : b # a => at'[b] = at[b]
        /\ \A b \in Agents : Used(b)' <=> Used(b)
        /\ UNCHANGED <<stage, tree, located, proc, sweep>>
    BY DEF AddTree, Goto, Used, TypeInv, TypeOK
  <1>2. /\ DOMAIN dirs' \subseteq DOMAIN dirs \cup {tree[a]}
        /\ old' = old \ {tree[a]}
    BY DEF AddTree, Remove
  <1>3. \A b \in Agents : Working(b) /\ b # a => tree[b] # tree[a]
    BY <1>1 DEF WorkInv, Working, Building
  <1>4. tree[a] \notin sweep.doomed /\ proc[a] = "none"
    BY <1>1 DEF TreeInv, SweepInv, TaskInv
  <1>5. TaskInv'
    BY <1>1 DEF TreeInv, TaskInv, Building
  <1>6. ASSUME NEW b \in Agents
        PROVE  /\ at'[b] \in {"row", "counted"} =>
                    tree'[b] \notin DOMAIN dirs' \cup sweep'.doomed
               /\ at'[b] \in Building => tree'[b] \notin old' \cup sweep'.doomed
               /\ Charge(b)' =>
                    /\ tree'[b] \notin sweep'.doomed
                    /\ tree'[b] \in sweep'.todo \cap old' => tree'[b] \in sweep'.active
    <2>1. CASE b = a
      BY <1>1, <1>2, <1>4, <2>1 DEF Charge
    <2>2. CASE b # a
      <3>1. at[b] \in {"row", "counted"} => tree[b] # tree[a]
        BY <1>3, <2>2 DEF Working, Building
      <3>2. /\ at[b] \in {"row", "counted"} =>
                 tree[b] \notin DOMAIN dirs \cup sweep.doomed
            /\ at[b] \in Building => tree[b] \notin old \cup sweep.doomed
            /\ Charge(b) =>
                 /\ tree[b] \notin sweep.doomed
                 /\ tree[b] \in sweep.todo \cap old => tree[b] \in sweep.active
        BY DEF TreeInv, SweepInv
      <3> QED BY <1>1, <1>2, <2>2, <3>1, <3>2 DEF Charge
    <2> QED BY <2>1, <2>2
  <1> QED
    BY <1>1, <1>5, <1>6 DEF TreeInv, SweepInv

\* An agent that becomes active has a worktree a scan under way cannot take.
LEMMA TreeActivated ==
    ASSUME TypeInv, TreeInv, NEW a \in Agents, Activate(a) \/ ActivateContinuation(a)
    PROVE  TreeInv'
  <1>1. /\ at[a] = "launched" /\ at'[a] = "watched"
        /\ \A b \in Agents : b # a => at'[b] = at[b] /\ stage'[b] = stage[b]
        /\ \A b \in Agents : Used(b)' <=> Used(b)
        /\ located' = located \cup {a}
        /\ UNCHANGED <<tree, proc, dirs, old, sweep>>
    BY DEF Activate, ActivateContinuation, Goto, Used, TypeInv, TypeOK
  <1>2. TaskInv'
    BY <1>1 DEF TreeInv, TaskInv, Building, Used
  <1>3. tree[a] \notin old \cup sweep.doomed
    BY <1>1 DEF TreeInv, SweepInv, Building
  <1>4. SweepInv'
    BY <1>1, <1>3 DEF TreeInv, SweepInv, Charge, Building
  <1> QED
    BY <1>2, <1>4 DEF TreeInv

\* A new row has no process and no path, and its worktree is new.
LEMMA TreeNewRow ==
    ASSUME TypeInv, BlankRows, TreeInv, NewRow, NewRowIsNew
    PROVE  TreeInv'
  <1>1. PICK c \in Agents :
          /\ ~Used(c) /\ at'[c] = "row"
          /\ \A b \in Agents : b # c => /\ tree'[b] = tree[b]
                                        /\ stage'[b] = stage[b]
                                        /\ Used(b)' <=> Used(b)
                                        /\ \/ at'[b] = at[b]
                                           \/ at[b] = "written" /\ at'[b] = "continued"
          /\ UNCHANGED <<located, proc, dirs, old, sweep>>
    <2>1. ASSUME NEW a \in Agents, NEW n \in Names, NEW hasBudget \in BOOLEAN,
                 SpawnRow(a, n, hasBudget)
          PROVE  /\ ~Used(a) /\ at'[a] = "row"
                 /\ \A b \in Agents : b # a => /\ tree'[b] = tree[b]
                                               /\ stage'[b] = stage[b]
                                               /\ Used(b)' <=> Used(b)
                                               /\ at'[b] = at[b]
                 /\ UNCHANGED <<located, proc, dirs, old, sweep>>
      BY <2>1 DEF SpawnRow, Goto, Used, TypeInv, TypeOK
    <2>2. ASSUME NEW a \in Agents, NEW c \in Agents, Respawn(a, c)
          PROVE  /\ ~Used(c) /\ at'[c] = "row"
                 /\ \A b \in Agents : b # c => /\ tree'[b] = tree[b]
                                               /\ stage'[b] = stage[b]
                                               /\ Used(b)' <=> Used(b)
                                               /\ \/ at'[b] = at[b]
                                                  \/ at[b] = "written" /\ at'[b] = "continued"
                 /\ UNCHANGED <<located, proc, dirs, old, sweep>>
      BY <2>2 DEF Respawn, Used, TypeInv, TypeOK
    <2> QED BY <2>1, <2>2 DEF NewRow
  <1>2. proc[c] = "none" /\ c \notin located
    BY <1>1 DEF BlankRows, TreeInv, TaskInv
  <1>3. tree'[c] \notin DOMAIN dirs \cup sweep.doomed
    BY <1>1 DEF NewRowIsNew, Used
  <1>4. tree'[c] \notin old
    BY <1>3 DEF TypeInv, TypeOK
  <1>5. \A b \in Agents : b # c => /\ at'[b] \in {"row", "counted", "added"} => at'[b] = at[b]
                                   /\ at'[b] \in Building => at'[b] = at[b]
    BY <1>1 DEF Building
  <1>6. TaskInv'
    <2> SUFFICES ASSUME NEW b \in Agents
                 PROVE  /\ at'[b] \in {"row", "counted", "added"} => proc'[b] = "none"
                        /\ at'[b] \in Building => b \notin located'
                        /\ at'[b] \in {"written", "continued", "timer"} => proc'[b] = "dead"
                        /\ b \in located' => Used(b)'
      BY DEF TaskInv
    <2>1. CASE b = c
      BY <1>1, <1>2, <2>1 DEF Used
    <2>2. CASE b # c
      BY <1>1, <1>5, <2>2 DEF TreeInv, TaskInv
    <2> QED BY <2>1, <2>2
  <1>7. SweepInv'
    <2> SUFFICES ASSUME NEW b \in Agents
                 PROVE  /\ at'[b] \in {"row", "counted"} =>
                             tree'[b] \notin DOMAIN dirs' \cup sweep'.doomed
                        /\ at'[b] \in Building => tree'[b] \notin old' \cup sweep'.doomed
                        /\ Charge(b)' =>
                             /\ tree'[b] \notin sweep'.doomed
                             /\ tree'[b] \in sweep'.todo \cap old' => tree'[b] \in sweep'.active
      BY <1>1 DEF TreeInv, SweepInv
    <2>1. CASE b = c
      BY <1>1, <1>2, <1>3, <1>4, <2>1 DEF Charge
    <2>2. CASE b # c
      BY <1>1, <1>5, <2>2 DEF TreeInv, SweepInv, Charge
    <2> QED BY <2>1, <2>2
  <1> QED
    BY <1>6, <1>7 DEF TreeInv

\* A scan lists what exists and asks who is active; then it only forgets.
LEMMA TreeSweepStep ==
    ASSUME TypeInv, TreeInv, SweepStep
    PROVE  TreeInv'
  <1>1. UNCHANGED <<at, stage, tree, located, proc>>
    BY DEF SweepStep, SweepBegin, SweepLook, SweepRemove, SweepEnd
  <1>2. \A a \in Agents : Used(a)' <=> Used(a)
    BY <1>1 DEF Used
  <1>3. TaskInv'
    BY <1>1, <1>2 DEF TreeInv, TaskInv
  <1>4. CASE SweepBegin
    <2>1. /\ UNCHANGED <<dirs, old>>
          /\ sweep'.on /\ sweep'.active = ActivePaths
          /\ sweep'.doomed = {}
      BY <1>4 DEF SweepBegin
    <2>2. \A a \in Agents : a \in located /\ stage[a] \in Active
                              => tree[a] \in ActivePaths
      BY DEF ActivePaths
    <2>3. SweepInv'
      BY <1>1, <2>1, <2>2 DEF TreeInv, SweepInv, Charge
    <2> QED BY <1>3, <2>3 DEF TreeInv
  <1>5. ASSUME NEW t \in sweep.todo, SweepLook(t)
        PROVE  TreeInv'
    <2>1. /\ UNCHANGED <<dirs, old>>
          /\ sweep'.on = sweep.on /\ sweep'.active = sweep.active
          /\ sweep'.late = sweep.late
          /\ sweep'.todo = sweep.todo \ {t}
          /\ sweep'.doomed \subseteq {t}
          /\ sweep'.doomed # {} => t \in old /\ t \in DOMAIN dirs /\ t \notin sweep.active
      BY <1>5 DEF SweepLook, TypeInv, TypeOK
    <2>2. sweep.on
      BY DEF TreeInv, SweepInv
    <2>3. ASSUME NEW a \in Agents
          PROVE  /\ at'[a] \in {"row", "counted"} =>
                      tree'[a] \notin DOMAIN dirs' \cup sweep'.doomed
                 /\ at'[a] \in Building => tree'[a] \notin old' \cup sweep'.doomed
                 /\ Charge(a)' =>
                      /\ tree'[a] \notin sweep'.doomed
                      /\ tree'[a] \in sweep'.todo \cap old' => tree'[a] \in sweep'.active
      BY <1>1, <2>1 DEF TreeInv, SweepInv, Charge
    <2> QED BY <1>3, <2>1, <2>2, <2>3 DEF TreeInv, SweepInv
  <1>6. CASE SweepRemove \/ SweepEnd
    <2>1. sweep.on
      BY <1>6 DEF SweepRemove, SweepEnd, TreeInv, SweepInv
    <2>2. Shrinks
      BY <1>6, <2>1 DEF SweepRemove, SweepEnd, NoSweep, Remove, Shrinks, TypeInv, TypeOK
    <2>3. sweep'.on => sweep'.late = sweep.late
      BY <1>6 DEF SweepRemove, SweepEnd, NoSweep, TypeInv, TypeOK
    <2>4. \A a \in Agents : Settles(a)
      BY <1>1, <2>3 DEF Settles, Charge, TreeInv, TaskInv
    <2> QED BY <1>1, <1>2, <2>2, <2>4, TreeSettles
  <1> QED
    BY <1>4, <1>5, <1>6 DEF SweepStep

LEMMA TreeNext ==
    ASSUME TypeInv, BlankRows, WorkInv, TreeInv, [Next]_vars, NewRowIsNew
    PROVE  TreeInv'
  <1>1. CASE NewRow
    BY <1>1, TreeNewRow
  <1>2. ASSUME NEW a \in Agents, AddTree(a)
        PROVE  TreeInv'
    BY <1>2, TreeAdded
  <1>3. ASSUME NEW a \in Agents, Activate(a) \/ ActivateContinuation(a)
        PROVE  TreeInv'
    BY <1>3, TreeActivated
  <1>4. CASE SweepStep
    BY <1>4, TreeSweepStep
  <1>5. ASSUME NEW t \in DOMAIN dirs, GrowOld(t)
        PROVE  TreeInv'
    <2>1. sweep.todo = {} /\ sweep.doomed = {}
      BY <1>5 DEF GrowOld, TreeInv, SweepInv
    <2>2. \A a \in Agents : at[a] \in Building => tree[a] # t
      BY <1>5 DEF GrowOld
    <2>3. TaskInv'
      BY <1>5 DEF GrowOld, TreeInv, TaskInv, Used
    <2>4. SweepInv'
      BY <1>5, <2>1, <2>2 DEF GrowOld, TreeInv, SweepInv, Charge
    <2> QED BY <2>3, <2>4 DEF TreeInv
  <1>6. CASE UNCHANGED vars
    BY <1>6 DEF vars, TreeInv, TaskInv, SweepInv, Charge, Used
  <1>7. CASE \/ \E a \in Agents : \/ CountTrees(a) \/ DryRun(a) \/ Launch(a)
                                  \/ Notice(a)
                                  \/ Finish(a) \/ Cleanup(a) \/ SaveCheckpoint(a) \/ Exit(a)
                                  \/ ActivateFails(a) \/ NoticeFails(a)
             \/ RowsStep \/ Crash
    BY <1>7, TreeQuietStep
  <1> QED
    BY <1>1, <1>2, <1>3, <1>4, <1>5, <1>6, <1>7 DEF Next, TaskStep, NewRow, RowsStep

\* The steps that remove worktrees: none removes that of an agent that works.
LEMMA TreeKept ==
    ASSUME TypeInv, BlankRows, WorkInv, TreeInv, [Next]_vars,
           NEW a \in Agents \ sweep.late, stage[a] \in Active, a \in located
    PROVE  ~Uprooted(a)
  <1> SUFFICES ASSUME Live(a), Owns(a)
               PROVE  Owns(a)'
    BY DEF Uprooted
  <1>1. /\ Used(a) /\ Working(a) /\ at[a] \notin Building
        /\ at[a] \notin {"written", "continued", "timer"}
        /\ tree[a] \notin sweep.doomed
        /\ tree[a] \in DOMAIN dirs /\ dirs[tree[a]] = a
    BY DEF Live, Working, Owns, TreeInv, TaskInv, SweepInv, Charge
  <1>2. ASSUME NEW S, Remove(S), tree[a] \notin S, UNCHANGED tree
        PROVE  Owns(a)'
    BY <1>1, <1>2 DEF Remove, Owns
  <1>3. ASSUME UNCHANGED dirs, tree'[a] = tree[a]
        PROVE  Owns(a)'
    BY <1>1, <1>3 DEF Owns
  <1>4. ASSUME NEW b \in Agents, AddTree(b) \/ DryRun(b) \/ Cleanup(b)
        PROVE  Owns(a)'
    <2>1. Working(b) /\ b # a /\ UNCHANGED tree
      BY <1>1, <1>4 DEF AddTree, DryRun, Cleanup, Working, Building, Watching
    <2>2. tree[b] # tree[a]
      BY <1>1, <2>1 DEF WorkInv
    <2>3. CASE Remove({tree[b]})
      BY <1>2, <2>1, <2>2, <2>3
    <2>4. CASE dirs' = [t \in DOMAIN dirs \cup {tree[b]} |->
                          IF t = tree[b] THEN b ELSE dirs[t]]
      BY <1>1, <2>1, <2>2, <2>4 DEF Owns
    <2> QED BY <1>4, <2>3, <2>4 DEF AddTree, DryRun, Cleanup
  <1>5. CASE SweepRemove
    BY <1>1, <1>2, <1>5 DEF SweepRemove
  <1>6. CASE NewRow
    BY <1>1, <1>3, <1>6 DEF NewRow, SpawnRow, Respawn, Used, TypeInv, TypeOK
  <1>7. ASSUME NEW b \in Agents,
               \/ CountTrees(b) \/ Launch(b) \/ Activate(b) \/ ActivateContinuation(b)
               \/ Notice(b)
               \/ Finish(b) \/ SaveCheckpoint(b) \/ Exit(b)
               \/ ActivateFails(b) \/ NoticeFails(b)
        PROVE  Owns(a)'
    BY <1>3, <1>7 DEF CountTrees, Launch, Activate, ActivateContinuation, Notice,
                      Finish, SaveCheckpoint, Exit, ActivateFails, NoticeFails
  <1>8. CASE \/ SweepBegin \/ SweepEnd \/ Crash \/ UNCHANGED vars
             \/ \E t \in sweep.todo : SweepLook(t)
             \/ \E t \in DOMAIN dirs : GrowOld(t)
    BY <1>3, <1>8 DEF SweepBegin, SweepEnd, SweepLook, Crash, GrowOld, vars
  <1>9. CASE RowsStep
    BY <1>3, <1>9, RowsOnly
  <1> QED
    BY <1>4, <1>5, <1>6, <1>7, <1>8, <1>9
       DEF Next, TaskStep, SweepStep, NewRow, RowsStep

\* What the tasks, the disk and the reaper's scan have to do with each other.
PipeInv == TypeInv /\ BlankRows /\ WorkInv /\ TreeInv

LEMMA PipeInvInit ==
    ASSUME Init
    PROVE  PipeInv /\ KnownTrees
  <1>1. TypeInv
    BY PipelineAssumption DEF Init, NoSweep, NoTree, TypeInv, TypeOK, Used,
                              PipelineAssumption
  <1>2. BlankRows /\ WorkInv
    BY DEF Init, NoSweep, BlankRows, WorkInv, Working, Live, Used, Early, Building,
           Watching
  <1>3. TreeInv /\ KnownTrees
    BY DEF Init, NoSweep, TreeInv, TaskInv, KnownTrees, SweepInv, Building
  <1> QED BY <1>1, <1>2, <1>3 DEF PipeInv

LEMMA PipeInvNext ==
    ASSUME PipeInv, [Next]_vars, FreeSpawns
    PROVE  PipeInv'
  BY PipelineAssumption, TypeNext, WorkNext, TreeNext DEF PipeInv

LEMMA FreeNamesStep == FreeNamesOnly <=> [][FreeSpawns]_vars
  BY DEF FreeNamesOnly, FreeSpawns

LEMMA FreeSpawnsStep ==
    ASSUME PipeInv, [FreeSpawns]_vars
    PROVE  FreeSpawns
  BY DEF vars, FreeSpawns, SpawnRow, Goto, PipeInv, TypeInv, TypeOK

LEMMA PipeInvHolds == Spec /\ FreeNamesOnly => []PipeInv
  <1>1. PipeInv /\ [Next]_vars /\ [FreeSpawns]_vars => PipeInv'
    BY PipeInvNext, FreeSpawnsStep
  <1>2. Init => PipeInv
    BY PipeInvInit
  <1> QED
    BY <1>1, <1>2, FreeNamesStep, PTL DEF Spec

\* No task, timer or scan, however they interleave with each other, with those
\* who end rows and with delegations, and wherever one of them fails, takes the
\* worktree of a live process whose row is active, for any number of agents,
\* delegations and both places to start the daemon in, as long as requests
\* take only free names; except from an agent whose ended row a delegation made
\* active during the scan.  (A name without worktree is not free enough: the
\* reaper may have decided to remove one, and then takes the new one.)
THEOREM FreeNamesKeepTrees == Spec => (FreeNamesOnly => RunningTreeKept)
  <1>1. PipeInv /\ [Next]_vars
          => [\A a \in Agents \ sweep.late :
                ~(stage[a] \in Active /\ a \in located /\ Uprooted(a))]_vars
    BY TreeKept DEF PipeInv
  <1> QED
    BY <1>1, PipeInvHolds, PTL DEF Spec, RunningTreeKept

\* A name that is never requested twice is free whenever it is requested, for
\* whatever is on disk or in the reaper's hand belongs to some row.
THEOREM OnceMeansFree ==
    ASSUME ReuseNames = FALSE
    PROVE  Spec => FreeNamesOnly
  <1>1. Init => TypeInv /\ BlankRows /\ KnownTrees
    BY PipeInvInit DEF PipeInv
  <1>2. TypeInv /\ BlankRows /\ KnownTrees /\ [Next]_vars => BlankRows' /\ KnownTrees'
    BY KnownNext, BlankNext
  <1>3. KnownTrees => [FreeSpawns]_vars
    BY OnceIsFree
  <1> QED
    BY <1>1, <1>2, <1>3, TypeInvHolds, FreeNamesStep, PTL DEF Spec

\* With a name per request nothing uproots an agent that works and whose row is
\* active, and was when the scan asked.
THEOREM RunningTreeIsKept ==
    ASSUME ReuseNames = FALSE
    PROVE  Spec => RunningTreeKept
  BY OnceMeansFree, FreeNamesKeepTrees, PTL

-----------------------------------------------------------------------------
(* The quota.  Every agent between the count and the add will have added   *)
(* one worktree more than it counted, so what is bounded is the sum of     *)
(* both, in each of the two directories.                                   *)

\* No worktree appears under root r, and no agent gets past the count there.
NotMore(r) == In(r)' \subseteq In(r) /\ Counted(r)' \subseteq Counted(r)

LEMMA LessIsNotMore ==
    ASSUME NEW r \in Roots, DOMAIN dirs' \subseteq DOMAIN dirs,
           \A a \in Agents : at'[a] = "counted" => at[a] = "counted" /\ tree'[a] = tree[a]
    PROVE  NotMore(r)
  BY DEF NotMore, In, Counted

\* Every other step adds no worktree and lets no agent past the count.
LEMMA ElseLess ==
    ASSUME TypeInv, [Next]_vars, \A a \in Agents : ~CountTrees(a) /\ ~AddTree(a)
    PROVE  /\ DOMAIN dirs' \subseteq DOMAIN dirs
           /\ \A a \in Agents : at'[a] = "counted" => at[a] = "counted" /\ tree'[a] = tree[a]
  <1> DEFINE Goal == /\ DOMAIN dirs' \subseteq DOMAIN dirs
                     /\ \A a \in Agents : at'[a] = "counted" =>
                          at[a] = "counted" /\ tree'[a] = tree[a]
  <1>0. at \in AtTypes
    BY DEF TypeInv, TypeOK, AtTypes
  <1>1. ASSUME NEW a \in Agents,
               \/ DryRun(a) \/ Launch(a) \/ Activate(a) \/ ActivateContinuation(a)
               \/ Notice(a)
               \/ Finish(a) \/ Cleanup(a) \/ ActivateFails(a) \/ NoticeFails(a)
        PROVE  Goal
    <2>1. /\ UNCHANGED tree
          /\ \E point \in {"done", "launched", "failed", "watched", "written", "timer"} :
                Goto(a, point)
      BY <1>1 DEF DryRun, Launch, Activate, ActivateContinuation, Notice, Finish,
                  Cleanup, ActivateFails, NoticeFails
    <2>2. DOMAIN dirs' \subseteq DOMAIN dirs
      BY <1>1 DEF DryRun, Launch, Activate, ActivateContinuation, Notice, Finish,
                  Cleanup, ActivateFails, NoticeFails, Remove
    <2> QED BY <1>0, <2>1, <2>2 DEF Goto, AtTypes
  <1>2. ASSUME NEW a \in Agents, NEW c \in Agents, Respawn(a, c)
        PROVE  Goal
    BY <1>2 DEF Respawn, TypeInv, TypeOK
  <1>3. ASSUME NEW a \in Agents, NEW n \in Names, NEW hasBudget \in BOOLEAN,
               SpawnRow(a, n, hasBudget)
        PROVE  Goal
    BY <1>3 DEF SpawnRow, Goto, TypeInv, TypeOK
  <1>4. ASSUME SweepStep
        PROVE  Goal
    BY <1>4 DEF SweepStep, SweepBegin, SweepLook, SweepRemove, SweepEnd, Remove
  <1>5. ASSUME Crash
        PROVE  Goal
    BY <1>5 DEF Crash, Building
  <1>6. ASSUME RowsStep
        PROVE  Goal
    BY <1>6, RowsOnly
  <1>7. ASSUME \/ \E a \in Agents : SaveCheckpoint(a) \/ Exit(a)
               \/ \E t \in DOMAIN dirs : GrowOld(t)
               \/ UNCHANGED vars
        PROVE  Goal
    BY <1>7 DEF SaveCheckpoint, Exit, GrowOld, vars
  <1> HIDE DEF Goal
  <1>8. ASSUME NEW a \in Agents, TaskStep(a)
        PROVE  Goal
    <2>1. CASE \E c \in Agents : Respawn(a, c)
      BY <1>2, <2>1
    <2>2. CASE \/ Launch(a) \/ Activate(a) \/ ActivateContinuation(a)
               \/ Notice(a) \/ Finish(a) \/ Cleanup(a)
      BY <1>1, <2>2
    <2> QED BY <1>8, <2>1, <2>2 DEF TaskStep
  <1>9. ASSUME \E a \in Agents : \/ TaskStep(a) \/ DryRun(a) \/ SaveCheckpoint(a)
                                 \/ Exit(a) \/ ActivateFails(a) \/ NoticeFails(a)
        PROVE  Goal
    <2>1. ASSUME NEW a \in Agents, DryRun(a) \/ ActivateFails(a) \/ NoticeFails(a)
          PROVE  Goal
      BY <1>1, <2>1
    <2> QED BY <1>7, <1>8, <1>9, <2>1
  <1>10. Goal
    BY <1>3, <1>4, <1>5, <1>6, <1>7, <1>9 DEF Next, RowsStep
  <1> QED
    BY <1>10 DEF Goal

\* A step neither adds a worktree under root r nor lets an agent past the count;
\* or lets one past; or adds the worktree of one that was past.
LEMMA QuotaStep ==
    ASSUME PipelineAssumption, TypeInv, [Next]_vars, NEW r \in Roots
    PROVE  \/ NotMore(r)
           \/ Cardinality(In(r)) < Quota /\ In(r)' = In(r)
           \/ \E a \in Counted(r) : /\ In(r)' \subseteq In(r) \cup {tree[a]}
                                    /\ Counted(r)' \subseteq Counted(r) \ {a}
  <1>0. at \in AtTypes
    BY DEF TypeInv, TypeOK, AtTypes
  <1>1. ASSUME NEW a \in Agents, CountTrees(a)
        PROVE  NotMore(r) \/ (Cardinality(In(r)) < Quota /\ In(r)' = In(r))
    <2>1. UNCHANGED <<dirs, tree>> /\ \A b \in Agents : b # a => at'[b] = at[b]
      BY <1>0, <1>1 DEF CountTrees, Goto, AtTypes
    <2>2. CASE Root(tree[a]) = r /\ Cardinality(In(r)) < Quota
      BY <2>1, <2>2 DEF In
    <2>3. CASE Root(tree[a]) = r /\ ~(Cardinality(In(r)) < Quota)
      <3>1. at'[a] = "failed"
        BY <1>0, <1>1, <2>3 DEF CountTrees, Goto, AtTypes
      <3> QED BY <2>1, <3>1, LessIsNotMore
    <2>4. CASE Root(tree[a]) # r
      BY <2>1, <2>4 DEF NotMore, In, Counted
    <2> QED BY <2>2, <2>3, <2>4
  <1>2. ASSUME NEW a \in Agents, AddTree(a)
        PROVE  \/ NotMore(r)
               \/ /\ a \in Counted(r)
                  /\ In(r)' \subseteq In(r) \cup {tree[a]}
                  /\ Counted(r)' \subseteq Counted(r) \ {a}
    <2>1. /\ at[a] = "counted" /\ at'[a] # "counted" /\ UNCHANGED tree
          /\ \A b \in Agents : b # a => at'[b] = at[b]
      BY <1>0, <1>2 DEF AddTree, Goto, AtTypes
    <2>2. DOMAIN dirs' \subseteq DOMAIN dirs \cup {tree[a]}
      BY <1>2 DEF AddTree, Remove
    <2> QED BY <2>1, <2>2 DEF NotMore, In, Counted
  <1>3. CASE \A a \in Agents : ~CountTrees(a) /\ ~AddTree(a)
    BY <1>3, ElseLess, LessIsNotMore
  <1> QED
    BY <1>1, <1>2, <1>3

QuotaInv(r, k) == /\ IsFiniteSet(In(r))
                  /\ Cardinality(In(r)) + Cardinality(Counted(r)) <= Quota - 1 + k

LEMMA CountedFinite ==
    ASSUME PipelineAssumption, NEW r \in Roots
    PROVE  IsFiniteSet(Counted(r)) /\ Cardinality(Counted(r)) \in Nat
  <1>1. Counted(r) \subseteq Agents
    BY DEF Counted
  <1> QED
    BY <1>1, FS_Subset, FS_CardinalityType DEF PipelineAssumption

LEMMA QuotaNext ==
    ASSUME PipelineAssumption, TypeInv, [Next]_vars, NEW r \in Roots, NEW k \in Nat,
           QuotaInv(r, k), (Cardinality(Counted(r)) <= k)'
    PROVE  QuotaInv(r, k)'
  <1> DEFINE D == In(r)
             C == Counted(r)
  <1>1. /\ IsFiniteSet(C) /\ Cardinality(C) \in Nat
        /\ Cardinality(D) \in Nat /\ IsFiniteSet(D)
    BY CountedFinite, FS_CardinalityType DEF QuotaInv
  <1>2. IsFiniteSet(C') /\ Cardinality(C') \in Nat
    <2>1. C' \subseteq Agents
      BY DEF Counted
    <2> QED BY <2>1, FS_Subset, FS_CardinalityType DEF PipelineAssumption
  <1>3. CASE D' \subseteq D /\ C' \subseteq C
    <2>1. /\ IsFiniteSet(D')
          /\ Cardinality(D') <= Cardinality(D)
          /\ Cardinality(C') <= Cardinality(C)
      BY <1>1, <1>3, FS_Subset
    <2>2. Cardinality(D') \in Nat
      BY <2>1, FS_CardinalityType
    <2> QED
      BY <1>1, <1>2, <2>1, <2>2 DEF QuotaInv, PipelineAssumption
  <1>4. CASE Cardinality(D) < Quota /\ D' = D
    BY <1>1, <1>2, <1>4 DEF QuotaInv, PipelineAssumption
  <1>5. ASSUME NEW a \in C, D' \subseteq D \cup {tree[a]}, C' \subseteq C \ {a}
        PROVE  QuotaInv(r, k)'
    <2>0. /\ IsFiniteSet(D \cup {tree[a]})
          /\ \/ Cardinality(D \cup {tree[a]}) = Cardinality(D)
             \/ Cardinality(D \cup {tree[a]}) = Cardinality(D) + 1
      BY <1>1, FS_AddElement, Zenon
    <2>1. /\ IsFiniteSet(D \cup {tree[a]})
          /\ Cardinality(D \cup {tree[a]}) \in Nat
          /\ Cardinality(D \cup {tree[a]}) <= Cardinality(D) + 1
      BY <1>1, <2>0
    <2>2. /\ IsFiniteSet(D')
          /\ Cardinality(D') <= Cardinality(D \cup {tree[a]})
      BY <1>5, <2>1, FS_Subset
    <2>3. /\ IsFiniteSet(C \ {a})
          /\ Cardinality(C \ {a}) = Cardinality(C) - 1
      BY <1>1, <1>5, FS_RemoveElement
    <2>4. Cardinality(C') <= Cardinality(C \ {a})
      BY <1>5, <2>3, FS_Subset
    <2>5. Cardinality(D') \in Nat
      BY <2>2, FS_CardinalityType
    <2> QED
      BY <1>1, <1>2, <2>1, <2>2, <2>3, <2>4, <2>5 DEF QuotaInv, PipelineAssumption
  <1> QED
    BY <1>3, <1>4, <1>5, QuotaStep DEF NotMore

LEMMA QuotaBounds ==
    ASSUME PipelineAssumption, NEW r \in Roots, NEW k \in Nat, QuotaInv(r, k)
    PROVE  /\ IsFiniteSet(In(r)) /\ Cardinality(In(r)) \in Nat
           /\ Cardinality(In(r)) <= Quota - 1 + k
  <1>1. IsFiniteSet(In(r)) /\ Cardinality(In(r)) \in Nat
    BY FS_CardinalityType DEF QuotaInv
  <1> QED
    BY <1>1, CountedFinite DEF QuotaInv, PipelineAssumption

LEMMA QuotaInvInit ==
    ASSUME PipelineAssumption, Init, NEW r \in Roots, NEW k \in Nat
    PROVE  QuotaInv(r, k)
  <1>1. In(r) = {} /\ Counted(r) = {}
    BY DEF Init, In, Counted
  <1> QED
    BY <1>1, FS_EmptySet DEF QuotaInv, PipelineAssumption

\* With at most k agents at once between the count of the worktrees of one
\* directory and the add, no more than k - 1 worktrees exceed the quota there,
\* however many agents are spawned and respawned and whatever is removed
\* meanwhile, whether the daemon was started in the repository's root or not.
THEOREM QuotaExceededByThoseBuilding ==
    ASSUME NEW r \in Roots, NEW k \in Nat
    PROVE  Spec => QuotaExceededBy(r, k)
  <1>1. Init => QuotaInv(r, k)
    BY QuotaInvInit, PipelineAssumption
  <1>2. TypeInv /\ QuotaInv(r, k) /\ [Next]_vars /\ (Cardinality(Counted(r)) <= k)'
           => QuotaInv(r, k)'
    BY QuotaNext, PipelineAssumption
  <1>3. QuotaInv(r, k) => Cardinality(In(r)) <= Quota - 1 + k
    BY QuotaBounds, PipelineAssumption
  <1>4. Spec => []TypeInv
    BY TypeInvHolds
  <1> QED
    BY <1>1, <1>2, <1>3, <1>4, PTL DEF Spec, QuotaExceededBy

\* As long as requests take only free names, a lineage builds one agent at a
\* time, so no more agents are past the count than there are names.
LEMMA CountedByName ==
    ASSUME TypeInv, BlankRows, WorkInv, IsFiniteSet(Names), NEW r \in Roots
    PROVE  Cardinality(Counted(r)) <= Cardinality(Names)
  <1> DEFINE f == [a \in Counted(r) |-> tree[a].name]
  <1>1. \A a \in Counted(r) : a \in Agents /\ Working(a) /\ at[a] \in Early
    BY DEF Counted, Working, Early, Building
  <1>2. \A a \in Counted(r) : tree[a] \in Trees
    BY <1>1, WhoWorks
  <1>3. ASSUME NEW a \in Counted(r), NEW b \in Counted(r), tree[a].name = tree[b].name
        PROVE  a = b
    <2>1. tree[a].version <= tree[b].version /\ tree[b].version <= tree[a].version
      BY <1>1, <1>3 DEF WorkInv
    <2>2. tree[a] = tree[b]
      BY <1>2, <1>3, <2>1 DEF Trees
    <2> QED
      BY <1>1, <2>2 DEF WorkInv
  <1>4. f \in Injection(Counted(r), Names)
    BY <1>2, <1>3 DEF Injection, IsInjective, Trees
  <1> QED
    BY <1>4, FS_Injection

\* The two directories together have what the worktrees are.
LEMMA BothRoots ==
    ASSUME PipelineAssumption, NEW k \in Nat, QuotaInv("repo", k), QuotaInv("cwd", k)
    PROVE  Cardinality(DOMAIN dirs) <= 2 * (Quota - 1 + k)
  <1> DEFINE A == In("repo")
             B == In("cwd")
  <1>1. /\ IsFiniteSet(A) /\ Cardinality(A) \in Nat /\ Cardinality(A) <= Quota - 1 + k
        /\ IsFiniteSet(B) /\ Cardinality(B) \in Nat /\ Cardinality(B) <= Quota - 1 + k
    BY QuotaBounds DEF Roots
  <1>2. DOMAIN dirs = A \cup B /\ A \cap B = {}
    BY DEF In, Root
  <1> HIDE DEF A, B
  <1>3. /\ Cardinality(A \cup B) = Cardinality(A) + Cardinality(B) - Cardinality(A \cap B)
        /\ Cardinality(A \cap B) = 0
    BY ONLY <1>1, <1>2, FS_Union, FS_EmptySet
  <1>4. Quota \in Nat
    BY DEF PipelineAssumption
  <1> QED
    BY ONLY <1>1, <1>2, <1>3, <1>4, k \in Nat

\* As long as requests take only free names, however requests and
\* continuations overlap, the worktrees in a directory are fewer than
\* MAX_WORKTREES and the names together; those on disk, in the two directories
\* that the quota counts apart, are no more than twice that.
THEOREM TreesAreBounded ==
    ASSUME IsFiniteSet(Names)
    PROVE  Spec => (FreeNamesOnly => []TreesBounded)
  <1> DEFINE k == Cardinality(Names)
             Q == QuotaInv("repo", k) /\ QuotaInv("cwd", k)
  <1>0. k \in Nat
    BY FS_CardinalityType
  <1>1. PipeInv => /\ Cardinality(Counted("repo")) <= k
                   /\ Cardinality(Counted("cwd")) <= k
    BY CountedByName DEF PipeInv, Roots
  <1>2. Init => Q
    BY <1>0, QuotaInvInit, PipelineAssumption DEF Roots
  <1>3. /\ PipeInv /\ Q /\ [Next]_vars
        /\ (Cardinality(Counted("repo")) <= k)' /\ (Cardinality(Counted("cwd")) <= k)'
        => Q'
    BY <1>0, QuotaNext, PipelineAssumption DEF PipeInv, Roots
  <1>4. Q => TreesBounded
    BY <1>0, QuotaBounds, BothRoots, PipelineAssumption DEF TreesBounded, Roots
  <1> HIDE DEF Q, k
  <1> QED
    BY <1>1, <1>2, <1>3, <1>4, PipeInvHolds, PTL DEF Spec

=============================================================================
