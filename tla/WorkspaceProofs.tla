---------------------------- MODULE WorkspaceProofs ----------------------------
(***************************************************************************)
(* Theorems about Workspace, for every set of names, branches, agents and  *)
(* reap cycles, every age the cron task waits for and any number of        *)
(* failures.                                                               *)
(***************************************************************************)
EXTENDS WorkspaceProps, TLAPS

\* A cycle that runs carries an entry, the branch it was on, and its lists.
LEMMA PositionFields ==
    ASSUME NEW k \in Positions
    PROVE  /\ k.at \in Stages \cup {"off"}
           /\ k.at = "off" <=> k = Off
           /\ k # Off => /\ k.todo \subseteq Names
                         /\ k.old \subseteq Names
                         /\ k.name \in Names \cup {Nobody}
                         /\ k.was \in Branches \cup {Nobody}
  BY DEF Positions, Off, Stages

LEMMA PositionValues ==
    ASSUME NEW k \in Positions, k # Off
    PROVE  /\ \A s \in Stages : [k EXCEPT !.at = s] \in Positions \ {Off}
           /\ \A S \in SUBSET Names : [k EXCEPT !.old = S] \in Positions \ {Off}
           /\ \A s \in Stages, n \in Names \cup {Nobody}, b \in Branches \cup {Nobody} :
                [k EXCEPT !.at = s, !.name = n, !.was = b] \in Positions \ {Off}
           /\ \A s \in Stages, S, T \in SUBSET Names, n \in Names \cup {Nobody},
                 b \in Branches \cup {Nobody} :
                [k EXCEPT !.todo = S, !.old = T, !.at = s, !.name = n, !.was = b]
                    \in Positions \ {Off}
  BY DEF Positions, Off, Stages

\* Adding to a table and taking away from it.
LEMMA WithTable ==
    ASSUME NEW f, NEW n, NEW v
    PROVE  /\ DOMAIN With(f, n, v) = DOMAIN f \cup {n}
           /\ With(f, n, v)[n] = v
           /\ \A m \in DOMAIN f : m # n => With(f, n, v)[m] = f[m]
  BY DEF With

LEMMA WithoutTable ==
    ASSUME NEW f, NEW n
    PROVE  /\ DOMAIN Without(f, n) = DOMAIN f \ {n}
           /\ \A m \in DOMAIN f \ {n} : Without(f, n)[m] = f[m]
  BY DEF Without

-----------------------------------------------------------------------------
(* Types.                                                                  *)

DirOf == [age : 0..Day, owner : Agents \cup {Nobody}]

DirsTyped == /\ DOMAIN dirs \subseteq Names
             /\ dirs \in [DOMAIN dirs -> DirOf]

\* git checks a branch out once only, and keeps what is checked out.
RegTyped == /\ DOMAIN reg \subseteq Names
            /\ reg \in [DOMAIN reg -> Branches]
            /\ \A m, n \in DOMAIN reg : reg[m] = reg[n] => m = n
            /\ branches \subseteq Branches
            /\ \A n \in DOMAIN reg : reg[n] \in branches

CyclesTyped == /\ cycle \in [Cycles -> Positions]
               /\ disturbed \subseteq Cycles

RestTyped == /\ trusted \in [Agents -> SUBSET Names]
             /\ faults \in 0..MaxFaults

TypedParts == DirsTyped /\ RegTyped /\ CyclesTyped /\ RestTyped

LEMMA TypeParts == /\ TypeOK <=> TypedParts
                   /\ TypeOK' <=> TypedParts'
  BY DEF TypeOK, TypedParts, DirsTyped, DirOf, RegTyped, CyclesTyped, RestTyped

\* What Fault leaves behind is typed again.
LEMMA FaultTyped ==
    ASSUME RestTyped, Fault, trusted' \in [Agents -> SUBSET Names]
    PROVE  RestTyped'
  BY WorkspaceAssumption DEF Fault, RestTyped, WorkspaceAssumption

\* Taking a directory away, and its registration with it.
LEMMA DirsWithout ==
    ASSUME DirsTyped, NEW n, dirs' = Without(dirs, n)
    PROVE  DirsTyped'
  BY DEF Without, DirsTyped

LEMMA RegWithout ==
    ASSUME RegTyped, NEW n, reg' = Without(reg, n), branches' = branches
    PROVE  RegTyped'
  <1>1. reg' \in [DOMAIN reg \ {n} -> Branches]
    BY DEF Without, RegTyped
  <1>2. \A m \in DOMAIN reg \ {n} : reg'[m] = reg[m]
    BY WithoutTable
  <1> QED
    BY <1>1, <1>2 DEF RegTyped

\* Deleting branches that are not checked out.
LEMMA BranchesWithout ==
    ASSUME RegTyped, NEW S, reg' = reg, branches' = branches \ (S \ CheckedOut)
    PROVE  RegTyped'
  BY DEF RegTyped, CheckedOut

\* A directory comes, in place of an old one or not.
LEMMA DirsWith ==
    ASSUME DirsTyped, NEW n \in Names, NEW v \in DirOf, dirs' = With(dirs, n, v)
    PROVE  DirsTyped'
  BY DEF With, DirsTyped

LEMMA RegWith ==
    ASSUME RegTyped, NEW n \in Names \ DOMAIN reg, NEW b \in Branches \ CheckedOut,
           reg' = With(reg, n, b), branches' = branches \cup {b}
    PROVE  RegTyped'
  <1>1. reg' \in [DOMAIN reg \cup {n} -> Branches]
    BY DEF With, RegTyped
  <1>2. /\ reg'[n] = b
        /\ \A m \in DOMAIN reg : reg'[m] = reg[m]
    BY DEF With
  <1>3. \A m \in DOMAIN reg : reg[m] # b
    BY DEF CheckedOut
  <1> QED
    BY <1>1, <1>2, <1>3 DEF RegTyped

\* A change at an entry leaves every cycle where it is.
LEMMA ChangedTyped ==
    ASSUME CyclesTyped, NEW n, cycle' = Changed(n), disturbed' \subseteq Cycles
    PROVE  CyclesTyped'
  <1>1. ASSUME NEW c \in Cycles, Running(c)
        PROVE  [cycle[c] EXCEPT !.old = @ \ {n}] \in Positions
    <2>1. cycle[c] \in Positions /\ cycle[c] # Off /\ cycle[c].old \ {n} \subseteq Names
      BY <1>1, PositionFields DEF CyclesTyped, Running
    <2> QED BY <2>1, PositionValues
  <1>2. Off \in Positions
    BY DEF Positions
  <1> QED
    BY <1>1, <1>2 DEF CyclesTyped, Changed

\* A cycle that runs moves to another of its statements.
LEMMA MoveTyped ==
    ASSUME CyclesTyped, NEW c \in Cycles, Running(c), NEW s \in Stages,
           cycle' = [cycle EXCEPT ![c].at = s], disturbed' \subseteq Cycles
    PROVE  CyclesTyped'
  <1>1. cycle[c] \in Positions /\ cycle[c] # Off
    BY DEF CyclesTyped, Running
  <1>2. [cycle[c] EXCEPT !.at = s] \in Positions
    BY <1>1, PositionValues
  <1> QED
    BY <1>2 DEF CyclesTyped

LEMMA AtRuns ==
    ASSUME NEW c, NEW s \in Stages, At(c, s)
    PROVE  Running(c)
  BY DEF At, Running, Off, Stages

LEMMA WorkspaceTypeInit == Init => TypeOK
  <1> SUFFICES ASSUME Init PROVE TypeOK
    OBVIOUS
  <1>1. DirsTyped /\ RegTyped
    BY DEF Init, DirsTyped, RegTyped
  <1>2. CyclesTyped /\ RestTyped
    BY WorkspaceAssumption
       DEF Init, CyclesTyped, RestTyped, Positions, WorkspaceAssumption
  <1> QED
    BY <1>1, <1>2, TypeParts DEF TypedParts

\* A step of a reap cycle keeps the types.
LEMMA CycleTypeNext ==
    ASSUME TypeOK, NEW c \in Cycles, CycleStep(c)
    PROVE  TypeOK'
  <1> USE TypeParts DEF TypedParts
  <1>0. cycle[c] \in Positions /\ disturbed \subseteq Cycles /\ disturbed \cup {c} \subseteq Cycles
    BY DEF CyclesTyped
  <1>1. ASSUME NEW threshold \in 0..Day, Begin(c, threshold)
        PROVE  TypeOK'
    <2>1. DirsTyped' /\ RegTyped' /\ RestTyped'
      BY <1>1 DEF Begin, DirsTyped, RegTyped, RestTyped
    <2>2. cycle'[c] \in Positions
      BY <1>1 DEF Begin, Positions, Stages, CyclesTyped, DirsTyped
    <2>3. CyclesTyped'
      BY <1>1, <2>2 DEF Begin, CyclesTyped
    <2> QED BY <2>1, <2>3
  <1>2. ASSUME NEW n \in Names, Look(c, n)
        PROVE  TypeOK'
    <2>1. DirsTyped' /\ RegTyped' /\ RestTyped'
      BY <1>2 DEF Look, DirsTyped, RegTyped, RestTyped
    <2>2. Running(c)
      BY <1>2, AtRuns DEF Look, Stages
    <2>3. cycle[c] # Off
      BY <2>2 DEF Running
    <2>4. /\ cycle[c].todo \ {n} \in SUBSET Names
          /\ cycle[c].old \ {n} \in SUBSET Names
          /\ cycle[c].name \in Names \cup {Nobody}
          /\ cycle[c].at \in Stages
      BY <1>0, <2>3, PositionFields
    <2>5. n \in DOMAIN reg => reg[n] \in Branches
      BY DEF RegTyped
    <2>6. PICK s \in Stages, S, T \in SUBSET Names, m \in Names \cup {Nobody},
               b \in Branches \cup {Nobody} :
            cycle' = [cycle EXCEPT ![c] =
               [@ EXCEPT !.todo = S, !.old = T, !.at = s, !.name = m, !.was = b]]
      <3> DEFINE go == n \in DOMAIN dirs /\ n \in cycle[c].old
                 s == IF go THEN "doomed" ELSE cycle[c].at
                 m == IF go THEN n ELSE cycle[c].name
                 b == IF go /\ n \in DOMAIN reg THEN reg[n] ELSE Nobody
      <3>1. s \in Stages /\ m \in Names \cup {Nobody} /\ b \in Branches \cup {Nobody}
        BY <2>4, <2>5 DEF Stages
      <3>2. cycle' = [cycle EXCEPT ![c] =
               [@ EXCEPT !.todo = cycle[c].todo \ {n}, !.old = cycle[c].old \ {n},
                         !.at = s, !.name = m, !.was = b]]
        BY <1>2, <1>0, <2>3 DEF Look, Positions, Off, CyclesTyped
      <3> QED BY <2>4, <3>1, <3>2
    <2>7. cycle'[c] \in Positions
      BY <1>0, <2>3, <2>6, PositionValues DEF CyclesTyped
    <2>8. CyclesTyped'
      BY <1>2, <2>6, <2>7 DEF Look, CyclesTyped
    <2> QED BY <2>1, <2>8
  <1>3. CASE GitRemove(c)
    <2>1. DirsTyped' /\ RegTyped'
      <3>1. CASE dirs' = dirs /\ reg' = reg
        BY <1>3, <3>1 DEF GitRemove, DirsTyped, RegTyped
      <3>2. CASE dirs' = Without(dirs, Target(c)) /\ reg' = Without(reg, Target(c))
        BY <1>3, <3>2, DirsWithout, RegWithout DEF GitRemove
      <3> QED BY <1>3, <3>1, <3>2 DEF GitRemove
    <2>2. RestTyped'
      BY <1>3, FaultTyped DEF GitRemove, RestTyped
    <2>3. CyclesTyped'
      BY <1>0, <1>3, AtRuns, MoveTyped DEF GitRemove, Stages
    <2> QED BY <2>1, <2>2, <2>3
  <1>4. CASE DeleteBranches(c)
    <2>1. DirsTyped'
      BY <1>4 DEF DeleteBranches, DirsTyped
    <2>2. RegTyped'
      <3>1. CASE branches' = branches
        BY <1>4, <3>1 DEF DeleteBranches, RegTyped
      <3>2. CASE branches' = branches \ (Patterns(Target(c)) \ CheckedOut)
        BY <1>4, <3>2, BranchesWithout DEF DeleteBranches
      <3> QED BY <1>4, <3>1, <3>2 DEF DeleteBranches
    <2>3. RestTyped'
      BY <1>4, FaultTyped DEF DeleteBranches, RestTyped
    <2>4. CyclesTyped'
      BY <1>0, <1>4, AtRuns, MoveTyped DEF DeleteBranches, Stages
    <2> QED BY <2>1, <2>2, <2>3, <2>4
  <1>5. CASE RemoveRest(c)
    <2>1. DirsTyped'
      <3>1. CASE dirs' = dirs
        BY <3>1 DEF DirsTyped
      <3>2. CASE dirs' = Without(dirs, Target(c))
        BY <3>2, DirsWithout
      <3> QED BY <1>5, <3>1, <3>2 DEF RemoveRest
    <2>2. RegTyped'
      BY <1>5 DEF RemoveRest, RegTyped
    <2>3. RestTyped'
      BY <1>5, FaultTyped DEF RemoveRest, RestTyped
    <2>4. CyclesTyped'
      <3>1. cycle[c] # Off
        BY <1>5, AtRuns DEF RemoveRest, Running, Stages
      <3>2. cycle'[c] = [cycle[c] EXCEPT !.at = "listed", !.name = Nobody,
                                        !.was = Nobody]
        BY <1>5 DEF RemoveRest, CyclesTyped
      <3>3. cycle'[c] \in Positions
        <4>1. \A k \in Positions \ {Off} :
                 [k EXCEPT !.at = "listed", !.name = Nobody, !.was = Nobody]
                     \in Positions
          BY PositionValues DEF Stages
        <4> QED BY <1>0, <3>1, <3>2, <4>1
      <3> QED BY <1>5, <3>3 DEF RemoveRest, CyclesTyped
    <2> QED BY <2>1, <2>2, <2>3, <2>4
  <1>6. CASE Finish(c)
    <2>1. DirsTyped' /\ RestTyped'
      BY <1>6 DEF Finish, DirsTyped, RestTyped
    <2>2. RegTyped'
      BY <1>6, BranchesWithout DEF Finish
    <2>3. CyclesTyped'
      BY <1>6 DEF Finish, CyclesTyped, Positions
    <2> QED BY <2>1, <2>2, <2>3
  <1> QED
    BY <1>1, <1>2, <1>3, <1>4, <1>5, <1>6 DEF CycleStep

\* A step of a user of the worktrees keeps the types.
LEMMA UserTypeNext ==
    ASSUME TypeOK, NEW n \in Names, UserStep(n)
    PROVE  TypeOK'
  <1> USE TypeParts DEF TypedParts
  <1>0. Nobody \in Agents \cup {Nobody} /\ 0 \in 0..Day
    BY WorkspaceAssumption DEF WorkspaceAssumption
  <1>1. ASSUME NEW b \in Branches, NEW owner \in Agents \cup {Nobody},
               AddWorktree(n, b, owner)
        PROVE  TypeOK'
    <2>1. [age |-> 0, owner |-> owner] \in DirOf
      BY <1>0 DEF DirOf
    <2>2. DirsTyped'
      BY <1>1, <2>1, DirsWith DEF AddWorktree
    <2>3. RegTyped'
      BY <1>1, RegWith DEF AddWorktree
    <2>4. disturbed' \subseteq Cycles
      BY <1>1 DEF AddWorktree, Handling, CyclesTyped
    <2>5. CyclesTyped'
      BY <1>1, <2>4, ChangedTyped DEF AddWorktree
    <2>6. RestTyped'
      BY <1>1 DEF AddWorktree, RestTyped
    <2> QED BY <2>2, <2>3, <2>5, <2>6
  <1>2. CASE MakeDirectory(n)
    <2>1. [age |-> 0, owner |-> Nobody] \in DirOf
      BY <1>0 DEF DirOf
    <2>2. DirsTyped'
      BY <1>2, <2>1, DirsWith DEF MakeDirectory
    <2>3. CyclesTyped'
      BY <1>2, ChangedTyped DEF MakeDirectory, CyclesTyped
    <2>4. RegTyped' /\ RestTyped'
      BY <1>2 DEF MakeDirectory, RegTyped, RestTyped
    <2> QED BY <2>2, <2>3, <2>4
  <1>3. CASE Touch(n)
    <2>1. DirsTyped'
      BY <1>0, <1>3 DEF Touch, DirsTyped, DirOf
    <2>2. CyclesTyped'
      BY <1>3, ChangedTyped DEF Touch, CyclesTyped
    <2>3. RegTyped' /\ RestTyped'
      BY <1>3 DEF Touch, RegTyped, RestTyped
    <2> QED BY <2>1, <2>2, <2>3
  <1>4. CASE GrowOld(n)
    <2>1. dirs[n].age + 1 \in 0..Day
      BY <1>4, WorkspaceAssumption
         DEF GrowOld, DirsTyped, DirOf, WorkspaceAssumption
    <2>2. DirsTyped'
      BY <1>4, <2>1 DEF GrowOld, DirsTyped, DirOf
    <2>3. CyclesTyped' /\ RegTyped' /\ RestTyped'
      BY <1>4 DEF GrowOld, CyclesTyped, RegTyped, RestTyped
    <2> QED BY <2>2, <2>3
  <1>5. ASSUME NEW a \in Agents, CheckOwner(a, n)
        PROVE  TypeOK'
    <2>1. DirsTyped' /\ CyclesTyped' /\ RegTyped'
      BY <1>5 DEF CheckOwner, DirsTyped, CyclesTyped, RegTyped
    <2>2. RestTyped'
      BY <1>5 DEF CheckOwner, RestTyped
    <2> QED BY <2>1, <2>2
  <1>6. ASSUME NEW a \in Agents, Discard(a, n)
        PROVE  TypeOK'
    <2>1. DirsTyped'
      BY <1>6, DirsWithout DEF Discard
    <2>2. RegTyped'
      BY <1>6, RegWithout DEF Discard
    <2>3. CyclesTyped' /\ RestTyped'
      BY <1>6 DEF Discard, CyclesTyped, RestTyped
    <2> QED BY <2>1, <2>2, <2>3
  <1> QED
    BY <1>1, <1>2, <1>3, <1>4, <1>5, <1>6 DEF UserStep

LEMMA WorkspaceTypeNext == TypeOK /\ [Next]_vars => TypeOK'
  <1> SUFFICES ASSUME TypeOK, [Next]_vars PROVE TypeOK'
    OBVIOUS
  <1> USE TypeParts DEF TypedParts
  <1>1. ASSUME NEW a \in Agents, AskForAll(a)
        PROVE  TypeOK'
    <2>1. DirsTyped' /\ CyclesTyped' /\ RegTyped'
      BY <1>1 DEF AskForAll, DirsTyped, CyclesTyped, RegTyped
    <2>2. RestTyped'
      BY <1>1 DEF AskForAll, ListOwned, RestTyped
    <2> QED BY <2>1, <2>2
  <1>2. CASE Crash
    <2>1. DirsTyped' /\ RegTyped'
      BY <1>2 DEF Crash, DirsTyped, RegTyped
    <2>2. CyclesTyped'
      BY <1>2 DEF Crash, CyclesTyped, Positions
    <2>3. RestTyped'
      BY <1>2, FaultTyped DEF Crash, RestTyped
    <2> QED BY <2>1, <2>2, <2>3
  <1>3. CASE UNCHANGED vars
    BY <1>3 DEF vars, DirsTyped, RegTyped, CyclesTyped, RestTyped
  <1> QED
    BY <1>1, <1>2, <1>3, CycleTypeNext, UserTypeNext DEF Next

\* The tables of git, the directories and the cycles keep their types; in
\* particular no branch is ever deleted, by whatever cycle and in whatever
\* order, while a worktree has it checked out, and none is checked out twice.
THEOREM WorkspaceTypeCorrect == Spec => []TypeOK
  BY WorkspaceTypeInit, WorkspaceTypeNext, PTL DEF Spec

-----------------------------------------------------------------------------
(* What a cycle leaves behind.  At its last statement it relies on what    *)
(* its earlier ones have done; the invariant says for each point what is   *)
(* true of the entry, as long as nothing got in the way.                   *)

\* While an entry is doomed, nobody else has its branch checked out.
DoomedOwnsBranch(c) ==
    At(c, "doomed") =>
        \A n \in DOMAIN reg : reg[n] = cycle[c].was => n = Target(c)

\* After git worktree remove the name is free and its branch not in use.
DetachedIsFree(c) ==
    At(c, "detached") =>
        /\ Target(c) \notin DOMAIN reg
        /\ cycle[c].was \notin CheckedOut

NamedAfter(n) == {"agent/", "wave/", "task/"} \X {n}

\* After git branch -D the branch is gone.
BareIsGone(c) ==
    At(c, "bare") =>
        /\ Target(c) \notin DOMAIN reg
        /\ cycle[c].was \in NamedAfter(Target(c)) => cycle[c].was \notin branches

ReapedSo(c) == DoomedOwnsBranch(c) /\ DetachedIsFree(c) /\ BareIsGone(c)

ReapInv == \A c \in Cycles \ disturbed : ReapedSo(c)

SamePlace(c) == /\ cycle'[c].at = cycle[c].at
                /\ cycle'[c].name = cycle[c].name
                /\ cycle'[c].was = cycle[c].was

\* Nothing is registered, and no branch made.
OnlyLess == /\ DOMAIN reg' \subseteq DOMAIN reg
            /\ \A n \in DOMAIN reg' : reg'[n] = reg[n]
            /\ branches' \subseteq branches

\* What others take away does not matter to a cycle that stays where it is.
LEMMA LessIsHarmless ==
    ASSUME NEW c \in Cycles, ReapedSo(c), SamePlace(c), OnlyLess
    PROVE  ReapedSo(c)'
  BY DEF ReapedSo, DoomedOwnsBranch, DetachedIsFree, BareIsGone, At, Target,
         SamePlace, OnlyLess, CheckedOut

LEMMA WithoutIsLess ==
    ASSUME NEW n, reg' = Without(reg, n), branches' = branches
    PROVE  OnlyLess
  BY WithoutTable DEF OnlyLess

\* A cycle's own statements.
LEMMA ReapOwnStep ==
    ASSUME TypeOK, ReapInv, NEW c \in Cycles, CycleStep(c), c \notin disturbed'
    PROVE  ReapedSo(c)'
  <1> USE TypeParts DEF TypedParts
  <1>1. CASE (\E threshold \in 0..Day : Begin(c, threshold)) \/ Finish(c)
    <2>1. cycle'[c].at \in {"listed", "off"}
      BY <1>1 DEF Begin, Finish, CyclesTyped, Off
    <2> QED
      BY <2>1 DEF ReapedSo, DoomedOwnsBranch, DetachedIsFree, BareIsGone, At
  <1>2. ASSUME NEW n \in Names, Look(c, n)
        PROVE  ReapedSo(c)'
    <2>1. reg' = reg /\ cycle[c].at = "listed"
      BY <1>2 DEF Look, At
    <2>2. \/ cycle'[c].at = "listed"
          \/ /\ cycle'[c].at = "doomed"
             /\ cycle'[c].name = n
             /\ cycle'[c].was = IF n \in DOMAIN reg THEN reg[n] ELSE Nobody
      <3>1. cycle[c] \in Positions /\ cycle[c] # Off
        BY <2>1 DEF CyclesTyped, Off
      <3>2. cycle'[c] = [cycle[c] EXCEPT
               !.todo = @ \ {n},
               !.old  = @ \ {n},
               !.at   = IF n \in DOMAIN dirs /\ n \in cycle[c].old THEN "doomed" ELSE @,
               !.name = IF n \in DOMAIN dirs /\ n \in cycle[c].old THEN n ELSE @,
               !.was  = IF (n \in DOMAIN dirs /\ n \in cycle[c].old) /\ n \in DOMAIN reg
                        THEN reg[n] ELSE Nobody]
        BY <1>2 DEF Look, CyclesTyped
      <3> QED
        BY <2>1, <3>1, <3>2 DEF Positions, Off
    <2>3. \A m \in DOMAIN reg : reg[m] # Nobody
      BY WorkspaceAssumption DEF RegTyped, Branches, WorkspaceAssumption
    <2>4. \A l, m \in DOMAIN reg : reg[l] = reg[m] => l = m
      BY DEF RegTyped
    <2> QED
      BY <2>1, <2>2, <2>3, <2>4
         DEF ReapedSo, DoomedOwnsBranch, DetachedIsFree, BareIsGone, At, Target
  <1>3. CASE GitRemove(c)
    <2>1. c \notin disturbed
      BY <1>3 DEF GitRemove
    <2>2. DoomedOwnsBranch(c)
      BY <2>1 DEF ReapInv, ReapedSo
    <2>3. /\ cycle'[c].at = "detached"
          /\ Target(c)' = Target(c)
          /\ cycle'[c].was = cycle[c].was
      BY <1>3, AtRuns DEF GitRemove, Target, CyclesTyped, Positions, Off, Running, Stages
    <2>4. /\ Target(c) \notin DOMAIN reg'
          /\ OnlyLess
      <3>1. CASE Target(c) \in DOMAIN reg
        <4>1. reg' = Without(reg, Target(c)) /\ branches' = branches
          BY <1>3, <3>1 DEF GitRemove
        <4>2. DOMAIN reg' = DOMAIN reg \ {Target(c)}
          BY <4>1 DEF Without
        <4> QED BY <4>1, <4>2, WithoutIsLess
      <3>2. CASE Target(c) \notin DOMAIN reg
        BY <1>3, <3>2 DEF GitRemove, OnlyLess
      <3> QED BY <3>1, <3>2
    <2>5. \A n \in DOMAIN reg' : reg'[n] # cycle[c].was
      BY <1>3, <2>2, <2>4 DEF GitRemove, DoomedOwnsBranch, OnlyLess
    <2> QED
      BY <2>3, <2>4, <2>5
         DEF ReapedSo, DoomedOwnsBranch, DetachedIsFree, BareIsGone, At, CheckedOut
  <1>4. CASE DeleteBranches(c)
    <2>1. /\ c \notin disturbed
          /\ branches' = branches \ (Patterns(Target(c)) \ CheckedOut)
          /\ reg' = reg
      BY <1>4 DEF DeleteBranches
    <2>2. DetachedIsFree(c) /\ At(c, "detached")
      BY <1>4, <2>1 DEF DeleteBranches, ReapInv, ReapedSo
    <2>3. /\ cycle'[c].at = "bare"
          /\ Target(c)' = Target(c)
          /\ cycle'[c].was = cycle[c].was
      BY <1>4, AtRuns DEF DeleteBranches, Target, CyclesTyped, Positions, Off, Running, Stages
    <2>4. NamedAfter(Target(c)) \subseteq Patterns(Target(c))
      BY DEF NamedAfter, Patterns
    <2>5. cycle[c].was \in NamedAfter(Target(c)) => cycle[c].was \notin branches'
      BY <2>1, <2>2, <2>4 DEF DetachedIsFree
    <2> QED
      BY <2>1, <2>2, <2>3, <2>5
         DEF ReapedSo, DoomedOwnsBranch, DetachedIsFree, BareIsGone, At
  <1>5. CASE RemoveRest(c)
    <2>1. cycle'[c].at = "listed"
      BY <1>5, AtRuns DEF RemoveRest, CyclesTyped, Positions, Off, Running, Stages
    <2> QED
      BY <2>1 DEF ReapedSo, DoomedOwnsBranch, DetachedIsFree, BareIsGone, At
  <1> QED
    BY <1>1, <1>2, <1>3, <1>4, <1>5 DEF CycleStep

\* A statement of another cycle.
LEMMA ReapOtherStep ==
    ASSUME TypeOK, ReapInv, NEW c \in Cycles, NEW d \in Cycles \ {c}, CycleStep(c),
           d \notin disturbed'
    PROVE  ReapedSo(d)'
  <1> USE TypeParts DEF TypedParts
  <1>1. d \notin disturbed /\ cycle'[d] = cycle[d]
    BY DEF CycleStep, Begin, Look, GitRemove, DeleteBranches, RemoveRest, Finish,
           CyclesTyped
  <1>2. SamePlace(d) /\ ReapedSo(d)
    BY <1>1 DEF SamePlace, ReapInv
  <1>3. OnlyLess
    <2>1. CASE GitRemove(c)
      BY <2>1, WithoutIsLess DEF GitRemove, OnlyLess
    <2>2. CASE DeleteBranches(c) \/ RemoveRest(c) \/ Finish(c)
      BY <2>2 DEF DeleteBranches, RemoveRest, Finish, OnlyLess
    <2>3. CASE \/ \E threshold \in 0..Day : Begin(c, threshold)
               \/ \E n \in Names : Look(c, n)
      BY <2>3 DEF Begin, Look, OnlyLess
    <2> QED BY <2>1, <2>2, <2>3 DEF CycleStep
  <1> QED
    BY <1>2, <1>3, LessIsHarmless

\* A change at an entry is not noticed by a cycle but for its age.
LEMMA ChangedPlace ==
    ASSUME TypeOK, NEW c \in Cycles, NEW n, cycle' = Changed(n)
    PROVE  SamePlace(c)
  <1>1. CASE Running(c)
    <2>1. cycle'[c] = [cycle[c] EXCEPT !.old = @ \ {n}]
      BY <1>1 DEF Changed
    <2>2. cycle[c] \in Positions /\ cycle[c] # Off
      BY <1>1 DEF TypeOK, Running
    <2> QED BY <2>1, <2>2 DEF SamePlace, Positions, Off
  <1>2. CASE ~Running(c)
    BY <1>2 DEF Changed, Running, SamePlace
  <1> QED BY <1>1, <1>2

LEMMA ReapUserStep ==
    ASSUME TypeOK, ReapInv, NEW n \in Names, UserStep(n),
           NEW c \in Cycles, c \notin disturbed'
    PROVE  ReapedSo(c)'
  <1>1. c \notin disturbed
    BY DEF UserStep, AddWorktree, MakeDirectory, Touch, GrowOld, CheckOwner, Discard
  <1>2. ReapedSo(c)
    BY <1>1 DEF ReapInv
  <1>3. ASSUME NEW b \in Branches, NEW owner \in Agents \cup {Nobody},
               AddWorktree(n, b, owner)
        PROVE  ReapedSo(c)'
    <2>1. SamePlace(c)
      BY <1>3, ChangedPlace DEF AddWorktree
    <2>2. CASE Running(c)
      <3>1. Target(c) # n /\ cycle[c].was # b
        BY <1>3, <2>2 DEF AddWorktree, Handling
      <3>2. /\ DOMAIN reg' = DOMAIN reg \cup {n}
            /\ reg'[n] = b
            /\ \A m \in DOMAIN reg : reg'[m] = reg[m]
            /\ branches' = branches \cup {b}
        BY <1>3 DEF AddWorktree, With
      <3> QED
        BY <1>2, <2>1, <3>1, <3>2
           DEF ReapedSo, DoomedOwnsBranch, DetachedIsFree, BareIsGone, At, Target,
               SamePlace, CheckedOut
    <2>3. CASE ~Running(c)
      BY <2>1, <2>3 DEF ReapedSo, DoomedOwnsBranch, DetachedIsFree, BareIsGone,
                        At, SamePlace, Running, Off
    <2> QED BY <2>2, <2>3
  <1>4. CASE MakeDirectory(n) \/ Touch(n)
    <2>1. SamePlace(c)
      BY <1>4, ChangedPlace DEF MakeDirectory, Touch
    <2>2. OnlyLess
      BY <1>4 DEF MakeDirectory, Touch, OnlyLess
    <2> QED BY <1>2, <2>1, <2>2, LessIsHarmless
  <1>5. CASE GrowOld(n) \/ \E a \in Agents : CheckOwner(a, n)
    <2>1. SamePlace(c) /\ OnlyLess
      BY <1>5 DEF GrowOld, CheckOwner, SamePlace, OnlyLess
    <2> QED BY <1>2, <2>1, LessIsHarmless
  <1>6. ASSUME NEW a \in Agents, Discard(a, n)
        PROVE  ReapedSo(c)'
    <2>1. SamePlace(c)
      BY <1>6 DEF Discard, SamePlace
    <2>2. OnlyLess
      BY <1>6, WithoutIsLess DEF Discard
    <2> QED BY <1>2, <2>1, <2>2, LessIsHarmless
  <1> QED
    BY <1>3, <1>4, <1>5, <1>6 DEF UserStep

LEMMA ReapInvNext == TypeOK /\ ReapInv /\ [Next]_vars => ReapInv'
  <1> SUFFICES ASSUME TypeOK, ReapInv, [Next]_vars,
                      NEW c \in Cycles, c \notin disturbed'
               PROVE  ReapedSo(c)'
    BY DEF ReapInv
  <1>1. ASSUME NEW d \in Cycles, CycleStep(d)
        PROVE  ReapedSo(c)'
    BY <1>1, ReapOwnStep, ReapOtherStep
  <1>2. CASE Crash
    BY <1>2 DEF Crash, ReapedSo, DoomedOwnsBranch, DetachedIsFree, BareIsGone, At, Off
  <1>3. CASE UNCHANGED vars \/ \E a \in Agents : AskForAll(a)
    <2>1. SamePlace(c) /\ OnlyLess /\ c \notin disturbed
      BY <1>3 DEF vars, AskForAll, SamePlace, OnlyLess
    <2> QED BY <2>1, LessIsHarmless DEF ReapInv
  <1> QED
    BY <1>1, <1>2, <1>3, ReapUserStep DEF Next

LEMMA ReapInvInit == Init => ReapInv
  BY DEF Init, ReapInv, ReapedSo, DoomedOwnsBranch, DetachedIsFree, BareIsGone, At, Off

LEMMA ReapedStep ==
    ASSUME TypeOK, ReapInv, [Next]_vars, NEW c \in Cycles \ disturbed,
           At(c, "bare"), At(c, "listed")', faults' = faults
    PROVE  /\ Target(c) \notin DOMAIN dirs' \cup DOMAIN reg'
           /\ cycle[c].was \in {"agent/", "wave/", "task/"} \X {Target(c)}
                  => cycle[c].was \notin branches'
  <1> USE TypeParts DEF TypedParts
  <1>1. cycle[c] \in Positions /\ cycle[c].at = "bare" /\ cycle'[c].at = "listed"
    BY DEF At, CyclesTyped
  <1>2. RemoveRest(c)
    <2>1. ASSUME NEW d \in Cycles, CycleStep(d)
          PROVE  RemoveRest(c)
      <3>1. c = d
        BY <1>1, <2>1 DEF CycleStep, Begin, Look, GitRemove, DeleteBranches,
                          RemoveRest, Finish, CyclesTyped
      <3>2. ~\E threshold \in 0..Day : Begin(c, threshold)
        BY <1>1 DEF Begin, Running, Off
      <3>3. ~\E n \in Names : Look(c, n)
        BY <1>1 DEF Look, At
      <3>4. ~GitRemove(c) /\ ~DeleteBranches(c) /\ ~Finish(c)
        BY <1>1 DEF GitRemove, DeleteBranches, Finish, At
      <3> QED
        BY <2>1, <3>1, <3>2, <3>3, <3>4 DEF CycleStep
    <2>2. ASSUME NEW n \in Names, UserStep(n)
          PROVE  FALSE
      <3>1. SamePlace(c)
        <4>1. CASE cycle' = Changed(n)
          BY <4>1, ChangedPlace
        <4>2. CASE cycle' = cycle
          BY <4>2 DEF SamePlace
        <4> QED
          BY <2>2, <4>1, <4>2 DEF UserStep, AddWorktree, MakeDirectory, Touch,
                                  GrowOld, CheckOwner, Discard
      <3> QED BY <1>1, <3>1 DEF SamePlace
    <2>3. CASE Crash \/ UNCHANGED vars \/ \E a \in Agents : AskForAll(a)
      BY <1>1, <2>3 DEF Crash, AskForAll, vars, Off
    <2> QED
      BY <2>1, <2>2, <2>3 DEF Next
  <1>3. /\ Target(c) \notin DOMAIN reg
        /\ cycle[c].was \in NamedAfter(Target(c)) => cycle[c].was \notin branches
    BY DEF ReapInv, ReapedSo, BareIsGone
  <1>4. dirs' = Without(dirs, Target(c)) /\ reg' = reg /\ branches' = branches
    BY <1>2, WorkspaceAssumption
       DEF RemoveRest, Fault, RestTyped, WorkspaceAssumption
  <1> QED
    BY <1>3, <1>4, WithoutTable DEF NamedAfter

\* A cycle that is through with an entry, and that no failure and no user of
\* the name or the branch got in the way of, leaves no directory, no
\* registration and no branch named after it, whatever the other cycles did
\* to the same entry at the same time.
THEOREM ReapingIsThorough == Spec => ReapedLeavesNothing
  <1>1. TypeOK /\ ReapInv /\ [Next]_vars =>
          [\A c \in Cycles \ disturbed :
             At(c, "bare") /\ At(c, "listed")' /\ faults' = faults =>
                 /\ Target(c) \notin DOMAIN dirs' \cup DOMAIN reg'
                 /\ cycle[c].was \in {"agent/", "wave/", "task/"} \X {Target(c)}
                        => cycle[c].was \notin branches']_vars
    BY ReapedStep
  <1> QED
    BY <1>1, ReapInvInit, ReapInvNext, WorkspaceTypeCorrect, PTL
       DEF Spec, ReapedLeavesNothing

-----------------------------------------------------------------------------
(* Who may take a worktree for its own.                                    *)

\* What a directory's owner is only changes when the directory is made.
LEMMA OwnerStays ==
    ASSUME TypeOK, [Next]_vars, NEW n \in DOMAIN dirs, n \in DOMAIN dirs'
    PROVE  dirs'[n].owner = dirs[n].owner
  <1> USE TypeParts DEF TypedParts
  <1>1. ASSUME NEW c \in Cycles, CycleStep(c)
        PROVE  dirs'[n].owner = dirs[n].owner
    BY <1>1 DEF CycleStep, Begin, Look, GitRemove, DeleteBranches, RemoveRest, Finish,
                Without
  <1>2. ASSUME NEW m \in Names, UserStep(m)
        PROVE  dirs'[n].owner = dirs[n].owner
    <2>1. CASE \/ \E b \in Branches, owner \in Agents \cup {Nobody} :
                     AddWorktree(m, b, owner)
               \/ MakeDirectory(m)
      BY <2>1 DEF AddWorktree, MakeDirectory, With
    <2>2. CASE Touch(m) \/ GrowOld(m)
      BY <2>2 DEF Touch, GrowOld, DirsTyped, DirOf
    <2>3. CASE \E a \in Agents : CheckOwner(a, m) \/ Discard(a, m)
      BY <2>3 DEF CheckOwner, Discard, Without
    <2> QED BY <1>2, <2>1, <2>2, <2>3 DEF UserStep
  <1>3. CASE Crash \/ UNCHANGED vars \/ \E a \in Agents : AskForAll(a)
    BY <1>3 DEF Crash, vars, AskForAll
  <1> QED BY <1>1, <1>2, <1>3 DEF Next

\* An agent is told that a worktree is its own only while it is.
LEMMA TrustIsEarned ==
    ASSUME TypeOK, [Next]_vars, NEW a \in Agents, NEW n \in Names,
           n \in trusted'[a], n \notin trusted[a]
    PROVE  Owned(a, n) /\ dirs' = dirs
  <1> USE TypeParts DEF TypedParts
  <1>1. ASSUME NEW c \in Cycles, CycleStep(c)
        PROVE  trusted' = trusted
    BY <1>1 DEF CycleStep, Begin, Look, GitRemove, DeleteBranches, RemoveRest, Finish
  <1>2. ASSUME NEW m \in Names, UserStep(m)
        PROVE  Owned(a, n) /\ dirs' = dirs
    <2>1. PICK b \in Agents : CheckOwner(b, m) \/ Discard(b, m)
      BY <1>2 DEF UserStep, AddWorktree, MakeDirectory, Touch, GrowOld
    <2>2. ~Discard(b, m)
      BY DEF Discard, RestTyped
    <2> QED
      BY <2>1, <2>2 DEF CheckOwner, RestTyped
  <1>3. CASE \E b \in Agents : AskForAll(b)
    BY <1>3 DEF AskForAll, ListOwned, RestTyped
  <1>4. CASE Crash \/ UNCHANGED vars
    BY <1>4 DEF Crash, vars
  <1> QED BY <1>1, <1>2, <1>3, <1>4 DEF Next

\* An agent that asks first takes another's worktree for its own only if that
\* was made under the name of one of its own after it had asked.
THEOREM AskingMisleadsByRenewalOnly == Spec => MisledByRenewalOnly
  <1>1. ASSUME TypeOK, [Next]_vars, NEW a \in Agents, NEW n \in Names,
               ~Misled(a, n), Misled(a, n)'
        PROVE  n \notin DOMAIN dirs
    <2>1. n \in trusted'[a] /\ n \in DOMAIN dirs' /\ dirs'[n].owner # a
      BY <1>1 DEF Misled
    <2> SUFFICES ASSUME n \in DOMAIN dirs PROVE FALSE
      OBVIOUS
    <2>2. dirs'[n].owner = dirs[n].owner
      BY <1>1, <2>1, OwnerStays
    <2>3. n \notin trusted[a]
      BY <1>1, <2>1, <2>2 DEF Misled
    <2> QED
      BY <1>1, <2>1, <2>2, <2>3, TrustIsEarned DEF Owned
  <1>2. TypeOK /\ [Next]_vars =>
          [\A a \in Agents, n \in Names :
             ~Misled(a, n) /\ Misled(a, n)' => n \notin DOMAIN dirs]_vars
    BY <1>1
  <1> QED
    BY <1>2, WorkspaceTypeCorrect, PTL DEF Spec, MisledByRenewalOnly

=============================================================================
