---------------------------- MODULE DeliveryProps ----------------------------
(***************************************************************************)
(* What may become of an agent's commits, as long as requests take only    *)
(* free names.                                                             *)
(***************************************************************************)
EXTENDS Delivery

CommitsOf(a) == {a} \X (1..MaxCommits)

\* Commits are lost (no branch, here or on origin, has them) only to the
\* worktree reaper, and only when no monitor will come back for them, however
\* pushes fail and reports get lost: the delayed cleanup does not take the
\* branch, a continuation does not take its parent's.  Left out are agents
\* whose worktree got old before the monitor was through.
LostOnlyWhenOver ==
    [][\A a \in Agents \ overdue :
          CommitsOf(a) \cap Kept \subseteq Kept' \/ at[a] \in TaskEnded]_allVars

\* The plan is told 'submitted' only by an agent one of whose commits is still
\* to be had, and 'failed' only by one all of whose commits, if it made any,
\* are merged: what the monitor compares HEAD with and when it does has to
\* agree with who may have pushed, merged or removed what before.
ReportTrue ==
    [][\A a \in Agents \ overdue :
          a \in handled' \ handled =>
              IF Report(a) = "submitted" THEN CommitsOf(a) \cap Kept # {}
              ELSE CommitsOf(a) \cap Kept \subseteq merged]_allVars
=============================================================================
