----------------------------- MODULE MCWorkspace -----------------------------
(***************************************************************************)
(* A small instance of Workspace for TLC.                                  *)
(***************************************************************************)
EXTENDS WorkspaceProps

CONSTANTS n1, n2, a1, a2, c1, c2
=============================================================================
