---------------------------- MODULE MCAdaptation ----------------------------
(***************************************************************************)
(* Small instances of Adaptation for TLC.  The keys are two that seed may  *)
(* insert, so that seed meets keys that exist and keys that do not.        *)
(***************************************************************************)
EXTENDS Adaptation, TLC

CONSTANTS w1, w2
=============================================================================
