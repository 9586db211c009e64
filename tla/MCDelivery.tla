----------------------------- MODULE MCDelivery -----------------------------
(***************************************************************************)
(* A small instance of Delivery for TLC.                                   *)
(***************************************************************************)
EXTENDS DeliveryProps, TLC

CONSTANTS a1, a2, a3, n1, d1

\* Ids of rows are interchangeable.
RowSymmetry == Permutations(Agents)
=============================================================================
