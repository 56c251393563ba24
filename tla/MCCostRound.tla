----------------------------- MODULE MCCostRound -----------------------------
(* An instance of CostRound for TLC. *)
EXTENDS CostRound, TLC

CONSTANTS f1, f2, f3, l1, l2

\* Two findings with the same labels, and one with a gauge of its own.
MCLabelOf == (f1 :> l1) @@ (f2 :> l1) @@ (f3 :> l2)
================================================================================
