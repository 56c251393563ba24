----------------------------- MODULE MCFlowStore -----------------------------
(* An instance of FlowStore for TLC. *)
EXTENDS FlowStore, TLC

CONSTANTS p1, p2, f1, f2, c1, a, b

\* Every post is the one cluster's.
MCClusterOf == (p1 :> c1) @@ (p2 :> c1)

\* Two findings of different flows.
MCFlowOf == (f1 :> a) @@ (f2 :> b)
===============================================================================
