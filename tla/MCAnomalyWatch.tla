---------------------------- MODULE MCAnomalyWatch ----------------------------
(* An instance of AnomalyWatch for TLC. *)
EXTENDS AnomalyWatch, TLC

CONSTANTS n1, n2, c1, c2

\* A cluster for each of two tenants, with an agent each.
MCClusterOf == (n1 :> c1) @@ (n2 :> c2)
MCTenantOf  == (c1 :> 1) @@ (c2 :> 2)
===============================================================================
