---------------------------- MODULE MCAttribution ----------------------------
(* Instances of Attribution for TLC. *)
EXTENDS Attribution, TLC

CONSTANTS s, r, p, q, here, there, z1, z2, c1, a1

\* The pod s talks, and shares the address of its node with r, which may be the one
\* it talks to; p runs on the same node, q in another zone.
MCPodOf    == (c1 :> s)
MCNodeOf   == (s :> here) @@ (r :> here) @@ (p :> here) @@ (q :> there)
MCZoneOf   == (here :> z1) @@ (there :> z2)
MCRegionOf == (z1 :> "r") @@ (z2 :> "r")
MCKindOf   == [a \in Address |-> "private"]
================================================================================
