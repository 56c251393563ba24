------------------------------ MODULE MCOutcomes ------------------------------
(* Instances of Outcomes for TLC. *)
EXTENDS Outcomes, TLC

CONSTANTS k1, k2, pair, other, n1, h1, h2

\* Two path classes of one source and destination.
MCPairOf1 == (k1 :> pair) @@ (k2 :> pair)

\* Two different destinations.
MCPairOf2 == (k1 :> pair) @@ (k2 :> other)

Handlers == Permutations({h1, h2})

\* The two classes of one pair, too, may be exchanged.
HandlersAndClasses == {p @@ q : p \in Handlers, q \in Permutations({k1, k2})}
===============================================================================
