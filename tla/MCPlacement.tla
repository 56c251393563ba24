------------------------------ MODULE MCPlacement ------------------------------
(* An instance of Placement for TLC. *)
EXTENDS Placement, TLC

CONSTANTS w1, w2, w3, w4, w5

Degree(w, n) == MapThenSumSet(LAMBDA e : w[e], {e \in DOMAIN w : n \in e})

\* Every graph of up to four workloads with edges that cost 1 or 2, but for the
\* names: the workloads in the order of what their edges cost.
Small ==
  {w \in UNION {[E -> 1 .. 2] : E \in SUBSET {e \in Pair : w5 \notin e}} :
     /\ Degree(w, w1) >= Degree(w, w2)
     /\ Degree(w, w2) >= Degree(w, w3)
     /\ Degree(w, w3) >= Degree(w, w4)}

\* A row of five, on which a search can need four moves.
Row ==
  {w1, w2} :> 4 @@ {w2, w3} :> 4 @@ {w3, w4} :> 2 @@ {w4, w5} :> 1

MCGraph == Small \cup {Row}
================================================================================
