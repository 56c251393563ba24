------------------------------- MODULE Placement -------------------------------
(***************************************************************************)
(* What better zones could save (placement.go): a local search, from       *)
(* several initial splits, for a partition of the workloads into zones     *)
(* that cuts as little cross-zone cost as it can.                          *)
(*                                                                         *)
(* Abstractions.  Costs are integers.  deterministicShuffle may give any   *)
(* order, and of the moves that save the same any may be taken (the code   *)
(* takes the first in the order of the names).                             *)
(***************************************************************************)
EXTENDS Integers, FiniteSets, FiniteSetsExt

CONSTANTS
  Workload,
  Graph,          \* what the findings may add up to: the cost of each edge
  GroupCount,     \* the values of ?groups=
  Restarts,       \* the constant of that name
  MaxIterations   \* the constant of that name

Pair == {e \in SUBSET Workload : Cardinality(e) = 2}
Group(k) == 0 .. k - 1

ASSUME PlacementAssumption ==
  /\ IsFiniteSet(Workload)
  /\ \A w \in Graph : DOMAIN w \subseteq Pair /\ \A e \in DOMAIN w : w[e] \in Nat
  /\ GroupCount \subseteq Nat \ {0}
  /\ Restarts \in Nat \ {0} /\ MaxIterations \in Nat

VARIABLES
  edges,        \* with their CostINR
  numGroups,
  stage,
  restart,
  assignment,   \* of this restart
  groupSize,
  iterations,
  best          \* bestCost, bestAssignment, bestIterations

searchVars == <<edges, numGroups, stage, restart, assignment, groupSize, iterations, best>>

\* buildPlacementGraph takes the nodes from the edges.
Nodes == UNION DOMAIN edges
Zones == Group(numGroups)

In(a, g) == {n \in DOMAIN a : a[n] = g}
Crossing(a) == {e \in DOMAIN edges : \E m, n \in e : a[m] # a[n]}
CutCost(a) == MapThenSumSet(LAMBDA e : edges[e], Crossing(a))
Observed == MapThenSumSet(LAMBDA e : edges[e], DOMAIN edges)

NoAssignment == [n \in {} |-> 0]

SearchTypeOK ==
  /\ edges \in Graph
  /\ numGroups \in GroupCount
  /\ stage \in {"start", "search", "done"}
  /\ restart \in 0 .. Restarts
  /\ IF stage = "search" THEN assignment \in [Nodes -> Zones] ELSE assignment = NoAssignment
  /\ IF stage = "search" THEN groupSize \in [Zones -> Nat] ELSE groupSize = NoAssignment
  /\ iterations \in 0 .. MaxIterations
  /\ best \in [cost : Int, assignment : [Nodes -> Zones] \cup {NoAssignment},
               iterations : 0 .. MaxIterations]

SearchInit ==
  /\ edges \in Graph /\ numGroups \in GroupCount
  /\ stage = "start" /\ restart = 0
  /\ assignment = NoAssignment /\ groupSize = NoAssignment /\ iterations = 0
  /\ best = [cost |-> Observed + 1, assignment |-> NoAssignment, iterations |-> 0]

\* Dealt round robin in some order, group g gets these.
Dealt(g) == {i \in 0 .. Cardinality(Nodes) - 1 : i % numGroups = g}

Start ==
  /\ stage = "start" /\ restart < Restarts
  /\ assignment' \in {a \in [Nodes -> Zones] :
                        \A g \in Zones : Cardinality(In(a, g)) = Cardinality(Dealt(g))}
  /\ groupSize' = [g \in Zones |-> Cardinality(Dealt(g))]
  /\ iterations' = 0
  /\ stage' = "search"
  /\ UNCHANGED <<edges, numGroups, restart, best>>

\* What the edges from n into group g cost.
Towards(n, g) ==
  MapThenSumSet(LAMBDA e : edges[e],
    {e \in DOMAIN edges : n \in e /\ \E m \in e \ {n} : assignment[m] = g})

\* Mutant of Delta: the edges that would newly cross zones are forgotten.
Delta_OneSided(n, g) == 0 - Towards(n, g)

Delta(n, g) == Towards(n, assignment[n]) - Towards(n, g)

\* Mutant of Movable: a zone may be left empty.
Movable_Empties(n) == groupSize[assignment[n]] > 0

\* "moving this node would leave a real zone empty"
Movable(n) == groupSize[assignment[n]] > 1

Improving ==
  {move \in Nodes \X Zones :
     /\ move[2] # assignment[move[1]] /\ Movable(move[1])
     /\ Delta(move[1], move[2]) < 0}

\* Mutant of Move: the counters are swapped.
Move_Swapped ==
  /\ stage = "search" /\ iterations < MaxIterations
  /\ \E move \in Improving :
       /\ \A other \in Improving :
            Delta(move[1], move[2]) <= Delta(other[1], other[2])
       /\ assignment' = [assignment EXCEPT ![move[1]] = move[2]]
       /\ groupSize' = [groupSize EXCEPT ![assignment[move[1]]] = @ + 1,
                                         ![move[2]] = @ - 1]
  /\ iterations' = iterations + 1
  /\ UNCHANGED <<edges, numGroups, stage, restart, best>>

Move ==
  /\ stage = "search" /\ iterations < MaxIterations
  /\ \E move \in Improving :
       /\ \A other \in Improving :
            Delta(move[1], move[2]) <= Delta(other[1], other[2])
       /\ assignment' = [assignment EXCEPT ![move[1]] = move[2]]
       /\ groupSize' = [groupSize EXCEPT ![assignment[move[1]]] = @ - 1,
                                         ![move[2]] = @ + 1]
  /\ iterations' = iterations + 1
  /\ UNCHANGED <<edges, numGroups, stage, restart, best>>

\* Mutant of Converged: the cost that is kept is not the assignment's.
Converged_KeepsFirst ==
  /\ stage = "search" /\ (iterations = MaxIterations \/ Improving = {})
  /\ best' = [cost |-> IF CutCost(assignment) < best.cost THEN CutCost(assignment) ELSE best.cost,
              assignment |-> IF best.assignment = NoAssignment
                             THEN assignment ELSE best.assignment,
              iterations |-> iterations]
  /\ restart' = restart + 1
  /\ stage' = "start"
  /\ assignment' = NoAssignment /\ groupSize' = NoAssignment
  /\ UNCHANGED <<edges, numGroups, iterations>>

\* Mutant of Converged: it stops after any number of moves.
Converged_TooEarly ==
  /\ stage = "search"
  /\ best' = IF CutCost(assignment) < best.cost
             THEN [cost |-> CutCost(assignment), assignment |-> assignment,
                   iterations |-> iterations]
             ELSE best
  /\ restart' = restart + 1
  /\ stage' = "start"
  /\ assignment' = NoAssignment /\ groupSize' = NoAssignment
  /\ UNCHANGED <<edges, numGroups, iterations>>

\* "no single move helps", or the limit: the first of the cheapest is kept.
Converged ==
  /\ stage = "search" /\ (iterations = MaxIterations \/ Improving = {})
  /\ best' = IF CutCost(assignment) < best.cost
             THEN [cost |-> CutCost(assignment), assignment |-> assignment,
                   iterations |-> iterations]
             ELSE best
  /\ restart' = restart + 1
  /\ stage' = "start"
  /\ assignment' = NoAssignment /\ groupSize' = NoAssignment
  /\ UNCHANGED <<edges, numGroups, iterations>>

Finish ==
  /\ stage = "start" /\ restart = Restarts
  /\ stage' = "done"
  /\ UNCHANGED <<edges, numGroups, restart, assignment, groupSize, iterations, best>>

\* PotentialSavingsINR
Savings == IF Observed - best.cost < 0 THEN 0 ELSE Observed - best.cost

SearchNext == Start \/ Move \/ Converged \/ Finish

SearchSpec == SearchInit /\ [][SearchNext]_searchVars

-------------------------------------------------------------------------------
(* Properties.                                                              *)

\* "until no move improves it": every move makes the whole assignment cheaper, although it
\* is chosen by the edges of one workload only.
EveryMoveSaves ==
  [][stage = "search" /\ stage' = "search" =>
       CutCost(assignment') < CutCost(assignment)]_searchVars

\* The number of zones that can be in use.
InUse == {g \in Zones : g < Cardinality(Nodes)}

\* "it never lets a zone go from populated to empty": the group sizes, which only count
\* up and down, are those of the assignment, and every zone that got a workload at first
\* has one after every move.
ZonesStayPopulated ==
  stage = "search" => /\ \A g \in Zones : groupSize[g] = Cardinality(In(assignment, g))
                   /\ \A g \in InUse : In(assignment, g) # {}

\* The partitions that the question is about, and the least any of them costs.
Partitions == {a \in [Nodes -> Zones] : \A g \in InUse : In(a, g) # {}}

\* What is reported can be had: the cost and the saving are those of the assignment that
\* is reported beside them, an assignment of every workload that uses every zone it must,
\* whichever restart it comes from; and the saving is not cut off at 0.
SavingsAreReal ==
  stage = "done" =>
    /\ best.assignment \in Partitions
    /\ best.cost = CutCost(best.assignment)
    /\ Savings = Observed - CutCost(best.assignment)

\* The report tells when the limit may have ended the search: with fewer iterations than
\* that, no other zone for one workload, as long as its own keeps another, would be cheaper.
AnswerIsLocalOptimum ==
  stage = "done" /\ best.iterations < MaxIterations =>
    \A n \in Nodes, g \in Zones :
      LET b == [best.assignment EXCEPT ![n] = g]
      IN b \in Partitions => CutCost(b) >= best.cost
================================================================================
