----------------------------- MODULE CostRoundProofs -----------------------------
(***************************************************************************)
(* The safety properties of CostRound, for every set of findings and       *)
(* labels, every threshold and growth ratio, and whatever is refused.      *)
(***************************************************************************)
EXTENDS CostRound, TLAPS

\* Type correctness of a round.
THEOREM TypeCorrect == Spec => []TypeOK
<1>1. Init => TypeOK
  BY RoundAssumption
     DEF Init, TypeOK, Cost, NoGauge, Zero, NoGauges, NoAlerts, Waiting
<1>2. TypeOK /\ [Next]_vars => TypeOK'
  <2> SUFFICES ASSUME TypeOK, [Next]_vars PROVE TypeOK'
    OBVIOUS
  <2> USE RoundAssumption DEF TypeOK
  <2>1. CASE Scrape
    BY <2>1 DEF Scrape, Seen, NoGauges, NoGauge
  <2>2. ASSUME NEW f \in Finding, SetGauge(f) PROVE TypeOK'
    BY <2>2 DEF SetGauge
  <2>3. CASE GaugesSet
    BY <2>3 DEF GaugesSet, Seen
  <2>4. ASSUME NEW f \in Finding, Skip(f) PROVE TypeOK'
    BY <2>4 DEF Skip, Done
  <2>5. ASSUME NEW f \in Finding, Alert(f) PROVE TypeOK'
    <3>1. Append(acked[f], cost[f]) \in Seq(Cost)
      OBVIOUS
    <3> QED BY <2>5, <3>1 DEF Alert, Done
  <2>6. ASSUME NEW f \in Finding, AlertFails(f) PROVE TypeOK'
    BY <2>6 DEF AlertFails, Done
  <2>7. CASE RoundEnds
    BY <2>7 DEF RoundEnds, Waiting
  <2>8. CASE Restart
    BY <2>8 DEF Restart, Cost, Zero, NoGauges, NoGauge, NoAlerts, Waiting
  <2>9. CASE UNCHANGED vars
    BY <2>9 DEF vars
  <2> QED BY <2>1, <2>2, <2>3, <2>4, <2>5, <2>6, <2>7, <2>8, <2>9 DEF Next
<1> QED BY <1>1, <1>2, PTL DEF Spec

-------------------------------------------------------------------------------
(* The messages.  What is noted is the cost in the last one that got        *)
(* through; it is at least the threshold, and costs do not go down.         *)

NotedIsLast ==
  \A f \in Finding :
    lastAlerted[f] = IF acked[f] = <<>> THEN 0 ELSE acked[f][Len(acked[f])]

\* The messages about a finding are paced by the threshold and the ratio.
THEOREM PacedAlerts == Spec => []AlertsArePaced
<1> DEFINE IInv == TypeOK /\ NotedIsLast /\ AlertsArePaced
<1>1. Init => IInv
  <2> SUFFICES ASSUME Init PROVE NotedIsLast /\ AlertsArePaced
    BY TypeCorrect, RoundAssumption
       DEF Init, TypeOK, Cost, NoGauge, Zero, NoGauges, NoAlerts, Waiting
  <2> QED BY DEF Init, NotedIsLast, AlertsArePaced, Zero, NoAlerts
<1>2. IInv /\ TypeOK' /\ [Next]_vars => IInv'
  <2> SUFFICES ASSUME IInv, TypeOK', [Next]_vars PROVE NotedIsLast' /\ AlertsArePaced'
    OBVIOUS
  <2> USE RoundAssumption
  <2>0. ASSUME UNCHANGED <<cost, lastAlerted, acked>> PROVE NotedIsLast' /\ AlertsArePaced'
    BY <2>0 DEF NotedIsLast, AlertsArePaced
  <2>1. CASE Scrape
    <3>1. \A f \in Finding : cost[f] \in Nat /\ cost'[f] \in Nat /\ cost'[f] >= cost[f]
      BY <2>1 DEF Scrape, TypeOK, Cost
    <3>2. UNCHANGED <<lastAlerted, acked>>
      BY <2>1 DEF Scrape
    <3>3. AlertsArePaced'
      <4> SUFFICES ASSUME NEW f \in Finding, NEW i \in 1 .. Len(acked[f])
                   PROVE /\ Threshold <= acked[f][i] /\ acked[f][i] <= cost'[f]
                         /\ i > 1 => acked[f][i - 1] * Ratio <= acked[f][i]
        BY <3>2 DEF AlertsArePaced
      <4>1. acked[f][i] \in Nat /\ acked[f][i] <= cost[f]
        BY DEF TypeOK, Cost, AlertsArePaced
      <4> QED BY <3>1, <4>1 DEF AlertsArePaced
    <3> QED BY <3>2, <3>3 DEF NotedIsLast
  <2>2. ASSUME NEW f \in Finding, SetGauge(f) PROVE NotedIsLast' /\ AlertsArePaced'
    BY <2>0, <2>2 DEF SetGauge
  <2>3. CASE GaugesSet
    BY <2>0, <2>3 DEF GaugesSet
  <2>4. ASSUME NEW f \in Finding, Skip(f) PROVE NotedIsLast' /\ AlertsArePaced'
    BY <2>0, <2>4 DEF Skip
  <2>5. ASSUME NEW f \in Finding, Alert(f) PROVE NotedIsLast' /\ AlertsArePaced'
    <3> DEFINE s == acked[f]
               t == Append(s, cost[f])
    <3>1. /\ s \in Seq(Cost) /\ cost[f] \in Nat
          /\ acked' = [acked EXCEPT ![f] = t]
          /\ lastAlerted' = [lastAlerted EXCEPT ![f] = cost[f]]
          /\ cost' = cost /\ Due(f)
      BY <2>5 DEF Alert, TypeOK, Cost
    <3>2. /\ Len(t) = Len(s) + 1 /\ t # <<>> /\ t[Len(t)] = cost[f]
          /\ \A i \in 1 .. Len(s) : t[i] = s[i]
      BY <3>1
    <3>3. NotedIsLast'
      BY <3>1, <3>2 DEF NotedIsLast, TypeOK
    <3>4. s # <<>> => s[Len(s)] * Ratio <= cost[f]
      <4> SUFFICES ASSUME s # <<>> PROVE s[Len(s)] * Ratio <= cost[f]
        OBVIOUS
      <4>1. Len(s) \in 1 .. Len(s) /\ s[Len(s)] \in Nat
        BY <3>1 DEF Cost
      <4>2. lastAlerted[f] = s[Len(s)] /\ s[Len(s)] >= Threshold
        BY <4>1 DEF NotedIsLast, AlertsArePaced
      <4>3. cost[f] >= lastAlerted[f] * Ratio
        BY <3>1, <4>1, <4>2 DEF Due
      <4> QED BY <3>1, <4>1, <4>2, <4>3
    <3>5. \A i \in 1 .. Len(t) : /\ Threshold <= t[i] /\ t[i] <= cost[f]
                                 /\ i > 1 => t[i - 1] * Ratio <= t[i]
      <4> TAKE i \in 1 .. Len(t)
      <4>1. CASE i = Len(s) + 1
        BY <3>1, <3>2, <3>4, <4>1 DEF Due
      <4>2. CASE i \in 1 .. Len(s)
        <5>1. t[i] = s[i] /\ (i > 1 => t[i - 1] = s[i - 1])
          BY <3>1, <3>2, <4>2
        <5> QED BY <4>2, <5>1 DEF AlertsArePaced
      <4> QED BY <3>1, <3>2, <4>1, <4>2
    <3>6. AlertsArePaced'
      BY <3>1, <3>5 DEF AlertsArePaced, TypeOK
    <3> QED BY <3>3, <3>6
  <2>6. ASSUME NEW f \in Finding, AlertFails(f) PROVE NotedIsLast' /\ AlertsArePaced'
    BY <2>0, <2>6 DEF AlertFails
  <2>7. CASE RoundEnds
    BY <2>0, <2>7 DEF RoundEnds
  <2>8. CASE Restart
    BY <2>8 DEF Restart, NotedIsLast, AlertsArePaced, Zero, NoAlerts
  <2>9. CASE UNCHANGED vars
    BY <2>0, <2>9 DEF vars
  <2> QED BY <2>1, <2>2, <2>3, <2>4, <2>5, <2>6, <2>7, <2>8, <2>9 DEF Next
<1> QED BY <1>1, <1>2, TypeCorrect, PTL DEF Spec

-------------------------------------------------------------------------------
(* The gauges.  While they are being set, each that has been set shows the  *)
(* cost of a finding that has had its turn, and the others are empty.       *)

ShowsOneOf(S) ==
  \A l \in Label : LET F == {f \in S : LabelOf[f] = l}
                   IN IF F = {} THEN gauge[l] = NoGauge
                      ELSE \E f \in F : gauge[l] = cost[f]

GaugesSoFar ==
  tick.pc = "gauges" => tick.todo \subseteq Seen /\ ShowsOneOf(Seen \ tick.todo)

\* Once a round has set them, the gauges show present costs, whatever rounds and
\* restarts were before.
THEOREM GaugesStayCurrent == Spec => []GaugesAreCurrent
<1> DEFINE IInv == TypeOK /\ GaugesSoFar /\ GaugesAreCurrent
<1>1. Init => GaugesSoFar /\ GaugesAreCurrent
  BY DEF Init, GaugesSoFar, GaugesAreCurrent, Waiting
<1>2. IInv /\ TypeOK' /\ [Next]_vars => (GaugesSoFar /\ GaugesAreCurrent)'
  <2> SUFFICES ASSUME IInv, TypeOK', [Next]_vars
               PROVE GaugesSoFar' /\ GaugesAreCurrent'
    OBVIOUS
  <2> USE RoundAssumption
  <2>0. ASSUME UNCHANGED <<cost, gauge>>, tick'.pc = "alerts", tick.pc = "alerts"
        PROVE GaugesSoFar' /\ GaugesAreCurrent'
    BY <2>0 DEF GaugesSoFar, GaugesAreCurrent, Seen
  <2>1. CASE Scrape
    <3>1. tick' = [pc |-> "gauges", todo |-> Seen'] /\ gauge' = NoGauges
      BY <2>1 DEF Scrape
    <3> QED BY <3>1 DEF GaugesSoFar, GaugesAreCurrent, ShowsOneOf, NoGauges
  <2>2. ASSUME NEW f \in Finding, SetGauge(f) PROVE GaugesSoFar' /\ GaugesAreCurrent'
    <3> DEFINE S == Seen \ tick.todo
               T == Seen' \ tick'.todo
    <3>1. /\ tick.pc = "gauges" /\ f \in tick.todo
          /\ gauge' = [gauge EXCEPT ![LabelOf[f]] = cost[f]]
          /\ cost' = cost /\ tick'.pc = "gauges" /\ tick'.todo = tick.todo \ {f}
      BY <2>2 DEF SetGauge, IsNext, TypeOK
    <3>2. Seen' = Seen /\ f \in Seen /\ T = S \cup {f} /\ tick'.todo \subseteq Seen'
      BY <3>1 DEF GaugesSoFar, Seen
    <3>3. ShowsOneOf(Seen \ tick.todo)'
      <4> SUFFICES ASSUME NEW l \in Label
                   PROVE LET F == {g \in T : LabelOf[g] = l}
                         IN IF F = {} THEN gauge'[l] = NoGauge
                            ELSE \E g \in F : gauge'[l] = cost[g]
        BY <3>1, <3>2 DEF ShowsOneOf
      <4>1. CASE l = LabelOf[f]
        <5>1. gauge'[l] = cost[f]
          BY <3>1, <4>1 DEF TypeOK
        <5> QED BY <3>2, <4>1, <5>1
      <4>2. CASE l # LabelOf[f]
        <5>1. gauge'[l] = gauge[l] /\ {g \in T : LabelOf[g] = l} = {g \in S : LabelOf[g] = l}
          BY <3>1, <3>2, <4>2 DEF TypeOK
        <5> QED BY <3>1, <5>1 DEF GaugesSoFar, ShowsOneOf
      <4> QED BY <4>1, <4>2
    <3> QED BY <3>1, <3>2, <3>3 DEF GaugesSoFar, GaugesAreCurrent
  <2>3. CASE GaugesSet
    <3>1. /\ tick.pc = "gauges" /\ tick.todo = {} /\ tick'.pc = "alerts"
          /\ UNCHANGED <<cost, gauge>>
      BY <2>3 DEF GaugesSet
    <3>2. Seen' = Seen /\ Seen \ tick.todo = Seen
      BY <3>1 DEF Seen
    <3>3. ShowsOneOf(Seen)
      BY <3>1, <3>2 DEF GaugesSoFar
    <3> QED BY <3>1, <3>2, <3>3 DEF GaugesSoFar, GaugesAreCurrent, ShowsOneOf
  <2>4. ASSUME NEW f \in Finding, Skip(f) \/ Alert(f) \/ AlertFails(f)
        PROVE GaugesSoFar' /\ GaugesAreCurrent'
    BY <2>0, <2>4 DEF Skip, Alert, AlertFails, Done, TypeOK
  <2>5. CASE RoundEnds \/ Restart
    BY <2>5 DEF RoundEnds, Restart, Waiting, GaugesSoFar, GaugesAreCurrent
  <2>6. CASE UNCHANGED vars
    BY <2>6 DEF vars, GaugesSoFar, GaugesAreCurrent, ShowsOneOf, Seen
  <2> QED BY <2>1, <2>2, <2>3, <2>4, <2>5, <2>6 DEF Next
<1> QED BY <1>1, <1>2, TypeCorrect, PTL DEF Spec
================================================================================
