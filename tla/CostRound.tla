------------------------------- MODULE CostRound -------------------------------
(***************************************************************************)
(* What an agent does with its findings after a scrape (main.go,           *)
(* metrics.go, alert.go): it sets the cost gauges that Prometheus reads,   *)
(* and tells a Slack channel of the findings that have become expensive.   *)
(* The webhook may refuse a message, or take it and answer too late.       *)
(*                                                                         *)
(* Abstractions.  Costs are small numbers, the high end of the range only; *)
(* the low end follows it.  A finding appears when it first costs          *)
(* something.  Shipping is in DeployEvents.                                *)
(***************************************************************************)
EXTENDS Integers, Sequences

CONSTANTS
  Finding,
  Label, LabelOf,   \* a gauge's labels: source workload and path class
  Threshold,        \* -alert-threshold-inr
  Ratio,            \* -alert-growth-ratio
  Refused,          \* the findings the webhook refuses to hear of
  MaxCost,          \* bound on what a finding adds up
  MaxRestarts       \* bound

ASSUME RoundAssumption ==
  /\ LabelOf \in [Finding -> Label]
  /\ Threshold \in Nat \ {0} /\ Ratio \in Nat \ {0, 1}
  /\ Refused \subseteq Finding
  /\ MaxCost \in Nat /\ MaxRestarts \in Nat

VARIABLES
  cost,         \* CostHighINR of each finding
  gauge,        \* costINR
  lastAlerted,  \* Alerter.lastAlerted, 0 without an entry
  tick,         \* where the main loop is, and the findings it has yet to go through
  told,         \* the cost in the last message the channel got of a finding (history)
  acked,        \* the costs in the messages the agent knows it got (history)
  restarts

vars == <<cost, gauge, lastAlerted, tick, told, acked, restarts>>

Cost == 0 .. MaxCost
NoGauge == -1

TypeOK ==
  /\ cost \in [Finding -> Cost]
  /\ gauge \in [Label -> Cost \cup {NoGauge}]
  /\ lastAlerted \in [Finding -> Cost]
  /\ tick \in [pc : {"scrape", "gauges", "alerts"}, todo : SUBSET Finding]
  /\ told \in [Finding -> Cost]
  /\ acked \in [Finding -> Seq(Cost)]
  /\ restarts \in 0 .. MaxRestarts

Zero == [f \in Finding |-> 0]
NoGauges == [l \in Label |-> NoGauge]
NoAlerts == [f \in Finding |-> <<>>]
Waiting == [pc |-> "scrape", todo |-> {}]

Init ==
  /\ cost = Zero /\ lastAlerted = Zero /\ gauge = NoGauges /\ tick = Waiting
  /\ acked = NoAlerts /\ told = Zero /\ restarts = 0

-------------------------------------------------------------------------------
(* One round of the main loop.                                              *)

\* The findings there are.
Seen == {f \in Finding : cost[f] > 0}

\* Findings(): most expensive first.
IsNext(f) == f \in tick.todo /\ \A g \in tick.todo : cost[g] <= cost[f]

Scrape ==
  /\ tick.pc = "scrape"
  /\ \E c \in [Finding -> Cost] :
       /\ \A f \in Finding : c[f] >= cost[f]
       /\ cost' = c
  /\ tick' = [pc |-> "gauges", todo |-> Seen']
  /\ gauge' = NoGauges      \* costINR.Reset
  /\ UNCHANGED <<lastAlerted, told, acked, restarts>>

\* Mutant of SetGauge: Add, not Set.
SetGauge_Adds(f) ==
  /\ tick.pc = "gauges" /\ IsNext(f)
  /\ gauge' = [gauge EXCEPT ![LabelOf[f]] = IF @ = NoGauge THEN cost[f] ELSE @ + cost[f]]
  /\ tick' = [tick EXCEPT !.todo = @ \ {f}]
  /\ UNCHANGED <<cost, lastAlerted, told, acked, restarts>>

SetGauge(f) ==
  /\ tick.pc = "gauges" /\ IsNext(f)
  /\ gauge' = [gauge EXCEPT ![LabelOf[f]] = cost[f]]
  /\ tick' = [tick EXCEPT !.todo = @ \ {f}]
  /\ UNCHANGED <<cost, lastAlerted, told, acked, restarts>>

GaugesSet ==
  /\ tick.pc = "gauges" /\ tick.todo = {}
  /\ tick' = [pc |-> "alerts", todo |-> Seen]
  /\ UNCHANGED <<cost, gauge, lastAlerted, told, acked, restarts>>

\* Check, for the finding that is next.
Due(f) ==
  /\ cost[f] >= Threshold
  /\ lastAlerted[f] > 0 => cost[f] >= lastAlerted[f] * Ratio

Done(f) == tick' = [tick EXCEPT !.todo = @ \ {f}]

Skip(f) ==
  /\ tick.pc = "alerts" /\ IsNext(f) /\ ~Due(f)
  /\ Done(f)
  /\ UNCHANGED <<cost, gauge, lastAlerted, told, acked, restarts>>

\* Mutant of Alert: only the first one is noted.
Alert_FirstOnly(f) ==
  /\ tick.pc = "alerts" /\ IsNext(f) /\ Due(f) /\ f \notin Refused
  /\ told' = [told EXCEPT ![f] = cost[f]]
  /\ acked' = [acked EXCEPT ![f] = Append(@, cost[f])]
  /\ lastAlerted' = [lastAlerted EXCEPT ![f] = IF @ = 0 THEN cost[f] ELSE @]
  /\ Done(f)
  /\ UNCHANGED <<cost, gauge, restarts>>

Alert(f) ==
  /\ tick.pc = "alerts" /\ IsNext(f) /\ Due(f) /\ f \notin Refused
  /\ told' = [told EXCEPT ![f] = cost[f]]
  /\ acked' = [acked EXCEPT ![f] = Append(@, cost[f])]
  /\ lastAlerted' = [lastAlerted EXCEPT ![f] = cost[f]]
  /\ Done(f)
  /\ UNCHANGED <<cost, gauge, restarts>>

\* Mutant of AlertFails: a failure ends the round.
AlertFails_EndsRound(f) ==
  /\ tick.pc = "alerts" /\ IsNext(f) /\ Due(f)
  /\ \/ f \notin Refused /\ told' = [told EXCEPT ![f] = cost[f]]
     \/ UNCHANGED told
  /\ tick' = [tick EXCEPT !.todo = {}]
  /\ UNCHANGED <<cost, gauge, lastAlerted, acked, restarts>>

\* No connection, a status of 300 and more, or no answer within five seconds: the
\* channel may have got the message, but the agent does not note it.
AlertFails(f) ==
  /\ tick.pc = "alerts" /\ IsNext(f) /\ Due(f)
  /\ \/ f \notin Refused /\ told' = [told EXCEPT ![f] = cost[f]]
     \/ UNCHANGED told
  /\ Done(f)
  /\ UNCHANGED <<cost, gauge, lastAlerted, acked, restarts>>

\* PrintTop and the report are before, Ship is after; the next tick is a scrape.
RoundEnds ==
  /\ tick.pc = "alerts" /\ tick.todo = {}
  /\ tick' = Waiting
  /\ UNCHANGED <<cost, gauge, lastAlerted, told, acked, restarts>>

\* The flow map, the aggregate, the gauges and the alerts are in memory.
Restart ==
  /\ restarts < MaxRestarts
  /\ restarts' = restarts + 1
  /\ cost' = Zero /\ lastAlerted' = Zero /\ gauge' = NoGauges /\ tick' = Waiting
  /\ acked' = NoAlerts /\ told' = Zero

Next ==
  \/ Scrape \/ GaugesSet \/ RoundEnds \/ Restart
  \/ \E f \in Finding : SetGauge(f) \/ Skip(f) \/ Alert(f) \/ AlertFails(f)

Spec == Init /\ [][Next]_vars

\* The ticker goes on and every post is over within five seconds; a webhook that
\* is asked again and again takes a message it does not refuse, at some time.
Fairness ==
  /\ WF_vars(Scrape) /\ WF_vars(GaugesSet) /\ WF_vars(RoundEnds)
  /\ \A f \in Finding :
       WF_vars(SetGauge(f)) /\ WF_vars(Skip(f) \/ Alert(f) \/ AlertFails(f)) /\ SF_vars(Alert(f))

FairSpec == Spec /\ Fairness

-------------------------------------------------------------------------------
(* Properties.                                                              *)

\* The messages about a finding that the agent knows of are few: each is at least Ratio
\* times as expensive as the one before, through failed posts, ticks in between and
\* other findings (alert.go:17-19: "only genuine threshold crossings and further
\* growth").  Nothing paces a message that was delivered and answered too late: the
\* next round sends it again.
AlertsArePaced ==
  \A f \in Finding :
    /\ \A i \in 1 .. Len(acked[f]) :
         /\ Threshold <= acked[f][i] /\ acked[f][i] <= cost[f]
         /\ i > 1 => acked[f][i - 1] * Ratio <= acked[f][i]

\* The channel hears of every finding that has become expensive, at a cost that is still
\* about right, although posts fail and others are refused for ever: a failure is not
\* noted and does not end the round.  (The agent may have to start anew before.)
EveryoneIsTold ==
  \A f \in Finding \ Refused :
    cost[f] >= Threshold ~> cost[f] < Threshold \/ told[f] * Ratio > cost[f]

\* Gauges are set anew in every round and do not add up (metrics.go:98-101): once a
\* round has set them, each shows the present cost of a finding it stands for, and one
\* without a finding nothing.  Where several findings share a gauge (one source and
\* class, several destinations) it shows one of them, not the total that metrics.go:21
\* announces.
GaugesAreCurrent ==
  tick.pc = "alerts" =>
    \A l \in Label : LET F == {f \in Seen : LabelOf[f] = l}
                     IN IF F = {} THEN gauge[l] = NoGauge
                        ELSE \E f \in F : gauge[l] = cost[f]
================================================================================
