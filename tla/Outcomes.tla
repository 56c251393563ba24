------------------------------- MODULE Outcomes -------------------------------
(***************************************************************************)
(* Closed-loop outcome tracking (outcome.go) between the agents that ship  *)
(* snapshots and the operator who applies a recommended fix, for one       *)
(* cluster_id of one tenant.                                               *)
(*                                                                         *)
(* A dashboard load reads the latest findings and, several queries later,  *)
(* records them as shown (summary_api.go); marking a fix applied takes the *)
(* time and then waits for SQLite's write lock (busy_timeout); listing the *)
(* outcomes first measures the pending ones, with a statement of its own   *)
(* for every read and one transaction for the writes.  Handlers run        *)
(* concurrently, so every read may be stale when it is used.               *)
(*                                                                         *)
(* Abstractions.  A key is a (source, destination, path class) triple and  *)
(* PairOf its (source, destination).  cost_before_inr stands for the four  *)
(* columns the upsert's CASE freezes together.  An ingest and a compaction *)
(* pass are one step each here; FlowStore has their transactions.  The     *)
(* node of a stored row and the snapshot times beside cost_before and      *)
(* cost_after are history: the code does not keep them.                    *)
(***************************************************************************)
EXTENDS Integers, FiniteSets, FiniteSetsExt

CONSTANTS
  Key,        \* (source, destination, path class)
  Pair,       \* (source, destination)
  PairOf,     \* the pair of a key
  Hinted,     \* the keys whose finding carries a fix hint
  TopFixes,   \* how many fixes a dashboard shows: 10
  Node,       \* the nodes whose agents report under this cluster_id
  Handler,    \* concurrent requests
  Retention,  \* how long raw rows are kept
  MaxCost,    \* bound on an agent's cumulative cost
  MaxNow,     \* bound on the clock
  MaxShips    \* bound on the snapshots a run ships

ASSUME OutcomeAssumption ==
  /\ PairOf \in [Key -> Pair]
  /\ Hinted \subseteq Key
  /\ TopFixes \in Nat /\ Retention \in Nat \ {0}
  /\ MaxCost \in Nat /\ MaxNow \in Nat /\ MaxShips \in Nat

VARIABLES
  now,      \* the clock, in seconds
  cum,      \* cum[n][k]: the agent's cumulative cost of k, 0 if not seen
  ships,    \* snapshots shipped so far
  flows,    \* flow_aggregate
  outcome,  \* recommendation_outcomes
  req,      \* what each request holds
  moved     \* applied keys whose pair has carried traffic since (history)

vars == <<now, cum, ships, flows, outcome, req, moved>>

None == -1                     \* SQL NULL
Time == 0 .. MaxNow
Cost == 0 .. MaxCost
FlowRow == [at : Time, node : Node, key : Key, cost : Cost \ {0}]
OutcomeRow ==
  [shown : BOOLEAN, before : Cost, beforeAt : Time \cup {None},
   applied : Time \cup {None}, after : Cost \cup {None},
   afterAt : Time \cup {None}]
Probe  == [key : Key, at : Time]
Result == [key : Key, cost : Cost, at : Time]
Idle == [pc |-> "idle", seen |-> {}, todo |-> {}, probe |-> {}, found |-> {}]

TypeOK ==
  /\ now \in Time
  /\ cum \in [Node -> [Key -> Cost]]
  /\ ships \in 0 .. MaxShips
  /\ flows \subseteq FlowRow
  /\ outcome \in [Key -> OutcomeRow]
  /\ req \in [Handler ->
                [pc : {"idle", "shown", "applying", "measuring"}, seen : SUBSET FlowRow,
                 todo : SUBSET Key, probe : SUBSET Probe,
                 found : SUBSET Result]]
  /\ moved \subseteq Key

Init ==
  /\ now = 0
  /\ cum = [n \in Node |-> [k \in Key |-> 0]]
  /\ ships = 0
  /\ flows = {}
  /\ outcome = [k \in Key |->
       [shown |-> FALSE, before |-> 0, beforeAt |-> None,
        applied |-> None, after |-> None, afterAt |-> None]]
  /\ req = [h \in Handler |-> Idle]
  /\ moved = {}

IsApplied(k)  == outcome[k].applied # None
IsMeasured(k) == outcome[k].after # None

\* COALESCE(MAX(reported_at), 0)
LatestAt == IF flows = {} THEN 0 ELSE Max({f.at : f \in flows})

\* LatestFindings: the rows of the latest snapshot.
LatestFindings == {f \in flows : f.at = LatestAt}

RowsAt(t, pair) == {f \in flows : f.at = t /\ PairOf[f.key] = pair}

-------------------------------------------------------------------------------
(* The world: time, traffic, agents and compaction.                         *)

Tick ==
  /\ now < MaxNow
  /\ now' = now + 1
  /\ UNCHANGED <<cum, ships, flows, outcome, req, moved>>

\* Aggregate.Add: costs only accumulate, and a change of class adds a new key
\* beside the old one.
Traffic(n, k) ==
  /\ cum[n][k] < MaxCost
  /\ cum' = [cum EXCEPT ![n][k] = @ + 1]
  /\ moved' = moved \cup {j \in Key : IsApplied(j) /\ PairOf[j] = PairOf[k]}
  /\ UNCHANGED <<now, ships, flows, outcome, req>>

\* An agent that restarts has seen nothing yet.
AgentRestart(n) ==
  /\ cum' = [cum EXCEPT ![n] = [k \in Key |-> 0]]
  /\ UNCHANGED <<now, ships, flows, outcome, req, moved>>

\* Ship and Ingest: one snapshot of everything the agent of n has seen.
Ship(n) ==
  /\ ships < MaxShips
  /\ ships' = ships + 1
  /\ flows' = flows \cup
       {[at |-> now, node |-> n, key |-> k, cost |-> cum[n][k]] :
          k \in {j \in Key : cum[n][j] > 0}}
  /\ UNCHANGED <<now, cum, outcome, req, moved>>

\* CompactFindingsOlderThan: what is past the retention leaves flow_aggregate.
Compact ==
  /\ flows' = {f \in flows : f.at >= now - Retention}
  /\ UNCHANGED <<now, cum, ships, outcome, req, moved>>

-------------------------------------------------------------------------------
(* handleDashboardSummary                                                   *)

DashboardRead(h) ==
  /\ req[h].pc = "idle"
  /\ req' = [req EXCEPT ![h].pc = "shown", ![h].seen = LatestFindings]
  /\ UNCHANGED <<now, cum, ships, flows, outcome, moved>>

\* Mutant of Shown: the upsert replaces the row of an applied key too.
Shown_Refreshes(k, rows) ==
  LET last == CHOOSE f \in rows : \A g \in rows : f.cost <= g.cost
  IN  [outcome[k] EXCEPT !.shown = TRUE, !.before = last.cost,
                         !.beforeAt = last.at]

\* RecordRecommendationsShown: one upsert per fix, the most
\* expensive first, so the cheapest row of a key is the one that stays.
Shown(k, rows) ==
  LET last == CHOOSE f \in rows : \A g \in rows : f.cost <= g.cost
  IN  IF IsApplied(k)
      THEN outcome[k]
      ELSE [outcome[k] EXCEPT !.shown = TRUE, !.before = last.cost,
                              !.beforeAt = last.at]

\* topFixes: the most expensive of the tenant's findings with a hint.  Those of its other
\* clusters may leave any number of the places to the rows read here.
Shows(rows) ==
  LET hints == {f \in rows : f.key \in Hinted}
  IN  {fixes \in SUBSET hints :
         /\ Cardinality(fixes) <= TopFixes
         /\ \A f \in fixes, g \in hints \ fixes : f.cost >= g.cost}

DashboardRecord(h) ==
  /\ req[h].pc = "shown"
  /\ \E fixes \in Shows(req[h].seen) :
       LET of(k) == {f \in fixes : f.key = k}
       IN  outcome' = [k \in Key |-> IF of(k) # {} THEN Shown(k, of(k)) ELSE outcome[k]]
  /\ req' = [req EXCEPT ![h] = Idle]
  /\ UNCHANGED <<now, cum, ships, flows, moved>>

-------------------------------------------------------------------------------
(* MarkRecommendationApplied                                                *)

\* The time is taken first.
ApplyBegin(h, k) ==
  /\ req[h].pc = "idle"
  /\ req' = [req EXCEPT ![h].pc = "applying",
                        ![h].probe = {[key |-> k, at |-> now]}]
  /\ UNCHANGED <<now, cum, ships, flows, outcome, moved>>

\* UPDATE ... WHERE applied_at IS NULL: only the first time, and only what
\* was shown.  Otherwise the answer is not found, or the no-op success.
ApplyWrite(h) ==
  /\ req[h].pc = "applying"
  /\ \E p \in req[h].probe :
       outcome' = IF outcome[p.key].shown /\ outcome[p.key].applied = None
                  THEN [outcome EXCEPT ![p.key].applied = p.at]
                  ELSE outcome
  /\ req' = [req EXCEPT ![h] = Idle]
  /\ UNCHANGED <<now, cum, ships, flows, moved>>

-------------------------------------------------------------------------------
(* measurePendingOutcomes                                                   *)

MeasureBegin(h) ==
  LET pendings == {k \in Key : IsApplied(k) /\ ~IsMeasured(k)} IN
    /\ req[h].pc = "idle"
    /\ pendings # {}
    /\ req' = [req EXCEPT ![h].pc = "measuring", ![h].todo = pendings]
    /\ UNCHANGED <<now, cum, ships, flows, outcome, moved>>

\* Mutant of MeasureLatest: < for <=, a snapshot of the apply's own second.
MeasureLatest_SameSecond(h, k) ==
  /\ req[h].pc = "measuring"
  /\ req[h].probe = {}
  /\ k \in req[h].todo
  /\ req' = [req EXCEPT
       ![h].todo = @ \ {k},
       ![h].probe = IF LatestAt < outcome[k].applied
                    THEN {} ELSE {[key |-> k, at |-> LatestAt]}]
  /\ UNCHANGED <<now, cum, ships, flows, outcome, moved>>

\* The time of the latest snapshot; no fresher data leaves the key pending.
MeasureLatest(h, k) ==
  /\ req[h].pc = "measuring"
  /\ req[h].probe = {}
  /\ k \in req[h].todo
  /\ req' = [req EXCEPT
       ![h].todo = @ \ {k},
       ![h].probe = IF LatestAt <= outcome[k].applied
                    THEN {} ELSE {[key |-> k, at |-> LatestAt]}]
  /\ UNCHANGED <<now, cum, ships, flows, outcome, moved>>

\* The pair's greatest cost at that time, of any class; no row means 0.
MeasureCost(h) ==
  /\ req[h].pc = "measuring"
  /\ \E p \in req[h].probe :
       LET costs == {f.cost : f \in RowsAt(p.at, PairOf[p.key])}
           cost  == IF costs = {} THEN 0 ELSE Max(costs)
       IN  req' = [req EXCEPT
                     ![h].probe = {},
                     ![h].found = @ \cup {[key |-> p.key, cost |-> cost,
                                           at |-> p.at]}]
  /\ UNCHANGED <<now, cum, ships, flows, outcome, moved>>

\* One transaction of UPDATE ... WHERE id = ?
MeasureSave(h) ==
  /\ req[h].pc = "measuring"
  /\ req[h].todo = {} /\ req[h].probe = {}
  /\ outcome' = [k \in Key |->
       IF \E f \in req[h].found : f.key = k
       THEN LET f == CHOOSE f \in req[h].found : f.key = k
            IN  [outcome[k] EXCEPT !.after = f.cost, !.afterAt = f.at]
       ELSE outcome[k]]
  /\ req' = [req EXCEPT ![h] = Idle]
  /\ UNCHANGED <<now, cum, ships, flows, moved>>

\* Any error, or the end of the process, drops what a request holds.
Abandon(h) ==
  /\ req[h].pc # "idle"
  /\ req' = [req EXCEPT ![h] = Idle]
  /\ UNCHANGED <<now, cum, ships, flows, outcome, moved>>

Next ==
  \/ Tick
  \/ \E n \in Node, k \in Key : Traffic(n, k)
  \/ \E n \in Node : AgentRestart(n) \/ Ship(n)
  \/ Compact
  \/ \E h \in Handler : \/ DashboardRead(h)
                        \/ DashboardRecord(h)
                        \/ \E k \in Key : ApplyBegin(h, k)
                        \/ ApplyWrite(h)
                        \/ MeasureBegin(h)
                        \/ \E k \in Key : MeasureLatest(h, k)
                        \/ MeasureCost(h)
                        \/ MeasureSave(h)
                        \/ Abandon(h)

Spec == Init /\ [][Next]_vars

-------------------------------------------------------------------------------
(* Safety                                                                   *)

\* Once a fix is marked applied, its baseline and the moment it was applied
\* never move again, whatever dashboard loads that read earlier data still
\* have to record and however often apply is repeated.
AppliedIsFinal ==
  [][\A k \in Key : IsApplied(k) =>
       /\ outcome'[k].applied = outcome[k].applied
       /\ outcome'[k].before = outcome[k].before
       /\ outcome'[k].beforeAt = outcome[k].beforeAt]_vars

\* What is reported as saved compares two moments in the right order: a
\* measurement exists only for an applied fix, comes from a snapshot after the
\* apply, and from one no older than the baseline's.  Every step of it is read
\* in a statement of its own, with ingests and compactions in between.
BeforeAndAfter ==
  \A k \in Key : IsMeasured(k) =>
    /\ IsApplied(k)
    /\ outcome[k].afterAt > outcome[k].applied
    /\ outcome[k].afterAt >= outcome[k].beforeAt

-------------------------------------------------------------------------------
(* A claim of a comment that the code does not keep                         *)

\* outcome.go:133-134: a flow that stopped when the fix was applied has
\* "dropped to 0, not 'no data'" when it is measured.
StoppedFlowMeasuresZero ==
  \A k \in Key : IsMeasured(k) /\ k \notin moved => outcome[k].after = 0
===============================================================================
