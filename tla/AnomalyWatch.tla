----------------------------- MODULE AnomalyWatch -----------------------------
(***************************************************************************)
(* The loop that notices cost anomalies (anomaly_watch.go, anomaly.go).    *)
(* Every five minutes it goes through the tenants, compares the two most   *)
(* recent snapshots of each cluster, and records an alert where the total  *)
(* has at least doubled; an operator acknowledges alerts.  Agents post and *)
(* compaction deletes between any two of its statements.                   *)
(*                                                                         *)
(* Abstractions.  A snapshot is the total cost of a node's findings, in    *)
(* units of the least cost.  A post is committed in one step, in the       *)
(* second of its stamp or the next (FlowStore has its steps), and so is a  *)
(* compaction.  Deploy events, which an anomaly may name as its likely     *)
(* cause, are not stored with an alert and left out.                       *)
(***************************************************************************)
EXTENDS Integers, FiniteSets, FiniteSetsExt

CONSTANTS
  Tenants,      \* the tenants are 1 .. Tenants
  Node,         \* agents
  Cluster,
  ClusterOf,    \* the cluster id each agent is configured with
  TenantOf,     \* the tenant each cluster's token belongs to
  Failing,      \* tenants whose statements may fail every time
  Retention,
  MaxCost,      \* bound on what a node adds up
  MaxNow,       \* bound on time
  MaxFailures   \* bound on crashes, and on failures for other tenants

Tenant == 1 .. Tenants

ASSUME WatchAssumption ==
  /\ Tenants \in Nat
  /\ IsFiniteSet(Node)
  /\ ClusterOf \in [Node -> Cluster]
  /\ TenantOf \in [Cluster -> Tenant]
  /\ Failing \subseteq Tenant
  /\ {Retention, MaxCost, MaxNow, MaxFailures} \subseteq Nat

VARIABLES
  now,
  cum,       \* what each agent has added up so far
  cost,      \* flow_aggregate: the total of each node at each second
  posted,    \* when each agent last posted
  alerts,    \* anomaly_alerts
  watch,     \* the running pass of the loop
  failures

vars == <<now, cum, cost, posted, alerts, watch, failures>>

Time == 0 .. MaxNow
NoRow == -1

Anomaly == [cluster : Cluster, snap : Time, prev : Nat \ {0}, cur : Nat]
Alert == [anomaly : Anomaly, acked : BOOLEAN]

Idle == [pc |-> "idle", tenants |-> {}, tenant |-> 0, clusters |-> {}, found |-> {}]

TypeOK ==
  /\ now \in Time
  /\ cum \in [Node -> 0 .. MaxCost]
  /\ cost \in [Node -> [Time -> (0 .. MaxCost) \cup {NoRow}]]
  /\ posted \in [Node -> Time \cup {NoRow}]
  /\ \A a \in alerts : a \in Alert
  /\ watch.pc \in {"idle", "tenants", "detect", "record"}
  /\ watch.tenants \subseteq Tenant
  /\ watch.tenant \in Tenant \cup {0}
  /\ watch.clusters \subseteq Cluster
  /\ \A a \in watch.found : a \in Anomaly
  /\ failures \in 0 .. MaxFailures

Init ==
  /\ now = 0
  /\ cum = [n \in Node |-> 0]
  /\ cost = [n \in Node |-> [t \in Time |-> NoRow]]
  /\ posted = [n \in Node |-> NoRow]
  /\ alerts = {}
  /\ watch = Idle
  /\ failures = 0

-------------------------------------------------------------------------------
(* CostTrend and Clusters                                                   *)

ReportedAt(c) ==
  {t \in Time : \E n \in Node : ClusterOf[n] = c /\ cost[n][t] # NoRow}

\* The rows of a second.
RowsAt(t) == [n \in Node |-> cost[n][t]]

\* SUM(cost_high_inr) ... GROUP BY reported_at
Total(c, t) ==
  MapThenSumSet(LAMBDA n : RowsAt(t)[n],
                {n \in Node : ClusterOf[n] = c /\ cost[n][t] # NoRow})

ClustersOf(tenant) == {c \in Cluster : TenantOf[c] = tenant /\ ReportedAt(c) # {}}

-------------------------------------------------------------------------------
(* Agents, compaction                                                       *)

Tick ==
  /\ now < MaxNow
  /\ now' = now + 1
  /\ UNCHANGED <<cum, cost, posted, alerts, watch, failures>>

Traffic(n) ==
  /\ cum[n] < MaxCost
  /\ cum' = [cum EXCEPT ![n] = @ + 1]
  /\ UNCHANGED <<now, cost, posted, alerts, watch, failures>>

\* Ship and Ingest.  An agent posts once in 15 s; a post may wait for the lock.
Post(n, at) ==
  /\ at \in {now - 1, now} \cap Time
  /\ posted[n] < at
  /\ posted' = [posted EXCEPT ![n] = at]
  /\ cost' = [cost EXCEPT ![n][at] = cum[n]]
  /\ UNCHANGED <<now, cum, alerts, watch, failures>>

Compact ==
  /\ \E c \in Cluster : \E t \in ReportedAt(c) : t < now - Retention
  /\ cost' = [n \in Node |-> [t \in Time |->
                IF t < now - Retention THEN NoRow ELSE cost[n][t]]]
  /\ UNCHANGED <<now, cum, posted, alerts, watch, failures>>

-------------------------------------------------------------------------------
(* detectAnomalies                                                          *)

\* The two most recent snapshots of c.
Newest(c, last, snap) ==
  /\ {last, snap} \subseteq ReportedAt(c)
  /\ last < snap
  /\ \A t \in ReportedAt(c) : t <= last \/ t = snap

\* Mutant of Jumped: a zero baseline is not skipped.
Jumped_ZeroBaseline(c, last, snap) ==
  /\ Newest(c, last, snap)
  /\ Total(c, snap) >= 2 * Total(c, last)

\* The total has at least doubled, from a baseline that is not zero.
Jumped(c, last, snap) ==
  /\ Newest(c, last, snap)
  /\ Total(c, last) > 0
  /\ Total(c, snap) >= 2 * Total(c, last)

\* The anomaly in a cluster's two most recent snapshots, if there is one.
AnomaliesIn(c) ==
  {[cluster |-> c, snap |-> p[2],
    prev |-> Total(c, p[1]), cur |-> Total(c, p[2])]
     : p \in {q \in Time \X Time : Jumped(c, q[1], q[2])}}

-------------------------------------------------------------------------------
(* StartAnomalyWatchLoop, WatchTenantForNewAnomalies                        *)

SameSnapshot(a, b) == a.cluster = b.cluster /\ a.snap = b.snap

\* Mutant of Recorded: the table has no unique index.
Recorded_NoIndex(a) == alerts \cup {[anomaly |-> a, acked |-> FALSE]}

\* Mutant of Recorded: ON CONFLICT DO UPDATE.
Recorded_Updates(a) ==
  {b \in alerts : ~SameSnapshot(a, b.anomaly)} \cup {[anomaly |-> a, acked |-> FALSE]}

\* INSERT ... ON CONFLICT(tenant_id, cluster_id, snapshot_reported_at) DO NOTHING
Recorded(a) ==
  IF \E b \in alerts : SameSnapshot(a, b.anomaly) THEN alerts
  ELSE alerts \cup {[anomaly |-> a, acked |-> FALSE]}

\* The tick: AllTenantIDs.
WatchBegin ==
  /\ watch.pc = "idle"
  /\ watch' = [Idle EXCEPT !.pc = "tenants", !.tenants = Tenant]
  /\ UNCHANGED <<now, cum, cost, posted, alerts, failures>>

\* The next tenant, by id, and its clusters.
WatchTenant ==
  /\ watch.pc = "tenants"
  /\ watch.tenants # {}
  /\ LET t == Min(watch.tenants) IN
       watch' = [watch EXCEPT
                   !.pc = IF ClustersOf(t) = {} THEN "tenants" ELSE "detect",
                   !.tenants = @ \ {t},
                   !.tenant = t,
                   !.clusters = ClustersOf(t)]
  /\ UNCHANGED <<now, cum, cost, posted, alerts, failures>>

WatchEnd ==
  /\ watch.pc = "tenants"
  /\ watch.tenants = {}
  /\ watch' = Idle
  /\ UNCHANGED <<now, cum, cost, posted, alerts, failures>>

\* detectAnomalies for one cluster.
WatchDetect(c) ==
  LET left  == watch.clusters \ {c}
      found == watch.found \cup AnomaliesIn(c)
  IN /\ watch.pc = "detect"
     /\ c \in watch.clusters
     /\ watch' = [watch EXCEPT
                    !.pc = IF left # {} THEN "detect"
                           ELSE IF found # {} THEN "record" ELSE "tenants",
                    !.clusters = left,
                    !.found = found]
     /\ UNCHANGED <<now, cum, cost, posted, alerts, failures>>

\* The INSERT for one anomaly.
WatchRecord(a) ==
  /\ watch.pc = "record"
  /\ a \in watch.found
  /\ alerts' = Recorded(a)
  /\ watch' = [watch EXCEPT
                 !.pc = IF watch.found = {a} THEN "tenants" ELSE "record",
                 !.found = @ \ {a}]
  /\ UNCHANGED <<now, cum, cost, posted, failures>>

\* Mutant of WatchFail: the error ends the pass.
WatchFail_EndsPass ==
  /\ watch.pc \in {"detect", "record"}
  /\ watch.tenant \in Failing \/ failures < MaxFailures
  /\ failures' = IF watch.tenant \in Failing THEN failures ELSE failures + 1
  /\ watch' = Idle
  /\ UNCHANGED <<now, cum, cost, posted, alerts>>

\* A statement fails: what was not recorded of this tenant is dropped, and the
\* pass continues with the next tenant.
WatchFail ==
  /\ watch.pc \in {"detect", "record"}
  /\ watch.tenant \in Failing \/ failures < MaxFailures
  /\ failures' = IF watch.tenant \in Failing THEN failures ELSE failures + 1
  /\ watch' = [watch EXCEPT !.pc = "tenants", !.clusters = {}, !.found = {}]
  /\ UNCHANGED <<now, cum, cost, posted, alerts>>

\* The server dies; the next one starts with a pass.
Crash ==
  /\ watch # Idle
  /\ failures < MaxFailures
  /\ failures' = failures + 1
  /\ watch' = Idle
  /\ UNCHANGED <<now, cum, cost, posted, alerts>>

\* AcknowledgeAnomalyAlert.  Repeating it changes nothing.
Acknowledge(b) ==
  /\ b \in alerts
  /\ ~b.acked
  /\ alerts' = (alerts \ {b}) \cup {[b EXCEPT !.acked = TRUE]}
  /\ UNCHANGED <<now, cum, cost, posted, watch, failures>>

WatchNext ==
  \/ WatchBegin
  \/ WatchTenant
  \/ WatchEnd
  \/ \E c \in Cluster : WatchDetect(c)
  \/ \E a \in watch.found : WatchRecord(a)
  \/ WatchFail

Next ==
  \/ Tick
  \/ \E n \in Node : Traffic(n)
  \/ \E n \in Node, at \in Time : Post(n, at)
  \/ Compact
  \/ WatchNext
  \/ Crash
  \/ \E b \in alerts : Acknowledge(b)

Spec == Init /\ [][Next]_vars

\* The ticker never stops, and a pass that has begun goes on.
Fairness == WF_vars(WatchNext)

FairSpec == Spec /\ Fairness

-------------------------------------------------------------------------------
(* Safety                                                                   *)

\* A snapshot is alerted at most once, however many ticks, restarts and failed
\* passes see its anomaly, and although its total may still be growing.
OneAlertPerSnapshot ==
  \A a, b \in alerts : SameSnapshot(a.anomaly, b.anomaly) => a = b

\* A dismissed alert stays dismissed: no later pass brings it back.
AcknowledgedStays ==
  [][\A a \in alerts : a.acked => a \in alerts']_vars

-------------------------------------------------------------------------------
(* Liveness                                                                 *)

Alerted(c, t) == \E b \in alerts : b.anomaly.cluster = c /\ b.anomaly.snap = t

\* An anomaly is alerted unless a newer snapshot (or a late one, or compaction)
\* takes it away first.  A tenant whose statements always fail does not keep
\* the other tenants from being watched (anomaly_watch.go:75-77).
AnomaliesAreNoticed ==
  \A c \in {d \in Cluster : TenantOf[d] \notin Failing}, t \in Time : \A u \in t + 1 .. MaxNow :
    Jumped(c, t, u) ~> (Alerted(c, u) \/ ~Jumped(c, t, u))
===============================================================================
