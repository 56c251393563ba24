------------------------------- MODULE FlowStore -------------------------------
(***************************************************************************)
(* The control plane's flow tables: Store.Ingest (store.go) adds a         *)
(* snapshot's rows to flow_aggregate; the compaction loop (compaction.go)  *)
(* folds rows past the retention into flow_aggregate_daily and deletes     *)
(* them.  Both run as SQLite transactions in WAL mode: a transaction reads *)
(* the state its first read saw, one transaction at a time holds the write *)
(* lock, a reader that wants to write after another commit is refused      *)
(* (SQLITE_BUSY_SNAPSHOT), and nothing of a transaction is visible before  *)
(* its COMMIT.  Crashes lose open transactions and nothing else.           *)
(*                                                                         *)
(* Abstractions.  A cluster stands for a (tenant, cluster_id) pair and a   *)
(* flow for a (source, destination, path class) triple.  The columns the   *)
(* rollup adds up are all sums over the rows folded, so a daily row keeps  *)
(* how many times each raw row was added into it rather than the numbers.  *)
(* A post is followed once; the posts and the other writes that go on for  *)
(* ever besides those in Post are OtherCommit, which has no bound.         *)
(***************************************************************************)
EXTENDS Integers

CONSTANTS
  Post,        \* the ingest requests followed, one snapshot each
  Finding,     \* findings a request may carry
  Cluster,     \* (tenant, cluster_id) pairs
  Flow,        \* (src_workload, dst_workload_or_endpoint, path_class) triples
  ClusterOf,   \* the cluster a request reports for
  FlowOf,      \* the flow a finding is about
  MaxNow,      \* bound on the clock, in seconds
  DaySeconds,  \* length of a rollup day (86400 in the code)
  Retention,   \* how long a raw row is kept
  MaxFailures  \* bound on storage errors and crashes

ASSUME StoreAssumption ==
  /\ ClusterOf \in [Post -> Cluster]
  /\ FlowOf \in [Finding -> Flow]
  /\ MaxNow \in Nat
  /\ DaySeconds \in Nat \ {0}
  /\ Retention \in Nat \ {0}
  /\ MaxFailures \in Nat

VARIABLES
  now,       \* time.Now().Unix()
  phase,     \* phase[p]: how far request p has got
  stamp,     \* stamp[p]: its reported_at
  batch,     \* batch[p]: the findings it carries
  raw,       \* flow_aggregate: the rows present
  daily,     \* flow_aggregate_daily: how often each row was added into a group
  compact,   \* how far the compaction transaction has got
  cutoff,    \* its cutoff
  selected,  \* the rows its SELECT grouped
  pending,   \* the groups it has not upserted yet
  draft,     \* flow_aggregate_daily as the transaction has written it
  doomed,    \* the rows its DELETE removed
  stale,     \* has another transaction committed since its SELECT?
  failures   \* storage errors and crashes so far

postVars    == <<phase, stamp, batch>>
tableVars   == <<raw, daily>>
compactVars == <<compact, cutoff, selected, pending, draft, doomed, stale>>
vars        == <<now, postVars, tableVars, compactVars, failures>>

Time  == 0 .. MaxNow
Row   == Post \X Finding
Day   == {t \div DaySeconds : t \in Time}
Group == Day \X Cluster \X Flow

GroupOf(r) == <<stamp[r[1]] \div DaySeconds, ClusterOf[r[1]], FlowOf[r[2]]>>
RowsOf(p)  == {p} \X batch[p]

\* Mutant of OlderThan: <= for <.
OlderThan_Inclusive(t) == {r \in raw : stamp[r[1]] <= t}

\* WHERE reported_at < t
OlderThan(t) == {r \in raw : stamp[r[1]] < t}

TypeOK ==
  /\ now \in Time
  /\ phase \in [Post -> {"new", "stamped", "inserted", "committed", "failed"}]
  /\ stamp \in [Post -> Time]
  /\ batch \in [Post -> SUBSET Finding]
  /\ raw \in SUBSET Row
  /\ daily \in [Group -> [Row -> Nat]]
  /\ compact \in {"idle", "selected", "upserting", "deleted"}
  /\ cutoff \in Int
  /\ selected \in SUBSET Row
  /\ pending \in SUBSET Group
  /\ draft \in [Group -> [Row -> Nat]]
  /\ doomed \in SUBSET Row
  /\ stale \in BOOLEAN
  /\ failures \in 0 .. MaxFailures

EmptyRollup == [g \in Group |-> [r \in Row |-> 0]]

Init ==
  /\ now = 0
  /\ phase = [p \in Post |-> "new"]
  /\ stamp = [p \in Post |-> 0]
  /\ batch = [p \in Post |-> {}]
  /\ raw = {}
  /\ daily = EmptyRollup
  /\ compact = "idle"
  /\ cutoff = 0
  /\ selected = {}
  /\ pending = {}
  /\ draft = EmptyRollup
  /\ doomed = {}
  /\ stale = FALSE
  /\ failures = 0

-------------------------------------------------------------------------------
(* SQLite admits one writer: an ingest from its first INSERT, a compaction *)
(* from its first upsert, each to its COMMIT or ROLLBACK.                   *)
WriteLockFree ==
  /\ \A p \in Post : phase[p] # "inserted"
  /\ compact \notin {"upserting", "deleted"}

Tick ==
  /\ now < MaxNow
  /\ now' = now + 1
  /\ UNCHANGED <<postVars, tableVars, compactVars, failures>>

\* Ingest: Begin, and the one reported_at every row of the snapshot shares.
\* The lock is not taken yet: a request may be overtaken after its stamp.
IngestBegin(p, fs) ==
  /\ phase[p] = "new"
  /\ phase' = [phase EXCEPT ![p] = "stamped"]
  /\ stamp' = [stamp EXCEPT ![p] = now]
  /\ batch' = [batch EXCEPT ![p] = fs]
  /\ UNCHANGED <<now, tableVars, compactVars, failures>>

\* Ingest: the INSERTs.  The first one takes the write lock.
IngestInsert(p) ==
  /\ phase[p] = "stamped"
  /\ batch[p] # {}
  /\ WriteLockFree
  /\ phase' = [phase EXCEPT ![p] = "inserted"]
  /\ UNCHANGED <<now, stamp, batch, tableVars, compactVars, failures>>

\* Mutant of IngestCommit: a finding that fails to insert is skipped.
IngestCommit_SkipsBadFinding(p) ==
  /\ phase[p] = "inserted" \/ (phase[p] = "stamped" /\ batch[p] = {})
  /\ phase' = [phase EXCEPT ![p] = "committed"]
  /\ \E bad \in SUBSET Finding : raw' = raw \cup ({p} \X (batch[p] \ bad))
  /\ stale' = (stale \/ (compact = "selected" /\ batch[p] # {}))
  /\ UNCHANGED <<now, stamp, batch, daily, compact, cutoff, selected, pending,
                 draft, doomed, failures>>

\* Mutant of IngestCommit: the table keeps only the last snapshot committed.
IngestCommit_ReplacesSnapshot(p) ==
  /\ phase[p] = "inserted" \/ (phase[p] = "stamped" /\ batch[p] = {})
  /\ phase' = [phase EXCEPT ![p] = "committed"]
  /\ raw' = {r \in raw : ClusterOf[r[1]] # ClusterOf[p]} \cup RowsOf(p)
  /\ stale' = (stale \/ (compact = "selected" /\ batch[p] # {}))
  /\ UNCHANGED <<now, stamp, batch, daily, compact, cutoff, selected, pending,
                 draft, doomed, failures>>

\* Ingest: Commit.  A snapshot without findings commits having written nothing.
IngestCommit(p) ==
  /\ phase[p] = "inserted" \/ (phase[p] = "stamped" /\ batch[p] = {})
  /\ phase' = [phase EXCEPT ![p] = "committed"]
  /\ raw' = raw \cup RowsOf(p)
  /\ stale' = (stale \/ (compact = "selected" /\ batch[p] # {}))
  /\ UNCHANGED <<now, stamp, batch, daily, compact, cutoff, selected, pending,
                 draft, doomed, failures>>

\* Ingest: an error (busy_timeout, disk) rolls the whole snapshot back.
IngestFail(p) ==
  /\ phase[p] \in {"stamped", "inserted"}
  /\ failures < MaxFailures
  /\ phase' = [phase EXCEPT ![p] = "failed"]
  /\ failures' = failures + 1
  /\ UNCHANGED <<now, stamp, batch, tableVars, compactVars>>

\* Any other write commits: a post of another agent or of other rows (agents
\* post every 15 seconds for ever), an alert, an outcome, an invite.  Only the
\* compaction's open read transaction can tell.
OtherCommit ==
  /\ compact = "selected"
  /\ WriteLockFree
  /\ ~stale
  /\ stale' = TRUE
  /\ UNCHANGED <<now, postVars, tableVars, compact, cutoff, selected, pending,
                 draft, doomed, failures>>

-------------------------------------------------------------------------------
\* The transaction is over, and with it everything only it could see.
CompactOver ==
  /\ compact' = "idle"
  /\ cutoff' = 0
  /\ selected' = {}
  /\ pending' = {}
  /\ draft' = EmptyRollup
  /\ doomed' = {}
  /\ stale' = FALSE

\* runOnce and the SELECT: the groups of everything older than the retention.
\* With no group the transaction commits at once, having done nothing.
CompactSelect ==
  LET old == OlderThan(now - Retention) IN
    /\ compact = "idle"
    /\ old # {}
    /\ compact' = "selected"
    /\ cutoff' = now - Retention
    /\ selected' = old
    /\ pending' = {GroupOf(r) : r \in old}
    /\ draft' = daily
    /\ doomed' = {}
    /\ stale' = FALSE
    /\ UNCHANGED <<now, postVars, tableVars, failures>>

\* Mutant of Upserted: ON CONFLICT overwrites instead of accumulating.
Upserted_Overwrites(table, g) ==
  [table EXCEPT ![g] =
     [r \in Row |-> IF r \in selected /\ GroupOf(r) = g THEN 1 ELSE 0]]

\* The upsert adds a group's new sums to those already in the table.
Upserted(table, g) ==
  [table EXCEPT ![g] =
     [r \in Row |-> table[g][r] +
                      IF r \in selected /\ GroupOf(r) = g THEN 1 ELSE 0]]

\* One upsert.  The first takes the write lock, and is refused if the rows
\* the SELECT saw are no longer the latest committed state.
CompactUpsert(g) ==
  /\ \/ compact = "selected" /\ WriteLockFree /\ ~stale
     \/ compact = "upserting"
  /\ g \in pending
  /\ compact' = "upserting"
  /\ draft' = Upserted(draft, g)
  /\ pending' = pending \ {g}
  /\ UNCHANGED <<now, postVars, tableVars, cutoff, selected, doomed, stale,
                 failures>>

\* Mutant of CompactDelete: the cutoff is computed afresh for the DELETE.
CompactDelete_FreshCutoff ==
  /\ compact = "upserting"
  /\ pending = {}
  /\ compact' = "deleted"
  /\ doomed' = OlderThan(now - Retention)
  /\ UNCHANGED <<now, postVars, tableVars, cutoff, selected, pending, draft,
                 stale, failures>>

\* DELETE FROM flow_aggregate WHERE reported_at < cutoff.
CompactDelete ==
  /\ compact = "upserting"
  /\ pending = {}
  /\ compact' = "deleted"
  /\ doomed' = OlderThan(cutoff)
  /\ UNCHANGED <<now, postVars, tableVars, cutoff, selected, pending, draft,
                 stale, failures>>

\* Commit: the rollup and the deletion become visible together.
CompactCommit ==
  /\ compact = "deleted"
  /\ daily' = draft
  /\ raw' = raw \ doomed
  /\ CompactOver
  /\ UNCHANGED <<now, postVars, failures>>

\* Mutant of CompactRefused: the refused statement is retried without rolling
\* back, so it is refused again for ever.
CompactRefused_KeepsSnapshot ==
  /\ compact = "selected"
  /\ stale
  /\ UNCHANGED vars

\* SQLITE_BUSY_SNAPSHOT on the first upsert: roll back, retry at a later tick.
CompactRefused ==
  /\ compact = "selected"
  /\ stale
  /\ CompactOver
  /\ UNCHANGED <<now, postVars, tableVars, failures>>

\* Any other storage error in the middle of the transaction: roll back.
CompactFail ==
  /\ compact # "idle"
  /\ failures < MaxFailures
  /\ CompactOver
  /\ failures' = failures + 1
  /\ UNCHANGED <<now, postVars, tableVars>>

\* The server dies and restarts: open transactions are rolled back.
Crash ==
  /\ failures < MaxFailures
  /\ failures' = failures + 1
  /\ phase' = [p \in Post |->
                 IF phase[p] \in {"stamped", "inserted"} THEN "failed"
                                                         ELSE phase[p]]
  /\ CompactOver
  /\ UNCHANGED <<now, stamp, batch, tableVars>>

Next ==
  \/ Tick
  \/ \E p \in Post : \/ \E fs \in SUBSET Finding : IngestBegin(p, fs)
                     \/ IngestInsert(p)
                     \/ IngestCommit(p)
                     \/ IngestFail(p)
  \/ OtherCommit
  \/ CompactSelect
  \/ \E g \in Group : CompactUpsert(g)
  \/ CompactDelete
  \/ CompactCommit
  \/ CompactRefused
  \/ CompactFail
  \/ Crash

Spec == Init /\ [][Next]_vars

\* The ticker never stops (StartCompactionLoop), so an idle compaction with
\* work runs again; a request holding the lock is a running handler.  That a
\* pass wins against the other writers is not assumed: nothing ensures it.
Fairness ==
  /\ WF_vars(CompactSelect)
  /\ \A g \in Group : WF_vars(CompactUpsert(g))
  /\ WF_vars(CompactDelete)
  /\ WF_vars(CompactCommit)
  /\ WF_vars(CompactRefused)
  /\ \A p \in Post : WF_vars(IngestCommit(p))

FairSpec == Spec /\ Fairness

-------------------------------------------------------------------------------
(* What the dashboard queries read.                                         *)

\* LatestFindings, Summary, SpendByClass, SpendByCloud: each cluster's rows
\* with that cluster's greatest reported_at.
LatestFindings ==
  {r \in raw : \A q \in raw : ClusterOf[q[1]] = ClusterOf[r[1]]
                                 => stamp[q[1]] <= stamp[r[1]]}

Ingested == {r \in Row : phase[r[1]] = "committed" /\ r[2] \in batch[r[1]]}

-------------------------------------------------------------------------------
(* Safety                                                                   *)

NoTrace(r)   == \A g \in Group : daily[g][r] = 0
OnceIn(r, G) == \A g \in Group : daily[g][r] = IF g = G THEN 1 ELSE 0

\* Every row whose Ingest committed is counted exactly once by the queries
\* that add the raw and the daily table together (WorkloadCostGrowth,
\* HistoricalFlowsToDestination): it is still raw, or it was added once, to
\* its own day, cluster and flow.  No other row is counted.  This has to
\* survive crashes, refused and failed passes, passes that fold more of a day
\* an earlier pass folded, and requests that commit long after their stamp.
CountedOnce ==
  /\ raw \subseteq Ingested
  /\ \A r \in Row : IF r \in Ingested \ raw THEN OnceIn(r, GroupOf(r))
                                            ELSE NoTrace(r)

\* Compaction never takes away raw granularity an operator may still expect:
\* every committed row no older than the retention is raw.
RecentRowsAreRaw ==
  \A r \in Ingested : stamp[r[1]] >= now - Retention => r \in raw

\* The snapshot queries never see a part of a snapshot: its rows become
\* visible together, and are folded together.
SnapshotsWhole ==
  \A p \in Post : RowsOf(p) \subseteq raw \/ RowsOf(p) \cap raw = {}

\* A late commit or a compaction never makes a cluster's latest snapshot an
\* older one: the dashboard's reported_at does not go back while the cluster
\* is shown at all.
LatestNeverRegresses ==
  [][\A r \in LatestFindings : \A q \in LatestFindings' :
       ClusterOf[q[1]] = ClusterOf[r[1]] => stamp[q[1]]' >= stamp[r[1]]]_vars

-------------------------------------------------------------------------------
(* The ledger this implements                                               *)

TierOf(r) ==
  CASE r \in raw /\ NoTrace(r)                  -> "raw"
    [] r \notin raw /\ NoTrace(r)               -> "absent"
    [] r \notin raw /\ OnceIn(r, GroupOf(r))    -> "rolled"
    [] OTHER                                    -> "corrupt"

Ledger == INSTANCE FlowLedger WITH tier <- [r \in Row |-> TierOf(r)]

\* The two tables, with everything that can happen to their transactions,
\* implement a ledger that keeps every accepted row for ever.
ImplementsLedger == Ledger!Spec

-------------------------------------------------------------------------------
(* Liveness                                                                 *)

\* Raw rows accumulate only if passes are refused again and again for ever,
\* which nothing in the code rules out: an agent's post may commit between the
\* SELECT and the first upsert of every pass.  If refusals come to an end, one
\* older than the retention is folded into its daily row, whatever passes were
\* refused, failed or crashed before.
OldRowsAreFolded ==
  \/ []<><<CompactRefused>>_vars
  \/ \A r \in Row :
       (r \in raw /\ stamp[r[1]] < now - Retention) ~> (r \notin raw)
===============================================================================
