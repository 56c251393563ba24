# Kharcha in TLA+

Kharcha (`src/`) tells the owner of a Kubernetes cluster what its network
traffic costs.  An agent on every node counts bytes per flow with eBPF, prices
them and posts snapshots to a control plane, a Go server over one SQLite file,
which keeps the history, notices anomalies, recommends fixes and checks whether
an applied fix saved anything.

This directory holds TLA+ modules for the parts of it that are hard to test,
TLC configurations that check them on small instances, and TLAPS proofs of the
safety properties for every value of the constants.  Everything is translated
from the code; where a comment of the code says something else, that is in
"Disagreements" below.

    tlc -config FlowStore.cfg MCFlowStore        # one run; see "Runs" for the others
    tlapm FlowStoreProofs.tla                    # one component's proofs

## The system

| Part | Code | State | Operations |
|---|---|---|---|
| flow counters | `bpf/flow_cgroup.c` | LRU hash map of per-CPU counters | egress, ingress (kernel, any time) |
| scraper | `agent/.../main.go` `scrape` | `prev`, the aggregate | a walk every 15 s |
| agent loop | `main.go`, `shipper.go`, `alert.go`, `metrics.go`, `deployevents.go` | queue of deploy events, alerted set, gauges | one round per tick |
| workload resolver, Kubernetes watcher | `workload.go`, `kubernetes.go` | identity cache, snapshot of the cluster | resolve, refresh |
| classification, prices, hints | `classify.go`, `pricing.go`, `fixengine.go`, `report.go` | the aggregate | pure functions, `Aggregate.Add` |
| flow store | `controlplane/store.go`, `compaction.go` | `flow_aggregate`, `flow_aggregate_daily` | ingest, compaction loop, queries |
| outcome tracking | `outcome.go`, `outcome_api.go`, `summary_api.go` | `recommendation_outcomes` | show, apply, measure |
| tenants, users, invites | `tenant.go`, `invite.go`, `auth.go`, `main.go` | `tenants`, `users`, `api_tokens`, `invites` | first login, invite, revoke, CLI |
| sessions | `tenant.go`, `auth_api.go` | `sessions` | login, logout, expiry |
| anomaly watch | `anomaly.go`, `anomaly_watch.go` | `anomaly_alerts` | loop every 5 min, acknowledge |
| growth, forecast, teams, budget | `workloadgrowth.go`, `forecast.go`, `team.go`, ... | settings rows | queries |
| placement, remediation, replay | `placement.go`, `remediation.go`, `traffic_replay.go` | none | searches and generators over the latest findings |
| assistant | `chat_api.go`, `ai_sanitize.go`, `groq.go`, ... | alias table of a request | tool loop, alias and restore |
| dashboard | `web/` | none of its own | polls the server |

**How they interact.**  The kernel and the scraper share the flow map without a
lock.  Agents post JSON to `/api/v1/ingest`; a post that fails is not retried,
the next one carries the (cumulative) findings again.  In the control plane each
request is a goroutine, the compaction and the anomaly loops are two more, and
what they share is SQLite in WAL mode with a pool of four connections and a
`busy_timeout` of 5 s: one writer at a time, readers on a snapshot.  The CLI
(`create-tenant`, `create-user`, `create-token`) is another process on the same
file.  The chart deploys one replica with strategy `Recreate`, so there is never
a second server; a crash loses open transactions and nothing committed.

**What is hard about it.**  Almost every operation of the control plane is
several SQL statements, only some of them in a transaction, and a transaction
that starts with a SELECT does not hold the write lock: what was read may be old
when it is used.  Time stamps are taken before the lock is waited for.  The flow
map evicts entries under the walk.  Findings are cumulative, and several agents
post under one `cluster_id`.  `hazards` in `PROJECT.json` lists each of these at
its line.

## Modules

| Module | What it is |
|---|---|
| `FlowLedger` | the promise of the flow store: an accepted row is kept for ever, raw and then rolled up |
| `FlowStore` | ingest and compaction as SQLite transactions; refines `FlowLedger` |
| `FlowStoreProofs` | its theorems |
| `Outcomes`, `OutcomesProofs` | recommendations shown, applied and measured by concurrent handlers |
| `Accounts` | the promise behind logins: founding, joining and inviting as atomic operations |
| `Provisioning`, `ProvisioningProofs` | first logins, invites and the CLI, statement by statement; refines `Accounts` |
| `AgentScrape`, `AgentScrapeProofs` | packets, the LRU map and the walk |
| `DeployEvents`, `DeployEventsProofs` | a change of replicas from the Kubernetes API to the table |
| `Attribution`, `AttributionProofs` | the two ends of a flow: the identity cache, the cluster's snapshot, the class |
| `CostRound`, `CostRoundProofs` | an agent's gauges and alerts after a scrape |
| `AnomalyWatch` | the watch loop and its alerts |
| `Assistant` | one question to the chat assistant: rounds, tools, aliases, what is recorded |
| `Placement` | the search for better zones |
| `ServerProofs` | the theorems of these three, `AnomalyWatch`, `Assistant` and `Placement` |
| `MC*` | instances for TLC: the functions given as constants, symmetry sets |

The three modules that share `ServerProofs` have no state in common; they share the lemmas on
sums over sets.  So that one module can extend all three, the definitions every module has are
called `SearchInit`, `SearchTypeOK`, ... in `Placement` and `ChatInit`, `ChatTypeOK`, ... in
`Assistant`.

A definition named `X_Something`, placed before `X`, is a plausible wrong
version of `X`: a dropped guard, a swapped order, a missing reset.  Nothing
uses it; replacing the body of `X` by it must break the property it is paired
with in `PROJECT.json`, which is how we know that the property depends on what
the code does.

### FlowStore

One action per SQL step.  A request takes its stamp (`IngestBegin`, `now` before
the first INSERT), takes the write lock with its first INSERT (`IngestInsert`),
and commits or fails.  A compaction pass takes its cutoff and groups the old rows
(`CompactSelect`: a deferred transaction, so no lock), upserts one group at a time
(`CompactUpsert`: the first one needs the lock, and SQLite refuses it, without
waiting, when anything was committed since the SELECT: `CompactRefused`), deletes
(`CompactDelete`) and commits.  `OtherCommit` is any other write between the SELECT and the first
upsert: further posts, which go on for ever, alerts, outcomes, invites.  It has no bound.  `draft` and `doomed` are what the transaction has
written and only it sees.  `CompactFail`, `IngestFail` and `Crash` may happen at
any point.

The columns of the rollup are sums, so the model keeps *how often* each raw row
was added to each daily row (`daily[group][row]`) instead of the numbers: a row
lost or added twice is seen for every possible cost.  A cluster stands for a
(tenant, cluster id) pair.

* `CountedOnce`: the raw and the daily table together hold every committed row
  once, in its own day, cluster and flow, and no other row.
* `RecentRowsAreRaw`, `SnapshotsWhole`, `LatestNeverRegresses`: what the queries
  on the raw table rely on.  Rows are compared with the boundary of the retention
  by `<` in three places; snapshots appear and are folded whole; a late commit or
  a compaction never moves a cluster's latest snapshot back.
* `ImplementsLedger`: under the mapping `TierOf` (raw, rolled, absent) each step
  is a step of `FlowLedger` or a stutter; a row that is neither maps to a value
  the ledger does not have.
* `OldRowsAreFolded`: an old row is folded in the end, whatever passes were refused, failed or
  crashed before, *or* passes are refused again and again for ever.  The code does not exclude the
  latter: agents post every 15 s, and one commit between a pass's SELECT and its first upsert makes
  SQLite refuse the pass (`compaction.go:105`), which tries again an hour later.  That a pass finds a
  gap in the end is likely, but no lock or order in the code provides it, and neither does the model.

### Outcomes

The dashboard reads the latest findings and records them as shown several queries
later (`DashboardRead`, `DashboardRecord`); applying takes the time and then writes
(`ApplyBegin`, `ApplyWrite`); listing the outcomes measures the pending ones, with
separate statements for the pending list, the time of the latest snapshot, the cost
in it, and the update (`MeasureBegin`, `MeasureLatest`, `MeasureCost`,
`MeasureSave`).  A dashboard has room for the ten most expensive fixes (`Shows`, `TopFixes`), for which
the tenant's other clusters compete; what has no room is neither shown nor recorded.  Agents, each with its own cumulative cost, traffic, agent restarts
and compaction run between any two of them.

* `AppliedIsFinal`: the baseline of an applied fix never moves, although a dashboard
  that read older data may still have to record it.
* `BeforeAndAfter`: a measurement comes from a snapshot after the apply and not
  older than the one the baseline is from.  It says so of each measurement; that a slower pass may
  replace a newer measurement by an older one is among the disagreements.

### Provisioning

`Lookup`, `CheckInvite` and the first INSERT of `AcceptInvite` or
`ProvisionTenantForSupabaseUser` are three statements without a lock between them.
`db` is what is committed, `draft` what the open write transaction sees, `writer`
who holds the lock.  `Conflict` is a UNIQUE constraint violated, `Fail` any other
error, `Crash` the end of the process; all three roll back.

* `TenantsWhole`: every committed tenant has an admin and a row in `api_tokens`, whatever cut a
  founding short.  It does not say that somebody knows that token; see "Disagreements".
* `AnswersStand`: an identity has one account and every answer it was ever given
  names it, although two of its requests may provision at the same time.
* `ImplementsAccounts`: seen through what is committed, all of it is the atomic operations of
  `Accounts`.  A tenant appears with its admin and its token in one step; who joins gets the tenant
  and the role of an invite an admin made for that email; accounts neither change nor vanish; and
  what somebody is told is told with the step that makes it true, or later.  An invite that a login
  has read stays `open` when it is revoked or replaced: that much the code does not promise.
* `AcceptConsumesInvite`: joining leaves no invite for that email, not even one that
  replaced the accepted one meanwhile.
* `EmailsGetAccounts`: asking again gets over lost races, errors and crashes.

### AgentScrape

Two sides share the map.  A program (`run[c]` in context `c`, a CPU in a task or in an interrupt)
looks its flow up (`LookUp`) and then either adds to the counter it found by a load and a store
(`Counted`), or stores a new entry with `BPF_ANY`: `Inserted`, or `Overwritten` when another program has
created it meanwhile, or `Uncounted` when the update fails.  An entry that was found may be gone by the
time of the store; then it hits nothing or what lives there now (`Misplaced`).  `Inserted` and
`Overwritten` may evict any entries.

The walk is the iterator of `cilium/ebpf`: it asks for the key after its last one (`ScrapeKey`), bucket
by bucket, then for the value of that key (`ScrapeValue`), which may be gone (`ScrapeVanished`); when
there is none, it ends (`ScrapeEnd`).  `bucketOf` is the hash, any function in `Hash`.  A new entry goes
to the head of its bucket, and `NowAhead` says which keys come after the walk's last key from then on:
the new one when its bucket is a later one, and *the rest of the bucket* when the new entry is that last
key itself, evicted and back at the head.  When the last key is gone the kernel starts over
(`Following`).  After more than `max_entries` keys the iterator gives up, which the agent logs
(`ScrapeAbort`).

Three history variables say what has happened so far, and the properties depend on them openly: `lossy`
(the kernel has lost or misplaced a count), `torn` (a counter has been overwritten, or has grown by what
is not its own), `disturbed` (a walk was given a key twice or was aborted).

* `ExactUntilLossy`: while the kernel has lost nothing, each counter is what was sent, and what is
  billed is exactly what the latest walk to see the flow has read.
* `NeverOvercounts`: evictions, lost increments and failed updates lose bytes and bill none too many, as
  long as no walk was disturbed and no counter torn.  A key that comes back under the cursor is a
  disturbed walk when something in its bucket is read again.
* `NeverShrinks`: the aggregate never decreases, whatever counters the kernel resets or overwrites.
* `EverythingIsBilled`: while the kernel loses nothing every byte is billed in the end.

### AnomalyWatch

A pass lists the tenants, for each its clusters, for each cluster compares the two
newest totals, and inserts the alerts one by one; posts (in the second of their stamp
or the next), compaction and acknowledgements come in between.  A failure drops the
rest of one tenant.

* `OneAlertPerSnapshot`: however many ticks and restarts see an anomaly, and although
  the total of a second may still grow, its snapshot is alerted once.
* `AcknowledgedStays`: no pass brings a dismissed alert back.
* `AnomaliesAreNoticed`: an anomaly of a tenant that has no trouble is alerted unless
  newer data or compaction takes it away, although another tenant's statements fail at
  every tick.

### DeployEvents

An agent's refresh loop lists the deployments (`Fetch`) and compares the list with the
one before under the lock (`Diff`); its main loop drains the buffer and posts (`Ship`).
The server commits the findings (`StoreFindings`), then the events (`StoreEvents`), in
two transactions.  A post may time out while the server goes on with it, be lost, or
fail half way; both processes may die.  `trail` is the history of counts a deployment
really had.  The agent stamps its events (`deployevents.go:97`) and the server its snapshots
(`store.go:404`) with their own clocks: an agent's may show any time up to `Skew` ahead of the server's,
and it may go back.

* `InOnePlace`: an event is in a buffer, in one post or in the table, and in the table
  once.  It holds because nothing is ever posted again.
* `EventsAreReal`: the deployment had the one count and later the other, although lists
  are old when they are compared and deployments vanish and come back.
* `TrailComplete`: while nothing has failed, the events an agent made form an unbroken
  chain that ends at what it saw last; none is skipped or lost between the two loops.
* `EventsWithinSkew`: a stored event came with a snapshot, and is younger than it by at most what the
  agent's clock is ahead.  The search for the cause of a jump looks back from the snapshot's time
  (`anomaly.go:87-90`), so an event beyond it is missed; how far ahead a clock can be is not in the
  code, and `Skew` is any number.
* `EventsArrive`: without failures every event reaches the table.

### Attribution

Three parties.  The cluster: pods start, finish and are deleted, addresses are reused, the
endpoint controller follows (`PodStarts`, `PodFinishes`, `PodIsDeleted`, `SyncEndpoint`,
`NodeLeaves`).  The refresh goroutine lists pods, endpoints and nodes one after the other and
then swaps the snapshot (`FetchPods`, `FetchEndpoints`, `FetchNodesAndSwap`; any may be
`RefreshFails`).  The walk resolves the source of a flow, which it caches for ever, and then
asks the snapshot up to five times, each time under the lock anew (`ResolveSource`,
`ResolveIP`, `ResolveEndpointIP`, `ResolveEndpointWorkload`, and for the zones of the two nodes
`ResolveSourceZone` and `Add`).  Pods in `HostNetwork` have the address of their node (`nodeIP`), all
those of a node the same one: of several entries for an address the last in the list stays in the
snapshot (`LastOf`).  A source without a pod is on the node the agent was told it runs on
(`LocalName`), and a loopback address is the same node.  Services, which only
add a name to an address, are left out; so are bytes and prices.

* `FindingsFit`: class and confidence of a finding are those of the destination it names, with the
  zones its nodes have or none, although the snapshot may be replaced between the lookups of the
  destination and those of the two zones.
* `OneSourcePerCgroup`: all findings of a cgroup have one source, whatever is learned later.
* `DestinationsSettle`: once the cluster stops changing, every destination is named and
  classed right, unless its address is `Contested`: several pods show it, as the host-network pods of
  a node do, or a finished Job still does.  Such an address may keep a wrong name for ever.

### CostRound

`Scrape` lets costs grow and resets the gauges, `SetGauge` sets them one finding at a time,
the most expensive first, and `Skip`, `Alert` and `AlertFails` are `Alerter.Check` for one
finding.  A failed post may have been delivered.  `told` is what the channel has heard, `acked`
what the agent knows it has.  `Restart` forgets everything.

* `AlertsArePaced`: the alerts of a finding that the agent knows of begin at the threshold
  and grow by the ratio each time, through failures, ticks and other findings.
* `EveryoneIsTold`: the channel hears of every expensive finding it does not refuse, at a cost
  less than the ratio out of date, although other findings are refused for ever.
* `GaugesAreCurrent`: once a round has set the gauges, each shows the present cost of a finding it
  stands for, and one that stands for none shows nothing.  Nothing is left over from earlier rounds, and
  nothing adds up over rounds.  Of several findings with one gauge it shows one, not the sum.

`AlertsArePaced` speaks of the messages the agent knows were taken.  A post that is delivered and times
out is sent again at every tick; that is among the disagreements.

### Assistant

`AskFails`, `AskForTools` and `Answers` are what can come of a request to the language model,
with one retry per round; `ToolAnswers` and `ToolFails` execute one call; `ToolsDone` begins the
next round or gives up at the limit; `Record` writes the event, or fails to.  A text is the set
of names in it, each in its alias when the mode is `sanitized`; the aliases are numbered per kind
in the order of their first appearance, which the code takes from a map and is thus any order.

* `AnswerIsMeant`: the operator reads the names the model meant, whichever tool showed them.
* `CallsAreAnswered`: when the model is asked, each of its calls has one answer, in order.
* `EventsTellWhatHappened`: what is recorded agrees with the conversation, after any failures,
  and the model was asked twice a round at most.
* `EveryQuestionEnds`: the question ends, at the limit too.

### Placement

One action per step of the search: `Start` deals the workloads into zones in some order, `Move`
takes one of the best moves and counts the zones' sizes up and down, `Converged` keeps the best
result, `Finish` reports it.  Costs are integers; which of several equally good moves is taken,
and the order in which workloads are dealt, are left open (the code has a fixed one).

* `ZonesStayPopulated`: the counted sizes are those of the assignment, and a zone that has a
  workload keeps one.
* `SavingsAreReal`: the cost reported is that of the assignment reported with it, of whichever
  restart, and the saving is the difference to what is spent now.
* `EveryMoveSaves`: every move makes the whole assignment cheaper, although it is chosen by the
  edges of the one workload it moves.
* `AnswerIsLocalOptimum`: an answer that reports fewer iterations than the limit (`MaxIterations`, 500
  in the code) is one that no single move would make cheaper, in whatever restart it was found.  An
  answer that reports the limit need not be: it may have been cut short.  The run has both kinds.

## Runs

Each module has a type invariant, and all of them are proved (see "Proofs"); the runs do not
repeat them, except that of `AnomalyWatch`, whose type says that no alert has a baseline of zero.

| Run | Instance | Shows |
|---|---|---|
| `FlowStore` | 2 posts, 2 findings of 2 flows, 1 cluster, 6 seconds = 3 days, retention 2 s, 1 failure or crash, any other writes | the properties above |
| `Outcomes` | 2 fixes of one pair with room for 1, 1 node, 2 handlers, 3 seconds, 2 snapshots, retention 1 | the properties above |
| `Outcomes_stopped` | 2 fixes of different pairs with room for 1 | violates `StoppedFlowMeasuresZero` |
| `Provisioning` | 2 identities with one email, 2 requests, 2 tenants, the CLI, 1 failure | the properties above |
| `AgentScrape` | 2 flows in a map of 2, in one bucket or two, 2 contexts, 2 packets each | the properties above |
| `AgentScrape_aborted` | 3 flows in a map of 2, in one bucket or two, 1 context | violates `BilledWasSent` |
| `AnomalyWatch` | 2 tenants, 1 cluster and agent each, 3 seconds, retention 1, tenant 1 failing at will, 1 crash | the properties above |
| `DeployEvents` | 1 agent, 1 deployment of 0 to 2 replicas, 2 changes, 2 seconds, an agent's clock up to 1 ahead, 1 failure, timeout, crash or restart | the properties above |
| `Attribution` | 1 cgroup of a host-network pod that stays, another one on its node, 1 remote address (of a node or free), a Job on that node, a pod behind a Service on another node in another zone | the properties above |
| `CostRound` | 3 findings of costs up to 4, two with one gauge, one refused by the webhook, threshold 2, ratio 2, 1 restart | the properties above |
| `Assistant` | 2 kinds of 2 names, both modes, 3 rounds of up to 2 calls | the properties above |
| `Placement` | all graphs of up to 4 workloads with costs 1 and 2 (up to names) and a row of 5 with costs 4, 4, 2, 1; 1, 2, 3 and 5 zones, 2 restarts, at most 3 moves each | the properties above |

**Bounds, and why they are enough to be of use.**  Two posts overtake each other and
a compaction; two findings distinguish a whole snapshot from a part; three days with a
retention of one day's length make the cutoff cross a day's boundary and fold a day in
two passes.  Two handlers are what every race here needs, and two fixes
for one place are the least that makes a dashboard leave one out; its two fixes are of one pair, which
the measuring adds up, and are interchangeable, which is the symmetry used.  Two flows in a map of two
evict each other between walks, and two contexts interrupt each other within a flow; with a third flow
the cursor's key comes back at the head of its bucket, a walk starts over, and a walk is aborted.  Two identities
with one email are the only way to make the UNIQUE constraint bite; two tenants are the
default one and one to be founded, and when no more can be founded the model stops
(`MaxTenants` is a bound, the code has none).  `MaxFailures` bounds storage errors and
crashes together in each module; a crash in every single step is covered, a crash during
the recovery from one is not, and needs nothing new: recovery is the initial state
of the transactions.  In `DeployEvents` one agent has
several posts on the way after a timeout, and three counts are the least that make a
chain of two changes with different ends; that two agents do not mix up their events is
proved.  A skew of one second lets an event be younger than its snapshot.  In `Attribution` one address
is enough for the cases that matter: it passes from a pod on the agent's node to one in another zone,
with snapshots of before, between and after, or it is a node's, which two pods show.  In
`CostRound` costs up to 4 leave room for two alerts of one finding at ratio 2, for one that is
expensive and yet not due and for one below the threshold.  Three rounds with two calls each let `Assistant` show a name first in
one tool and again in a later one with another name in between; the code's limit of rounds is
also a small constant.  Four workloads are the least with a swap that no single move reaches, so a
local optimum that is not the best is among the answers; five zones are more than four workloads.  The
row of five has a split from which the search needs four moves, so that the limit of three ends it
short of a local optimum and that is what may be reported: the code's limit of 500 is to real graphs
what the three are to this one.  In `AnomalyWatch` the failures of the tenants in `Failing` are not
bounded.  The proofs remove all bounds for the properties they cover, apart from
`MaxNow`, `MaxTenants` and their like, which stay as arbitrary numbers.

`Attribution` and `CostRound` are checked for deadlock.  The other runs set `CHECK_DEADLOCK
FALSE` because they end: the clock, the packets or the requests run into their bound, or the
question is answered or the search done, and nothing is left to do.

**Fairness.**  The compaction and anomaly loops are tickers that never stop, and a pass
that has begun is running code, so their actions are weakly fair; so are the steps of a
handler that has begun, the two tickers of the agent, and the server's handling of a post
(a post that takes longer than ten seconds is a failure).  Ingest requests, traffic, operators and failures have no
fairness, and neither has a pass's luck against other writers: `OldRowsAreFolded` names refusals for
ever as a way not to fold.  In `Provisioning` the lookup of each identity is *strongly* fair: the
dashboard polls every 15 s and the server starts a goroutine for every request, so a
lookup is never refused; in the model the requests are a fixed pool that may all be busy
now and then.  In `Attribution` the two later fetches of a refresh are strongly fair: the API
server may refuse any of them any number of times, but not for ever.  In `CostRound` so is
`Alert` for a finding the webhook does not refuse: a post that is tried again at every tick gets
through at some time.  In `Assistant` the steps of the handler are weakly fair because each
request to the model ends with the client's timeout (`groq.go`).  `busy_timeout` gives a waiting writer the lock once it is free; that a
request gives up after five seconds is `Fail`.

## Proofs

All theorems hold for every value of the constants that satisfies the module's named
assumption (`StoreAssumption`, `OutcomeAssumption`, `ProvisioningAssumption`, `ScrapeAssumption`,
`WatchAssumption`, `DeployAssumption`, `AttributionAssumption`, `RoundAssumption`,
`PlacementAssumption`, `AssistantAssumption`), which only says what kind of values they are (for `Attribution` also that a cgroup's pod is on the
agent's node).  Each
of the ten components has a theorem of type correctness, and every safety invariant, action
property and refinement that a run checks is stated by a theorem.

* **FlowStoreProofs.**  The inductive invariant adds to type correctness what the
  transaction in progress knows: the selected rows are exactly the raw rows older than
  the cutoff unless the snapshot is stale, `draft` is `daily` with the groups that are no
  longer pending added once, the doomed rows are the selected ones, the cutoff is not
  after `now - Retention`, and requests not yet committed have no row anywhere.  It is
  needed because `CountedOnce` says nothing about a pass half done.  `RowsCountedOnce`,
  `RetentionKept`, `SnapshotsStayWhole` and `LatestMonotone` follow from it, and
  `StoreImplementsLedger` maps a commit of an ingest to `Record`, a commit of a compaction
  to `Roll`, and everything else to a stutter.
* **ProvisioningProofs.**  The invariant says that whoever holds the lock is in the
  middle of a transaction and nobody else is, and what `draft` is at each of its steps.
  From it: `NoHalfCreatedTenant`, `OneTenantPerIdentity`, `InvitesConsumed`.  For
  `ProvisioningImplementsAccounts` it is strengthened by what exactly each transaction has written
  so far (`WroteOK`: at COMMIT the draft is the database after one operation) and by what a request
  has read (`ReadOK`: everything it has in hand is about the email of its identity).  Then a COMMIT
  is `Found` or `Join`, a lookup that finds somebody is `Login`, a single statement is the operation
  of its name, and every other step at most closes an invite that nobody has in hand any more.
  `AccountsKeepTheirWord` and `AccountsConsumeInvites` show that the abstract specification is worth
  implementing: it alone, without a word on requests, locks or drafts, implies the three properties
  above, by a much smaller invariant (`AccountsInv`).
* **AgentScrapeProofs.**  For `LossesOnlyLose` the invariant is a potential: what is billed plus what the
  counter can still add is at most what was sent, with the cases before and after the walk has come to
  the flow, and without an assumption on buckets, on the order in them or on what is evicted and comes
  back: that a walk reads a key twice is `disturbed`, which the walk itself notes.  `BillsNeverShrink`
  needs only types and that a difference is never negative.  `ExactWithoutLosses` has an invariant of
  its own (`Exact`, while nothing is lost): each counter is what was sent; what is billed is what the
  walk has read of the flows behind it and what the last one read of the others; a program's entry is
  live and its flow in the map, or it found none (`LiveTracked`).  From it follows that a walk neither
  reads a key twice, because the key it is at stays in the map and thus cannot come back at the head,
  nor is aborted, because the keys it has read and those ahead of it are at most the entries of the map,
  and these at most `Capacity` (cardinalities from the library's `FiniteSetTheorems`).
* **ServerProofs, sums.**  Totals and costs are sums over finite sets, by a fold of the library.
  That such a sum does not depend on the order, is a natural number, and changes by `c[x]` when `x`
  comes or goes, would be inductions over the set; they are proved from a least counterexample
  instead, since the strict subsets of a finite set are well-founded (`LeastSet`, from the library's
  `FS_StrictSubsetOrderingWellFounded` and `WFMin`, none of which takes an operator).
* **ServerProofs, anomaly watch.**  `TypeCorrect` needs that the least of a set of times is one of them
  (`MinIn`), that totals are natural numbers (`TotalType`) and what a pass has in hand at each
  of its steps (`PassShape`).  `OneAlertPerSnapshot` is inductive as it stands: the steps that
  touch `alerts` are the insertion and the acknowledgement.  `DismissedForGood` follows from it:
  without it, an acknowledgement could replace the wrong row.
* **ServerProofs, placement.**  `SInv` says that the counted sizes are the sizes of the zones and
  that what is kept was really reached (`BestIsReal`); `NoZoneIsEmptied` and `AnswersAreReal` follow.
  The step everything else hangs on is `DeltaIs`: the difference computed from the edges of one
  workload is the difference of the whole cost.  From it `MovesSave`.  `UnusedInv`: a zone that nothing
  was dealt to stays empty, since a move into it saves nothing.  `KeptInv`: what is kept from a search
  that ended below the limit is a local optimum.  `AnswersAreLocalOptima` follows for every graph and
  every limit, without a hypothesis on how many moves a graph needs; `SearchesConverge` says the same of
  a single restart.
* **ServerProofs, assistant.**  `ChatInv` has a part for each property.  `AliasInv`: an alias stands
  for one name and a text for the name its alias was given to, so a name keeps its alias from one tool
  to the next.  `ConvInv`: every message of the model but the last has its answers behind it, in order,
  and the last one has all but `todo` of them.  `CountInv`: rounds, calls and errors are what the
  conversation and the record say.  TLC checked each part before it was proved.  `QuestionsRunOut` is
  the safety half of `EveryQuestionEnds`: a number of steps left (`StepsLeft`) goes down with every
  step, whatever fails, so that no question goes on for ever; that it does not stop half-way is left
  to fairness.
* **DeployEventsProofs.**  `StoredAtMostOnce` needs that a buffer holds its own agent's
  events and that an agent's next event is new (`Owned`, `Numbered`); `EventsHappened` that
  what an agent remembers stands in the trail not after what it has fetched
  (`CountInTrail`, `LastInTrail`, `ListedInTrail`); `StoredInTime` that an event in a buffer or a post is
  not more than `Skew` ahead of the server's clock and of the findings committed before it (`Timely`),
  for every `Skew`.  `StoryIsWhole` shows that without
  failures no step takes an event out of sight (`NothingLost`) and that a comparison continues the
  chain where the agent's last one ended (`DiffContinues`), for any number of agents.
* **OutcomesProofs.**  The inductive invariant says what each handler in the middle of its
  statements knows: as long as there are rows at all, the latest is as late as anything that was
  ever read (`Fresh`: compaction takes the oldest rows first), and what a measuring handler has in
  hand is younger than the fix and not older than its baseline (`Measuring`, `After`), also when
  rows came and went between its reads.  That the greatest of some times is one of them follows
  from the well-foundedness of < (`MaxIs`, `LatestIs`, `CheapestIs`).
* **AttributionProofs.**  `FindingsAlwaysFit` needs that the zone in hand is one that the source's
  node may be said to have (`ZoneIsOfSource`), since it was looked up before the destination's and the
  snapshot may have been replaced in between; `SourceForGood` needs that the source of the
  flow in hand and of each finding is the one in the cache (`SourcesAreCached`).
* **CostRoundProofs.**  `PacedAlerts` needs that `lastAlerted` is the last acknowledged cost
  (`NotedIsLast`); `GaugesStayCurrent` that in the middle of a round a gauge shows one of its
  findings that have had their turn, if any has (`GaugesSoFar`).

Only model-checked are the eight liveness properties (`OldRowsAreFolded`, `EmailsGetAccounts`,
`EverythingIsBilled`, `AnomaliesAreNoticed`, `EventsArrive`, `DestinationsSettle`,
`EveryoneIsTold`, `EveryQuestionEnds`): fairness and ENABLED are outside what the prover handles.

## Disagreements

Each of these two has a run that TLC refutes, and an entry under `findings` that quotes the comment.

1. "cost dropped to 0" for a flow that is gone: cumulative findings never drop
   (`Outcomes_stopped`).
2. `delta` "calculates traffic generated since the previous scrape": a walk that is aborted makes the
   next one bill the flows it missed from zero; a walk whose last key is evicted starts over, or goes
   through that key's bucket again when the key has come back at its head, and adds differences twice
   (`AgentScrape_aborted`).

Other divergences, met while modelling or reading, that no run is spent on.  The models of the
components concerned have the steps that lead to them:

* `store.go:449-450`: `Clusters` "returns every distinct cluster that has ever ingested under the
  given tenant"; it reads the raw table only (line 454), and compaction deletes from it
  (`compaction.go:133`), so a cluster silent for longer than the retention is forgotten.
* `invite.go:71-72`: `DeleteInvite` "revokes a pending invite -- an admin changing their mind before
  the invitee ever signs in"; an invite that was read (line 149) before it was revoked or replaced
  still admits.
* `auth.go:107-109` provisions "a brand-new tenant the very first time a given Supabase identity is
  ever seen"; a second identity with an email that has an account violates the UNIQUE username
  (`store.go:180`) at `tenant.go:203`, at every attempt.
* `store.go:147-149`: an anomaly "is never re-alerted as if it were a fresh event"; agents that share
  a cluster id (`daemonset.yaml:56`) alternate as its newest snapshot, and `anomaly.go:60` takes the
  ratio of two nodes for growth, again and again.
* `classify.go:34-36` "degrades to a lower confidence instead of guessing wrong with false certainty";
  the address of a pod that is younger than the snapshot is `PRIVATE_OFFCLUSTER` with high
  confidence (line 102).  A finished Job stays in the list of pods with an address that may have
  another holder by then.
* `tenant.go:75-78`: all of tenant, admin and token exist "or none do, never a half-created tenant with
  no way to log in or ship data".  A first login founds a tenant and throws the plaintext of its token
  away (`invite.go:157`), only the hash is stored, and "there's no way to recover a lost one"
  (`tenant.go:232-234`): nothing can ship for that tenant until an operator runs `create-token`
  (`main.go:294`).  `TenantsWhole` speaks of the rows only.
* `metrics.go:21` announces a gauge of the cumulative cost "per source workload and path class";
  `metrics.go:106` sets it for each finding in turn, so that it shows one of them, the cheapest
  (`Findings` is sorted by cost, the most expensive first), and not their sum.  `GaugesAreCurrent`
  holds of the one finding.
* `alert.go:17-19`: the alerter "never re-alerts on every tick once a flow settles at a given cost"; a
  post that is delivered but whose answer is late or not a success is an error (`alert.go:66`), is not
  remembered, and is sent again at every tick.
* `kubernetes.go:888-889`: `ResolveNodeIP` is for "traffic aimed at the node itself rather than a pod
  behind it (hostNetwork, NodePort)"; nothing calls it.  The pods with `hostNetwork` are in `byIP` with
  the node's address (lines 533-535, 561-563), so that traffic with any of them is named after the last
  one in the list.
* `placement.go:125-128` searches "until no move improves it" and speaks of a local optimum; the loop
  also ends after 500 moves (lines 170, 189), however many workloads there are and however little a
  move saves, and what it has by then may be reported.
* `placement_test.go:20-24`: "the algorithm is free to use fewer than numGroups"; no zone that got a
  workload at first is ever emptied (`placement.go:122-124`, `ZonesStayPopulated`).
* `placement.go:34-36` speaks of swaps; the search moves single workloads (lines 190-217).
* `traffic_replay.go:37-43`: a fix whose collateral traffic has cost nothing counts as safe.
* `workloadgrowth.go:48-50` calls a daily rollup point "a real, honestly summed cost for that day";
  it sums a day's cumulative snapshots, so the growth between such a point and a raw one, a single
  snapshot, is not that of the cost.
* `ai_sanitize.go:215`: `Restore` also replaces what only looks like an alias, if a real name does
  (a team called `team_1`).  `Assistant` assumes that none does.

* `compaction.go:46-52` speaks of a day being folded; the cutoff moves through a day, so a
  day is folded by several passes (line 159 says hourly), and until then it is partly raw.
  `CountedOnce` covers it: the upsert accumulates.
* `store.go:499-500` and `daemonset.yaml:56`: the agents of all nodes have one cluster id,
  so "the latest snapshot" of a cluster is that of the node that posted last, and the
  snapshots of two nodes in one second are merged.
* `outcome.go:128`: a pass "closes the loop for every applied-but-unmeasured outcome"; the
  UPDATE (line 211) does not look again whether it is unmeasured, so of two passes that run
  at the same time the slower one overwrites what the faster has saved and shown, by a measurement that
  may be older.
* `api.go:11-13` calls a post "safe to retry": sent twice in one second its rows have one
  `reported_at` and the totals of that snapshot, which are sums, double; its deploy events
  are stored twice in any case.  The agent never does; with several agents under one
  cluster id each stores its own event for the same change.
* `outcome.go:94-95`: the baseline may be from a dashboard load between the computation of
  `applied_at` and its UPDATE, so it may be later than the apply.
* `invite.go:141-143`: an invite made between `getPendingInvite` and the founding
  transaction is not honoured, and stays pending for a user who has a tenant of their own.
* `tenant.go:128, 142`: foreign keys are declared and never enabled, so `create-user`
  accepts a tenant that does not exist, and the tenant created later under that id
  inherits the login.

## Not modelled

* Workload growth, forecast, summary, teams, budget, prices, fix hints: floating-point arithmetic over
  rows, or single settings, without steps.  Costs here are small numbers; nothing depends on how they come
  about except that they accumulate.
* Remediation and traffic replay: pure functions of one list of findings and one query.
* Sessions and password login: each request is one statement on one row.
* The tools' queries, and the narrator, which asks the language model once: the loop of the
  assistant, the sanitizer and the record are in `Assistant`.
* The eBPF loader and reports; JWT verification, bcrypt, the language model, HTTP and JSON, the web
  client, HTML and Prometheus output, the charts, the load generator and the price scripts.
  `vmlinux.h` is a generated dump of kernel types.
* The `busy_timeout` as time: a request that waits too long is `Fail`.
* Steps back of the server's clock: `now` is monotonic.  An agent's clock may go back and ahead
  (`DeployEvents`), by at most `Skew` ahead of the server's.

## Plan

Done: `FlowStore` with `FlowLedger`, `Provisioning` with `Accounts`, `Outcomes`, `AgentScrape`,
`AnomalyWatch`, `DeployEvents`, `Attribution`, `CostRound`, `Assistant` and `Placement`, each checked
and proved about.

What is left, in order:

1. Decreasing measures for the other components with a liveness property, as `StepsLeft` is one for
   the assistant.
2. `WorkloadGrowth`: growth across the retention boundary, where sums of cumulative
   snapshots meet single ones, on top of `FlowStore`.
3. The composition of `CostRound` and `DeployEvents` over one tick of the agent; they share only
   the main loop now.
4. `Sessions`, should logins come to be more than single statements.
