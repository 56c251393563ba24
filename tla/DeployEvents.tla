----------------------------- MODULE DeployEvents -----------------------------
(***************************************************************************)
(* How a change of a Deployment's replica count gets from the Kubernetes   *)
(* API to the deploy_event table.  An agent has two goroutines that share  *)
(* a buffer: the refresh loop lists the deployments and compares the list  *)
(* with the one before (deployevents.go), the main loop drains the buffer  *)
(* and posts its contents with the findings (main.go, shipper.go).  The    *)
(* server stores the findings in one transaction and the events in the     *)
(* next (handleIngest).  The agent stops waiting after ten seconds, which  *)
(* the server does not notice, and never posts anything again.             *)
(*                                                                         *)
(* Events are stamped by the agent's clock and snapshots by the server's.  *)
(* Nothing in the code keeps them together: an agent's clock may be        *)
(* behind by any amount and be set back, and is ahead by at most Skew.     *)
(*                                                                         *)
(* Abstractions.  Findings are left out but for the reported_at their      *)
(* transaction gives them.  A deployment that is not listed and one listed *)
(* without spec.replicas are the same.                                     *)
(***************************************************************************)
EXTENDS Integers, Sequences

CONSTANTS
  Agent,
  Deployment,   \* namespace/name
  MaxReplicas,
  MaxNow,       \* bound on time
  Skew,         \* how far an agent's clock may be ahead of the server's
  MaxChanges,   \* bound on what is done to the deployments
  MaxFailures   \* bound on failures, timeouts, crashes and restarts

ASSUME DeployAssumption ==
  {MaxReplicas, MaxNow, Skew, MaxChanges, MaxFailures} \subseteq Nat

VARIABLES
  now,      \* the server's clock
  count,    \* spec.replicas of each deployment
  trail,    \* the counts each deployment has had (history)
  listed,   \* what an agent's refresh loop has fetched and not yet compared
  last,     \* lastReplicas
  made,     \* comparisons that found changes (history)
  pending,  \* pendingEvents
  net,      \* posts on their way to the server or being handled there
  stored,   \* deploy_event
  failures

vars == <<now, count, trail, listed, last, made, pending, net, stored, failures>>
worldVars == <<now, count, trail>>
watchVars == <<listed, last, made>>

Time  == 0 .. MaxNow
Stamp == 0 .. MaxNow + Skew       \* of an agent's clock
None  == -1                       \* no such deployment, not seen, no snapshot
Count == 0 .. MaxReplicas
List  == [Deployment -> Count \cup {None}]
NoList == [d \in Deployment |-> None]

\* nth tells the events of an agent apart (history).
Event == [agent : Agent, dep : Deployment, from : Count, to : Count, at : Stamp,
          nth : Nat]
\* snap is the reported_at of the findings, once they are stored; open while
\* the agent waits for the answer.
Post  == [agent : Agent, events : SUBSET Event, snap : Time \cup {None},
          open : BOOLEAN]
\* The table does not keep the snapshot an event came with (history).
Row   == [event : Event, snap : Time \cup {None}]

TypeOK ==
  /\ now \in Time
  /\ count \in List
  /\ trail \in [Deployment -> Seq(Count)]
  /\ listed \in [Agent -> SUBSET List]
  /\ last \in [Agent -> List]
  /\ made \in [Agent -> Nat]
  /\ pending \in [Agent -> SUBSET Event]
  /\ net \in SUBSET Post
  /\ stored \in SUBSET Row
  /\ failures \in 0 .. MaxFailures

Had(d, c, t) == IF c = None THEN t[d] ELSE Append(t[d], c)

Init ==
  /\ now = 0
  /\ count \in List
  /\ trail = [d \in Deployment |-> Had(d, count[d], [e \in Deployment |-> <<>>])]
  /\ listed = [a \in Agent |-> {}]
  /\ last = [a \in Agent |-> NoList]
  /\ made = [a \in Agent |-> 0]
  /\ pending = [a \in Agent |-> {}]
  /\ net = {}
  /\ stored = {}
  /\ failures = 0

-------------------------------------------------------------------------------
(* The cluster                                                              *)

Tick ==
  /\ now < MaxNow
  /\ now' = now + 1
  /\ UNCHANGED <<count, trail, watchVars, pending, net, stored, failures>>

\* Somebody scales, creates or deletes d.  trail's length counts the changes.
Scale(d, c) ==
  /\ c # count[d]
  /\ Len(trail[d]) <= MaxChanges
  /\ count' = [count EXCEPT ![d] = c]
  /\ trail' = [trail EXCEPT ![d] = Had(d, c, trail)]
  /\ UNCHANGED <<now, watchVars, pending, net, stored, failures>>

-------------------------------------------------------------------------------
(* refreshDeployEvents                                                      *)

\* The GET of the deployments, before the lock is taken.
Fetch(a) ==
  /\ listed[a] = {}
  /\ listed' = [listed EXCEPT ![a] = {count}]
  /\ UNCHANGED <<worldVars, last, made, pending, net, stored, failures>>

\* A deployment counts as changed when it is listed, was seen before and has
\* another count.
Changed(list, old) ==
  {d \in Deployment : list[d] # None /\ old[d] # None /\ list[d] # old[d]}

\* Mutant of EventOf: from and to are swapped.
EventOf_Swapped(a, d, list, at) ==
  [agent |-> a, dep |-> d, from |-> list[d], to |-> last[a][d], at |-> at,
   nth |-> made[a] + 1]

EventOf(a, d, list, at) ==
  [agent |-> a, dep |-> d, from |-> last[a][d], to |-> list[d], at |-> at,
   nth |-> made[a] + 1]

\* What is not listed keeps the count it was last seen with.
Remembered(list, old) ==
  [d \in Deployment |-> IF list[d] = None THEN old[d] ELSE list[d]]

\* What an agent may read on its clock.
Reading == 0 .. now + Skew

\* Mutant of Diff: the buffer is replaced, not appended to.
Diff_Replaces(a) ==
  /\ \E list \in listed[a], at \in Reading :
       LET changed == Changed(list, last[a]) IN
         /\ pending' = [pending EXCEPT ![a] = {EventOf(a, d, list, at) : d \in changed}]
         /\ made' = [made EXCEPT ![a] = IF changed = {} THEN @ ELSE @ + 1]
         /\ last' = [last EXCEPT ![a] = Remembered(list, @)]
  /\ listed' = [listed EXCEPT ![a] = {}]
  /\ UNCHANGED <<worldVars, net, stored, failures>>

\* diffReplicas, under the lock.  One reading of the clock stamps all it finds.
Diff(a) ==
  /\ \E list \in listed[a], at \in Reading :
       LET changed == Changed(list, last[a]) IN
         /\ pending' = [pending EXCEPT ![a] =
                          @ \cup {EventOf(a, d, list, at) : d \in changed}]
         /\ made' = [made EXCEPT ![a] = IF changed = {} THEN @ ELSE @ + 1]
         /\ last' = [last EXCEPT ![a] = Remembered(list, @)]
  /\ listed' = [listed EXCEPT ![a] = {}]
  /\ UNCHANGED <<worldVars, net, stored, failures>>

-------------------------------------------------------------------------------
(* The main loop: DrainDeployEvents and Ship                                *)

Waiting(a) == \E p \in net : p.agent = a /\ p.open

\* Mutant of Ship: the buffer is drained twice, and the first time for nothing.
Ship_DrainsTwice(a) ==
  /\ ~Waiting(a)
  /\ net' = net \cup {[agent |-> a, events |-> {}, snap |-> None, open |-> TRUE]}
  /\ pending' = [pending EXCEPT ![a] = {}]
  /\ UNCHANGED <<worldVars, watchVars, stored, failures>>

Ship(a) ==
  /\ ~Waiting(a)
  /\ net' = net \cup {[agent |-> a, events |-> pending[a], snap |-> None,
                       open |-> TRUE]}
  /\ pending' = [pending EXCEPT ![a] = {}]
  /\ UNCHANGED <<worldVars, watchVars, stored, failures>>

\* Mutant of Timeout: what could not be posted goes back to the buffer.
Timeout_Requeues(p) ==
  /\ p.open
  /\ failures < MaxFailures
  /\ failures' = failures + 1
  /\ net' = (net \ {p}) \cup {[p EXCEPT !.open = FALSE]}
  /\ pending' = [pending EXCEPT ![p.agent] = @ \cup p.events]
  /\ UNCHANGED <<worldVars, watchVars, stored>>

\* The agent gives up on the answer and logs it.  The server goes on.
Timeout(p) ==
  /\ p.open
  /\ failures < MaxFailures
  /\ failures' = failures + 1
  /\ net' = (net \ {p}) \cup {[p EXCEPT !.open = FALSE]}
  /\ UNCHANGED <<worldVars, watchVars, pending, stored>>

\* The agent's process ends and another one starts.
Restart(a) ==
  /\ failures < MaxFailures
  /\ failures' = failures + 1
  /\ listed' = [listed EXCEPT ![a] = {}]
  /\ last' = [last EXCEPT ![a] = NoList]
  /\ pending' = [pending EXCEPT ![a] = {}]
  /\ net' = {IF p.agent = a THEN [p EXCEPT !.open = FALSE] ELSE p : p \in net}
  /\ UNCHANGED <<worldVars, made, stored>>

-------------------------------------------------------------------------------
(* handleIngest                                                             *)

\* Store.Ingest: the findings are committed.
StoreFindings(p) ==
  /\ p.snap = None
  /\ net' = (net \ {p}) \cup {[p EXCEPT !.snap = now]}
  /\ UNCHANGED <<worldVars, watchVars, pending, stored, failures>>

\* Mutant of StoreEvents: the events are stored whether or not the findings are.
StoreEvents_First(p) ==
  /\ stored' = stored \cup {[event |-> e, snap |-> p.snap] : e \in p.events}
  /\ net' = net \ {p}
  /\ UNCHANGED <<worldVars, watchVars, pending, failures>>

\* Store.IngestDeployEvents, and the answer.
StoreEvents(p) ==
  /\ p.snap # None
  /\ stored' = stored \cup {[event |-> e, snap |-> p.snap] : e \in p.events}
  /\ net' = net \ {p}
  /\ UNCHANGED <<worldVars, watchVars, pending, failures>>

\* The post is lost, or refused, or a transaction of its is rolled back: the
\* events are gone, and of the findings what is stored stays.
PostFails(p) ==
  /\ failures < MaxFailures
  /\ failures' = failures + 1
  /\ net' = net \ {p}
  /\ UNCHANGED <<worldVars, watchVars, pending, stored>>

\* The server dies, and the posts it was handling with it.
ServerCrash ==
  /\ failures < MaxFailures
  /\ failures' = failures + 1
  /\ net' = {}
  /\ UNCHANGED <<worldVars, watchVars, pending, stored>>

Next ==
  \/ Tick
  \/ \E d \in Deployment, c \in Count \cup {None} : Scale(d, c)
  \/ \E a \in Agent : Fetch(a) \/ Diff(a) \/ Ship(a) \/ Restart(a)
  \/ \E p \in net : \/ Timeout(p) \/ StoreFindings(p) \/ StoreEvents(p)
                    \/ PostFails(p)
  \/ ServerCrash

Spec == Init /\ [][Next]_vars

\* The agent's tickers never stop, and the server handles what it is sent.
Fairness ==
  /\ \A a \in Agent :
       /\ WF_vars(Diff(a))
       /\ WF_vars(Ship(a))
       /\ WF_vars(\E p \in net : p.agent = a /\ (StoreFindings(p) \/ StoreEvents(p)))

FairSpec == Spec /\ Fairness

-------------------------------------------------------------------------------
(* Safety                                                                   *)

StoredEvents == {r.event : r \in stored}
PostedEvents == UNION {p.events : p \in net}
PendingEvents == UNION {pending[a] : a \in Agent}
Known == StoredEvents \cup PostedEvents \cup PendingEvents

\* An event is in one place: in the buffer, in one post or in the table.  So it is
\* stored at most once, although posts time out while the server handles them.
InOnePlace ==
  /\ \A p, q \in net : p # q => p.events \cap q.events = {}
  /\ \A p \in net : p.events \cap StoredEvents = {}
  /\ \A a \in Agent : /\ pending[a] \cap StoredEvents = {}
                      /\ \A p \in net : pending[a] \cap p.events = {}
  /\ \A r, s \in stored : r.event = s.event => r = s

\* "Never a guess" (deployevents.go:13): the deployment did have the one count
\* and later the other, however long the list was on its way and however often
\* the deployment was deleted and created again in between.
EventsAreReal ==
  \A e \in Known :
    \E i, j \in 1 .. Len(trail[e.dep]) :
      i < j /\ trail[e.dep][i] = e.from /\ trail[e.dep][j] = e.to

Before(e, f) == e.agent = f.agent /\ e.dep = f.dep /\ e.nth < f.nth

\* While nothing has failed the table, the posts and the buffer together hold the
\* whole story of a deployment as an agent saw it: each change starts where the one
\* before ended, and the latest ended at what the agent saw last.
TrailComplete ==
  failures = 0 =>
    \A e \in Known :
      \/ \E f \in Known : /\ Before(e, f)
                          /\ f.from = e.to
                          /\ ~\E g \in Known : Before(e, g) /\ Before(g, f)
      \/ /\ ~\E f \in Known : Before(e, f)
         /\ e.to = last[e.agent][e.dep]

\* A stored event comes with the findings of its post, in a snapshot that was taken
\* when the event had been: the event's stamp is later only by what the agent's clock
\* is ahead.  The search for the cause of a jump in that snapshot looks at the hours
\* before its reported_at (anomaly.go:87-90), so without skew it does not look too
\* early for the event, and with skew it may, by no more than Skew.
EventsWithinSkew == \A r \in stored : r.snap # None /\ r.event.at <= r.snap + Skew

-------------------------------------------------------------------------------
(* Liveness                                                                 *)

Buffered(a, n) == \E e \in pending[a] : e.nth = n

\* Without failures every change that was seen reaches the table.
EventsArrive ==
  \A a \in Agent : \A n \in 1 .. MaxChanges :
    Buffered(a, n) ~> ((\E e \in StoredEvents : e.agent = a /\ e.nth = n) \/ failures > 0)
===============================================================================
