-------------------------- MODULE DeployEventsProofs --------------------------
(***************************************************************************)
(* Proofs of DeployEvents' safety properties.                              *)
(*                                                                         *)
(* That an event is in one place needs the buffers of different agents to  *)
(* be disjoint (Owned) and the next event of an agent to be new (Numbered). *)
(* That it is real needs where the counts that were fetched and remembered *)
(* stand in the deployment's trail: what was remembered never after what   *)
(* was fetched later (CountInTrail, LastInTrail, ListedInTrail).           *)
(***************************************************************************)
EXTENDS DeployEvents, TLAPS

Owned == \A a \in Agent : \A e \in pending[a] : e.agent = a
Numbered == \A e \in Known : e.nth <= made[e.agent]

CountInTrail ==
  \A d \in Deployment : count[d] # None =>
    Len(trail[d]) >= 1 /\ trail[d][Len(trail[d])] = count[d]
LastInTrail ==
  \A a \in Agent, d \in Deployment : last[a][d] # None =>
    \E i \in 1 .. Len(trail[d]) : trail[d][i] = last[a][d]
ListedInTrail ==
  \A a \in Agent, d \in Deployment : \A list \in listed[a] : list[d] # None =>
    \E j \in 1 .. Len(trail[d]) :
      /\ trail[d][j] = list[d]
      /\ last[a][d] # None => \E i \in 1 .. j : trail[d][i] = last[a][d]

Timely ==
  /\ \A a \in Agent : \A e \in pending[a] : e.at <= now + Skew
  /\ \A p \in net : \A e \in p.events :
       e.at <= now + Skew /\ (p.snap # None => e.at <= p.snap + Skew)

-------------------------------------------------------------------------------
(* Types                                                                    *)

LEMMA EventTyped ==
  ASSUME TypeOK, NEW a \in Agent, NEW list \in listed[a], NEW d \in Changed(list, last[a]),
         NEW at \in Reading
  PROVE  EventOf(a, d, list, at) \in Event
<1>1. list \in List /\ last[a] \in List /\ made[a] \in Nat
  BY DEF TypeOK
<1>3. at \in Stamp
  BY DeployAssumption DEF Reading, Stamp, TypeOK, Time
<1>2. d \in Deployment /\ list[d] \in Count /\ last[a][d] \in Count
  BY <1>1 DEF Changed, List
<1> QED
  BY <1>1, <1>2, <1>3 DEF EventOf, Event

LEMMA HadTyped ==
  ASSUME TypeOK, NEW d \in Deployment, NEW c \in Count \cup {None}
  PROVE  Had(d, c, trail) \in Seq(Count)
BY DEF Had, TypeOK

LEMMA TypeInit == Init => TypeOK
<1> SUFFICES ASSUME Init PROVE TypeOK
  OBVIOUS
<1>1. now \in Time
  BY DeployAssumption DEF Init, Time
<1>2. trail \in [Deployment -> Seq(Count)]
  BY DEF Init, Had, List
<1>3. listed \in [Agent -> SUBSET List] /\ last \in [Agent -> List]
  BY DEF Init, NoList, List
<1>4. failures \in 0 .. MaxFailures
  BY DeployAssumption DEF Init
<1> QED
  BY <1>1, <1>2, <1>3, <1>4 DEF Init, TypeOK

LEMMA TypeStep == TypeOK /\ [Next]_vars => TypeOK'
<1> SUFFICES ASSUME TypeOK, [Next]_vars PROVE TypeOK'
  OBVIOUS
<1> USE DeployAssumption
<1>1. CASE UNCHANGED vars
  BY <1>1 DEF vars, TypeOK
<1>2. CASE Tick
  BY <1>2 DEF Tick, watchVars, TypeOK, Time
<1>3. ASSUME NEW d \in Deployment, NEW c \in Count \cup {None}, Scale(d, c)
      PROVE  TypeOK'
  <2>1. trail' \in [Deployment -> Seq(Count)] /\ count' \in List
    BY <1>3, HadTyped DEF Scale, TypeOK, List
  <2> QED
    BY <1>3, <2>1 DEF Scale, watchVars, TypeOK
<1>4. ASSUME NEW a \in Agent, Fetch(a)
      PROVE  TypeOK'
  BY <1>4 DEF Fetch, worldVars, TypeOK
<1>5. ASSUME NEW a \in Agent, Diff(a)
      PROVE  TypeOK'
  <2>1. PICK list \in listed[a], at \in Reading :
          /\ pending' = [pending EXCEPT ![a] =
                           @ \cup {EventOf(a, d, list, at) : d \in Changed(list, last[a])}]
          /\ made' = [made EXCEPT ![a] = IF Changed(list, last[a]) = {} THEN @ ELSE @ + 1]
          /\ last' = [last EXCEPT ![a] = Remembered(list, @)]
    BY <1>5 DEF Diff
  <2>2. pending' \in [Agent -> SUBSET Event]
    BY <2>1, EventTyped DEF TypeOK
  <2>3. made' \in [Agent -> Nat]
    BY <2>1 DEF TypeOK
  <2>4. list \in List /\ last[a] \in List
    BY DEF TypeOK
  <2>5. Remembered(list, last[a]) \in List
    BY <2>4 DEF Remembered, List
  <2>6. last' \in [Agent -> List] /\ listed' \in [Agent -> SUBSET List]
    BY <1>5, <2>1, <2>5 DEF Diff, TypeOK
  <2> QED
    BY <1>5, <2>2, <2>3, <2>6 DEF Diff, worldVars, TypeOK
<1>6. ASSUME NEW a \in Agent, Ship(a)
      PROVE  TypeOK'
  <2>1. [agent |-> a, events |-> pending[a], snap |-> None, open |-> TRUE] \in Post
    BY DEF TypeOK, Post
  <2>2. net' \subseteq Post
    BY <1>6, <2>1 DEF Ship, TypeOK
  <2>3. pending' \in [Agent -> SUBSET Event]
    BY <1>6 DEF Ship, TypeOK
  <2> QED
    BY <1>6, <2>2, <2>3 DEF Ship, worldVars, watchVars, TypeOK
<1>7. ASSUME NEW p \in net, Timeout(p)
      PROVE  TypeOK'
  <2>1. [p EXCEPT !.open = FALSE] \in Post
    BY DEF TypeOK, Post
  <2>2. net' \subseteq Post
    BY <1>7, <2>1 DEF Timeout, TypeOK
  <2>3. failures' \in 0 .. MaxFailures
    BY <1>7 DEF Timeout, TypeOK
  <2> QED
    BY <1>7, <2>2, <2>3 DEF Timeout, worldVars, watchVars, TypeOK
<1>8. ASSUME NEW a \in Agent, Restart(a)
      PROVE  TypeOK'
  <2>1. \A p \in net : [p EXCEPT !.open = FALSE] \in Post
    BY DEF TypeOK, Post
  <2>2. net' \subseteq Post
    BY <1>8, <2>1 DEF Restart, TypeOK
  <2>3. /\ listed' \in [Agent -> SUBSET List]
        /\ last' \in [Agent -> List]
        /\ pending' \in [Agent -> SUBSET Event]
    BY <1>8 DEF Restart, TypeOK, NoList, List
  <2> QED
    BY <1>8, <2>2, <2>3 DEF Restart, worldVars, TypeOK
<1>9. ASSUME NEW p \in net, StoreFindings(p)
      PROVE  TypeOK'
  <2>1. [p EXCEPT !.snap = now] \in Post
    BY DEF TypeOK, Post
  <2> QED
    BY <1>9, <2>1 DEF StoreFindings, worldVars, watchVars, TypeOK
<1>10. ASSUME NEW p \in net, StoreEvents(p)
       PROVE  TypeOK'
  <2>1. \A e \in p.events : [event |-> e, snap |-> p.snap] \in Row
    BY DEF TypeOK, Post, Row
  <2> QED
    BY <1>10, <2>1 DEF StoreEvents, worldVars, watchVars, TypeOK
<1>11. CASE ServerCrash \/ \E p \in net : PostFails(p)
  BY <1>11 DEF ServerCrash, PostFails, worldVars, watchVars, TypeOK
<1> QED
  BY <1>1, <1>2, <1>3, <1>4, <1>5, <1>6, <1>7, <1>8, <1>9, <1>10, <1>11 DEF Next

\* Every variable keeps its type.
THEOREM TypeCorrect == Spec => []TypeOK
BY TypeInit, TypeStep, PTL DEF Spec

-------------------------------------------------------------------------------
(* The events there are                                                     *)

LEMMA KnownTyped == TypeOK => Known \subseteq Event
<1> SUFFICES ASSUME TypeOK PROVE Known \subseteq Event
  OBVIOUS
<1>1. StoredEvents \subseteq Event
  BY DEF StoredEvents, TypeOK, Row
<1>2. PostedEvents \subseteq Event
  BY DEF PostedEvents, TypeOK, Post
<1>3. PendingEvents \subseteq Event
  BY DEF PendingEvents, TypeOK
<1> QED
  BY <1>1, <1>2, <1>3 DEF Known

LEMMA StoredStep ==
  ASSUME NEW p \in net, StoreEvents(p)
  PROVE  StoredEvents' = StoredEvents \cup p.events
<1>1. stored' = stored \cup {[event |-> e, snap |-> p.snap] : e \in p.events}
  BY DEF StoreEvents
<1>2. {r.event : r \in {[event |-> e, snap |-> p.snap] : e \in p.events}} = p.events
  <2>1. \A e \in p.events : [event |-> e, snap |-> p.snap].event = e
    OBVIOUS
  <2> QED
    BY <2>1
<1>3. {r.event : r \in stored'} = {r.event : r \in stored}
        \cup {r.event : r \in {[event |-> e, snap |-> p.snap] : e \in p.events}}
  BY <1>1
<1> QED
  BY <1>2, <1>3 DEF StoredEvents

\* Only a comparison makes events: every other step moves them or loses them.
LEMMA KnownStep ==
  ASSUME TypeOK,
         \/ \E a \in Agent : Ship(a) \/ Restart(a)
         \/ \E p \in net : Timeout(p) \/ StoreFindings(p) \/ StoreEvents(p) \/ PostFails(p)
         \/ ServerCrash
  PROVE  Known' \subseteq Known
<1>1. ASSUME NEW a \in Agent, Ship(a)
      PROVE  Known' \subseteq Known
  <2>1. \A b \in Agent : pending'[b] \subseteq pending[b]
    BY <1>1 DEF Ship, TypeOK
  <2>2. PendingEvents' \subseteq PendingEvents /\ pending[a] \subseteq PendingEvents
    BY <2>1 DEF PendingEvents
  <2>3. \A q \in net' : q \in net \/ q.events = pending[a]
    BY <1>1 DEF Ship
  <2>4. PostedEvents' \subseteq PostedEvents \cup pending[a]
    BY <2>3 DEF PostedEvents
  <2>5. StoredEvents' = StoredEvents
    BY <1>1 DEF Ship, StoredEvents
  <2> QED
    BY <2>2, <2>4, <2>5 DEF Known
<1>2. CASE /\ \A q \in net' : \E p \in net : q.events = p.events
           /\ \A a \in Agent : pending'[a] \subseteq pending[a]
           /\ UNCHANGED stored
  <2>1. PostedEvents' \subseteq PostedEvents
    BY <1>2 DEF PostedEvents
  <2>2. PendingEvents' \subseteq PendingEvents
    BY <1>2 DEF PendingEvents
  <2>3. StoredEvents' = StoredEvents
    BY <1>2 DEF StoredEvents
  <2> QED
    BY <2>1, <2>2, <2>3 DEF Known
<1>3. \A p \in net : /\ [p EXCEPT !.open = FALSE].events = p.events
                     /\ [p EXCEPT !.snap = now].events = p.events
  BY DEF TypeOK, Post
<1>4. ASSUME NEW a \in Agent, Restart(a)
      PROVE  Known' \subseteq Known
  <2>1. \A b \in Agent : pending'[b] \subseteq pending[b]
    BY <1>4 DEF Restart, TypeOK
  <2>2. \A q \in net' : \E p \in net : q.events = p.events
    BY <1>3, <1>4 DEF Restart
  <2> QED
    BY <1>2, <1>4, <2>1, <2>2 DEF Restart
<1>5. ASSUME NEW p \in net, Timeout(p) \/ StoreFindings(p)
      PROVE  Known' \subseteq Known
  <2>1. \A q \in net' : \E r \in net : q.events = r.events
    BY <1>3, <1>5 DEF Timeout, StoreFindings
  <2> QED
    BY <1>2, <1>5, <2>1 DEF Timeout, StoreFindings
<1>6. ASSUME NEW p \in net, StoreEvents(p)
      PROVE  Known' \subseteq Known
  <2>1. StoredEvents' = StoredEvents \cup p.events
    BY <1>6, StoredStep
  <2>2. net' \subseteq net /\ UNCHANGED pending
    BY <1>6 DEF StoreEvents
  <2>3. PostedEvents' \subseteq PostedEvents /\ p.events \subseteq PostedEvents
    BY <2>2 DEF PostedEvents
  <2>4. PendingEvents' = PendingEvents
    BY <2>2 DEF PendingEvents
  <2> QED
    BY <2>1, <2>3, <2>4 DEF Known
<1>7. CASE ServerCrash \/ \E p \in net : PostFails(p)
  BY <1>2, <1>7 DEF ServerCrash, PostFails
<1> QED
  BY <1>1, <1>4, <1>5, <1>6, <1>7

-------------------------------------------------------------------------------
(* One place                                                                *)

OnePlaceInv == Owned /\ Numbered /\ InOnePlace

\* A post that changes in other fields keeps its events to itself.
LEMMA PostReplaced ==
  ASSUME OnePlaceInv, NEW p \in net, NEW q, q.events = p.events,
         net' = (net \ {p}) \cup {q}, UNCHANGED <<pending, made, stored>>
  PROVE  OnePlaceInv'
<1>1. Known' = Known
  BY DEF Known, StoredEvents, PostedEvents, PendingEvents
<1>2. Owned' /\ Numbered'
  BY <1>1 DEF OnePlaceInv, Owned, Numbered
<1>3. InOnePlace'
  <2>1. \A r, s \in net' : r # s => r.events \cap s.events = {}
    BY DEF OnePlaceInv, InOnePlace
  <2>2. \A r \in net' : \E s \in net : r.events = s.events
    OBVIOUS
  <2>3. StoredEvents' = StoredEvents
    BY DEF StoredEvents
  <2> QED
    BY <2>1, <2>2, <2>3 DEF OnePlaceInv, InOnePlace
<1> QED
  BY <1>2, <1>3 DEF OnePlaceInv

\* Fewer posts, each with what one had before, and smaller buffers.
LEMMA PostsDropped ==
  ASSUME OnePlaceInv, UNCHANGED <<made, stored>>,
         \A a \in Agent : pending'[a] \subseteq pending[a],
         \A p, q \in net' : p # q =>
           \E r, s \in net : r # s /\ r.events = p.events /\ s.events = q.events,
         \A p \in net' : \E r \in net : r.events = p.events
  PROVE  OnePlaceInv'
<1>1. StoredEvents' = StoredEvents
  BY DEF StoredEvents
<1>2. Known' \subseteq Known
  BY <1>1 DEF Known, PostedEvents, PendingEvents
<1>3. Owned' /\ Numbered'
  BY <1>2 DEF OnePlaceInv, Owned, Numbered
<1>4. InOnePlace'
  <2>1. \A p, q \in net' : p # q => p.events \cap q.events = {}
    BY DEF OnePlaceInv, InOnePlace
  <2> QED
    BY <1>1, <2>1 DEF OnePlaceInv, InOnePlace
<1> QED
  BY <1>3, <1>4 DEF OnePlaceInv

LEMMA OnePlaceStep == TypeOK /\ OnePlaceInv /\ [Next]_vars => OnePlaceInv'
<1> SUFFICES ASSUME TypeOK, OnePlaceInv, [Next]_vars PROVE OnePlaceInv'
  OBVIOUS
<1>1. CASE UNCHANGED <<made, pending, net, stored>>
  BY <1>1, PostsDropped
<1>2. ASSUME NEW a \in Agent, Diff(a)
      PROVE  OnePlaceInv'
  <2>1. PICK list \in listed[a], at \in Reading :
          /\ pending' = [pending EXCEPT ![a] =
                           @ \cup {EventOf(a, d, list, at) : d \in Changed(list, last[a])}]
          /\ made' = [made EXCEPT ![a] = IF Changed(list, last[a]) = {} THEN @ ELSE @ + 1]
    BY <1>2 DEF Diff
  <2> DEFINE new == {EventOf(a, d, list, at) : d \in Changed(list, last[a])}
  <2>2. UNCHANGED <<net, stored>>
    BY <1>2 DEF Diff
  <2>3. \A e \in new : e.agent = a /\ e.nth = made[a] + 1
    BY DEF EventOf
  <2>4. new # {} => made'[a] = made[a] + 1
    BY <2>1 DEF TypeOK
  <2>5. \A b \in Agent : made[b] \in Nat /\ made'[b] \in Nat /\ made[b] <= made'[b]
    BY <2>1 DEF TypeOK
  <2>6. /\ pending'[a] = pending[a] \cup new
        /\ \A b \in Agent : b # a => pending'[b] = pending[b]
    BY <2>1 DEF TypeOK
  <2> HIDE DEF new
  <2>7. StoredEvents' = StoredEvents
    BY <2>2 DEF StoredEvents
  <2>8. Known' \subseteq Known \cup new
    <3>1. \A b \in Agent : pending'[b] \subseteq pending[b] \cup new
      BY <2>6
    <3>2. PendingEvents' \subseteq PendingEvents \cup new
      BY <3>1 DEF PendingEvents
    <3>3. PostedEvents' = PostedEvents
      BY <2>2 DEF PostedEvents
    <3> QED
      BY <2>7, <3>2, <3>3 DEF Known
  <2>9. \A e \in Known : e.agent \in Agent /\ e.nth \in Nat
    BY KnownTyped DEF Event
  <2>10. Known \cap new = {}
    BY <2>3, <2>5, <2>9 DEF OnePlaceInv, Numbered
  <2>11. Owned'
    BY <2>3, <2>6 DEF OnePlaceInv, Owned
  <2>12. Numbered'
    <3>1. \A e \in Known : e.nth <= made'[e.agent]
      BY <2>5, <2>9 DEF OnePlaceInv, Numbered
    <3>2. \A e \in new : e.nth <= made'[e.agent]
      BY <2>3, <2>4, <2>5
    <3> QED
      BY <3>1, <3>2, <2>8 DEF Numbered
  <2>13. InOnePlace'
    <3>1. new \cap StoredEvents = {} /\ \A p \in net : new \cap p.events = {}
      BY <2>10 DEF Known, PostedEvents
    <3> QED
      BY <2>2, <2>6, <2>7, <3>1 DEF OnePlaceInv, InOnePlace
  <2> QED
    BY <2>11, <2>12, <2>13 DEF OnePlaceInv
<1>3. ASSUME NEW a \in Agent, Ship(a)
      PROVE  OnePlaceInv'
  <2> DEFINE p == [agent |-> a, events |-> pending[a], snap |-> None, open |-> TRUE]
  <2>1. net' = net \cup {p} /\ p.events = pending[a]
    BY <1>3 DEF Ship
  <2>2. pending'[a] = {} /\ \A b \in Agent : b # a => pending'[b] = pending[b]
    BY <1>3 DEF Ship, TypeOK
  <2>3. UNCHANGED <<made, stored>>
    BY <1>3 DEF Ship, watchVars
  <2> HIDE DEF p
  <2>4. StoredEvents' = StoredEvents
    BY <2>3 DEF StoredEvents
  <2>5. Known' \subseteq Known
    BY <1>3, KnownStep
  <2>6. Owned' /\ Numbered'
    BY <2>2, <2>3, <2>5 DEF OnePlaceInv, Owned, Numbered
  <2>7. \A b \in Agent : b # a => pending[b] \cap pending[a] = {}
    BY DEF OnePlaceInv, Owned
  <2>8. InOnePlace'
    BY <2>1, <2>2, <2>3, <2>4, <2>7 DEF OnePlaceInv, InOnePlace
  <2> QED
    BY <2>6, <2>8 DEF OnePlaceInv
<1>4. ASSUME NEW p \in net, Timeout(p)
      PROVE  OnePlaceInv'
  <2>1. [p EXCEPT !.open = FALSE].events = p.events
    BY DEF TypeOK, Post
  <2> QED
    BY <1>4, <2>1, PostReplaced DEF Timeout, watchVars
<1>5. ASSUME NEW a \in Agent, Restart(a)
      PROVE  OnePlaceInv'
  <2>1. \A p \in net : [p EXCEPT !.open = FALSE].events = p.events
    BY DEF TypeOK, Post
  <2>2. net' = {IF p.agent = a THEN [p EXCEPT !.open = FALSE] ELSE p : p \in net}
    BY <1>5 DEF Restart
  <2>3. \A b \in Agent : pending'[b] \subseteq pending[b]
    BY <1>5 DEF Restart, TypeOK
  <2>4. \A p, q \in net' : p # q =>
          \E r, s \in net : r # s /\ r.events = p.events /\ s.events = q.events
    <3>1. \A p \in net' : \E r \in net :
            /\ r.events = p.events
            /\ p = IF r.agent = a THEN [r EXCEPT !.open = FALSE] ELSE r
      BY <2>1, <2>2
    <3> QED
      BY <3>1
  <2>5. \A p \in net' : \E r \in net : r.events = p.events
    BY <2>1, <2>2
  <2>6. UNCHANGED <<made, stored>>
    BY <1>5 DEF Restart
  <2> QED
    BY <2>3, <2>4, <2>5, <2>6, PostsDropped
<1>6. ASSUME NEW p \in net, StoreFindings(p)
      PROVE  OnePlaceInv'
  <2>1. [p EXCEPT !.snap = now].events = p.events
    BY DEF TypeOK, Post
  <2> QED
    BY <1>6, <2>1, PostReplaced DEF StoreFindings, watchVars
<1>7. ASSUME NEW p \in net, StoreEvents(p)
      PROVE  OnePlaceInv'
  <2>1. /\ net' = net \ {p}
        /\ stored' = stored \cup {[event |-> e, snap |-> p.snap] : e \in p.events}
        /\ UNCHANGED <<made, pending>>
    BY <1>7 DEF StoreEvents, watchVars
  <2>2. StoredEvents' = StoredEvents \cup p.events
    BY <1>7, StoredStep
  <2>3. Known' \subseteq Known
    BY <1>7, KnownStep
  <2>4. Owned' /\ Numbered'
    BY <2>1, <2>3 DEF OnePlaceInv, Owned, Numbered
  <2>5. \A r, s \in stored' : r.event = s.event => r = s
    <3>1. \A r \in stored : r.event \notin p.events
      BY DEF OnePlaceInv, InOnePlace, StoredEvents
    <3> QED
      BY <2>1, <3>1 DEF OnePlaceInv, InOnePlace
  <2>6. InOnePlace'
    BY <2>1, <2>2, <2>5 DEF OnePlaceInv, InOnePlace
  <2> QED
    BY <2>4, <2>6 DEF OnePlaceInv
<1>8. CASE ServerCrash \/ \E p \in net : PostFails(p)
  <2>1. net' \subseteq net /\ UNCHANGED <<made, pending, stored>>
    BY <1>8 DEF ServerCrash, PostFails, watchVars
  <2> QED
    BY <2>1, PostsDropped
<1>9. CASE Tick \/ (\E d \in Deployment, c \in Count \cup {None} : Scale(d, c))
           \/ \E a \in Agent : Fetch(a)
  BY <1>1, <1>9 DEF Tick, Scale, Fetch, watchVars
<1>10. CASE UNCHANGED vars
  BY <1>1, <1>10 DEF vars
<1> QED
  BY <1>2, <1>3, <1>4, <1>5, <1>6, <1>7, <1>8, <1>9, <1>10 DEF Next

LEMMA OnePlaceInit == Init => OnePlaceInv
BY DEF Init, OnePlaceInv, Owned, Numbered, InOnePlace, Known, StoredEvents,
       PostedEvents, PendingEvents

\* A change that was seen is never stored twice, and never in two posts at once,
\* although posts time out while the server goes on with them.
THEOREM StoredAtMostOnce == Spec => []InOnePlace
<1>1. Init => TypeOK /\ OnePlaceInv
  BY TypeInit, OnePlaceInit
<1>2. TypeOK /\ OnePlaceInv /\ [Next]_vars => (TypeOK /\ OnePlaceInv)'
  BY TypeStep, OnePlaceStep
<1>3. OnePlaceInv => InOnePlace
  BY DEF OnePlaceInv
<1> QED
  BY <1>1, <1>2, <1>3, PTL DEF Spec

-------------------------------------------------------------------------------
(* Real changes                                                             *)

TrailInv == CountInTrail /\ LastInTrail /\ ListedInTrail /\ EventsAreReal

\* What a deployment had stays where it is in its trail.
LEMMA TrailGrows ==
  ASSUME TypeOK, [Next]_vars, NEW d \in Deployment
  PROVE  /\ Len(trail'[d]) \in Nat /\ Len(trail[d]) \in Nat
         /\ Len(trail[d]) <= Len(trail'[d])
         /\ \A i \in 1 .. Len(trail[d]) : trail'[d][i] = trail[d][i]
<1>1. trail[d] \in Seq(Count)
  BY DEF TypeOK
<1>2. CASE UNCHANGED trail
  BY <1>1, <1>2
<1>3. ASSUME NEW e \in Deployment, NEW c \in Count \cup {None}, Scale(e, c)
      PROVE  trail'[d] = trail[d] \/ \E v \in Count : trail'[d] = Append(trail[d], v)
  BY <1>3 DEF Scale, Had, TypeOK
<1>4. ASSUME NEW v \in Count, trail'[d] = Append(trail[d], v)
      PROVE  /\ Len(trail'[d]) = Len(trail[d]) + 1
             /\ \A i \in 1 .. Len(trail[d]) : trail'[d][i] = trail[d][i]
  BY <1>1, <1>4
<1>5. CASE \E e \in Deployment, c \in Count \cup {None} : Scale(e, c)
  BY <1>1, <1>3, <1>4, <1>5
<1>6. UNCHANGED trail \/ \E e \in Deployment, c \in Count \cup {None} : Scale(e, c)
  BY DEF Next, vars, worldVars, Tick, Fetch, Diff, Ship, Restart, Timeout, StoreFindings,
         StoreEvents, PostFails, ServerCrash
<1> QED
  BY <1>2, <1>5, <1>6

\* So what was true of the trail stays true.
LEMMA TrailKept ==
  ASSUME TypeOK, [Next]_vars
  PROVE  /\ LastInTrail /\ UNCHANGED last => LastInTrail'
         /\ ListedInTrail /\ UNCHANGED <<last, listed>> => ListedInTrail'
         /\ EventsAreReal /\ Known' \subseteq Known => EventsAreReal'
<1>1. \A d \in Deployment : \A i \in 1 .. Len(trail[d]) :
        i \in 1 .. Len(trail'[d]) /\ trail'[d][i] = trail[d][i]
  BY TrailGrows
<1>2. ASSUME LastInTrail, UNCHANGED last PROVE LastInTrail'
  BY <1>1, <1>2 DEF LastInTrail
<1>3. ASSUME ListedInTrail, UNCHANGED <<last, listed>> PROVE ListedInTrail'
  <2> SUFFICES ASSUME NEW a \in Agent, NEW d \in Deployment, NEW list \in listed[a],
                      list[d] # None
               PROVE  \E j \in 1 .. Len(trail'[d]) :
                        /\ trail'[d][j] = list[d]
                        /\ last[a][d] # None => \E i \in 1 .. j : trail'[d][i] = last[a][d]
    BY <1>3 DEF ListedInTrail
  <2>1. PICK j \in 1 .. Len(trail[d]) :
          /\ trail[d][j] = list[d]
          /\ last[a][d] # None => \E i \in 1 .. j : trail[d][i] = last[a][d]
    BY <1>3 DEF ListedInTrail
  <2>2. \A i \in 1 .. j : i \in 1 .. Len(trail[d])
    BY TrailGrows
  <2> QED
    BY <1>1, <2>1, <2>2
<1>4. ASSUME EventsAreReal, Known' \subseteq Known PROVE EventsAreReal'
  <2>1. \A e \in Known : e.dep \in Deployment
    BY KnownTyped DEF Event
  <2> QED
    BY <1>1, <1>4, <2>1 DEF EventsAreReal
<1> QED
  BY <1>2, <1>3, <1>4

LEMMA TrailInit == Init => TrailInv
<1> SUFFICES ASSUME Init PROVE TrailInv
  OBVIOUS
<1>1. CountInTrail
  BY DEF Init, CountInTrail, Had, List
<1>2. LastInTrail /\ ListedInTrail
  BY DEF Init, LastInTrail, ListedInTrail, NoList
<1>3. Known = {}
  BY DEF Init, Known, StoredEvents, PostedEvents, PendingEvents
<1> QED
  BY <1>1, <1>2, <1>3 DEF TrailInv, EventsAreReal

LEMMA TrailStep == TypeOK /\ TrailInv /\ [Next]_vars => TrailInv'
<1> SUFFICES ASSUME TypeOK, TrailInv, [Next]_vars PROVE TrailInv'
  OBVIOUS
<1> USE DEF TrailInv
<1>1. ASSUME NEW d \in Deployment, NEW c \in Count \cup {None}, Scale(d, c)
      PROVE  TrailInv'
  <2>1. UNCHANGED <<last, listed, pending, net, stored>>
    BY <1>1 DEF Scale, watchVars
  <2>2. Known' = Known
    BY <2>1 DEF Known, StoredEvents, PostedEvents, PendingEvents
  <2>3. CountInTrail'
    <3>1. \A e \in Deployment : e # d => count'[e] = count[e] /\ trail'[e] = trail[e]
      BY <1>1 DEF Scale, TypeOK
    <3>2. trail \in [Deployment -> Seq(Count)] /\ DOMAIN count = Deployment
      BY DEF TypeOK, List
    <3>3. count'[d] = c /\ trail'[d] = Had(d, c, trail)
      BY <1>1, <3>2 DEF Scale
    <3>4. ASSUME c # None
          PROVE  Len(trail'[d]) >= 1 /\ trail'[d][Len(trail'[d])] = c
      BY <3>2, <3>3, <3>4 DEF Had
    <3> QED
      BY <3>1, <3>3, <3>4 DEF CountInTrail
  <2> QED
    BY <2>1, <2>2, <2>3, TrailKept
<1>2. ASSUME NEW a \in Agent, Fetch(a)
      PROVE  TrailInv'
  <2>1. UNCHANGED <<count, trail, last, pending, net, stored>>
    BY <1>2 DEF Fetch, worldVars
  <2>2. Known' = Known
    BY <2>1 DEF Known, StoredEvents, PostedEvents, PendingEvents
  <2>3. ListedInTrail'
    <3>1. listed'[a] = {count} /\ \A b \in Agent : b # a => listed'[b] = listed[b]
      BY <1>2 DEF Fetch, TypeOK
    <3>2. ASSUME NEW d \in Deployment, count[d] # None
          PROVE  \E j \in 1 .. Len(trail[d]) :
                   /\ trail[d][j] = count[d]
                   /\ last[a][d] # None => \E i \in 1 .. j : trail[d][i] = last[a][d]
      <4>1. Len(trail[d]) \in 1 .. Len(trail[d]) /\ trail[d][Len(trail[d])] = count[d]
        BY <3>2, TrailGrows DEF CountInTrail
      <4> QED
        BY <4>1 DEF LastInTrail
    <3> QED
      BY <2>1, <3>1, <3>2 DEF ListedInTrail
  <2> QED
    BY <2>1, <2>2, <2>3, TrailKept DEF CountInTrail
<1>3. ASSUME NEW a \in Agent, Diff(a)
      PROVE  TrailInv'
  <2>1. PICK list \in listed[a], at \in Reading :
          /\ pending' = [pending EXCEPT ![a] =
                           @ \cup {EventOf(a, d, list, at) : d \in Changed(list, last[a])}]
          /\ last' = [last EXCEPT ![a] = Remembered(list, @)]
    BY <1>3 DEF Diff
  <2>2. UNCHANGED <<count, trail, net, stored>>
    BY <1>3 DEF Diff, worldVars
  <2>3. CountInTrail'
    BY <2>2 DEF CountInTrail
  <2>4. /\ last'[a] = Remembered(list, last[a])
        /\ \A b \in Agent : b # a => last'[b] = last[b]
    BY <2>1 DEF TypeOK
  <2>5. LastInTrail'
    <3>1. \A d \in Deployment : last'[a][d] = IF list[d] = None THEN last[a][d] ELSE list[d]
      BY <2>4 DEF Remembered
    <3>2. \A d \in Deployment : list[d] # None =>
            \E j \in 1 .. Len(trail[d]) : trail[d][j] = list[d]
      BY DEF ListedInTrail
    <3> QED
      BY <2>2, <2>4, <3>1, <3>2 DEF LastInTrail
  <2>6. ListedInTrail'
    <3>1. listed'[a] = {} /\ \A b \in Agent : b # a => listed'[b] = listed[b]
      BY <1>3 DEF Diff, TypeOK
    <3> QED
      BY <2>2, <2>4, <3>1 DEF ListedInTrail
  <2>7. EventsAreReal'
    <3> DEFINE new == {EventOf(a, d, list, at) : d \in Changed(list, last[a])}
    <3>1. ASSUME NEW d \in Changed(list, last[a])
          PROVE  \E i, j \in 1 .. Len(trail[d]) :
                   i < j /\ trail[d][i] = last[a][d] /\ trail[d][j] = list[d]
      <4>1. /\ d \in Deployment
            /\ list[d] # None /\ last[a][d] # None /\ list[d] # last[a][d]
        BY DEF Changed
      <4>2. PICK j \in 1 .. Len(trail[d]) :
              /\ trail[d][j] = list[d]
              /\ \E i \in 1 .. j : trail[d][i] = last[a][d]
        BY <4>1 DEF ListedInTrail
      <4>3. PICK i \in 1 .. j : trail[d][i] = last[a][d]
        BY <4>2
      <4>4. i < j /\ i \in 1 .. Len(trail[d])
        BY <4>1, <4>2, <4>3, TrailGrows
      <4> QED
        BY <4>2, <4>3, <4>4
    <3>2. \A e \in new : \E i, j \in 1 .. Len(trail[e.dep]) :
            i < j /\ trail[e.dep][i] = e.from /\ trail[e.dep][j] = e.to
      BY <3>1 DEF EventOf
    <3>3. \A b \in Agent : pending'[b] \subseteq pending[b] \cup new
      BY <2>1 DEF TypeOK
    <3> HIDE DEF new
    <3>4. PendingEvents' \subseteq PendingEvents \cup new
      BY <3>3 DEF PendingEvents
    <3>5. PostedEvents' = PostedEvents /\ StoredEvents' = StoredEvents
      BY <2>2 DEF PostedEvents, StoredEvents
    <3>6. Known' \subseteq Known \cup new
      BY <3>4, <3>5 DEF Known
    <3> QED
      BY <2>2, <3>2, <3>6 DEF EventsAreReal
  <2> QED
    BY <2>3, <2>5, <2>6, <2>7
<1>4. ASSUME NEW a \in Agent, Restart(a)
      PROVE  TrailInv'
  <2>1. UNCHANGED <<count, trail>>
    BY <1>4 DEF Restart, worldVars
  <2>2. /\ last'[a] = NoList /\ listed'[a] = {}
        /\ \A b \in Agent : b # a => last'[b] = last[b] /\ listed'[b] = listed[b]
    BY <1>4 DEF Restart, TypeOK
  <2>3. CountInTrail' /\ LastInTrail' /\ ListedInTrail'
    <3>1. \A d \in Deployment : last'[a][d] = None
      BY <2>2 DEF NoList
    <3>2. CountInTrail'
      BY <2>1 DEF CountInTrail
    <3>3. LastInTrail'
      BY <2>1, <2>2, <3>1 DEF LastInTrail
    <3>4. ListedInTrail'
      BY <2>1, <2>2 DEF ListedInTrail
    <3> QED
      BY <3>2, <3>3, <3>4
  <2>4. Known' \subseteq Known
    BY <1>4, KnownStep
  <2> QED
    BY <2>3, <2>4, TrailKept
<1>5. CASE UNCHANGED <<count, trail, last, listed>> /\ Known' \subseteq Known
  BY <1>5, TrailKept DEF CountInTrail
<1>6. CASE Tick \/ UNCHANGED vars
  <2>1. UNCHANGED <<count, trail, last, listed, pending, net, stored>>
    BY <1>6 DEF Tick, vars, watchVars
  <2> QED
    BY <1>5, <2>1 DEF Known, StoredEvents, PostedEvents, PendingEvents
<1>7. CASE (\E a \in Agent : Ship(a)) \/ ServerCrash
           \/ \E p \in net : Timeout(p) \/ StoreFindings(p) \/ StoreEvents(p) \/ PostFails(p)
  <2>1. UNCHANGED <<count, trail, last, listed>>
    BY <1>7 DEF Ship, ServerCrash, Timeout, StoreFindings, StoreEvents, PostFails,
                worldVars, watchVars
  <2> QED
    BY <1>5, <1>7, <2>1, KnownStep
<1> QED
  BY <1>1, <1>2, <1>3, <1>4, <1>6, <1>7 DEF Next

\* "Never a guess": every event that was ever in a buffer, a post or the table tells
\* of two counts its deployment really had, in that order.
THEOREM EventsHappened == Spec => []EventsAreReal
<1>1. Init => TypeOK /\ TrailInv
  BY TypeInit, TrailInit
<1>2. TypeOK /\ TrailInv /\ [Next]_vars => (TypeOK /\ TrailInv)'
  BY TypeStep, TrailStep
<1>3. TrailInv => EventsAreReal
  BY DEF TrailInv
<1> QED
  BY <1>1, <1>2, <1>3, PTL DEF Spec

-------------------------------------------------------------------------------
(* Events and snapshots                                                     *)

TimeInv == Timely /\ EventsWithinSkew

LEMMA TimeStep == TypeOK /\ TimeInv /\ [Next]_vars => TimeInv'
<1> SUFFICES ASSUME TypeOK, TimeInv, [Next]_vars PROVE TimeInv'
  OBVIOUS
<1> USE DEF TimeInv
<1>1. now \in Nat /\ Skew \in Nat /\ \A e \in Known : e.at \in Nat
  BY KnownTyped, DeployAssumption DEF TypeOK, Time, Stamp, Event
<1>2. ASSUME UNCHANGED stored, now' \in Nat, now <= now',
             \A a \in Agent : pending'[a] \subseteq pending[a],
             \A q \in net' : \E p \in net : q.events = p.events /\ q.snap = p.snap
      PROVE  TimeInv'
  <2>1. \A a \in Agent : \A e \in pending[a] : e \in Known
    BY DEF Known, PendingEvents
  <2>2. \A p \in net : \A e \in p.events : e \in Known
    BY DEF Known, PostedEvents
  <2>3. \A a \in Agent : \A e \in pending'[a] : e.at <= now' + Skew
    BY <1>1, <1>2, <2>1 DEF Timely
  <2>4. \A q \in net' : \A e \in q.events :
          e.at <= now' + Skew /\ (q.snap # None => e.at <= q.snap + Skew)
    BY <1>1, <1>2, <2>2 DEF Timely
  <2> QED
    BY <1>2, <2>3, <2>4 DEF Timely, EventsWithinSkew
<1>3. CASE Tick
  BY <1>1, <1>2, <1>3 DEF Tick
<1>4. CASE UNCHANGED <<now, pending, net, stored>>
  BY <1>1, <1>2, <1>4
<1>5. ASSUME NEW a \in Agent, Diff(a)
      PROVE  TimeInv'
  <2>1. UNCHANGED <<now, net, stored>>
    BY <1>5 DEF Diff, worldVars
  <2>2. PICK list \in listed[a], at \in Reading :
          pending' = [pending EXCEPT ![a] =
                        @ \cup {EventOf(a, d, list, at) : d \in Changed(list, last[a])}]
    BY <1>5 DEF Diff
  <2>3. \A e \in {EventOf(a, d, list, at) : d \in Changed(list, last[a])} : e.at <= now + Skew
    BY <1>1 DEF EventOf, Reading
  <2>4. \A b \in Agent : \A e \in pending'[b] : e.at <= now + Skew
    BY <2>2, <2>3 DEF Timely, TypeOK
  <2> QED
    BY <2>1, <2>4 DEF Timely, EventsWithinSkew
<1>6. ASSUME NEW a \in Agent, Ship(a)
      PROVE  TimeInv'
  <2> DEFINE p == [agent |-> a, events |-> pending[a], snap |-> None, open |-> TRUE]
  <2>1. p.snap = None /\ \A e \in p.events : e.at <= now + Skew
    BY DEF Timely
  <2>2. net' = net \cup {p} /\ UNCHANGED <<now, stored>>
    BY <1>6 DEF Ship, worldVars
  <2>3. \A b \in Agent : pending'[b] \subseteq pending[b]
    BY <1>6 DEF Ship, TypeOK
  <2> HIDE DEF p
  <2> QED
    BY <2>1, <2>2, <2>3 DEF Timely, EventsWithinSkew
<1>7. ASSUME NEW p \in net, Timeout(p)
      PROVE  TimeInv'
  <2>1. /\ [p EXCEPT !.open = FALSE].events = p.events
        /\ [p EXCEPT !.open = FALSE].snap = p.snap
    BY DEF TypeOK, Post
  <2>2. \A q \in net' : \E r \in net : q.events = r.events /\ q.snap = r.snap
    BY <1>7, <2>1 DEF Timeout
  <2> QED
    BY <1>1, <1>2, <1>7, <2>2 DEF Timeout, worldVars
<1>8. ASSUME NEW a \in Agent, Restart(a)
      PROVE  TimeInv'
  <2>1. \A p \in net : /\ [p EXCEPT !.open = FALSE].events = p.events
                       /\ [p EXCEPT !.open = FALSE].snap = p.snap
    BY DEF TypeOK, Post
  <2>2. \A q \in net' : \E p \in net : q.events = p.events /\ q.snap = p.snap
    BY <1>8, <2>1 DEF Restart
  <2>3. \A b \in Agent : pending'[b] \subseteq pending[b]
    BY <1>8 DEF Restart, TypeOK
  <2> QED
    BY <1>1, <1>2, <1>8, <2>2, <2>3 DEF Restart, worldVars
<1>9. ASSUME NEW p \in net, StoreFindings(p)
      PROVE  TimeInv'
  <2>1. /\ [p EXCEPT !.snap = now].events = p.events
        /\ [p EXCEPT !.snap = now].snap = now
    BY DEF TypeOK, Post
  <2>2. UNCHANGED <<now, pending, stored>>
    BY <1>9 DEF StoreFindings, worldVars
  <2> QED
    BY <1>9, <2>1, <2>2 DEF StoreFindings, Timely, EventsWithinSkew
<1>10. ASSUME NEW p \in net, StoreEvents(p)
       PROVE  TimeInv'
  <2>1. /\ p.snap # None
        /\ net' \subseteq net
        /\ stored' = stored \cup {[event |-> e, snap |-> p.snap] : e \in p.events}
        /\ UNCHANGED <<now, pending>>
    BY <1>10 DEF StoreEvents, worldVars
  <2> QED
    BY <2>1 DEF Timely, EventsWithinSkew
<1>11. CASE ServerCrash \/ \E p \in net : PostFails(p)
  BY <1>1, <1>2, <1>11 DEF ServerCrash, PostFails, worldVars
<1>12. CASE (\E d \in Deployment, c \in Count \cup {None} : Scale(d, c))
            \/ (\E a \in Agent : Fetch(a)) \/ UNCHANGED vars
  BY <1>4, <1>12 DEF Scale, Fetch, worldVars, vars
<1> QED
  BY <1>3, <1>5, <1>6, <1>7, <1>8, <1>9, <1>10, <1>11, <1>12 DEF Next

\* A stored event is younger than the snapshot it came with at most by what the
\* agent's clock is ahead of the server's, because the findings are committed before
\* the events, and before that the events were made.
THEOREM StoredInTime == Spec => []EventsWithinSkew
<1>1. Init => TypeOK /\ TimeInv
  BY TypeInit DEF Init, TimeInv, Timely, EventsWithinSkew
<1>2. TypeOK /\ TimeInv /\ [Next]_vars => (TypeOK /\ TimeInv)'
  BY TypeStep, TimeStep
<1>3. TimeInv => EventsWithinSkew
  BY DEF TimeInv
<1> QED
  BY <1>1, <1>2, <1>3, PTL DEF Spec
-------------------------------------------------------------------------------
(* The whole story                                                          *)

\* Without failures no event is lost.
LEMMA NothingLost ==
  ASSUME TypeOK,
         \/ \E a \in Agent : Ship(a)
         \/ \E p \in net : StoreFindings(p) \/ StoreEvents(p)
  PROVE  Known' = Known
<1>1. Known' \subseteq Known
  BY KnownStep
<1>2. ASSUME NEW a \in Agent, Ship(a)
      PROVE  Known \subseteq Known'
  <2> DEFINE q == [agent |-> a, events |-> pending[a], snap |-> None, open |-> TRUE]
  <2>1. net \subseteq net' /\ q \in net' /\ q.events = pending[a]
    BY <1>2 DEF Ship
  <2>2. PostedEvents \subseteq PostedEvents' /\ pending[a] \subseteq PostedEvents'
    BY <2>1 DEF PostedEvents
  <2>3. \A b \in Agent : b # a => pending'[b] = pending[b]
    BY <1>2 DEF Ship, TypeOK
  <2>4. PendingEvents \subseteq PendingEvents' \cup pending[a]
    BY <2>3 DEF PendingEvents
  <2>5. StoredEvents' = StoredEvents
    BY <1>2 DEF Ship, StoredEvents
  <2> QED
    BY <2>2, <2>4, <2>5 DEF Known
<1>3. ASSUME NEW p \in net, StoreFindings(p)
      PROVE  Known \subseteq Known'
  <2> DEFINE q == [p EXCEPT !.snap = now]
  <2>1. net' = (net \ {p}) \cup {q} /\ q.events = p.events
    BY <1>3 DEF StoreFindings, TypeOK, Post
  <2>2. \A r \in net : \E s \in net' : s.events = r.events
    BY <2>1
  <2>3. PostedEvents \subseteq PostedEvents'
    BY <2>2 DEF PostedEvents
  <2> QED
    BY <1>3, <2>3 DEF StoreFindings, Known, StoredEvents, PendingEvents
<1>4. ASSUME NEW p \in net, StoreEvents(p)
      PROVE  Known \subseteq Known'
  <2>1. StoredEvents' = StoredEvents \cup p.events
    BY <1>4, StoredStep
  <2>2. net' = net \ {p} /\ PendingEvents' = PendingEvents
    BY <1>4 DEF StoreEvents, PendingEvents
  <2>3. PostedEvents \subseteq PostedEvents' \cup p.events
    BY <2>2 DEF PostedEvents
  <2> QED
    BY <2>1, <2>2, <2>3 DEF Known
<1> QED
  BY <1>1, <1>2, <1>3, <1>4

\* A comparison continues the story of each deployment that changed, and leaves that
\* of the others where it was.
LEMMA DiffContinues ==
  ASSUME TypeOK, Numbered, TrailComplete, failures = 0, NEW a \in Agent, Diff(a)
  PROVE  TrailComplete'
<1>1. PICK list \in listed[a], at \in Reading :
        /\ pending' = [pending EXCEPT ![a] =
                         @ \cup {EventOf(a, d, list, at) : d \in Changed(list, last[a])}]
        /\ last' = [last EXCEPT ![a] = Remembered(list, @)]
  BY DEF Diff
<1> DEFINE new == {EventOf(a, d, list, at) : d \in Changed(list, last[a])}
<1>2. Known' = Known \cup new
  <2>1. pending'[a] = pending[a] \cup new
        /\ \A b \in Agent : b # a => pending'[b] = pending[b]
    BY <1>1 DEF TypeOK
  <2>2. PendingEvents' = PendingEvents \cup new
    BY <2>1 DEF PendingEvents
  <2> QED
    BY <2>2 DEF Diff, Known, StoredEvents, PostedEvents
<1>3. \A d \in Changed(list, last[a]) :
        LET g == EventOf(a, d, list, at)
        IN /\ g.agent = a /\ g.dep = d /\ g.from = last[a][d] /\ g.to = list[d]
           /\ g.nth = made[a] + 1
  BY DEF EventOf
<1>4. \A d \in Deployment : /\ d \in Changed(list, last[a]) => last'[a][d] = list[d]
                            /\ d \notin Changed(list, last[a]) /\ last[a][d] # None
                                 => last'[a][d] = last[a][d]
  <2>1. last'[a] = Remembered(list, last[a])
    BY <1>1 DEF TypeOK
  <2> QED
    BY <2>1 DEF Remembered, Changed
<1>5. \A b \in Agent : b # a => last'[b] = last[b]
  BY <1>1 DEF TypeOK
<1>6. Known \subseteq Event /\ \A e \in Known : e.nth <= made[e.agent]
  BY KnownTyped DEF Numbered
<1>7. \A e \in Known : /\ e.agent \in Agent /\ e.dep \in Deployment /\ e.to # None
                       /\ e.nth \in Nat /\ e.nth <= made[e.agent]
                       /\ made[e.agent] \in Nat
  BY <1>6 DEF Event, Count, None, TypeOK
<1>8. SUFFICES ASSUME NEW e \in Known'
               PROVE  \/ \E f \in Known' : /\ Before(e, f)
                                           /\ f.from = e.to
                                           /\ ~\E g \in Known' : Before(e, g) /\ Before(g, f)
                      \/ /\ ~\E f \in Known' : Before(e, f)
                         /\ e.to = last'[e.agent][e.dep]
  BY DEF TrailComplete, Before
<1>9. CASE e \in new
  <2>1. PICK d \in Changed(list, last[a]) : e = EventOf(a, d, list, at)
    BY <1>9
  <2>2. e.agent = a /\ e.dep = d /\ e.to = list[d] /\ e.nth = made[a] + 1 /\ d \in Deployment
    BY <1>3, <2>1 DEF Changed
  <2>3. ~\E f \in Known : Before(e, f)
    BY <1>7, <2>2 DEF Before
  <2>4. ~\E f \in new : Before(e, f)
    BY <1>3, <2>2 DEF Before, TypeOK
  <2>5. e.to = last'[e.agent][e.dep]
    BY <1>4, <2>1, <2>2
  <2> QED
    BY <1>2, <2>3, <2>4, <2>5
<1>10. CASE e \in Known
  <2>1. CASE \E f \in Known : /\ Before(e, f) /\ f.from = e.to
                              /\ ~\E g \in Known : Before(e, g) /\ Before(g, f)
    <3>1. PICK f \in Known : /\ Before(e, f) /\ f.from = e.to
                             /\ ~\E g \in Known : Before(e, g) /\ Before(g, f)
      BY <2>1
    <3>2. ~\E g \in new : Before(g, f)
      BY <1>3, <1>7 DEF Before
    <3> QED
      BY <1>2, <3>1, <3>2
  <2>2. CASE (~\E f \in Known : Before(e, f)) /\ e.to = last[e.agent][e.dep]
    <3>1. CASE e.agent = a /\ e.dep \in Changed(list, last[a])
      <4> DEFINE f == EventOf(a, e.dep, list, at)
      <4>1. f \in new /\ f.from = e.to
        BY <1>3, <2>2, <3>1
      <4>4. e.nth \in Nat /\ e.nth <= made[a] /\ made[a] \in Nat
        BY <1>7, <1>10, <3>1
      <4>3. f.agent = a /\ f.dep = e.dep /\ f.nth = made[a] + 1
        BY <1>3, <3>1
      <4>5. Before(e, f)
        BY <3>1, <4>3, <4>4 DEF Before
      <4>2. ~\E g \in new : Before(g, f)
        BY <1>3, <3>1 DEF Before, TypeOK
      <4> QED
        BY <1>2, <2>2, <4>1, <4>2, <4>5
    <3>2. CASE ~(e.agent = a /\ e.dep \in Changed(list, last[a]))
      <4>1. ~\E f \in new : Before(e, f)
        BY <1>3, <3>2 DEF Before
      <4>2. e.to = last'[e.agent][e.dep]
        <5>1. e.agent \in Agent /\ e.dep \in Deployment /\ last[e.agent][e.dep] # None
          BY <1>7, <1>10, <2>2
        <5> QED
          BY <1>4, <1>5, <2>2, <3>2, <5>1
      <4> QED
        BY <1>2, <2>2, <4>1, <4>2
    <3> QED
      BY <3>1, <3>2
  <2> QED
    BY <1>10, <2>1, <2>2 DEF TrailComplete
<1> QED
  BY <1>2, <1>8, <1>9, <1>10

\* Without failures the story of every deployment is whole, for any number of agents,
\* posts in flight and changes in between.
THEOREM StoryIsWhole == Spec => []TrailComplete
<1> DEFINE IInv == TypeOK /\ OnePlaceInv /\ TrailComplete
<1>1. Init => IInv
  BY TypeInit, OnePlaceInit
     DEF Init, TrailComplete, Known, StoredEvents, PostedEvents, PendingEvents
<1>2. IInv /\ [Next]_vars => IInv'
  <2> SUFFICES ASSUME IInv, [Next]_vars, failures' = 0 PROVE TrailComplete'
    BY TypeStep, OnePlaceStep DEF TrailComplete
  <2>1. CASE UNCHANGED <<last, failures>> /\ Known' = Known
    BY <2>1 DEF TrailComplete, Before
  <2>2. CASE \/ \E a \in Agent : Ship(a)
             \/ \E p \in net : StoreFindings(p) \/ StoreEvents(p)
    BY <2>1, <2>2, NothingLost DEF Ship, StoreFindings, StoreEvents, watchVars
  <2>3. CASE \/ Tick \/ (\E a \in Agent : Fetch(a))
             \/ \E d \in Deployment, c \in Count \cup {None} : Scale(d, c)
    BY <2>1, <2>3 DEF Tick, Fetch, Scale, watchVars,
                      Known, StoredEvents, PostedEvents, PendingEvents
  <2>4. ASSUME NEW a \in Agent, Diff(a) PROVE TrailComplete'
    BY <2>4, DiffContinues DEF Diff, OnePlaceInv
  <2>5. ~(\/ \E a \in Agent : Restart(a)
          \/ \E p \in net : Timeout(p) \/ PostFails(p)
          \/ ServerCrash)
    BY DEF TypeOK, Restart, Timeout, PostFails, ServerCrash
  <2>6. CASE UNCHANGED vars
    BY <2>1, <2>6 DEF vars, Known, StoredEvents, PostedEvents, PendingEvents
  <2> QED
    BY <2>2, <2>3, <2>4, <2>5, <2>6 DEF Next
<1> QED
  BY <1>1, <1>2, PTL DEF Spec
===============================================================================
