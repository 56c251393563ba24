--------------------------- MODULE AttributionProofs ---------------------------
(***************************************************************************)
(* What Attribution promises for every cluster: any pods, nodes, zones and *)
(* addresses, whatever changes between two lookups.                        *)
(***************************************************************************)
EXTENDS Attribution, TLAPS

\* Every finding, and the flow the walk is at, has the source its cgroup's entry in the
\* cache has; an entry is made before there is a finding.
SourcesAreCached ==
  /\ scrape.pc # "idle" => cache[scrape.cgroup] = scrape.source
  /\ \A f \in findings : cache[f.cgroup] = f.source

\* The zone the walk has of the source's node is one that node may be said to have.
ZoneIsOfSource == scrape.pc = "add" => scrape.zone \in Zones(SourceNode(scrape.source))

\* The inductive invariant.
IInv == TypeOK /\ FindingsFit /\ SourcesAreCached /\ ZoneIsOfSource

-------------------------------------------------------------------------------

LEMMA ClassifyType ==
  ASSUME NEW a \in Address, NEW p \in Pod \cup {None}, NEW q \in Pod \cup {None},
         NEW y, NEW z
  PROVE  Classify(a, p, q, y, z) \in Class \X Confidence
<1>1. Outside(a) \in Class \X Confidence
  BY AttributionAssumption DEF AttributionAssumption, Outside, Class, Confidence
<1>2. ASSUME NEW m, NEW n PROVE Inside(m, n, y, z) \in Class \X Confidence
  BY DEF Inside, Class, Confidence
<1> QED
  BY <1>1, <1>2 DEF Classify

\* A lookup gives one of the zones a node may be said to have.
LEMMA ZoneInZones ==
  ASSUME NEW n, NEW known \in SUBSET Node
  PROVE  ZoneIn(n, known) \in Zones(n)
  BY DEF Zones

LEMMA ZoneType ==
  ASSUME NEW n, NEW known \in SUBSET Node
  PROVE  ZoneIn(n, known) \in Zone \cup {None}
  BY AttributionAssumption DEF AttributionAssumption, ZoneIn

LEMMA FlowType ==
  ASSUME NEW pc \in {"idle", "ip"}, NEW c \in Cgroup, NEW a \in Address,
         NEW p \in Pod \cup {None}
  PROVE  /\ Flow(pc, c, a, p) \in Walk
         /\ Flow(pc, c, a, p).pc = pc
         /\ Flow(pc, c, a, p).cgroup = c
         /\ Flow(pc, c, a, p).source = p
  BY DEF Flow, Walk

LEMMA IdentitiesType ==
  ASSUME TypeOK, NEW c \in Cgroup
  PROVE  Identities(c) \subseteq Pod \cup {None}
  BY AttributionAssumption DEF AttributionAssumption, Identities, TypeOK

LEMMA DestinationType ==
  ASSUME TypeOK
  PROVE  Destination \in Pod \cup {None}
  BY AttributionAssumption DEF AttributionAssumption, Destination, TypeOK, Walk

LEMMA SnapshotType == Empty \in Snapshot
  BY DEF Empty, Nowhere, Snapshot

-------------------------------------------------------------------------------

LEMMA InitIInv == Init => IInv
<1> SUFFICES ASSUME Init PROVE IInv
  OBVIOUS
<1>1. snap \in Snapshot
  <2>1. CASE snap = Empty
    BY <2>1, SnapshotType
  <2>2. CASE snap # Empty
    <3>1. PICK m \in [Address -> Pod \cup {None}], e \in [Address -> Backend \cup {None}] :
            snap = [pods |-> Listed, byIP |-> m, byEndpointIP |-> e, nodes |-> nodes]
      BY <2>2 DEF Init
    <3> QED
      BY <3>1 DEF Snapshot, Listed, Init
  <2> QED
    BY <2>1, <2>2
<1>2. addr \in [Pod -> Address \cup {None}] /\ nodeIP \in [Node -> Address \cup {None}]
  BY DEF Init
<1>3. endpoints \in [Backend -> Address \cup {None}]
  <2>1. ASSUME NEW p \in Backend PROVE SliceFor(p) \in Address \cup {None}
    BY <1>2, <2>1, AttributionAssumption DEF AttributionAssumption, SliceFor
  <2> QED
    BY <2>1 DEF Init
<1>4. refresh \in [pc : {"idle", "endpoints", "nodes"}, got : Snapshot]
  BY SnapshotType DEF Init, Idle
<1>5. PICK c \in Cgroup, a \in Address : scrape = Flow("idle", c, a, None)
  BY DEF Init
<1>6. scrape \in Walk /\ scrape.pc = "idle"
  BY <1>5, FlowType
<1>7. TypeOK
  BY <1>1, <1>2, <1>3, <1>4, <1>6 DEF Init, TypeOK
<1>8. FindingsFit /\ SourcesAreCached /\ ZoneIsOfSource
  BY <1>6 DEF Init, FindingsFit, SourcesAreCached, ZoneIsOfSource
<1> QED
  BY <1>7, <1>8 DEF IInv

\* The cluster changes: nothing the agent holds does.
LEMMA ClusterIInv ==
  ASSUME IInv, ClusterNext
  PROVE  IInv'
<1>1. UNCHANGED <<nodeIP, agent>>
  BY DEF ClusterNext, PodStarts, PodFinishes, PodIsDeleted, SyncEndpoint, NodeLeaves
<1>2. /\ phase' \in [Pod -> {"new", "running", "done", "gone"}]
      /\ addr' \in [Pod -> Address \cup {None}]
      /\ endpoints' \in [Backend -> Address \cup {None}]
      /\ nodes' \subseteq Node
  <2> USE DEF IInv, TypeOK
  <2>1. CASE \E p \in Pod, a \in Address \cup {None} : PodStarts(p, a)
    BY <2>1, AttributionAssumption DEF PodStarts
  <2>2. CASE \E p \in Pod : PodFinishes(p) \/ PodIsDeleted(p)
    BY <2>2 DEF PodFinishes, PodIsDeleted
  <2>3. CASE \E p \in Backend : SyncEndpoint(p)
    BY <2>3, AttributionAssumption
       DEF AttributionAssumption, SyncEndpoint, SliceFor
  <2>4. CASE \E n \in Node : NodeLeaves(n)
    BY <2>4 DEF NodeLeaves
  <2> QED
    BY <2>1, <2>2, <2>3, <2>4 DEF ClusterNext
<1>3. TypeOK'
  BY <1>1, <1>2 DEF IInv, TypeOK, agent
<1>4. FindingsFit' /\ SourcesAreCached' /\ ZoneIsOfSource'
  BY <1>1 DEF IInv, FindingsFit, SourcesAreCached, ZoneIsOfSource, agent
<1> QED
  BY <1>3, <1>4 DEF IInv

LEMMA RefreshIInv ==
  ASSUME IInv, FetchPods \/ FetchEndpoints \/ FetchNodesAndSwap \/ RefreshFails
  PROVE  IInv'
<1>1. UNCHANGED <<cluster, cache, scrape, findings>>
  BY DEF FetchPods, FetchEndpoints, FetchNodesAndSwap, RefreshFails
<1>2. /\ refresh' \in [pc : {"idle", "endpoints", "nodes"}, got : Snapshot]
      /\ snap' \in Snapshot
  <2> USE DEF IInv, TypeOK
  <2>1. CASE FetchPods
    <3>1. PICK m \in [Address -> Pod \cup {None}] :
            refresh' = [pc |-> "endpoints",
                        got |-> [Empty EXCEPT !.pods = Listed, !.byIP = m]]
      BY <2>1 DEF FetchPods
    <3>2. [Empty EXCEPT !.pods = Listed, !.byIP = m] \in Snapshot
      BY SnapshotType DEF Snapshot, Listed
    <3> QED
      BY <2>1, <3>1, <3>2 DEF FetchPods
  <2>2. CASE FetchEndpoints
    <3>1. PICK m \in [Address -> Backend \cup {None}] :
            refresh' = [pc |-> "nodes", got |-> [refresh.got EXCEPT !.byEndpointIP = m]]
      BY <2>2 DEF FetchEndpoints
    <3>2. [refresh.got EXCEPT !.byEndpointIP = m] \in Snapshot
      BY DEF Snapshot
    <3> QED
      BY <2>2, <3>1, <3>2 DEF FetchEndpoints
  <2>3. CASE FetchNodesAndSwap
    BY <2>3, SnapshotType DEF FetchNodesAndSwap, Idle, Snapshot
  <2>4. CASE RefreshFails
    BY <2>4, SnapshotType DEF RefreshFails, Idle
  <2> QED
    BY <2>1, <2>2, <2>3, <2>4
<1>3. TypeOK'
  BY <1>1, <1>2 DEF IInv, TypeOK, cluster
<1>4. FindingsFit' /\ SourcesAreCached' /\ ZoneIsOfSource'
  BY <1>1 DEF IInv, FindingsFit, SourcesAreCached, ZoneIsOfSource
<1> QED
  BY <1>3, <1>4 DEF IInv

LEMMA ResolveSourceIInv ==
  ASSUME IInv, NEW c \in Cgroup, NEW a \in Address, ResolveSource(c, a)
  PROVE  IInv'
<1>1. PICK id \in Identities(c) :
        /\ cache' = [cache EXCEPT ![c] = id]
        /\ scrape' = Flow("ip", c, a, id)
  BY DEF ResolveSource
<1>2. id \in Pod \cup {None}
  BY <1>1, IdentitiesType DEF IInv
<1>3. UNCHANGED <<cluster, refresh, snap, findings>>
  BY DEF ResolveSource
<1>4. /\ scrape' \in Walk /\ scrape'.pc = "ip"
      /\ scrape'.cgroup = c /\ scrape'.source = id
  BY <1>1, <1>2, FlowType
<1>5. TypeOK'
  BY <1>1, <1>2, <1>3, <1>4 DEF IInv, TypeOK, cluster
<1>6. FindingsFit' /\ ZoneIsOfSource'
  BY <1>3, <1>4 DEF IInv, FindingsFit, ZoneIsOfSource
<1>7. SourcesAreCached'
  \* An entry that a finding has gone by is the only answer there is.
  <2>1. \A f \in findings : f.cgroup = c => id = f.source
    BY <1>1, AttributionAssumption
       DEF IInv, TypeOK, Finding, SourcesAreCached, Identities, AttributionAssumption
  <2>2. \A f \in findings : f.cgroup \in Cgroup
    BY DEF IInv, TypeOK, Finding
  <2> QED
    BY <1>1, <1>3, <1>4, <2>1, <2>2 DEF IInv, TypeOK, SourcesAreCached
<1> QED
  BY <1>5, <1>6, <1>7 DEF IInv

LEMMA LookupIInv ==
  ASSUME IInv, ResolveIP \/ ResolveEndpointIP \/ ResolveEndpointWorkload \/ ResolveSourceZone
  PROVE  IInv'
<1>1. UNCHANGED <<cluster, refresh, snap, cache, findings>>
  BY DEF ResolveIP, ResolveEndpointIP, ResolveEndpointWorkload, ResolveSourceZone
<1>2. /\ scrape' \in Walk
      /\ scrape.pc # "idle"
      /\ scrape'.cgroup = scrape.cgroup /\ scrape'.source = scrape.source
      /\ scrape'.pc = "add" => scrape'.zone \in Zones(SourceNode(scrape.source))
  <2> USE DEF IInv, TypeOK, Walk
  <2>1. /\ scrape.remote \in Address
        /\ snap.byIP[scrape.remote] \in Pod \cup {None}
        /\ snap.byEndpointIP[scrape.remote] \in Backend \cup {None}
        /\ snap.pods \subseteq Pod
        /\ snap.nodes \in SUBSET Node
    BY DEF Snapshot
  <2>2. CASE ResolveIP
    BY <2>1, <2>2 DEF ResolveIP
  <2>3. CASE ResolveEndpointIP
    BY <2>1, <2>3 DEF ResolveEndpointIP
  <2>4. CASE ResolveEndpointWorkload
    BY <2>1, <2>4 DEF ResolveEndpointWorkload
  <2>5. CASE ResolveSourceZone
    <3> DEFINE z == ZoneIn(SourceNode(scrape.source), snap.nodes)
    <3>1. z \in Zone \cup {None} /\ z \in Zones(SourceNode(scrape.source))
      BY <2>1, ZoneType, ZoneInZones
    <3>2. scrape.pc = "zone" /\ scrape' = [scrape EXCEPT !.pc = "add", !.zone = z]
      BY <2>5 DEF ResolveSourceZone
    <3> HIDE DEF z
    <3> QED
      BY <3>1, <3>2
  <2> QED
    BY <2>2, <2>3, <2>4, <2>5
<1>3. TypeOK'
  BY <1>1, <1>2 DEF IInv, TypeOK, cluster
<1>4. FindingsFit' /\ SourcesAreCached' /\ ZoneIsOfSource'
  BY <1>1, <1>2 DEF IInv, FindingsFit, SourcesAreCached, ZoneIsOfSource
<1> QED
  BY <1>3, <1>4 DEF IInv

LEMMA AddIInv ==
  ASSUME IInv, Add
  PROVE  IInv'
<1> DEFINE new == [cgroup |-> scrape.cgroup, class |-> Path[1], remote |-> scrape.remote,
                   source |-> scrape.source, dest |-> Destination,
                   confidence |-> Path[2]]
           toZone == ZoneIn(DestNode(Destination), snap.nodes)
<1>1. findings' \subseteq findings \cup {new}
  BY DEF Add
<1>2. /\ Destination \in Pod \cup {None}
      /\ scrape.remote \in Address /\ scrape.cgroup \in Cgroup
      /\ scrape.source \in Pod \cup {None}
      /\ snap.nodes \in SUBSET Node
  BY DestinationType DEF IInv, TypeOK, Snapshot, Walk
<1>3. /\ scrape.pc = "add"
      /\ scrape' \in Walk /\ scrape'.pc = "idle"
      /\ UNCHANGED <<cluster, refresh, snap, cache>>
  BY <1>2, FlowType DEF Add
<1>4. Path = Classify(scrape.remote, scrape.source, Destination, scrape.zone, toZone)
  BY DEF Path, PathWith
<1>5. Path \in Class \X Confidence
  BY <1>2, <1>4, ClassifyType
<1>6. Path = <<Path[1], Path[2]>>
  BY <1>5
<1>7. new \in Finding
  BY <1>2, <1>5 DEF Finding
<1>8. TypeOK'
  BY <1>1, <1>3, <1>7 DEF IInv, TypeOK, cluster
<1>9. FindingsFit'
  <2>1. scrape.zone \in Zones(SourceNode(scrape.source))
    BY <1>3 DEF IInv, ZoneIsOfSource
  <2>2. toZone \in Zones(DestNode(Destination))
    BY <1>2, ZoneInZones
  <2> HIDE DEF toZone
  <2>3. \E fromZone \in Zones(SourceNode(new.source)), to \in Zones(DestNode(new.dest)) :
          <<new.class, new.confidence>>
            = Classify(new.remote, new.source, new.dest, fromZone, to)
    BY <1>4, <1>6, <2>1, <2>2
  <2> HIDE DEF new
  <2> QED
    BY <1>1, <2>3 DEF IInv, FindingsFit
<1>10. SourcesAreCached' /\ ZoneIsOfSource'
  BY <1>1, <1>3 DEF IInv, SourcesAreCached, ZoneIsOfSource
<1> QED
  BY <1>8, <1>9, <1>10 DEF IInv

LEMMA NextIInv == IInv /\ [Next]_vars => IInv'
<1> SUFFICES ASSUME IInv, [Next]_vars PROVE IInv'
  OBVIOUS
<1>1. CASE ClusterNext
  BY <1>1, ClusterIInv
<1>2. CASE FetchPods \/ FetchEndpoints \/ FetchNodesAndSwap \/ RefreshFails
  BY <1>2, RefreshIInv
<1>3. CASE \E c \in Cgroup, a \in Address : ResolveSource(c, a)
  BY <1>3, ResolveSourceIInv
<1>4. CASE ResolveIP \/ ResolveEndpointIP \/ ResolveEndpointWorkload \/ ResolveSourceZone
  BY <1>4, LookupIInv
<1>5. CASE Add
  BY <1>5, AddIInv
<1>6. CASE UNCHANGED vars
  BY <1>6 DEF vars, cluster, agent, IInv, TypeOK, FindingsFit, SourcesAreCached, ZoneIsOfSource
<1> QED
  BY <1>1, <1>2, <1>3, <1>4, <1>5, <1>6 DEF Next

LEMMA Invariance == Spec => []IInv
  BY InitIInv, NextIInv, PTL DEF Spec

-------------------------------------------------------------------------------

\* The variables keep their types, in every cluster.
THEOREM TypeCorrect == Spec => []TypeOK
<1>1. IInv => TypeOK
  BY DEF IInv
<1> QED
  BY <1>1, Invariance, PTL

\* A finding's class and confidence fit the destination it names, whenever the snapshot
\* was replaced between the lookups that led to it.
THEOREM FindingsAlwaysFit == Spec => []FindingsFit
<1>1. IInv => FindingsFit
  BY DEF IInv
<1> QED
  BY <1>1, Invariance, PTL

\* All findings of a cgroup name one source: the resolver asks once.
THEOREM SourceForGood == Spec => []OneSourcePerCgroup
<1>1. IInv => OneSourcePerCgroup
  BY DEF IInv, SourcesAreCached, OneSourcePerCgroup
<1> QED
  BY <1>1, Invariance, PTL
================================================================================
