------------------------------ MODULE Attribution ------------------------------
(***************************************************************************)
(* Who talks to whom: how the agent names and classes the two ends of a    *)
(* flow (workload.go, kubernetes.go, main.go, classify.go, report.go).     *)
(* One goroutine refreshes a snapshot of the cluster in four requests,     *)
(* another one walks over the flows and asks that snapshot several times   *)
(* per flow; pods, endpoints and nodes change under both.                  *)
(*                                                                         *)
(* Abstractions.  A flow is a cgroup of this node and a remote address;    *)
(* its bytes are not counted (AgentScrape, CostRound).  A pod's name stands *)
(* for its UID and its container ids, which all lead to the same pod.      *)
(* Services only put another name on an address and are left out, as is    *)
(* the restart of the agent, which is Init.  Remote is never nil: ipString *)
(* (main.go:89) writes an address that ParseIP reads.                      *)
(***************************************************************************)
EXTENDS Naturals, FiniteSets

CONSTANTS
  Pod,
  HostNetwork,      \* the pods that have their node's address
  Backend,          \* the pods behind a Service
  Node, Here,       \* nodes, and the one the agent runs on
  LocalName,        \* what the agent was told is its node, or None
  Cgroup,           \* cgroups of this node
  Address,          \* remote addresses
  None,
  Unresolved,       \* no entry in the cache
  PodOf,            \* the pod of a cgroup, None for a process of the host
  NodeOf,           \* the node of a pod
  Zone, ZoneOf,     \* the zone label of a node, None without one
  RegionOf,
  KindOf,           \* what an address is when no pod has it
  NodeHasPublicIP,
  Job,              \* the pods that may finish and stay listed
  Steady            \* bound: the pods that run throughout

ASSUME AttributionAssumption ==
  /\ None \notin Pod \cup Node \cup Zone \cup Address
  /\ Unresolved \notin Pod \cup {None}
  /\ HostNetwork \subseteq Pod /\ Backend \subseteq Pod
  /\ Job \subseteq Pod /\ Steady \subseteq Pod
  /\ Here \in Node /\ LocalName \in Node \cup {None}
  /\ NodeOf \in [Pod -> Node]
  /\ PodOf \in [Cgroup -> Pod \cup {None}]
  /\ \A c \in Cgroup : PodOf[c] # None => NodeOf[PodOf[c]] = Here
  /\ ZoneOf \in [Node -> Zone \cup {None}]
  /\ KindOf \in [Address -> {"loopback", "managed", "private", "public"}]
  /\ NodeHasPublicIP \in BOOLEAN

VARIABLES
  phase,      \* of each pod: new, running, done (a Job), gone
  addr,       \* the address in a pod's status
  endpoints,  \* the address a backend has in the EndpointSlices
  nodes,      \* the nodes of the cluster
  nodeIP,     \* the address of a node, None if no flow goes there; for good
  refresh,    \* the running Refresh
  snap,       \* the snapshot it replaces
  cache,      \* WorkloadResolver.cache
  scrape,     \* the flow the walk is at
  findings    \* Aggregate.byKey

cluster == <<phase, addr, endpoints, nodes, nodeIP>>
agent == <<refresh, snap, cache, scrape, findings>>
vars == <<cluster, agent>>

Class == {"SAME_NODE", "SAME_AZ", "CROSS_AZ", "CROSS_REGION", "MANAGED_SERVICE",
          "PRIVATE_OFFCLUSTER", "NAT_EGRESS", "INTERNET_EGRESS"}
Confidence == {"high", "med", "low"}

\* What the lookups know of the cluster.
Snapshot == [pods : SUBSET Pod,                      \* byPodUID, byContainerID
             byIP : [Address -> Pod \cup {None}],
             byEndpointIP : [Address -> Backend \cup {None}],
             nodes : SUBSET Node]                    \* byNodeName
Nowhere == [a \in Address |-> None]
Empty == [pods |-> {}, byIP |-> Nowhere, byEndpointIP |-> Nowhere, nodes |-> {}]

Finding == [cgroup : Cgroup, class : Class, remote : Address,     \* the key
            source : Pod \cup {None}, dest : Pod \cup {None}, confidence : Confidence]

Walk == [pc : {"idle", "ip", "endpoint", "workload", "zone", "add"},
         cgroup : Cgroup, remote : Address, source : Pod \cup {None},
         dest : Pod \cup {None}, endpoint : Backend \cup {None},
         zone : Zone \cup {None}]     \* of the source's node

TypeOK ==
  /\ phase \in [Pod -> {"new", "running", "done", "gone"}]
  /\ addr \in [Pod -> Address \cup {None}]
  /\ endpoints \in [Backend -> Address \cup {None}]
  /\ nodes \subseteq Node
  /\ nodeIP \in [Node -> Address \cup {None}]
  /\ refresh \in [pc : {"idle", "endpoints", "nodes"}, got : Snapshot]
  /\ snap \in Snapshot
  /\ cache \in [Cgroup -> Pod \cup {None, Unresolved}]
  /\ scrape \in Walk
  /\ findings \subseteq Finding

-------------------------------------------------------------------------------
(* The cluster.                                                             *)

Listed == {p \in Pod : phase[p] \in {"running", "done"}}

\* The address of a pod that is done is free although its status still shows it.
Holds(p, a) == phase[p] = "running" /\ addr[p] = a
Shows(p, a) == p \in Listed /\ addr[p] = a

\* The address a pod may get: its node's, or one that nobody has.
MayGet(p, a) ==
  IF p \in HostNetwork THEN a = nodeIP[NodeOf[p]]
  ELSE /\ a \in Address \ {nodeIP[n] : n \in Node}
       /\ \A q \in Pod : q # p => ~Holds(q, a)

PodStarts(p, a) ==
  /\ phase[p] = "new"
  /\ MayGet(p, a)
  /\ phase' = [phase EXCEPT ![p] = "running"]
  /\ addr' = [addr EXCEPT ![p] = a]
  /\ UNCHANGED <<endpoints, nodes, nodeIP, agent>>

PodFinishes(p) ==
  /\ p \in Job \ Steady /\ phase[p] = "running"
  /\ phase' = [phase EXCEPT ![p] = "done"]
  /\ UNCHANGED <<addr, endpoints, nodes, nodeIP, agent>>

PodIsDeleted(p) ==
  /\ p \in Listed \ Steady
  /\ phase' = [phase EXCEPT ![p] = "gone"]
  /\ UNCHANGED <<addr, endpoints, nodes, nodeIP, agent>>

\* The endpoint controller follows the pods.
SliceFor(p) == IF phase[p] = "running" THEN addr[p] ELSE None

SyncEndpoint(p) ==
  /\ endpoints[p] # SliceFor(p)
  /\ endpoints' = [endpoints EXCEPT ![p] = SliceFor(p)]
  /\ UNCHANGED <<phase, addr, nodes, nodeIP, agent>>

NodeLeaves(n) ==
  /\ n \in nodes \ {Here}
  /\ nodes' = nodes \ {n}
  /\ UNCHANGED <<phase, addr, endpoints, nodeIP, agent>>

-------------------------------------------------------------------------------
(* Refresh: pods, then services, endpoint slices and nodes, then the swap.  *)

PodList   == {e \in Pod \X Address : Shows(e[1], e[2])}
SliceList == {e \in Backend \X Address : endpoints[e[1]] = e[2]}

\* Of several entries for an address, the last in the list stays in the map.
LastOf(m, list) ==
  \A a \in Address : IF \E e \in list : e[2] = a
                     THEN <<m[a], a>> \in list ELSE m[a] = None

FetchPods ==
  /\ refresh.pc = "idle"
  /\ \E m \in [Address -> Pod \cup {None}] :
       /\ LastOf(m, PodList)
       /\ refresh' = [pc |-> "endpoints",
                      got |-> [Empty EXCEPT !.pods = Listed, !.byIP = m]]
  /\ UNCHANGED <<cluster, snap, cache, scrape, findings>>

FetchEndpoints ==
  /\ refresh.pc = "endpoints"
  /\ \E m \in [Address -> Backend \cup {None}] :
       /\ LastOf(m, SliceList)
       /\ refresh' = [pc |-> "nodes", got |-> [refresh.got EXCEPT !.byEndpointIP = m]]
  /\ UNCHANGED <<cluster, snap, cache, scrape, findings>>

Idle == [pc |-> "idle", got |-> Empty]

\* Mutant of FetchNodesAndSwap: the old addresses stay.
FetchNodesAndSwap_KeepsOld ==
  /\ refresh.pc = "nodes"
  /\ snap' = [refresh.got EXCEPT
       !.nodes = nodes,
       !.byIP = [a \in Address |-> IF @[a] = None THEN snap.byIP[a] ELSE @[a]]]
  /\ refresh' = Idle
  /\ UNCHANGED <<cluster, cache, scrape, findings>>

FetchNodesAndSwap ==
  /\ refresh.pc = "nodes"
  /\ snap' = [refresh.got EXCEPT !.nodes = nodes]
  /\ refresh' = Idle
  /\ UNCHANGED <<cluster, cache, scrape, findings>>

\* Any of the requests may fail; the old snapshot stays.
RefreshFails ==
  /\ refresh.pc # "idle"
  /\ refresh' = Idle
  /\ UNCHANGED <<cluster, snap, cache, scrape, findings>>

-------------------------------------------------------------------------------
(* The walk.  Each lookup takes the lock of the snapshot by itself.         *)

\* A flow of which nothing has been looked up but its source.
Flow(pc, c, a, p) == [pc |-> pc, cgroup |-> c, remote |-> a, source |-> p,
                      dest |-> None, endpoint |-> None, zone |-> None]

\* What findCgroupPath and the two lookups can give: the cgroup of a pod that no
\* longer runs may be removed, and its path, which names the pod, with it.
Identities(c) ==
  IF cache[c] # Unresolved THEN {cache[c]}
  ELSE IF PodOf[c] \notin snap.pods THEN {None}
  ELSE IF phase[PodOf[c]] = "running" THEN {PodOf[c]} ELSE {PodOf[c], None}

\* Mutant of ResolveSource: nothing is kept.
ResolveSource_Uncached(c, a) ==
  /\ scrape.pc = "idle"
  /\ PodOf[c] # None => phase[PodOf[c]] # "new"
  /\ \E id \in Identities(c) :
       scrape' = Flow("ip", c, a, id)
  /\ UNCHANGED <<cluster, refresh, snap, cache, findings>>

\* scrape: resolver.Resolve.  What it finds, or did not find, it keeps for ever.
ResolveSource(c, a) ==
  /\ scrape.pc = "idle"
  /\ PodOf[c] # None => phase[PodOf[c]] # "new"
  /\ \E id \in Identities(c) :
       /\ cache' = [cache EXCEPT ![c] = id]
       /\ scrape' = Flow("ip", c, a, id)
  /\ UNCHANGED <<cluster, refresh, snap, findings>>

ResolveIP ==
  /\ scrape.pc = "ip"
  /\ scrape' = [scrape EXCEPT !.pc = "endpoint", !.dest = snap.byIP[scrape.remote]]
  /\ UNCHANGED <<cluster, refresh, snap, cache, findings>>

ResolveEndpointIP ==
  /\ scrape.pc = "endpoint"
  /\ LET e == snap.byEndpointIP[scrape.remote]
     IN scrape' = [scrape EXCEPT
          !.endpoint = e,
          !.pc = IF scrape.dest = None /\ e # None THEN "workload" ELSE "zone"]
  /\ UNCHANGED <<cluster, refresh, snap, cache, findings>>

\* By UID, or else by address.
ResolveEndpointWorkload ==
  /\ scrape.pc = "workload"
  /\ scrape' = [scrape EXCEPT
       !.pc = "zone",
       !.dest = IF scrape.endpoint \in snap.pods THEN scrape.endpoint
                ELSE snap.byIP[scrape.remote]]
  /\ UNCHANGED <<cluster, refresh, snap, cache, findings>>

\* The pod behind the address: the workload found, or else the endpoint's.
Destination == IF scrape.dest # None THEN scrape.dest ELSE scrape.endpoint

SourceNode(p) == IF p = None THEN LocalName ELSE NodeOf[p]
DestNode(p)   == IF p = None THEN None ELSE NodeOf[p]

\* Zone: the label of a node, if the node is known.
ZoneIn(n, known) == IF n \in known THEN ZoneOf[n] ELSE None

\* zoneOf of the source's node, which has a lock of its own (made here also where
\* Classify gets by without zones).
ResolveSourceZone ==
  /\ scrape.pc = "zone"
  /\ scrape' = [scrape EXCEPT !.pc = "add",
                             !.zone = ZoneIn(SourceNode(scrape.source), snap.nodes)]
  /\ UNCHANGED <<cluster, refresh, snap, cache, findings>>

\* Classify, for an address outside the cluster ...
Outside(a) ==
  CASE KindOf[a] = "loopback"             -> <<"SAME_NODE", "high">>
    [] KindOf[a] = "managed"              -> <<"MANAGED_SERVICE", "high">>
    [] KindOf[a] = "private"              -> <<"PRIVATE_OFFCLUSTER", "high">>
    [] KindOf[a] = "public" /\ ~NodeHasPublicIP -> <<"NAT_EGRESS", "med">>
    [] KindOf[a] = "public" /\ NodeHasPublicIP  -> <<"INTERNET_EGRESS", "high">>

\* ... and for one on a node, given the zones of both nodes.
Inside(from, to, fromZone, toZone) ==
  IF from = to THEN <<"SAME_NODE", "high">>
  ELSE IF None \in {fromZone, toZone} THEN <<"SAME_AZ", "low">>
  ELSE IF fromZone = toZone THEN <<"SAME_AZ", "high">>
  ELSE IF RegionOf[fromZone] = RegionOf[toZone] THEN <<"CROSS_AZ", "high">>
  ELSE <<"CROSS_REGION", "high">>

Classify(a, source, dest, fromZone, toZone) ==
  IF dest = None \/ KindOf[a] = "loopback" THEN Outside(a)
  ELSE Inside(SourceNode(source), DestNode(dest), fromZone, toZone)

\* The class and confidence of the flow, when its zones are these.
PathWith(fromZone, toZone) ==
  Classify(scrape.remote, scrape.source, Destination, fromZone, toZone)

\* zoneOf of the destination's node comes last.
Path == PathWith(scrape.zone, ZoneIn(DestNode(Destination), snap.nodes))

\* Mutant of Add: the name is looked up once more.
Add_LooksAgain ==
  /\ scrape.pc = "add"
  /\ LET old == {f \in findings : /\ f.cgroup = scrape.cgroup
                                  /\ f.class = Path[1]
                                  /\ f.remote = scrape.remote}
     IN findings' = (findings \ old) \cup
          {[cgroup |-> scrape.cgroup, class |-> Path[1], remote |-> scrape.remote,
            source |-> scrape.source, dest |-> snap.byIP[scrape.remote],
            confidence |-> Path[2]]}
  /\ scrape' = Flow("idle", scrape.cgroup, scrape.remote, None)
  /\ UNCHANGED <<cluster, refresh, snap, cache>>

\* Aggregate.Add: a new finding, or the newest names on the old one.
Add ==
  /\ scrape.pc = "add"
  /\ LET old == {f \in findings : /\ f.cgroup = scrape.cgroup
                                  /\ f.class = Path[1]
                                  /\ f.remote = scrape.remote}
     IN findings' = (findings \ old) \cup
          {[cgroup |-> scrape.cgroup, class |-> Path[1], remote |-> scrape.remote,
            source |-> scrape.source, dest |-> Destination, confidence |-> Path[2]]}
  /\ scrape' = Flow("idle", scrape.cgroup, scrape.remote, None)
  /\ UNCHANGED <<cluster, refresh, snap, cache>>

-------------------------------------------------------------------------------
(* The agent starts with a Refresh, which may fail.  A cluster of some age: *)
(* any pods run, the slices are up to date.                                 *)

Init ==
  /\ phase \in [Pod -> {"new", "running"}] /\ \A p \in Steady : phase[p] = "running"
  /\ nodeIP \in [Node -> Address \cup {None}]
  /\ \A m, n \in Node : nodeIP[m] = nodeIP[n] => m = n \/ nodeIP[m] = None
  /\ addr \in [Pod -> Address \cup {None}]
  /\ \A p \in Pod : IF phase[p] = "new" THEN addr[p] = None ELSE MayGet(p, addr[p])
  /\ endpoints = [p \in Backend |-> SliceFor(p)]
  /\ nodes = Node
  /\ refresh = Idle
  /\ \/ snap = Empty
     \/ \E m \in [Address -> Pod \cup {None}], e \in [Address -> Backend \cup {None}] :
          /\ LastOf(m, PodList)
          /\ LastOf(e, SliceList)
          /\ snap = [pods |-> Listed, byIP |-> m, byEndpointIP |-> e, nodes |-> nodes]
  /\ cache = [c \in Cgroup |-> Unresolved]
  /\ \E c \in Cgroup, a \in Address :
       scrape = Flow("idle", c, a, None)
  /\ findings = {}

ClusterNext ==
  \/ \E p \in Pod, a \in Address \cup {None} : PodStarts(p, a)
  \/ \E p \in Pod : PodFinishes(p) \/ PodIsDeleted(p)
  \/ \E p \in Backend : SyncEndpoint(p)
  \/ \E n \in Node : NodeLeaves(n)

Next ==
  \/ ClusterNext
  \/ FetchPods \/ FetchEndpoints \/ FetchNodesAndSwap \/ RefreshFails
  \/ \E c \in Cgroup, a \in Address : ResolveSource(c, a)
  \/ ResolveIP \/ ResolveEndpointIP \/ ResolveEndpointWorkload
  \/ ResolveSourceZone \/ Add

Spec == Init /\ [][Next]_vars

\* The refresh loop and the walk go on; the API server answers again at some
\* time, and the endpoint controller catches up.
Fairness ==
  /\ WF_vars(FetchPods) /\ SF_vars(FetchEndpoints) /\ SF_vars(FetchNodesAndSwap)
  /\ \A p \in Backend : WF_vars(SyncEndpoint(p))
  /\ WF_vars(ResolveIP) /\ WF_vars(ResolveEndpointIP)
  /\ WF_vars(ResolveEndpointWorkload) /\ WF_vars(ResolveSourceZone) /\ WF_vars(Add)

FairSpec == Spec /\ Fairness

-------------------------------------------------------------------------------
(* Properties.                                                              *)

\* What zoneOf may say of a node: its label, or nothing where it has or had no node.
Zones(n) == {ZoneIn(n, known) : known \in SUBSET Node}

\* The class and the confidence of a finding, both from the day its price was
\* computed, are those of the destination it names now, or "unknown zone"; a
\* finding is relabelled whenever bytes are added (Aggregate.Add), and the
\* snapshot may be replaced between the lookups that give the name and those
\* that give the zones of its two nodes.
FindingsFit ==
  \A f \in findings :
    \E fromZone \in Zones(SourceNode(f.source)), toZone \in Zones(DestNode(f.dest)) :
      <<f.class, f.confidence>> = Classify(f.remote, f.source, f.dest, fromZone, toZone)

\* All findings of a cgroup have one source, whatever the watcher learned after the
\* first: they are summed by that name (recordCostMetrics, the control plane).
OneSourcePerCgroup ==
  \A f, g \in findings : f.cgroup = g.cgroup => f.source = g.source

Holder(a) == IF \E p \in Pod : Holds(p, a)
             THEN CHOOSE p \in Pod : Holds(p, a) ELSE None

\* Several pods show the address, or one that no longer has it: the host-network pods
\* of a node, and a finished Job and who got its address.  The last one that the API
\* server lists has the address in byIP (kubernetes.go:533-535, 561-563).
Contested(a) == \E p, q \in Pod : /\ Shows(p, a) /\ Shows(q, a)
                                 /\ (p # q \/ phase[p] = "done")

\* Once the cluster stops changing the walk names every destination right and
\* gives it the right class (with the nodes there are), although it may have been
\* wrong before: the snapshot is replaced as a whole, and a lookup keeps nothing.
\* Not so for a contested address, which may keep a wrong name for ever.
DestinationsSettle ==
  <>[](scrape.pc = "add" /\ ~Contested(scrape.remote) =>
         /\ Destination = Holder(scrape.remote)
         /\ Path = PathWith(ZoneIn(SourceNode(scrape.source), nodes),
                            ZoneIn(DestNode(Destination), nodes)))
================================================================================
