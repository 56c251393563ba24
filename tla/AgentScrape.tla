------------------------------ MODULE AgentScrape ------------------------------
(***************************************************************************)
(* From packets to billed bytes on one node.  The eBPF programs            *)
(* (bpf/flow_cgroup.c) count every packet in an LRU hash map of bounded    *)
(* size; every 15 s the agent (scrape in main.go) walks the live map and   *)
(* adds what each counter gained since the previous walk to a cumulative   *)
(* aggregate.  Packets keep arriving, and the kernel keeps evicting,       *)
(* between any two steps of a program and of a walk.                       *)
(*                                                                         *)
(* A program looks its flow up and then either adds to the counter it      *)
(* found, by a load and a store, or stores a new entry with BPF_ANY.  The  *)
(* counter is the CPU's own, but a program can be interrupted on its CPU   *)
(* by another one of the same flow, and the entry it found can be evicted  *)
(* and its element given to another flow at once.                          *)
(*                                                                         *)
(* The walk is cilium/ebpf's MapIterator: it asks the kernel for the key   *)
(* after the last one, then for that key's value.  The kernel goes through *)
(* the hash buckets in order and puts a new entry at the head of its       *)
(* bucket.  When the last key has been evicted the kernel starts over with *)
(* the first key; when it is back, at the head of its bucket, the whole    *)
(* bucket comes after it again.  After more than max_entries keys the      *)
(* iterator gives up with ErrIterationAborted, which scrape only logs.     *)
(*                                                                         *)
(* Abstractions.  The per-CPU counters of an entry are their sum, which is *)
(* read in one step, packet counts are left out, and a packet is one unit  *)
(* of bytes.  The order of the keys in a bucket is any order.  The         *)
(* aggregate is kept per flow key, not per (cgroup, path class, remote     *)
(* address).                                                               *)
(***************************************************************************)
EXTENDS Integers, FiniteSets

CONSTANTS
  Flow,      \* flow keys
  Context,   \* where programs run: the CPUs, in a task or in an interrupt
  Hash,      \* the functions from keys to hash buckets the seed may select
  Capacity,  \* max_entries
  MaxBytes   \* bound on what is sent on a flow, in both directions

ASSUME ScrapeAssumption ==
  /\ Hash \subseteq [Flow -> Nat]
  /\ Capacity \in Nat \ {0}
  /\ MaxBytes \in Nat

VARIABLES
  bucketOf,  \* the bucket of a key: the hash is seeded when the map is made
  sent,      \* what crossed the wire (history)
  run,       \* run[c]: the program running in c, {} if none is
  tracked,   \* the keys in the map
  stat,      \* their counters, Zero for a key not in the map
  prev,      \* the counters the previous walk saw
  walk,      \* is the walk off, or to ask for a key or for its value next?
  cur,       \* the counters this walk has seen
  ahead,     \* the keys that come after the last key it was given
  cursor,    \* the last key it was given, if any
  count,     \* how many keys it has been given
  agg,       \* Aggregate: the bytes added up per flow
  lossy,     \* has the kernel lost or misplaced counts so far? (history)
  torn,      \* has a counter not just grown by packets of its own? (history)
  disturbed  \* has a walk read a key twice or been aborted? (history)

walkVars == <<walk, cur, ahead, cursor, count>>
kernelVars == <<bucketOf, sent, run, tracked, stat, lossy, torn>>
vars == <<kernelVars, prev, walkVars, agg, disturbed>>

Stat == [tx : Nat, rx : Nat]
Zero == [tx |-> 0, rx |-> 0]
None == [f \in Flow |-> Zero]

Egress  == [tx |-> 1, rx |-> 0]
Ingress == [tx |-> 0, rx |-> 1]

\* bytes_tx or bytes_rx, the one a program adds to.
Field(packet, s) == IF packet = Egress THEN s.tx ELSE s.rx

\* A program in the middle: its lookup found no entry, or one that is live or
\* gone by now, and what its field of that entry was.
Program == [flow : Flow, packet : {Egress, Ingress},
            entry : {"none", "live", "gone"}, saw : Nat]

TypeOK ==
  /\ bucketOf \in Hash
  /\ sent \in [Flow -> Stat]
  /\ run \in [Context -> SUBSET Program]
  /\ tracked \in SUBSET Flow
  /\ stat \in [Flow -> Stat]
  /\ prev \in [Flow -> Stat]
  /\ walk \in {"off", "key", "value"}
  /\ cur \in [Flow -> Stat]
  /\ ahead \in SUBSET Flow
  /\ cursor \in SUBSET Flow
  /\ count \in 0 .. Capacity + 1
  /\ agg \in [Flow -> Stat]
  /\ lossy \in BOOLEAN
  /\ torn \in BOOLEAN
  /\ disturbed \in BOOLEAN

Init ==
  /\ bucketOf \in Hash
  /\ sent = None /\ stat = None /\ prev = None /\ cur = None /\ agg = None
  /\ run = [c \in Context |-> {}]
  /\ tracked = {} /\ ahead = {} /\ cursor = {}
  /\ walk = "off" /\ count = 0
  /\ lossy = FALSE /\ torn = FALSE /\ disturbed = FALSE

Plus(s, t)  == [tx |-> s.tx + t.tx, rx |-> s.rx + t.rx]
Minus(s, t) == [tx |-> s.tx - t.tx, rx |-> s.rx - t.rx]
AtMost(s, t) == s.tx <= t.tx /\ s.rx <= t.rx

-------------------------------------------------------------------------------
(* kharcha_egress, kharcha_ingress                                          *)

\* The programs that are counting a packet of f.
InFlight(f) == {c \in Context : \E p \in run[c] : p.flow = f}

\* bpf_map_lookup_elem.
LookUp(c, f, packet) ==
  /\ run[c] = {}
  /\ sent[f].tx + sent[f].rx + Cardinality(InFlight(f)) < MaxBytes
  /\ run' = [run EXCEPT ![c] =
               {[flow |-> f, packet |-> packet, saw |-> Field(packet, stat[f]),
                 entry |-> IF f \in tracked THEN "live" ELSE "none"]}]
  /\ UNCHANGED <<bucketOf, sent, tracked, stat, lossy, torn, prev, walkVars, agg,
                 disturbed>>

\* The program is through with its packet.  The kernel evicted some entries on
\* the way: what other programs found in them is gone.
Done(c, p, lost) ==
  /\ sent' = [sent EXCEPT ![p.flow] = Plus(@, p.packet)]
  /\ run' = [d \in Context |->
               IF d = c THEN {}
               ELSE {[q EXCEPT !.entry = IF @ = "live" /\ q.flow \in lost
                                         THEN "gone" ELSE @] : q \in run[d]}]

\* The counter of g becomes s, on account of program p; lost entries are gone.
Stored(p, g, s, lost) ==
  /\ stat' = [h \in Flow |-> IF h = g THEN s
                             ELSE IF h \in lost THEN Zero ELSE stat[h]]
  /\ lossy' = (lossy \/ g # p.flow \/ s # Plus(stat[g], p.packet) \/ lost # {})
  /\ torn' = (torn \/ g # p.flow \/ ~AtMost(stat[g], s)
                   \/ ~AtMost(s, Plus(stat[g], p.packet)))

\* The counter s with n bytes in the field of packet, and the packet added.
Added(packet, s, n) == Plus(packet, IF packet = Egress THEN [s EXCEPT !.tx = n]
                                                       ELSE [s EXCEPT !.rx = n])

\* bytes_tx += len or bytes_rx += len, in the entry found.  What interrupts
\* between the load and the store added to that field is lost.
Counted(c) ==
  \E p \in run[c] :
    /\ p.entry = "live"
    /\ \E n \in p.saw .. Field(p.packet, stat[p.flow]) :
         Stored(p, p.flow, Added(p.packet, stat[p.flow], n), {})
    /\ Done(c, p, {})
    /\ UNCHANGED <<bucketOf, tracked, prev, walkVars, agg, disturbed>>

\* The same, when the entry was evicted meanwhile: the store is lost in a free
\* element or hits whatever entry has taken it, of the same flow or another.
\* The CPU's own share of that counter becomes what it loaded, plus the packet.
Misplaced(c) ==
  \E p \in run[c] :
    /\ p.entry = "gone"
    /\ \/ UNCHANGED <<stat, torn>> /\ lossy' = TRUE
       \/ \E g \in tracked :
            \E n \in 0 .. p.saw + Field(p.packet, stat[g]) :
              Stored(p, g, Added(p.packet, stat[g], n), {})
    /\ Done(c, p, {})
    /\ UNCHANGED <<bucketOf, tracked, prev, walkVars, agg, disturbed>>

\* bpf_map_update_elem first takes a free element.  The kernel evicts entries to
\* have one, several at a time and also a little before the map is full (each
\* CPU keeps a reserve of free ones).
Room(lost) == lost \subseteq tracked /\ Cardinality(tracked \ lost) < Capacity

\* The keys that come to lie after the walk's last key when f is put at the
\* head of its bucket: f in a later bucket, or the rest of the bucket if f is
\* that key.
NowAhead(f, others) ==
  {g \in others \cup {f} :
     /\ walk # "off"
     /\ IF g = f THEN \A k \in cursor : bucketOf[k] < bucketOf[f]
                 ELSE f \in cursor /\ bucketOf[g] = bucketOf[f]}

\* The entry is created, at the head of its bucket.
Inserted(c, lost) ==
  \E p \in run[c] :
    /\ p.entry = "none"
    /\ Room(lost)
    /\ p.flow \notin tracked \ lost
    /\ tracked' = (tracked \ lost) \cup {p.flow}
    /\ stat' = [g \in Flow |-> IF g = p.flow THEN p.packet
                               ELSE IF g \in lost THEN Zero ELSE stat[g]]
    /\ ahead' = (ahead \ lost) \cup NowAhead(p.flow, tracked \ lost)
    /\ lossy' = (lossy \/ lost # {})
    /\ Done(c, p, lost)
    /\ UNCHANGED <<bucketOf, torn, prev, walk, cur, cursor, count, agg, disturbed>>

\* Another program created the entry since the lookup: BPF_ANY replaces this
\* CPU's share of it, which is there if that program ran on this CPU.
Overwritten(c, lost) ==
  \E p \in run[c] :
    /\ p.entry = "none"
    /\ Room(lost)
    /\ p.flow \in tracked \ lost
    /\ tracked' = tracked \ lost
    /\ \E kept \in [tx : 0 .. stat[p.flow].tx, rx : 0 .. stat[p.flow].rx] :
         Stored(p, p.flow, Plus(kept, p.packet), lost)
    /\ ahead' = ahead \ lost
    /\ Done(c, p, lost)
    /\ UNCHANGED <<bucketOf, prev, walk, cur, cursor, count, agg, disturbed>>

\* No element to be had (-ENOMEM): the error is ignored, the packet passes.
Uncounted(c) ==
  \E p \in run[c] :
    /\ p.entry = "none"
    /\ lossy' = TRUE
    /\ Done(c, p, {})
    /\ UNCHANGED <<bucketOf, tracked, stat, torn, prev, walkVars, agg, disturbed>>

-------------------------------------------------------------------------------
(* scrape                                                                   *)

ScrapeBegin ==
  /\ walk = "off"
  /\ walk' = "key"
  /\ cur' = None
  /\ ahead' = tracked
  /\ cursor' = {}
  /\ count' = 0
  /\ UNCHANGED <<kernelVars, prev, agg, disturbed>>

\* What the kernel goes through from here: all of it if the last key is gone.
Following == IF cursor \subseteq tracked THEN ahead ELSE tracked

\* Next: NextKey, bucket by bucket.
ScrapeKey(f) ==
  /\ walk = "key"
  /\ count <= Capacity
  /\ f \in Following
  /\ \A g \in Following : bucketOf[f] <= bucketOf[g]
  /\ walk' = "value"
  /\ ahead' = Following \ {f}
  /\ cursor' = {f}
  /\ count' = count + 1
  /\ UNCHANGED <<kernelVars, prev, cur, agg, disturbed>>

\* Mutant of delta: only the transmitted bytes are checked.
delta_TxOnly(p, c) == IF c.tx < p.tx THEN c ELSE Minus(c, p)

\* A counter that became smaller is taken for a new entry.
delta(p, c) == IF c.tx < p.tx \/ c.rx < p.rx THEN c ELSE Minus(c, p)

\* Mutant of ScrapeValue: || for && where quiet flows are skipped.
ScrapeValue_OneWay(f) ==
  /\ walk = "value"
  /\ f \in cursor \cap tracked
  /\ walk' = "key"
  /\ cur' = [cur EXCEPT ![f] = stat[f]]
  /\ LET d == delta(prev[f], stat[f]) IN
       agg' = [agg EXCEPT ![f] = IF d.tx = 0 \/ d.rx = 0 THEN @ ELSE Plus(@, d)]
  /\ disturbed' = (disturbed \/ cur[f] # Zero)
  /\ UNCHANGED <<kernelVars, prev, ahead, cursor, count>>

\* Mutant of ScrapeValue: quiet flows are skipped before they are remembered.
ScrapeValue_ForgetsQuiet(f) ==
  /\ walk = "value"
  /\ f \in cursor \cap tracked
  /\ walk' = "key"
  /\ cur' = IF delta(prev[f], stat[f]) = Zero THEN cur
            ELSE [cur EXCEPT ![f] = stat[f]]
  /\ agg' = [agg EXCEPT ![f] = Plus(@, delta(prev[f], stat[f]))]
  /\ disturbed' = (disturbed \/ cur[f] # Zero)
  /\ UNCHANGED <<kernelVars, prev, ahead, cursor, count>>

\* Next: Lookup of the key, and agg.Add of the difference from the last walk.
ScrapeValue(f) ==
  /\ walk = "value"
  /\ f \in cursor \cap tracked
  /\ walk' = "key"
  /\ cur' = [cur EXCEPT ![f] = stat[f]]
  /\ agg' = [agg EXCEPT ![f] = Plus(@, delta(prev[f], stat[f]))]
  /\ disturbed' = (disturbed \/ cur[f] # Zero)
  /\ UNCHANGED <<kernelVars, prev, ahead, cursor, count>>

\* Next: the key was evicted before its lookup; the iterator asks for another.
ScrapeVanished ==
  /\ walk = "value"
  /\ cursor \cap tracked = {}
  /\ walk' = "key"
  /\ UNCHANGED <<kernelVars, prev, cur, ahead, cursor, count, agg, disturbed>>

\* Mutant of WalkOver: what the walk saw is not kept.
WalkOver_KeepsPrev ==
  /\ walk' = "off"
  /\ prev' = prev
  /\ cur' = None
  /\ ahead' = {} /\ cursor' = {}
  /\ count' = 0
  /\ UNCHANGED <<kernelVars, agg>>

\* The walk is over; what it saw is what the next one subtracts.
WalkOver ==
  /\ walk' = "off"
  /\ prev' = cur
  /\ cur' = None
  /\ ahead' = {} /\ cursor' = {}
  /\ count' = 0
  /\ UNCHANGED <<kernelVars, agg>>

\* Next: no key after the last one.
ScrapeEnd ==
  /\ walk = "key"
  /\ count <= Capacity
  /\ Following = {}
  /\ WalkOver
  /\ UNCHANGED disturbed

\* ErrIterationAborted is logged, and the walk counts as one all the same.
ScrapeAbort ==
  /\ walk = "key"
  /\ count > Capacity
  /\ WalkOver
  /\ disturbed' = TRUE

Scrape ==
  \/ ScrapeBegin
  \/ \E f \in Flow : ScrapeKey(f) \/ ScrapeValue(f)
  \/ ScrapeVanished
  \/ ScrapeEnd
  \/ ScrapeAbort

Next ==
  \/ \E c \in Context :
       \/ \E f \in Flow, packet \in {Egress, Ingress} : LookUp(c, f, packet)
       \/ Counted(c)
       \/ Misplaced(c)
       \/ \E lost \in SUBSET Flow : Inserted(c, lost) \/ Overwritten(c, lost)
       \/ Uncounted(c)
  \/ Scrape

Spec == Init /\ [][Next]_vars

\* The 15 s ticker never stops, and a walk that has begun goes on.
Fairness == WF_vars(Scrape)

FairSpec == Spec /\ Fairness

-------------------------------------------------------------------------------
(* Safety                                                                   *)

\* While no count has been lost or misplaced by the kernel (an eviction, two
\* programs of one flow that get in each other's way, a failed update) the
\* aggregate is exact: it is what the latest walk to see a flow read of its
\* counter, and the counter is what was sent.  Packets that arrive in the
\* middle of a walk are counted in it or the next.
ExactUntilLossy ==
  ~lossy => \A f \in Flow :
    /\ stat[f] = sent[f]
    /\ agg[f] = IF walk # "off" /\ cur[f] # Zero THEN cur[f] ELSE prev[f]

\* Evictions between and during walks, lost increments and failed updates lose
\* bytes but bill none that were not sent, as long as no walk has been given a
\* key a second time or aborted and no counter was overwritten.  That excepts
\* the walks that start over after an eviction, and the ones whose last key was
\* evicted and came back at the head of its bucket: BilledWasSent shows that
\* they do bill twice.
NeverOvercounts ==
  ~disturbed /\ ~torn => \A f \in Flow : AtMost(agg[f], sent[f])

\* The aggregate never shrinks: what was billed stays billed, whatever counters
\* the kernel resets, overwrites or misplaces under it.
NeverShrinks == [][\A f \in Flow : AtMost(agg[f], agg'[f])]_vars

-------------------------------------------------------------------------------
(* Liveness                                                                 *)

\* While the kernel loses nothing every byte is billed in the end, in both
\* directions.
EverythingIsBilled ==
  \A f \in Flow, n \in 1 .. MaxBytes, packet \in {Egress, Ingress} :
    (Field(packet, sent[f]) >= n) ~> (Field(packet, agg[f]) >= n \/ lossy)

-------------------------------------------------------------------------------
(* Claims of the comments that the code does not keep                       *)

\* main.go:95: "delta calculates traffic generated since the previous scrape":
\* adding it up never exceeds what was generated, if the counters are right.
\* After an aborted walk the keys it did not reach are counted from zero again,
\* and a walk that is given a key twice adds its difference twice.
BilledWasSent == ~torn => \A f \in Flow : AtMost(agg[f], sent[f])
===============================================================================
