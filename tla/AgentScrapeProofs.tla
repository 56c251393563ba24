--------------------------- MODULE AgentScrapeProofs ---------------------------
(***************************************************************************)
(* What AgentScrape promises for every set of flows, every hash, every map *)
(* size and any amount of traffic, eviction and interruption.              *)
(***************************************************************************)
EXTENDS AgentScrape, FiniteSetTheorems, TLAPS

\* This walk may still read f.
Coming(f) == f \in ahead \/ (walk = "value" /\ f \in cursor)

\* What the next walk to read f will subtract: once this walk has read or passed
\* f it is what this walk saw, before that what the previous one saw.
Base(f) == IF walk # "off" /\ (cur[f] # Zero \/ ~Coming(f)) THEN cur[f] ELSE prev[f]

\* No byte of a counter s, of which b was seen, is billed twice: either it has
\* only grown since and what it grew by is still unbilled, or it is a new
\* counter and all of it is unbilled.  a is billed and t was sent.
Covered(b, s, a, t) ==
  \/ AtMost(b, s) /\ AtMost(Plus(a, Minus(s, b)), t)
  \/ AtMost(Plus(a, s), t)

Unbilled(f) == Covered(Base(f), stat[f], agg[f], sent[f])

\* An entry a program holds is in the map.
LiveTracked == \A c \in Context : \A p \in run[c] : p.entry = "live" => p.flow \in tracked

\* The inductive invariant.
IInv ==
  /\ TypeOK
  /\ ahead \subseteq tracked
  /\ \A f \in Flow : f \in tracked <=> stat[f] # Zero
  /\ LiveTracked
  /\ \A k, l \in cursor : k = l
  /\ walk = "off" => cur = None
  /\ ~disturbed /\ ~torn => \A f \in Flow : Unbilled(f)

-------------------------------------------------------------------------------

LEMMA StatType ==
  /\ Zero \in Stat /\ Egress \in Stat /\ Ingress \in Stat
  /\ Egress # Zero /\ Ingress # Zero
  /\ None \in [Flow -> Stat]
  /\ \A s, t \in Stat : Plus(s, t) \in Stat
  /\ \A s \in Stat : s = [tx |-> s.tx, rx |-> s.rx]
  BY DEF Zero, Egress, Ingress, None, Stat, Plus

LEMMA DeltaType ==
  ASSUME NEW p \in Stat, NEW c \in Stat
  PROVE  delta(p, c) \in Stat
  BY DEF delta, Stat, Minus

\* What the field of a counter is, and the counter with the packet added.
LEMMA AddedType ==
  ASSUME NEW packet \in {Egress, Ingress}, NEW s \in Stat
  PROVE  /\ Field(packet, s) \in Nat
         /\ \A n \in Nat : Added(packet, s, n) \in Stat /\ Added(packet, s, n) # Zero
<1>1. CASE packet = Egress
  BY <1>1 DEF Field, Added, Plus, Stat, Zero, Egress
<1>2. CASE packet = Ingress
  BY <1>2 DEF Field, Added, Plus, Stat, Zero, Egress, Ingress
<1> QED
  BY <1>1, <1>2

\* How what is covered changes: nothing covered is more than what was sent; a
\* counter grows with its traffic; a counter of which nothing was seen is
\* covered whatever is subtracted; an empty counter is covered.
LEMMA CoveredSent ==
  ASSUME NEW b \in Stat, NEW s \in Stat, NEW a \in Stat, NEW t \in Stat,
         Covered(b, s, a, t)
  PROVE  AtMost(a, t)
  BY DEF Covered, Stat, AtMost, Plus, Minus

LEMMA CoveredGrows ==
  ASSUME NEW b \in Stat, NEW s \in Stat, NEW a \in Stat, NEW t \in Stat,
         NEW packet \in Stat, NEW s2 \in Stat,
         Covered(b, s, a, t), AtMost(s, s2), AtMost(s2, Plus(s, packet))
  PROVE  Covered(b, s2, a, Plus(t, packet))
  BY DEF Covered, Stat, AtMost, Plus, Minus

LEMMA CoveredUnseen ==
  ASSUME NEW b \in Stat, NEW s \in Stat, NEW a \in Stat, NEW t \in Stat,
         Covered(Zero, s, a, t)
  PROVE  Covered(b, s, a, t)
  BY DEF Covered, Stat, AtMost, Plus, Minus, Zero

LEMMA CoveredEmpty ==
  ASSUME NEW b \in Stat, NEW a \in Stat, NEW t \in Stat, AtMost(a, t)
  PROVE  Covered(b, Zero, a, t)
  BY DEF Covered, Stat, AtMost, Plus, Minus, Zero

LEMMA SentGrows ==
  ASSUME NEW a \in Stat, NEW t \in Stat, NEW packet \in Stat, AtMost(a, t)
  PROVE  /\ AtMost(a, Plus(t, packet))
         /\ AtMost(Plus(a, packet), Plus(t, packet))
  BY DEF Stat, AtMost, Plus

LEMMA AtMostItself ==
  ASSUME NEW s \in Stat, NEW packet \in Stat
  PROVE  AtMost(s, s) /\ AtMost(s, Plus(s, packet))
  BY DEF Stat, AtMost, Plus

\* What delta bills was covered, and nothing of the counter is left unbilled.
LEMMA CoveredBilled ==
  ASSUME NEW p \in Stat, NEW c \in Stat, NEW a \in Stat, NEW s \in Stat,
         Covered(p, c, a, s)
  PROVE  Covered(c, c, Plus(a, delta(p, c)), s)
<1>1. AtMost(Plus(a, delta(p, c)), s)
  BY DEF Covered, delta, Stat, Minus, Plus, AtMost
<1>2. Plus(a, delta(p, c)) \in Stat
  BY DeltaType, StatType
<1> QED
  BY <1>1, <1>2 DEF Covered, Stat, AtMost, Plus, Minus

LEMMA InitIInv == Init => IInv
<1> SUFFICES ASSUME Init PROVE IInv
  OBVIOUS
<1>1. TypeOK
  <2>1. /\ sent \in [Flow -> Stat] /\ stat \in [Flow -> Stat] /\ prev \in [Flow -> Stat]
        /\ cur \in [Flow -> Stat] /\ agg \in [Flow -> Stat]
    BY StatType DEF Init, None
  <2>2. /\ tracked \in SUBSET Flow /\ ahead \in SUBSET Flow /\ cursor \in SUBSET Flow
        /\ count \in 0 .. Capacity + 1 /\ run \in [Context -> SUBSET Program]
        /\ walk \in {"off", "key", "value"} /\ bucketOf \in Hash
    BY ScrapeAssumption DEF Init
  <2>3. lossy \in BOOLEAN /\ torn \in BOOLEAN /\ disturbed \in BOOLEAN
    BY Zenon DEF Init
  <2> QED
    BY <2>1, <2>2, <2>3 DEF TypeOK
<1>2. \A f \in Flow : Unbilled(f)
  BY DEF Init, None, Unbilled, Covered, Base, AtMost, Plus, Minus, Zero
<1> QED
  BY <1>1, <1>2 DEF Init, IInv, None, LiveTracked

-------------------------------------------------------------------------------
(* The steps of the kernel                                                  *)

LEMMA RunType ==
  ASSUME TypeOK, NEW c \in Context, NEW p \in run[c]
  PROVE  /\ p \in Program /\ p.flow \in Flow /\ p.packet \in {Egress, Ingress}
         /\ p.packet \in Stat /\ p.packet # Zero /\ p.saw \in Nat
<1>1. p \in Program
  BY DEF TypeOK
<1>2. p.flow \in Flow /\ p.packet \in {Egress, Ingress} /\ p.saw \in Nat
  BY <1>1 DEF Program
<1> QED
  BY <1>1, <1>2, StatType

LEMMA DoneType ==
  ASSUME TypeOK, NEW c \in Context, NEW p \in run[c], NEW lost, Done(c, p, lost)
  PROVE  sent' \in [Flow -> Stat] /\ run' \in [Context -> SUBSET Program]
<1>1. sent' \in [Flow -> Stat]
  BY RunType, StatType DEF Done, TypeOK
<1>2. ASSUME NEW d \in Context, NEW q \in run[d]
      PROVE  [q EXCEPT !.entry = IF @ = "live" /\ q.flow \in lost
                                 THEN "gone" ELSE @] \in Program
  BY <1>2, RunType DEF Program
<1>3. \A d \in Context :
        {[q EXCEPT !.entry = IF @ = "live" /\ q.flow \in lost
                             THEN "gone" ELSE @] : q \in run[d]} \subseteq Program
  BY <1>2
<1> QED
  BY <1>1, <1>3 DEF Done

LEMMA DoneLive ==
  ASSUME TypeOK, LiveTracked, NEW c \in Context, NEW p \in run[c], NEW lost,
         Done(c, p, lost), tracked \ lost \subseteq tracked'
  PROVE  LiveTracked'
<1> SUFFICES ASSUME NEW d \in Context, NEW q \in run'[d], q.entry = "live"
             PROVE  q.flow \in tracked'
  BY DEF LiveTracked
<1>1. PICK r \in run[d] : q = [r EXCEPT !.entry = IF @ = "live" /\ r.flow \in lost
                                                 THEN "gone" ELSE @]
  BY DEF Done
<1>2. q.flow = r.flow /\ r.entry = "live" /\ r.flow \notin lost
  BY <1>1, RunType DEF Program
<1> QED
  BY <1>2 DEF LiveTracked

\* If this walk still comes to whatever it came to, what is subtracted for a
\* flow stays, or was nothing.
LEMMA BaseMoves ==
  ASSUME NEW g \in Flow, UNCHANGED <<prev, cur>>,
         walk' = "off" <=> walk = "off", Coming(g) => Coming(g)'
  PROVE  Base(g)' = Base(g) \/ Base(g) = Zero
  BY DEF Base

\* A program is through: every counter stays, is dropped, is new, or has grown
\* by no more than the packet.
LEMMA DoneUnbilled ==
  ASSUME IInv, NEW c \in Context, NEW p \in run[c], NEW lost \in SUBSET Flow,
         Done(c, p, lost), UNCHANGED <<prev, walk, cur, cursor, agg, disturbed>>,
         stat' \in [Flow -> Stat], ~disturbed', ~torn', ~torn,
         \A g \in ahead : g \notin lost => g \in ahead',
         \A g \in Flow :
           \/ stat'[g] = Zero
           \/ g = p.flow /\ stat'[g] = p.packet
           \/ g \notin lost /\ stat'[g] = stat[g]
           \/ /\ g = p.flow /\ g \notin lost /\ AtMost(stat[g], stat'[g])
              /\ AtMost(stat'[g], Plus(stat[g], p.packet)),
         NEW g \in Flow
  PROVE  Unbilled(g)'
<1>1. /\ stat[g] \in Stat /\ stat'[g] \in Stat /\ sent[g] \in Stat /\ agg[g] \in Stat
      /\ cur[g] \in Stat /\ prev[g] \in Stat /\ Base(g) \in Stat
  BY DEF IInv, TypeOK, Base
<1>2. p.packet \in Stat /\ p.flow \in Flow
  BY RunType DEF IInv
<1>3. Covered(Base(g), stat[g], agg[g], sent[g])
  BY DEF IInv, Unbilled
<1>4. Base(g)' \in Stat
  BY <1>1 DEF Base
<1>5. sent'[g] = IF g = p.flow THEN Plus(sent[g], p.packet) ELSE sent[g]
  BY <1>2 DEF Done, IInv, TypeOK
<1>6. AtMost(agg[g], sent[g]) /\ AtMost(agg[g], sent'[g])
  <2>1. AtMost(agg[g], sent[g])
    BY <1>1, <1>3, CoveredSent
  <2> QED
    BY <1>1, <1>2, <1>5, <2>1, SentGrows
<1>7. sent'[g] \in Stat
  BY <1>1, <1>2, <1>5, StatType
<1>8. CASE stat'[g] = Zero
  BY <1>1, <1>4, <1>6, <1>7, <1>8, CoveredEmpty DEF Unbilled
<1>9. CASE g = p.flow /\ stat'[g] = p.packet
  BY <1>1, <1>2, <1>5, <1>6, <1>9, SentGrows DEF Unbilled, Covered
<1>10. ASSUME g \notin lost,
              \/ stat'[g] = stat[g]
              \/ /\ g = p.flow /\ AtMost(stat[g], stat'[g])
                 /\ AtMost(stat'[g], Plus(stat[g], p.packet))
       PROVE Unbilled(g)'
  <2>1. Covered(Base(g), stat'[g], agg[g], sent'[g])
    <3>1. CASE g # p.flow
      BY <1>3, <1>5, <1>10, <3>1
    <3>2. CASE g = p.flow
      <4>1. AtMost(stat[g], stat'[g]) /\ AtMost(stat'[g], Plus(stat[g], p.packet))
        BY <1>1, <1>2, <1>10, AtMostItself
      <4>2. Covered(Base(g), stat'[g], agg[g], Plus(sent[g], p.packet))
        BY <1>1, <1>2, <1>3, <4>1, CoveredGrows
      <4> QED
        BY <1>5, <3>2, <4>2
    <3> QED
      BY <3>1, <3>2
  <2>2. Base(g)' = Base(g) \/ Base(g) = Zero
    BY <1>10, BaseMoves DEF Coming
  <2>3. Covered(Base(g)', stat'[g], agg[g], sent'[g])
    BY <1>1, <1>4, <1>7, <2>1, <2>2, CoveredUnseen
  <2> QED
    BY <2>3 DEF Unbilled
<1> QED
  BY <1>8, <1>9, <1>10

LEMMA LookUpIInv ==
  ASSUME IInv, NEW c \in Context, NEW f \in Flow, NEW packet \in {Egress, Ingress},
         LookUp(c, f, packet)
  PROVE  IInv'
<1>1. [flow |-> f, packet |-> packet, saw |-> Field(packet, stat[f]),
       entry |-> IF f \in tracked THEN "live" ELSE "none"] \in Program
  <2>1. Field(packet, stat[f]) \in Nat
    BY AddedType DEF IInv, TypeOK
  <2> QED
    BY <2>1 DEF Program
<1>2. run' \in [Context -> SUBSET Program]
  BY <1>1 DEF LookUp, IInv, TypeOK
<1>3. LiveTracked'
  <2> SUFFICES ASSUME NEW d \in Context, NEW q \in run'[d], q.entry = "live"
               PROVE  q.flow \in tracked
    BY DEF LiveTracked, LookUp
  <2>1. CASE d = c
    BY <2>1 DEF LookUp, IInv, TypeOK
  <2>2. CASE d # c
    BY <2>2 DEF LookUp, IInv, TypeOK, LiveTracked
  <2> QED
    BY <2>1, <2>2
<1> QED
  BY <1>2, <1>3 DEF LookUp, IInv, TypeOK, walkVars, Unbilled, Base, Coming

\* A store into the counter of an entry in the map.
LEMMA StoredIInv ==
  ASSUME IInv, NEW c \in Context, NEW p \in run[c], NEW lost \in SUBSET Flow,
         Done(c, p, lost), NEW g \in tracked \ lost, NEW s \in Stat, s # Zero,
         Stored(p, g, s, lost), tracked' = tracked \ lost, ahead' = ahead \ lost,
         UNCHANGED <<bucketOf, prev, walk, cur, cursor, count, agg, disturbed>>
  PROVE  IInv'
<1>1. g \in Flow /\ Zero \in Stat
  BY StatType DEF IInv, TypeOK
<1>2. TypeOK'
  <2>1. stat' \in [Flow -> Stat]
    BY <1>1 DEF IInv, TypeOK, Stored
  <2>2. lossy' \in BOOLEAN /\ torn' \in BOOLEAN
    BY Zenon DEF Stored, IInv, TypeOK
  <2> QED
    BY <2>1, <2>2, DoneType DEF IInv, TypeOK
<1>3. \A h \in Flow : stat'[h] = IF h = g THEN s ELSE IF h \in lost THEN Zero ELSE stat[h]
  BY DEF Stored
<1>4. ASSUME ~disturbed', ~torn', NEW h \in Flow PROVE Unbilled(h)'
  <2>1. ~torn /\ g = p.flow /\ AtMost(stat[g], s) /\ AtMost(s, Plus(stat[g], p.packet))
    BY <1>4 DEF Stored
  <2>2. stat' \in [Flow -> Stat]
    BY <1>2 DEF TypeOK
  <2> QED
    BY <1>3, <1>4, <2>1, <2>2, DoneUnbilled
<1>5. \A h \in Flow : h \in tracked' <=> stat'[h] # Zero
  BY <1>3 DEF IInv
<1>6. LiveTracked'
  BY DoneLive DEF IInv
<1> QED
  BY <1>2, <1>4, <1>5, <1>6 DEF IInv

LEMMA CountedIInv ==
  ASSUME IInv, NEW c \in Context, Counted(c)
  PROVE  IInv'
<1> PICK p \in run[c] :
      /\ p.entry = "live"
      /\ \E n \in p.saw .. Field(p.packet, stat[p.flow]) :
           Stored(p, p.flow, Added(p.packet, stat[p.flow], n), {})
      /\ Done(c, p, {})
      /\ UNCHANGED <<bucketOf, tracked, prev, walkVars, agg, disturbed>>
  BY DEF Counted
<1> PICK n \in p.saw .. Field(p.packet, stat[p.flow]) :
      Stored(p, p.flow, Added(p.packet, stat[p.flow], n), {})
  OBVIOUS
<1>1. p.saw \in Nat /\ stat[p.flow] \in Stat /\ p.packet \in {Egress, Ingress}
  BY RunType DEF IInv, TypeOK
<1>2. n \in Nat
  <2>1. Field(p.packet, stat[p.flow]) \in Nat
    BY <1>1, AddedType
  <2> QED
    BY <1>1, <2>1
<1>3. Added(p.packet, stat[p.flow], n) \in Stat /\ Added(p.packet, stat[p.flow], n) # Zero
  BY <1>1, <1>2, AddedType
<1>4. p.flow \in tracked
  BY DEF IInv, LiveTracked
<1> QED
  BY <1>3, <1>4, StoredIInv DEF walkVars

LEMMA MisplacedIInv ==
  ASSUME IInv, NEW c \in Context, Misplaced(c) PROVE IInv'
<1> PICK p \in run[c] :
      /\ p.entry = "gone"
      /\ \/ UNCHANGED <<stat, torn>> /\ lossy' = TRUE
         \/ \E g \in tracked :
              \E n \in 0 .. p.saw + Field(p.packet, stat[g]) :
                Stored(p, g, Added(p.packet, stat[g], n), {})
      /\ Done(c, p, {})
      /\ UNCHANGED <<bucketOf, tracked, prev, walkVars, agg, disturbed>>
  BY DEF Misplaced
<1>1. CASE UNCHANGED <<stat, torn>> /\ lossy' = TRUE
  <2>1. TypeOK'
    BY <1>1, DoneType DEF IInv, TypeOK, walkVars
  <2>2. ASSUME ~disturbed', ~torn', NEW g \in Flow PROVE Unbilled(g)'
    BY <1>1, <2>2, DoneUnbilled DEF walkVars, IInv, TypeOK
  <2>3. LiveTracked'
    BY DoneLive DEF IInv
  <2> QED
    BY <1>1, <2>1, <2>2, <2>3 DEF IInv, walkVars
<1>2. ASSUME NEW g \in tracked, NEW n \in 0 .. p.saw + Field(p.packet, stat[g]),
             Stored(p, g, Added(p.packet, stat[g], n), {})
      PROVE  IInv'
  <2>1. p.saw \in Nat /\ stat[g] \in Stat /\ p.packet \in {Egress, Ingress}
    BY RunType DEF IInv, TypeOK
  <2>2. n \in Nat
    BY <2>1, AddedType
  <2>3. Added(p.packet, stat[g], n) \in Stat /\ Added(p.packet, stat[g], n) # Zero
    BY <2>1, <2>2, AddedType
  <2> QED
    BY <1>2, <2>3, StoredIInv DEF walkVars
<1> QED
  BY <1>1, <1>2

LEMMA NowAheadType ==
  ASSUME NEW f \in Flow, NEW others \in SUBSET Flow
  PROVE  NowAhead(f, others) \subseteq others \cup {f}
  BY DEF NowAhead

LEMMA InsertedIInv ==
  ASSUME IInv, NEW c \in Context, NEW lost \in SUBSET Flow, Inserted(c, lost)
  PROVE  IInv'
<1> PICK p \in run[c] :
      /\ p.flow \notin tracked \ lost
      /\ tracked' = (tracked \ lost) \cup {p.flow}
      /\ stat' = [g \in Flow |-> IF g = p.flow THEN p.packet
                                 ELSE IF g \in lost THEN Zero ELSE stat[g]]
      /\ ahead' = (ahead \ lost) \cup NowAhead(p.flow, tracked \ lost)
      /\ lossy' = (lossy \/ lost # {})
      /\ Done(c, p, lost)
      /\ UNCHANGED <<bucketOf, torn, prev, walk, cur, cursor, count, agg, disturbed>>
  BY DEF Inserted
<1>1. p.flow \in Flow /\ p.packet \in Stat /\ p.packet # Zero /\ Zero \in Stat
  BY RunType, StatType DEF IInv
<1>2. ahead' \subseteq tracked'
  BY <1>1, NowAheadType DEF IInv, TypeOK
<1>3. TypeOK'
  <2>1. stat' \in [Flow -> Stat] /\ tracked' \in SUBSET Flow
    BY <1>1 DEF IInv, TypeOK
  <2>2. lossy' \in BOOLEAN
    BY Zenon DEF IInv, TypeOK
  <2> QED
    BY <1>2, <2>1, <2>2, DoneType DEF IInv, TypeOK
<1>4. ASSUME ~disturbed', ~torn', NEW g \in Flow PROVE Unbilled(g)'
  BY <1>3, <1>4, DoneUnbilled DEF TypeOK
<1>5. \A g \in Flow : g \in tracked' <=> stat'[g] # Zero
  BY <1>1 DEF IInv
<1>6. LiveTracked'
  BY DoneLive DEF IInv
<1> QED
  BY <1>2, <1>3, <1>4, <1>5, <1>6 DEF IInv

LEMMA OverwrittenIInv ==
  ASSUME IInv, NEW c \in Context, NEW lost \in SUBSET Flow, Overwritten(c, lost)
  PROVE  IInv'
<1> PICK p \in run[c] :
      /\ p.flow \in tracked \ lost
      /\ tracked' = tracked \ lost
      /\ \E kept \in [tx : 0 .. stat[p.flow].tx, rx : 0 .. stat[p.flow].rx] :
           Stored(p, p.flow, Plus(kept, p.packet), lost)
      /\ ahead' = ahead \ lost
      /\ Done(c, p, lost)
      /\ UNCHANGED <<bucketOf, prev, walk, cur, cursor, count, agg, disturbed>>
  BY DEF Overwritten
<1> PICK kept \in [tx : 0 .. stat[p.flow].tx, rx : 0 .. stat[p.flow].rx] :
      Stored(p, p.flow, Plus(kept, p.packet), lost)
  OBVIOUS
<1>1. stat[p.flow] \in Stat /\ p.packet \in {Egress, Ingress}
  BY RunType DEF IInv, TypeOK
<1>2. kept \in Stat
  BY <1>1 DEF Stat
<1>3. Plus(kept, p.packet) \in Stat /\ Plus(kept, p.packet) # Zero
  BY <1>1, <1>2 DEF Stat, Plus, Zero, Egress, Ingress
<1> QED
  BY <1>3, StoredIInv

LEMMA UncountedIInv == ASSUME IInv, NEW c \in Context, Uncounted(c) PROVE IInv'
<1> PICK p \in run[c] :
      /\ lossy' = TRUE
      /\ Done(c, p, {})
      /\ UNCHANGED <<bucketOf, tracked, stat, torn, prev, walkVars, agg, disturbed>>
  BY DEF Uncounted
<1>1. TypeOK'
  BY DoneType DEF IInv, TypeOK, walkVars
<1>2. ASSUME ~disturbed', ~torn', NEW g \in Flow PROVE Unbilled(g)'
  BY <1>2, DoneUnbilled DEF walkVars, IInv, TypeOK
<1>3. LiveTracked'
  BY DoneLive DEF IInv
<1> QED
  BY <1>1, <1>2, <1>3 DEF IInv, walkVars

-------------------------------------------------------------------------------
(* The steps of the walk                                                    *)

LEMMA ScrapeBeginIInv == ASSUME IInv, ScrapeBegin PROVE IInv'
<1>1. TypeOK'
  BY StatType, ScrapeAssumption DEF IInv, TypeOK, ScrapeBegin, kernelVars
<1>2. ASSUME ~disturbed', ~torn', NEW g \in Flow PROVE Unbilled(g)'
  <2>1. /\ Covered(prev[g], stat[g], agg[g], sent[g])
        /\ agg' = agg /\ stat' = stat /\ sent' = sent /\ prev' = prev
    BY <1>2 DEF IInv, ScrapeBegin, Base, Unbilled, kernelVars
  <2>2. CASE g \in tracked
    <3>1. Base(g)' = prev[g]
      BY <2>1, <2>2 DEF ScrapeBegin, Base, Coming, None
    <3> QED
      BY <2>1, <3>1 DEF Unbilled
  <2>3. CASE g \notin tracked
    <3>1. stat[g] = Zero /\ sent[g] \in Stat /\ agg[g] \in Stat /\ prev[g] \in Stat
      BY <2>3 DEF IInv, TypeOK
    <3>2. Base(g)' \in Stat
      BY <1>1 DEF TypeOK, Base
    <3>3. AtMost(agg[g], sent[g])
      BY <2>1, <3>1, StatType, CoveredSent
    <3> QED
      BY <2>1, <3>1, <3>2, <3>3, CoveredEmpty DEF Unbilled
  <2> QED
    BY <2>2, <2>3
<1>3. LiveTracked'
  BY DEF ScrapeBegin, kernelVars, IInv, LiveTracked
<1> QED
  BY <1>1, <1>2, <1>3 DEF IInv, ScrapeBegin, kernelVars

LEMMA ScrapeKeyIInv == ASSUME IInv, NEW f \in Flow, ScrapeKey(f) PROVE IInv'
<1>1. TypeOK'
  BY ScrapeAssumption DEF IInv, TypeOK, ScrapeKey, Following, kernelVars
<1>2. ASSUME ~disturbed', ~torn', NEW g \in Flow PROVE Unbilled(g)'
  <2>1. /\ Unbilled(g) /\ stat[g] \in Stat /\ sent[g] \in Stat /\ agg[g] \in Stat
        /\ Base(g)' \in Stat /\ Base(g) \in Stat
    BY <1>1, <1>2 DEF IInv, ScrapeKey, kernelVars, TypeOK, Base
  <2>2. Base(g)' = Base(g) \/ Base(g) = Zero
    BY BaseMoves DEF Coming, ScrapeKey, Following, IInv
  <2>3. Covered(Base(g)', stat[g], agg[g], sent[g])
    BY <2>1, <2>2, CoveredUnseen DEF Unbilled
  <2> QED
    BY <2>3 DEF Unbilled, ScrapeKey, kernelVars
<1>3. LiveTracked'
  BY DEF ScrapeKey, kernelVars, IInv, LiveTracked
<1> QED
  BY <1>1, <1>2, <1>3 DEF IInv, ScrapeKey, Following, kernelVars

LEMMA ScrapeValueIInv == ASSUME IInv, NEW f \in Flow, ScrapeValue(f) PROVE IInv'
<1>1. /\ prev[f] \in Stat /\ stat[f] \in Stat /\ agg[f] \in Stat /\ sent[f] \in Stat
      /\ delta(prev[f], stat[f]) \in Stat
  BY DeltaType DEF IInv, TypeOK
<1>2. TypeOK'
  <2>1. disturbed' \in BOOLEAN
    BY Zenon DEF ScrapeValue, IInv, TypeOK
  <2> QED
    BY <1>1, <2>1, StatType DEF IInv, TypeOK, ScrapeValue, kernelVars
<1>3. /\ agg'[f] = Plus(agg[f], delta(prev[f], stat[f])) /\ cur'[f] = stat[f]
      /\ \A g \in Flow : g # f => agg'[g] = agg[g] /\ cur'[g] = cur[g]
  BY DEF ScrapeValue, IInv, TypeOK
<1>4. ASSUME ~disturbed', ~torn', NEW g \in Flow PROVE Unbilled(g)'
  <2>1. /\ Unbilled(g) /\ cur[f] = Zero /\ walk = "value" /\ walk' = "key"
        /\ UNCHANGED <<stat, sent, prev, ahead, cursor>>
    BY <1>4 DEF IInv, ScrapeValue, kernelVars
  <2>2. CASE g # f
    <3>1. g \notin cursor
      BY <2>2 DEF ScrapeValue, IInv
    <3>2. Base(g)' = Base(g) /\ agg'[g] = agg[g]
      BY <1>3, <2>1, <2>2, <3>1 DEF Base, Coming
    <3> QED
      BY <2>1, <3>2 DEF Unbilled
  <2>3. CASE g = f
    <3>1. Base(f) = prev[f] /\ Base(f)' = stat[f]
      BY <1>3, <2>1 DEF ScrapeValue, Base, Coming, IInv
    <3> QED
      BY <1>1, <1>3, <2>1, <2>3, <3>1, CoveredBilled DEF Unbilled
  <2> QED
    BY <2>2, <2>3
<1>5. LiveTracked'
  BY DEF ScrapeValue, kernelVars, IInv, LiveTracked
<1> QED
  BY <1>2, <1>4, <1>5 DEF IInv, ScrapeValue, kernelVars

LEMMA ScrapeVanishedIInv == ASSUME IInv, ScrapeVanished PROVE IInv'
<1>1. TypeOK'
  BY DEF IInv, TypeOK, ScrapeVanished, kernelVars
<1>2. ASSUME ~disturbed', ~torn', NEW g \in Flow PROVE Unbilled(g)'
  <2>1. /\ Unbilled(g) /\ walk = "value" /\ walk' = "key"
        /\ UNCHANGED <<stat, sent, prev, cur, ahead, cursor, agg>>
    BY <1>2 DEF IInv, ScrapeVanished, kernelVars
  <2>2. CASE g \notin cursor
    <3>1. Base(g)' = Base(g)
      BY <2>1, <2>2 DEF Base, Coming
    <3> QED
      BY <2>1, <3>1 DEF Unbilled
  <2>3. CASE g \in cursor
    <3>1. stat[g] = Zero
      BY <2>3 DEF ScrapeVanished, IInv
    <3>2. /\ sent[g] \in Stat /\ agg[g] \in Stat /\ stat[g] \in Stat
          /\ Base(g) \in Stat /\ Base(g)' \in Stat
      BY <1>1 DEF IInv, TypeOK, Base
    <3>3. AtMost(agg[g], sent[g])
      BY <2>1, <3>2, CoveredSent DEF Unbilled
    <3>4. Covered(Base(g)', Zero, agg[g], sent[g])
      BY <3>2, <3>3, CoveredEmpty
    <3> QED
      BY <2>1, <3>1, <3>4 DEF Unbilled
  <2> QED
    BY <2>2, <2>3
<1>3. LiveTracked'
  BY DEF ScrapeVanished, kernelVars, IInv, LiveTracked
<1> QED
  BY <1>1, <1>2, <1>3 DEF IInv, ScrapeVanished, kernelVars

LEMMA WalkOverIInv ==
  ASSUME IInv, WalkOver, walk = "key", disturbed' \in BOOLEAN,
         ~disturbed' => ~disturbed /\ ahead = {}
  PROVE  IInv'
<1>1. TypeOK'
  <2>1. 0 \in 0 .. Capacity + 1 /\ None \in [Flow -> Stat]
    BY ScrapeAssumption, StatType
  <2> QED
    BY <2>1 DEF IInv, TypeOK, WalkOver, kernelVars
<1>2. ASSUME ~disturbed', ~torn', NEW g \in Flow PROVE Unbilled(g)'
  <2>1. Unbilled(g) /\ Base(g) = cur[g] /\ Base(g)' = cur[g]
    BY <1>2 DEF IInv, WalkOver, Base, Coming, kernelVars
  <2> QED
    BY <2>1 DEF Unbilled, WalkOver, kernelVars
<1>3. LiveTracked'
  BY DEF WalkOver, kernelVars, IInv, LiveTracked
<1> QED
  BY <1>1, <1>2, <1>3 DEF IInv, WalkOver, kernelVars

LEMMA NextIInv == ASSUME IInv, [Next]_vars PROVE IInv'
<1>1. CASE ScrapeEnd
  <2>1. ahead = {}
    BY <1>1 DEF ScrapeEnd, Following, IInv
  <2> QED
    BY <1>1, <2>1, WalkOverIInv DEF ScrapeEnd, IInv, TypeOK
<1>2. CASE ScrapeAbort
  BY <1>2, WalkOverIInv DEF ScrapeAbort
<1>3. CASE UNCHANGED vars
  BY <1>3 DEF vars, walkVars, kernelVars, IInv, TypeOK, LiveTracked, Unbilled, Base, Coming
<1>4. CASE Scrape
  BY <1>1, <1>2, <1>4, ScrapeBeginIInv, ScrapeKeyIInv, ScrapeValueIInv,
     ScrapeVanishedIInv DEF Scrape
<1> QED
  BY <1>3, <1>4, LookUpIInv, CountedIInv, MisplacedIInv, InsertedIInv,
     OverwrittenIInv, UncountedIInv DEF Next

-------------------------------------------------------------------------------
\* The inductive invariant holds: no byte of a counter is billed twice.
THEOREM SpecIInv == Spec => []IInv
<1>1. IInv /\ [Next]_vars => IInv'
  BY NextIInv
<1> QED
  BY <1>1, InitIInv, PTL DEF Spec

\* Every variable keeps to its type; no counter or bill is ever negative.
THEOREM TypeCorrect == Spec => []TypeOK
<1>1. IInv => TypeOK
  BY DEF IInv
<1> QED
  BY <1>1, SpecIInv, PTL

\* Whatever the kernel evicts, and whatever increments and entries it loses, the
\* agent does not bill bytes that were not sent, until a counter is overwritten
\* or a walk is given a key twice or is aborted.
THEOREM LossesOnlyLose == Spec => []NeverOvercounts
<1>1. IInv => NeverOvercounts
  <2> SUFFICES ASSUME IInv, ~disturbed, ~torn, NEW f \in Flow
               PROVE  AtMost(agg[f], sent[f])
    BY DEF NeverOvercounts
  <2>1. stat[f] \in Stat /\ sent[f] \in Stat /\ agg[f] \in Stat /\ Base(f) \in Stat
    BY DEF IInv, TypeOK, Base
  <2>2. Unbilled(f)
    BY DEF IInv
  <2> QED
    BY <2>1, <2>2, CoveredSent DEF Unbilled
<1> QED
  BY <1>1, SpecIInv, PTL

\* Billed bytes stay billed, in every step.
THEOREM BillsNeverShrink == Spec => NeverShrinks
<1> DEFINE A == \A f \in Flow : AtMost(agg[f], agg'[f])
<1>1. ASSUME IInv, [Next]_vars PROVE A
  <2>0. \A f \in Flow : agg[f] \in Stat
    BY <1>1 DEF IInv, TypeOK
  <2>1. CASE agg' = agg
    BY <2>0, <2>1 DEF AtMost, Stat
  <2>2. ASSUME NEW f \in Flow, ScrapeValue(f) PROVE A
    <3>1. delta(prev[f], stat[f]) \in Stat
      BY <1>1, DeltaType DEF IInv, TypeOK
    <3>2. agg'[f] = Plus(agg[f], delta(prev[f], stat[f]))
          /\ \A g \in Flow : g # f => agg'[g] = agg[g]
      BY <1>1, <2>2 DEF IInv, TypeOK, ScrapeValue
    <3> QED
      BY <2>0, <3>1, <3>2 DEF AtMost, Stat, Plus
  <2>3. ASSUME Next PROVE agg' = agg \/ \E f \in Flow : ScrapeValue(f)
    BY <2>3 DEF Next, LookUp, Counted, Misplaced, Inserted, Overwritten, Uncounted,
                Scrape, ScrapeBegin, ScrapeKey, ScrapeVanished, ScrapeEnd, ScrapeAbort,
                WalkOver
  <2> QED
    BY <1>1, <2>1, <2>2, <2>3 DEF vars
<1>2. IInv /\ [Next]_vars => [A]_vars
  BY <1>1
<1> QED
  BY <1>2, SpecIInv, PTL DEF Spec, NeverShrinks

-------------------------------------------------------------------------------
(* Exactness.  While the kernel loses nothing no walk starts over, since its *)
(* cursor stays in the map, and none is aborted, since it is given each key  *)
(* of the map once and the map is not over its limit.                        *)

Exact ==
  /\ IsFiniteSet(tracked) /\ Cardinality(tracked) <= Capacity
  /\ cursor \subseteq tracked /\ cursor \cap ahead = {}
  /\ count + Cardinality(ahead) <= Cardinality(tracked)
  /\ \A f \in Flow :
       /\ stat[f] = sent[f]
       /\ AtMost(prev[f], stat[f]) /\ AtMost(cur[f], stat[f])
       /\ Coming(f) => cur[f] = Zero
       /\ walk # "off" /\ ~Coming(f) /\ prev[f] # Zero => cur[f] # Zero
       /\ agg[f] = IF walk # "off" /\ cur[f] # Zero THEN cur[f] ELSE prev[f]

EInv == IInv /\ (~lossy => Exact)

LEMMA StatOrder ==
  ASSUME NEW s \in Stat, NEW t \in Stat, AtMost(s, t)
  PROVE  /\ delta(s, t) = Minus(t, s)
         /\ Plus(s, Minus(t, s)) = t
         /\ t = Zero => s = Zero
         /\ \A packet \in {Egress, Ingress} : AtMost(s, Plus(t, packet))
<1>1. /\ s.tx \in Nat /\ s.rx \in Nat /\ t.tx \in Nat /\ t.rx \in Nat
      /\ s.tx <= t.tx /\ s.rx <= t.rx
      /\ s = [tx |-> s.tx, rx |-> s.rx] /\ t = [tx |-> t.tx, rx |-> t.rx]
  BY DEF Stat, AtMost
<1>2. delta(s, t) = Minus(t, s)
  BY <1>1 DEF delta
<1>3. Plus(s, Minus(t, s)) = [tx |-> t.tx, rx |-> t.rx]
  BY <1>1 DEF Plus, Minus
<1>4. t = Zero => s = Zero
  BY <1>1 DEF Zero
<1>5. \A packet \in {Egress, Ingress} : AtMost(s, Plus(t, packet))
  BY <1>1 DEF AtMost, Plus, Egress, Ingress
<1> QED
  BY <1>1, <1>2, <1>3, <1>4, <1>5

LEMMA InitExact == Init => Exact
<1> SUFFICES ASSUME Init PROVE Exact
  OBVIOUS
<1>1. IsFiniteSet(tracked) /\ Cardinality(tracked) = 0 /\ Cardinality(ahead) = 0
  BY FS_EmptySet DEF Init
<1> QED
  BY <1>1, ScrapeAssumption DEF Init, Exact, None, Zero, AtMost, Coming

\* A counter and what was sent grow by the same packet.
LEMMA GrownExact ==
  ASSUME IInv, Exact, NEW p \in Program,
         UNCHANGED <<tracked, prev, walkVars, agg>>,
         \A g \in Flow : stat'[g] = IF g = p.flow THEN Plus(stat[g], p.packet) ELSE stat[g],
         \A g \in Flow : sent'[g] = IF g = p.flow THEN Plus(sent[g], p.packet) ELSE sent[g]
  PROVE  Exact'
<1>1. p.packet \in {Egress, Ingress}
  BY DEF Program
<1>2. ASSUME NEW g \in Flow
      PROVE stat'[g] = sent'[g] /\ AtMost(prev[g], stat'[g]) /\ AtMost(cur[g], stat'[g])
  <2>1. /\ prev[g] \in Stat /\ cur[g] \in Stat /\ stat[g] \in Stat /\ stat[g] = sent[g]
        /\ AtMost(prev[g], stat[g]) /\ AtMost(cur[g], stat[g])
    BY DEF IInv, TypeOK, Exact
  <2>2. CASE g = p.flow
    BY <1>1, <2>1, <2>2, StatOrder
  <2>3. CASE g # p.flow
    BY <2>1, <2>3
  <2> QED
    BY <2>2, <2>3
<1> QED
  BY <1>2 DEF Exact, Coming, walkVars

LEMMA StoredExact ==
  ASSUME IInv, Exact, NEW c \in Context, NEW p \in run[c], NEW lost \in SUBSET Flow,
         Done(c, p, lost), NEW g \in tracked, NEW s, Stored(p, g, s, lost), ~lossy',
         tracked' = tracked \ lost, ahead' = ahead \ lost,
         UNCHANGED <<prev, walk, cur, cursor, count, agg>>
  PROVE  Exact'
<1>1. lost = {} /\ g = p.flow /\ s = Plus(stat[g], p.packet)
  BY DEF Stored
<1>2. p \in Program /\ p.flow \in Flow
  BY RunType DEF IInv
<1>3. UNCHANGED <<tracked, prev, walkVars, agg>>
  BY <1>1 DEF walkVars
<1>4. /\ \A h \in Flow : stat'[h] = IF h = p.flow THEN Plus(stat[h], p.packet) ELSE stat[h]
      /\ \A h \in Flow : sent'[h] = IF h = p.flow THEN Plus(sent[h], p.packet) ELSE sent[h]
  BY <1>1, <1>2 DEF Stored, Done, IInv, TypeOK
<1> QED
  BY <1>2, <1>3, <1>4, GrownExact

LEMMA InsertedExact ==
  ASSUME IInv, Exact, ~lossy', NEW c \in Context, NEW lost \in SUBSET Flow,
         Inserted(c, lost)
  PROVE  Exact'
<1> PICK p \in run[c] :
      /\ Room(lost)
      /\ p.flow \notin tracked \ lost
      /\ tracked' = (tracked \ lost) \cup {p.flow}
      /\ stat' = [g \in Flow |-> IF g = p.flow THEN p.packet
                                 ELSE IF g \in lost THEN Zero ELSE stat[g]]
      /\ ahead' = (ahead \ lost) \cup NowAhead(p.flow, tracked \ lost)
      /\ lossy' = (lossy \/ lost # {})
      /\ Done(c, p, lost)
      /\ UNCHANGED <<bucketOf, torn, prev, walk, cur, cursor, count, agg, disturbed>>
  BY DEF Inserted
<1> DEFINE f == p.flow
<1>0. f \in Flow /\ p.packet \in {Egress, Ingress}
  BY RunType DEF IInv
<1> HIDE DEF f
<1>1. lost = {} /\ tracked' = tracked \cup {f} /\ f \notin tracked
  BY DEF f
<1>2. /\ IsFiniteSet(tracked') /\ Cardinality(tracked') = Cardinality(tracked) + 1
      /\ Cardinality(tracked') <= Capacity /\ Cardinality(tracked) \in Nat
  <2>1. Cardinality(tracked) < Capacity
    BY <1>1 DEF Room
  <2>2. IsFiniteSet(tracked) /\ Cardinality(tracked) \in Nat
    BY FS_CardinalityType DEF Exact
  <2>3. IsFiniteSet(tracked') /\ Cardinality(tracked') = Cardinality(tracked) + 1
    BY <1>1, <2>2, FS_AddElement
  <2> QED
    BY <2>1, <2>2, <2>3, ScrapeAssumption
<1>3. /\ f \notin cursor
      /\ ahead' = ahead \/ ahead' = ahead \cup {f}
      /\ f \notin ahead
      /\ walk = "off" => ahead' = ahead
  <2>1. f \notin cursor /\ f \notin ahead
    BY <1>1 DEF IInv, Exact
  <2>2. NowAhead(f, tracked) \subseteq {f} /\ (walk = "off" => NowAhead(f, tracked) = {})
    BY <2>1 DEF NowAhead
  <2>3. ahead' = ahead \cup NowAhead(f, tracked)
    BY <1>1 DEF f
  <2> QED
    BY <2>1, <2>2, <2>3
<1>4. Cardinality(ahead') <= Cardinality(ahead) + 1 /\ Cardinality(ahead') \in Nat
      /\ Cardinality(ahead) \in Nat
  <2>1. IsFiniteSet(ahead)
    BY FS_Subset DEF Exact, IInv
  <2>2. Cardinality(ahead) \in Nat
    BY <2>1, FS_CardinalityType
  <2>3. Cardinality(ahead \cup {f}) = Cardinality(ahead) + 1
    BY <1>3, <2>1, FS_AddElement
  <2>4. \/ Cardinality(ahead') = Cardinality(ahead)
        \/ Cardinality(ahead') = Cardinality(ahead \cup {f})
    BY <1>3, Zenon
  <2> QED
    BY <2>2, <2>3, <2>4
<1>5. count + Cardinality(ahead') <= Cardinality(tracked')
  BY <1>2, <1>4 DEF Exact, IInv, TypeOK
<1>6. /\ stat[f] = Zero /\ sent[f] = Zero /\ prev[f] = Zero /\ cur[f] = Zero
  <2>1. stat[f] = Zero /\ sent[f] = Zero
    BY <1>0, <1>1 DEF IInv, Exact
  <2>2. prev[f] \in Stat /\ cur[f] \in Stat /\ Zero \in Stat
        /\ AtMost(prev[f], Zero) /\ AtMost(cur[f], Zero)
    BY <1>0, <2>1, StatType DEF IInv, TypeOK, Exact
  <2> QED
    BY <2>1, <2>2, StatOrder
<1>7. stat'[f] = sent'[f] /\ AtMost(prev[f], stat'[f]) /\ AtMost(cur[f], stat'[f])
  <2>1. stat'[f] = p.packet /\ sent'[f] = Plus(Zero, p.packet)
    BY <1>0, <1>6 DEF f, Done, IInv, TypeOK
  <2> QED
    BY <1>0, <1>6, <2>1 DEF Plus, Zero, AtMost, Egress, Ingress
<1>8. \A g \in Flow : g # f => stat'[g] = stat[g] /\ sent'[g] = sent[g]
                               /\ (Coming(g)' <=> Coming(g))
  <2>1. \A g \in Flow : g # f => stat'[g] = stat[g] /\ sent'[g] = sent[g]
    BY <1>0, <1>1 DEF f, Done, IInv, TypeOK
  <2>2. \A g \in Flow : g # f => (Coming(g)' <=> Coming(g))
    BY <1>3 DEF Coming
  <2> QED
    BY <2>1, <2>2
<1>9. \A g \in Flow : /\ stat'[g] = sent'[g]
                      /\ AtMost(prev[g], stat'[g]) /\ AtMost(cur[g], stat'[g])
                      /\ Coming(g)' => cur[g] = Zero
                      /\ walk # "off" /\ ~Coming(g)' /\ prev[g] # Zero => cur[g] # Zero
  BY <1>6, <1>7, <1>8 DEF Exact
<1>10. cursor \subseteq tracked' /\ cursor \cap ahead' = {}
  BY <1>1, <1>3 DEF Exact
<1> QED
  BY <1>2, <1>5, <1>9, <1>10 DEF Exact

LEMMA ScrapeBeginExact == ASSUME IInv, Exact, ScrapeBegin PROVE Exact'
<1>1. /\ UNCHANGED <<tracked, stat, sent, prev, agg>> /\ walk = "off" /\ walk' = "key"
      /\ cur' = None /\ ahead' = tracked /\ cursor' = {} /\ count' = 0
  BY DEF ScrapeBegin, kernelVars
<1>2. Cardinality(tracked) \in Nat
  BY FS_CardinalityType DEF Exact
<1>3. ASSUME NEW f \in Flow
      PROVE  /\ AtMost(Zero, stat[f])
             /\ f \notin tracked => prev[f] = Zero
             /\ agg[f] = prev[f]
  <2>1. prev[f] \in Stat /\ stat[f] \in Stat /\ AtMost(prev[f], stat[f]) /\ agg[f] = prev[f]
    BY <1>1 DEF IInv, TypeOK, Exact
  <2>2. f \notin tracked => stat[f] = Zero
    BY DEF IInv
  <2> QED
    BY <2>1, <2>2, StatOrder DEF Zero, AtMost, Stat
<1> QED
  BY <1>1, <1>2, <1>3 DEF Exact, None, Coming

LEMMA ScrapeKeyExact == ASSUME IInv, Exact, NEW f \in Flow, ScrapeKey(f) PROVE Exact'
<1>1. /\ walk = "key" /\ walk' = "value" /\ f \in ahead /\ ahead' = ahead \ {f}
      /\ cursor' = {f} /\ count' = count + 1
      /\ UNCHANGED <<sent, tracked, stat, prev, cur, agg>>
  BY DEF ScrapeKey, Following, Exact, kernelVars
<1>2. /\ count' + Cardinality(ahead') <= Cardinality(tracked')
      /\ cursor' \subseteq tracked' /\ cursor' \cap ahead' = {}
  <2>1. IsFiniteSet(ahead)
    BY FS_Subset DEF Exact, IInv
  <2>2. Cardinality(ahead') = Cardinality(ahead) - 1 /\ Cardinality(ahead) \in Nat
    BY <1>1, <2>1, FS_RemoveElement, FS_CardinalityType
  <2>3. count \in Nat /\ Cardinality(tracked) \in Nat
    BY FS_CardinalityType DEF Exact, IInv, TypeOK
  <2> QED
    BY <1>1, <2>2, <2>3 DEF Exact, IInv
<1>3. \A g \in Flow : Coming(g)' <=> Coming(g)
  BY <1>1 DEF Coming
<1> QED
  BY <1>1, <1>2, <1>3 DEF Exact

LEMMA ScrapeValueExact == ASSUME IInv, Exact, NEW f \in Flow, ScrapeValue(f) PROVE Exact'
<1>1. /\ walk = "value" /\ walk' = "key" /\ f \in cursor
      /\ cur' = [cur EXCEPT ![f] = stat[f]]
      /\ agg' = [agg EXCEPT ![f] = Plus(@, delta(prev[f], stat[f]))]
      /\ UNCHANGED <<sent, tracked, stat, prev, ahead, cursor, count>>
  BY DEF ScrapeValue, kernelVars
<1>2. Coming(f) /\ ~Coming(f)' /\ cur[f] = Zero
  BY <1>1 DEF Coming, Exact
<1>3. prev[f] \in Stat /\ stat[f] \in Stat /\ AtMost(prev[f], stat[f]) /\ agg[f] = prev[f]
  BY <1>1, <1>2 DEF IInv, TypeOK, Exact
<1>4. agg'[f] = stat[f] /\ cur'[f] = stat[f] /\ (stat[f] = Zero => prev[f] = Zero)
  BY <1>1, <1>3, StatOrder DEF IInv, TypeOK
<1>5. AtMost(cur'[f], stat[f])
  BY <1>3, <1>4 DEF AtMost, Stat
<1>6. \A g \in Flow : g # f => agg'[g] = agg[g] /\ cur'[g] = cur[g]
                               /\ (Coming(g)' <=> Coming(g))
  <2>1. \A g \in Flow : g # f => g \notin cursor
    BY <1>1 DEF IInv
  <2> QED
    BY <1>1, <2>1 DEF IInv, TypeOK, Coming
<1>7. \A g \in Flow : /\ AtMost(cur'[g], stat[g])
                      /\ Coming(g)' => cur'[g] = Zero
                      /\ ~Coming(g)' /\ prev[g] # Zero => cur'[g] # Zero
                      /\ agg'[g] = IF cur'[g] # Zero THEN cur'[g] ELSE prev[g]
  BY <1>1, <1>2, <1>4, <1>5, <1>6 DEF Exact
<1> QED
  BY <1>1, <1>7 DEF Exact

\* The key whose value is asked for is still there.
LEMMA ScrapeVanishedExact == ASSUME IInv, Exact, ScrapeVanished PROVE Exact'
<1>1. cursor = {}
  BY DEF ScrapeVanished, Exact
<1> QED
  BY <1>1 DEF ScrapeVanished, kernelVars, Exact, Coming

LEMMA ScrapeEndExact == ASSUME IInv, Exact, ScrapeEnd PROVE Exact'
<1>1. /\ walk = "key" /\ ahead = {} /\ walk' = "off" /\ prev' = cur /\ cur' = None
      /\ ahead' = {} /\ cursor' = {} /\ count' = 0
      /\ UNCHANGED <<sent, tracked, stat, agg>>
  BY DEF ScrapeEnd, WalkOver, Following, Exact, kernelVars
<1>2. Cardinality(ahead') = 0 /\ Cardinality(tracked) \in Nat
  BY <1>1, FS_EmptySet, FS_CardinalityType DEF Exact
<1>3. ASSUME NEW f \in Flow PROVE agg[f] = cur[f] /\ AtMost(Zero, stat[f])
  <2>1. stat[f] \in Stat
    BY DEF IInv, TypeOK
  <2> QED
    BY <1>1, <2>1 DEF Exact, AtMost, Zero, Stat, Coming
<1> QED
  BY <1>1, <1>2, <1>3 DEF Exact, None, Coming

\* What is added up is exact while the kernel loses nothing.
THEOREM ExactWithoutLosses == Spec => []ExactUntilLossy
<1>1. Init => EInv
  BY InitIInv, InitExact DEF EInv
<1>2. EInv /\ [Next]_vars => EInv'
  <2> SUFFICES ASSUME EInv, [Next]_vars, ~lossy' PROVE Exact'
    BY NextIInv DEF EInv
  <2>1. lossy' = lossy => IInv /\ Exact
    BY DEF EInv
  <2>2. ASSUME NEW c \in Context, NEW f \in Flow, NEW packet \in {Egress, Ingress},
               LookUp(c, f, packet)
        PROVE  Exact'
    BY <2>1, <2>2 DEF LookUp, Exact, Coming, walkVars
  <2>3. ASSUME NEW c \in Context, Counted(c) PROVE Exact'
    <3> PICK p \in run[c] :
          /\ p.entry = "live"
          /\ \E n \in p.saw .. Field(p.packet, stat[p.flow]) :
               Stored(p, p.flow, Added(p.packet, stat[p.flow], n), {})
          /\ Done(c, p, {})
          /\ UNCHANGED <<bucketOf, tracked, prev, walkVars, agg, disturbed>>
      BY <2>3 DEF Counted
    <3>1. Exact /\ IInv
      BY DEF EInv, Stored
    <3>2. p.flow \in tracked
      BY <3>1 DEF IInv, LiveTracked
    <3> QED
      BY <3>1, <3>2, StoredExact DEF walkVars
  <2>4. ASSUME NEW c \in Context, Misplaced(c) PROVE Exact'
    <3> PICK p \in run[c] :
          /\ \/ UNCHANGED <<stat, torn>> /\ lossy' = TRUE
             \/ \E g \in tracked :
                  \E n \in 0 .. p.saw + Field(p.packet, stat[g]) :
                    Stored(p, g, Added(p.packet, stat[g], n), {})
          /\ Done(c, p, {})
          /\ UNCHANGED <<bucketOf, tracked, prev, walkVars, agg, disturbed>>
      BY <2>4 DEF Misplaced
    <3>1. Exact /\ IInv
      BY DEF EInv, Stored
    <3> QED
      BY <3>1, StoredExact DEF walkVars
  <2>5. ASSUME NEW c \in Context, NEW lost \in SUBSET Flow, Inserted(c, lost)
        PROVE  Exact'
    BY <2>5, InsertedExact DEF Inserted, EInv
  <2>6. ASSUME NEW c \in Context, NEW lost \in SUBSET Flow, Overwritten(c, lost)
        PROVE  Exact'
    <3> PICK p \in run[c] :
          /\ p.flow \in tracked \ lost
          /\ tracked' = tracked \ lost
          /\ \E kept \in [tx : 0 .. stat[p.flow].tx, rx : 0 .. stat[p.flow].rx] :
               Stored(p, p.flow, Plus(kept, p.packet), lost)
          /\ ahead' = ahead \ lost
          /\ Done(c, p, lost)
          /\ UNCHANGED <<bucketOf, prev, walk, cur, cursor, count, agg, disturbed>>
      BY <2>6 DEF Overwritten
    <3>1. Exact /\ IInv
      BY DEF EInv, Stored
    <3> QED
      BY <3>1, StoredExact
  <2>7. ASSUME NEW c \in Context, Uncounted(c) PROVE Exact'
    BY <2>7 DEF Uncounted
  <2>8. CASE ScrapeBegin
    BY <2>1, <2>8, ScrapeBeginExact DEF ScrapeBegin, kernelVars
  <2>9. ASSUME NEW f \in Flow, ScrapeKey(f) PROVE Exact'
    BY <2>1, <2>9, ScrapeKeyExact DEF ScrapeKey, kernelVars
  <2>10. ASSUME NEW f \in Flow, ScrapeValue(f) PROVE Exact'
    BY <2>1, <2>10, ScrapeValueExact DEF ScrapeValue, kernelVars
  <2>11. CASE ScrapeVanished
    BY <2>1, <2>11, ScrapeVanishedExact DEF ScrapeVanished, kernelVars
  <2>12. CASE ScrapeEnd
    BY <2>1, <2>12, ScrapeEndExact DEF ScrapeEnd, WalkOver, kernelVars
  <2>13. ~ScrapeAbort
    <3> SUFFICES ASSUME ScrapeAbort PROVE FALSE
      OBVIOUS
    <3>1. Exact /\ IInv /\ count > Capacity
      BY <2>1 DEF ScrapeAbort, WalkOver, kernelVars
    <3>2. IsFiniteSet(ahead)
      BY <3>1, FS_Subset DEF Exact, IInv
    <3>3. Cardinality(ahead) \in Nat /\ Cardinality(tracked) \in Nat /\ count \in Nat
      BY <3>1, <3>2, FS_CardinalityType DEF Exact, IInv, TypeOK
    <3> QED
      BY <3>1, <3>3, ScrapeAssumption DEF Exact
  <2>14. CASE UNCHANGED vars
    BY <2>1, <2>14 DEF vars, walkVars, kernelVars, Exact, Coming
  <2> QED
    BY <2>2, <2>3, <2>4, <2>5, <2>6, <2>7, <2>8, <2>9, <2>10, <2>11, <2>12, <2>13,
       <2>14 DEF Next, Scrape
<1>3. EInv => ExactUntilLossy
  BY DEF EInv, Exact, ExactUntilLossy
<1> QED
  BY <1>1, <1>2, <1>3, PTL DEF Spec
===============================================================================
