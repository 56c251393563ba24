------------------------------ MODULE ServerProofs ------------------------------
(***************************************************************************)
(* Proofs of what three parts of the server promise: the anomaly watch,    *)
(* the placement search and the chat assistant.  They share no state; they *)
(* share this module for the sums over finite sets, and prefixes keep      *)
(* their names apart (Search..., Chat...).                                 *)
(***************************************************************************)
EXTENDS AnomalyWatch, Placement, Assistant,
        FiniteSetTheorems, WellFoundedInduction, TLAPS

-------------------------------------------------------------------------------
(* Sums over finite sets.  What MapThenSumSet adds up is the same in any    *)
(* order; shown by the least set that would be a counterexample.           *)

Pick(s) == CHOOSE x \in s : TRUE

\* g[s] is the sum of c over s, for each s in S
IsSum(c, S, g) ==
  g = [s \in SUBSET S |-> IF s = {} THEN 0 ELSE c[Pick(s)] + g[s \ {Pick(s)}]]

SumOf(c, S) == (CHOOSE g : IsSum(c, S, g))[S]

\* Facts about the two.
LEMMA PickIn == \A s : s # {} => Pick(s) \in s
  BY DEF Pick

\* If a set of finite sets has a member, it has a least one.
LEMMA LeastSet ==
  ASSUME NEW S, IsFiniteSet(S), NEW Bad, Bad \subseteq SUBSET S, Bad # {}
  PROVE  \E s \in Bad : \A t \in SUBSET s : t \in Bad => t = s
<1>1. Bad \subseteq FiniteSubsetsOf(S)
  BY FS_Subset DEF FiniteSubsetsOf
<1>2. PICK s \in Bad : \A t \in Bad : <<t, s>> \notin StrictSubsetOrdering(S)
  <2> HIDE DEF FiniteSubsetsOf, StrictSubsetOrdering
  <2> QED
    BY <1>1, FS_StrictSubsetOrderingWellFounded, WFMin
<1>3. \A t \in Bad : t \subseteq s => t = s
  BY <1>2 DEF StrictSubsetOrdering
<1> QED
  BY <1>3

\* All such functions agree where both are defined.
LEMMA SumUnique ==
  ASSUME NEW c, NEW S, NEW T, NEW g, NEW h, IsFiniteSet(S), IsSum(c, S, g), IsSum(c, T, h),
         NEW s \in SUBSET (S \cap T)
  PROVE  g[s] = h[s]
<1> DEFINE Bad == {t \in SUBSET (S \cap T) : g[t] # h[t]}
<1> SUFFICES ASSUME Bad # {} PROVE FALSE
  OBVIOUS
<1>1. PICK t \in Bad : \A u \in SUBSET t : u \in Bad => u = t
  <2>1. IsFiniteSet(S \cap T) /\ Bad \subseteq SUBSET (S \cap T)
    BY FS_Subset
  <2> HIDE DEF Bad
  <2> QED
    BY <2>1, LeastSet
<1>2. \A u \in SUBSET S : g[u] = IF u = {} THEN 0 ELSE c[Pick(u)] + g[u \ {Pick(u)}]
  BY DEF IsSum
<1>3. \A u \in SUBSET T : h[u] = IF u = {} THEN 0 ELSE c[Pick(u)] + h[u \ {Pick(u)}]
  BY DEF IsSum
<1>4. t # {}
  BY <1>2, <1>3
<1>5. g[t \ {Pick(t)}] = h[t \ {Pick(t)}]
  BY <1>1, <1>4, PickIn
<1> QED
  BY <1>2, <1>3, <1>4, <1>5

\* There is such a function.
LEMMA SumExists ==
  ASSUME NEW c, NEW S, IsFiniteSet(S)
  PROVE  \E g : IsSum(c, S, g)
<1> DEFINE Bad == {s \in SUBSET S : ~ \E g : IsSum(c, s, g)}
<1> SUFFICES ASSUME Bad # {} PROVE FALSE
  OBVIOUS
<1>0. Bad \subseteq SUBSET S
  OBVIOUS
<1>1. PICK s \in Bad : \A u \in SUBSET s : u \in Bad => u = s
  <2> HIDE DEF Bad
  <2> QED
    BY <1>0, LeastSet
<1> DEFINE H(u) == CHOOSE g : IsSum(c, u, g)
           G == [t \in SUBSET s |-> IF t = {} THEN 0
                                    ELSE c[Pick(t)] + H(t \ {Pick(t)})[t \ {Pick(t)}]]
<1>2. \A u \in SUBSET s : u # s => IsSum(c, u, H(u))
  BY <1>1
<1> HIDE DEF H
<1>3. ASSUME NEW u \in SUBSET s, u # s
      PROVE  G[u] = H(u)[u]
  <2>0. IsSum(c, u, H(u))
    BY <1>2, <1>3
  <2>1. H(u)[u] = IF u = {} THEN 0 ELSE c[Pick(u)] + H(u)[u \ {Pick(u)}]
    BY <2>0 DEF IsSum
  <2>2. CASE u = {}
    BY <2>1, <2>2
  <2>3. CASE u # {}
    <3> DEFINE v == u \ {Pick(u)}
    <3>1. IsSum(c, v, H(v)) /\ v \in SUBSET (u \cap v) /\ IsFiniteSet(u)
      <4>1. v # s
        BY <2>3, PickIn
      <4> QED
        BY <1>2, <4>1, FS_Subset
    <3>2. H(u)[v] = H(v)[v]
      BY <2>0, <3>1, SumUnique
    <3> QED
      BY <2>1, <2>3, <3>2
  <2> QED
    BY <2>2, <2>3
<1>4. IsSum(c, s, G)
  <2> SUFFICES ASSUME NEW t \in SUBSET s, t # {}
               PROVE  H(t \ {Pick(t)})[t \ {Pick(t)}] = G[t \ {Pick(t)}]
    BY DEF IsSum
  <2>1. t \ {Pick(t)} \in SUBSET s /\ t \ {Pick(t)} # s
    BY PickIn
  <2> HIDE DEF G
  <2> QED
    BY <1>3, <2>1
<1> QED
  BY <1>4

\* One element at a time.
LEMMA SumOfIs ==
  ASSUME NEW c, NEW S, IsFiniteSet(S)
  PROVE  SumOf(c, S) = IF S = {} THEN 0 ELSE c[Pick(S)] + SumOf(c, S \ {Pick(S)})
<1> DEFINE H(u) == CHOOSE g : IsSum(c, u, g)
<1>1. IsSum(c, S, H(S))
  BY SumExists
<1>2. IsFiniteSet(S \ {Pick(S)})
  BY FS_Subset
<1>3. IsSum(c, S \ {Pick(S)}, H(S \ {Pick(S)}))
  BY <1>2, SumExists
<1>4. SumOf(c, S) = H(S)[S] /\ SumOf(c, S \ {Pick(S)}) = H(S \ {Pick(S)})[S \ {Pick(S)}]
  BY DEF SumOf
<1> HIDE DEF H
<1>5. H(S)[S \ {Pick(S)}] = H(S \ {Pick(S)})[S \ {Pick(S)}]
  BY <1>1, <1>3, SumUnique
<1>6. H(S)[S] = IF S = {} THEN 0 ELSE c[Pick(S)] + H(S)[S \ {Pick(S)}]
  BY <1>1 DEF IsSum
<1> QED
  BY <1>4, <1>5, <1>6

\* Sums of natural numbers are natural numbers.
LEMMA SumType ==
  ASSUME NEW c, NEW S, IsFiniteSet(S), \A x \in S : c[x] \in Nat
  PROVE  SumOf(c, S) \in Nat
<1> DEFINE Bad == {s \in SUBSET S : SumOf(c, s) \notin Nat}
<1> SUFFICES ASSUME Bad # {} PROVE FALSE
  OBVIOUS
<1>0. Bad \subseteq SUBSET S
  OBVIOUS
<1>1. PICK s \in Bad : \A u \in SUBSET s : u \in Bad => u = s
  <2> HIDE DEF Bad
  <2> QED
    BY <1>0, LeastSet
<1>2. SumOf(c, s) = IF s = {} THEN 0 ELSE c[Pick(s)] + SumOf(c, s \ {Pick(s)})
  BY SumOfIs, FS_Subset
<1>3. s # {} => Pick(s) \in S /\ SumOf(c, s \ {Pick(s)}) \in Nat
  BY <1>1, PickIn
<1> QED
  BY <1>2, <1>3

\* Elements are summed in any order.
LEMMA SumRemove ==
  ASSUME NEW c, NEW S, IsFiniteSet(S), \A x \in S : c[x] \in Nat, NEW x \in S
  PROVE  SumOf(c, S) = c[x] + SumOf(c, S \ {x})
<1> DEFINE Bad == {s \in SUBSET S : \E y \in s : SumOf(c, s) # c[y] + SumOf(c, s \ {y})}
<1> SUFFICES ASSUME Bad # {} PROVE FALSE
  OBVIOUS
<1>0. Bad \subseteq SUBSET S
  OBVIOUS
<1>1. PICK s \in Bad : \A u \in SUBSET s : u \in Bad => u = s
  <2> HIDE DEF Bad
  <2> QED
    BY <1>0, LeastSet
<1>2. PICK y \in s : SumOf(c, s) # c[y] + SumOf(c, s \ {y})
  OBVIOUS
<1> DEFINE z == Pick(s)
           u == s \ {z, y}
<1>3. z \in s /\ SumOf(c, s) = c[z] + SumOf(c, s \ {z})
  BY SumOfIs, FS_Subset, PickIn
<1> HIDE DEF z
<1>4. z # y
  BY <1>2, <1>3
<1>5. SumOf(c, s \ {z}) = c[y] + SumOf(c, u)
  <2>1. s \ {z} \in SUBSET s /\ s \ {z} # s /\ y \in s \ {z} /\ (s \ {z}) \ {y} = u
    BY <1>3, <1>4
  <2>2. s \ {z} \notin Bad
    BY <1>1, <2>1
  <2> HIDE DEF u
  <2> QED
    BY <2>1, <2>2
<1>6. SumOf(c, s \ {y}) = c[z] + SumOf(c, u)
  <2>1. s \ {y} \in SUBSET s /\ s \ {y} # s /\ z \in s \ {y} /\ (s \ {y}) \ {z} = u
    BY <1>3, <1>4
  <2>2. s \ {y} \notin Bad
    BY <1>1, <2>1
  <2> HIDE DEF u
  <2> QED
    BY <2>1, <2>2
<1>7. SumOf(c, u) \in Nat /\ c[y] \in Nat /\ c[z] \in Nat
  <2>1. IsFiniteSet(u) /\ u \subseteq S
    BY FS_Subset
  <2> QED
    BY <2>1, <1>3, SumType
<1> HIDE DEF u
<1> QED
  BY <1>2, <1>3, <1>5, <1>6, <1>7

\* What two sets that have nothing in common add up to.
LEMMA SumUnion ==
  ASSUME NEW c, NEW S, NEW T, IsFiniteSet(S), IsFiniteSet(T), S \cap T = {},
         \A x \in S \cup T : c[x] \in Nat
  PROVE  SumOf(c, S \cup T) = SumOf(c, S) + SumOf(c, T)
<1> DEFINE Bad == {s \in SUBSET S : SumOf(c, s \cup T) # SumOf(c, s) + SumOf(c, T)}
<1> SUFFICES ASSUME Bad # {} PROVE FALSE
  OBVIOUS
<1>0. Bad \subseteq SUBSET S
  OBVIOUS
<1>1. PICK s \in Bad : \A u \in SUBSET s : u \in Bad => u = s
  <2> HIDE DEF Bad
  <2> QED
    BY <1>0, LeastSet
<1>2. IsFiniteSet(s) /\ IsFiniteSet(s \cup T)
  BY FS_Subset, FS_Union
<1>3. SumOf(c, {}) = 0
  BY SumOfIs, FS_EmptySet
<1>4. SumOf(c, T) \in Nat
  BY SumType
<1>5. s # {}
  BY <1>3, <1>4
<1>6. PICK x \in s : TRUE
  BY <1>5
<1>7. SumOf(c, s) = c[x] + SumOf(c, s \ {x})
  BY <1>2, SumRemove
<1>8. SumOf(c, s \cup T) = c[x] + SumOf(c, (s \ {x}) \cup T)
  <2>1. (s \cup T) \ {x} = (s \ {x}) \cup T /\ x \in s \cup T
    OBVIOUS
  <2> QED
    BY <1>2, <2>1, SumRemove
<1>9. SumOf(c, (s \ {x}) \cup T) = SumOf(c, s \ {x}) + SumOf(c, T)
  BY <1>1
<1>10. SumOf(c, s \ {x}) \in Nat /\ c[x] \in Nat
  BY <1>2, FS_Subset, SumType
<1> QED
  BY <1>4, <1>7, <1>8, <1>9, <1>10

\* Less is added up over less.
LEMMA SumSubset ==
  ASSUME NEW c, NEW S, IsFiniteSet(S), \A x \in S : c[x] \in Nat, NEW T \in SUBSET S
  PROVE  SumOf(c, T) <= SumOf(c, S)
<1>1. IsFiniteSet(T) /\ IsFiniteSet(S \ T) /\ T \cup (S \ T) = S /\ T \cap (S \ T) = {}
  BY FS_Subset
<1>2. SumOf(c, S) = SumOf(c, T) + SumOf(c, S \ T)
  BY <1>1, SumUnion
<1>3. SumOf(c, T) \in Nat /\ SumOf(c, S \ T) \in Nat
  BY <1>1, SumType
<1> QED
  BY <1>2, <1>3

\* This is what the model's MapThenSumSet is.
LEMMA MapThenSum == ASSUME NEW c, NEW S PROVE MapThenSumSet(LAMBDA e : c[e], S) = SumOf(c, S)
  BY DEF MapThenSumSet, MapThenFoldSet, SumOf, IsSum, Pick

-------------------------------------------------------------------------------
(* The anomaly watch                                                        *)

\* The least of some natural numbers is one of them.
LEMMA MinIn ==
  ASSUME NEW S \in SUBSET Nat, S # {}
  PROVE  Min(S) \in S
<1> DEFINE R == {ss \in Nat \X Nat : ss[1] < ss[2]}
<1>1. IsWellFoundedOn(R, Nat)
  BY NatLessThanWellFounded DEF OpToRel
<1>2. PICK x \in S : \A y \in S : <<y, x>> \notin R
  <2> HIDE DEF R
  <2> QED
    BY <1>1, WFMin
<1>3. \A y \in S : x <= y
  <2> SUFFICES ASSUME NEW y \in S PROVE x <= y
    OBVIOUS
  <2>1. <<y, x>> \notin R /\ y \in Nat /\ x \in Nat
    BY <1>2
  <2> QED
    BY <2>1
<1> QED
  BY <1>3 DEF Min

\* A total adds up what the nodes of the cluster reported.
LEMMA TotalType ==
  ASSUME TypeOK, NEW c, NEW t \in Time
  PROVE  Total(c, t) \in Nat
<1> DEFINE S == {n \in Node : ClusterOf[n] = c /\ cost[n][t] # NoRow}
<1>1. Total(c, t) = SumOf(RowsAt(t), S)
  BY MapThenSum DEF Total
<1>2. IsFiniteSet(S)
  BY WatchAssumption, FS_Subset
<1>3. \A n \in S : RowsAt(t)[n] \in Nat
  BY WatchAssumption DEF TypeOK, RowsAt, NoRow
<1> HIDE DEF S
<1> QED
  BY <1>1, <1>2, <1>3, SumType

\* An anomaly has a baseline that is not zero.
LEMMA AnomaliesType ==
  ASSUME TypeOK, NEW c \in Cluster
  PROVE  \A a \in AnomaliesIn(c) : a \in Anomaly
<1> SUFFICES ASSUME NEW a \in AnomaliesIn(c) PROVE a \in Anomaly
  OBVIOUS
<1>1. PICK p \in Time \X Time :
        /\ Jumped(c, p[1], p[2])
        /\ a = [cluster |-> c, snap |-> p[2], prev |-> Total(c, p[1]), cur |-> Total(c, p[2])]
  BY DEF AnomaliesIn
<1>2. p[1] \in Time /\ p[2] \in Time
  OBVIOUS
<1>3. Total(c, p[1]) \in Nat /\ Total(c, p[2]) \in Nat /\ Total(c, p[1]) # 0
  BY <1>1, <1>2, TotalType DEF Jumped
<1> QED
  BY <1>1, <1>2, <1>3 DEF Anomaly

\* The loop's state is a record.
PassShape ==
  watch = [pc |-> watch.pc, tenants |-> watch.tenants, tenant |-> watch.tenant,
           clusters |-> watch.clusters, found |-> watch.found]

\* The steps of the loop keep the types.
LEMMA WatchStepType ==
  ASSUME TypeOK, PassShape, WatchNext \/ Crash
  PROVE  TypeOK' /\ PassShape'
<1>0. UNCHANGED <<now, cum, cost, posted>>
  BY DEF WatchNext, WatchBegin, WatchTenant, WatchEnd, WatchDetect, WatchRecord, WatchFail, Crash
<1>1. CASE WatchBegin
  BY <1>0, <1>1 DEF WatchBegin, TypeOK, PassShape, Idle
<1>2. CASE WatchTenant
  <2> DEFINE t == Min(watch.tenants)
  <2>1. t \in Tenant
    <3>1. watch.tenants \in SUBSET Nat /\ watch.tenants # {}
      BY <1>2, WatchAssumption DEF WatchTenant, TypeOK, Tenant
    <3> QED
      BY <1>2, <3>1, MinIn DEF TypeOK
  <2>2. ClustersOf(t) \subseteq Cluster
    BY DEF ClustersOf
  <2>3. watch' = [pc |-> IF ClustersOf(t) = {} THEN "tenants" ELSE "detect",
                  tenants |-> watch.tenants \ {t}, tenant |-> t,
                  clusters |-> ClustersOf(t), found |-> watch.found]
    BY <1>2 DEF WatchTenant, PassShape
  <2>4. UNCHANGED <<alerts, failures>>
    BY <1>2 DEF WatchTenant
  <2> HIDE DEF t
  <2> QED
    BY <1>0, <2>1, <2>2, <2>3, <2>4 DEF TypeOK, PassShape
<1>3. CASE WatchEnd
  BY <1>0, <1>3 DEF WatchEnd, TypeOK, PassShape, Idle
<1>4. ASSUME NEW c \in Cluster, WatchDetect(c)
      PROVE  TypeOK' /\ PassShape'
  <2> DEFINE left == watch.clusters \ {c}
             found == watch.found \cup AnomaliesIn(c)
  <2>1. watch' = [pc |-> IF left # {} THEN "detect"
                         ELSE IF found # {} THEN "record" ELSE "tenants",
                  tenants |-> watch.tenants, tenant |-> watch.tenant,
                  clusters |-> left, found |-> found]
    BY <1>4 DEF WatchDetect, PassShape
  <2>2. left \subseteq Cluster /\ \A a \in found : a \in Anomaly
    BY AnomaliesType DEF TypeOK
  <2>3. UNCHANGED <<alerts, failures>>
    BY <1>4 DEF WatchDetect
  <2> HIDE DEF left, found
  <2> QED
    BY <1>0, <2>1, <2>2, <2>3 DEF TypeOK, PassShape
<1>5. ASSUME NEW a \in watch.found, WatchRecord(a)
      PROVE  TypeOK' /\ PassShape'
  <2>1. \A b \in Recorded(a) : b \in Alert
    <3>1. a \in Anomaly /\ \A b \in alerts : b \in Alert
      BY DEF TypeOK
    <3>2. [anomaly |-> a, acked |-> FALSE] \in Alert
      BY <3>1 DEF Alert
    <3> QED
      BY <3>1, <3>2 DEF Recorded
  <2>2. watch' = [pc |-> IF watch.found = {a} THEN "tenants" ELSE "record",
                  tenants |-> watch.tenants, tenant |-> watch.tenant,
                  clusters |-> watch.clusters, found |-> watch.found \ {a}]
    BY <1>5 DEF WatchRecord, PassShape
  <2>3. alerts' = Recorded(a) /\ UNCHANGED failures
    BY <1>5 DEF WatchRecord
  <2> QED
    BY <1>0, <2>1, <2>2, <2>3 DEF TypeOK, PassShape
<1>6. CASE WatchFail
  <2>1. watch' = [pc |-> "tenants", tenants |-> watch.tenants, tenant |-> watch.tenant,
                  clusters |-> {}, found |-> {}]
    BY <1>6 DEF WatchFail, PassShape
  <2>2. failures' \in 0 .. MaxFailures /\ UNCHANGED alerts
    BY <1>6, WatchAssumption DEF WatchFail, TypeOK
  <2> QED
    BY <1>0, <2>1, <2>2 DEF TypeOK, PassShape
<1>7. CASE Crash
  <2>1. failures' \in 0 .. MaxFailures /\ UNCHANGED alerts
    BY <1>7, WatchAssumption DEF Crash, TypeOK
  <2> QED
    BY <1>0, <1>7, <2>1 DEF Crash, TypeOK, PassShape, Idle
<1> QED
  BY <1>1, <1>2, <1>3, <1>4, <1>5, <1>6, <1>7 DEF WatchNext

\* And so do all steps.
LEMMA TypeStep == TypeOK /\ PassShape /\ [Next]_vars => TypeOK' /\ PassShape'
<1> SUFFICES ASSUME TypeOK, PassShape, [Next]_vars PROVE TypeOK' /\ PassShape'
  OBVIOUS
<1> USE WatchAssumption
<1>1. CASE Tick
  <2>1. now' \in Time
    BY <1>1 DEF Tick, TypeOK, Time
  <2> QED
    BY <1>1, <2>1 DEF Tick, TypeOK, PassShape
<1>2. ASSUME NEW n \in Node, Traffic(n) PROVE TypeOK' /\ PassShape'
  <2>1. cum' \in [Node -> 0 .. MaxCost]
    BY <1>2 DEF Traffic, TypeOK
  <2> QED
    BY <1>2, <2>1 DEF Traffic, TypeOK, PassShape
<1>3. ASSUME NEW n \in Node, NEW at \in Time, Post(n, at) PROVE TypeOK' /\ PassShape'
  <2>1. posted' \in [Node -> Time \cup {NoRow}]
    BY <1>3 DEF Post, TypeOK
  <2>2. cost' \in [Node -> [Time -> (0 .. MaxCost) \cup {NoRow}]]
    BY <1>3 DEF Post, TypeOK
  <2> QED
    BY <1>3, <2>1, <2>2 DEF Post, TypeOK, PassShape
<1>4. CASE Compact
  <2>1. cost' \in [Node -> [Time -> (0 .. MaxCost) \cup {NoRow}]]
    BY <1>4 DEF Compact, TypeOK
  <2> QED
    BY <1>4, <2>1 DEF Compact, TypeOK, PassShape
<1>5. ASSUME NEW b \in alerts, Acknowledge(b) PROVE TypeOK' /\ PassShape'
  <2>1. \A d \in alerts' : d \in Alert
    BY <1>5 DEF Acknowledge, TypeOK, Alert
  <2> QED
    BY <1>5, <2>1 DEF Acknowledge, TypeOK, PassShape
<1>6. CASE UNCHANGED vars
  BY <1>6 DEF vars, TypeOK, PassShape
<1> QED
  BY <1>1, <1>2, <1>3, <1>4, <1>5, <1>6, WatchStepType DEF Next

\* Type correctness of the watch.  In particular no alert has a baseline of zero, however
\* posts, compaction and failures fall between the statements of a pass (anomaly.go:72).
THEOREM TypeCorrect == Spec => []TypeOK
<1>1. Init => TypeOK /\ PassShape
  BY WatchAssumption DEF Init, TypeOK, PassShape, Idle, Time, NoRow
<1> QED
  BY <1>1, TypeStep, PTL DEF Spec

\* Every step but these two leaves the alerts alone.
LEMMA AlertSteps ==
  ASSUME [Next]_vars
  PROVE  \/ UNCHANGED alerts
         \/ \E a \in watch.found : WatchRecord(a)
         \/ \E b \in alerts : Acknowledge(b)
<1>1. CASE UNCHANGED vars
  BY <1>1 DEF vars
<1>2. CASE Tick \/ (\E n \in Node : Traffic(n)) \/ Compact \/ Crash
  BY <1>2 DEF Tick, Traffic, Compact, Crash
<1>3. CASE \E n \in Node, at \in Time : Post(n, at)
  BY <1>3 DEF Post
<1>4. CASE WatchNext
  BY <1>4 DEF WatchNext, WatchBegin, WatchTenant, WatchEnd, WatchDetect, WatchFail
<1> QED
  BY <1>1, <1>2, <1>3, <1>4 DEF Next

\* Recording an anomaly adds an alert only for a snapshot that had none.
LEMMA RecordedDistinct ==
  ASSUME OneAlertPerSnapshot, NEW a
  PROVE  \A b, d \in Recorded(a) : SameSnapshot(b.anomaly, d.anomaly) => b = d
<1> DEFINE new == [anomaly |-> a, acked |-> FALSE]
<1>1. CASE \E b \in alerts : SameSnapshot(a, b.anomaly)
  BY <1>1 DEF Recorded, OneAlertPerSnapshot
<1>2. CASE ~ \E b \in alerts : SameSnapshot(a, b.anomaly)
  <2>1. Recorded(a) = alerts \cup {new} /\ new.anomaly = a
    BY <1>2 DEF Recorded
  <2> QED
    BY <1>2, <2>1 DEF OneAlertPerSnapshot, SameSnapshot
<1> QED
  BY <1>1, <1>2

LEMMA OneAlertStep ==
  ASSUME OneAlertPerSnapshot, [Next]_vars
  PROVE  OneAlertPerSnapshot'
<1>1. CASE UNCHANGED alerts
  BY <1>1 DEF OneAlertPerSnapshot, SameSnapshot
<1>2. ASSUME NEW a \in watch.found, WatchRecord(a)
      PROVE  OneAlertPerSnapshot'
  <2>1. alerts' = Recorded(a)
    BY <1>2 DEF WatchRecord
  <2> QED
    BY <2>1, RecordedDistinct DEF OneAlertPerSnapshot, SameSnapshot
<1>3. ASSUME NEW b \in alerts, Acknowledge(b)
      PROVE  OneAlertPerSnapshot'
  <2> DEFINE seen == [b EXCEPT !.acked = TRUE]
  <2>1. alerts' = (alerts \ {b}) \cup {seen}
    BY <1>3 DEF Acknowledge
  <2>2. seen.anomaly = b.anomaly
    OBVIOUS
  <2>3. \A d \in alerts \ {b} : ~SameSnapshot(d.anomaly, b.anomaly)
                                /\ ~SameSnapshot(b.anomaly, d.anomaly)
    BY DEF OneAlertPerSnapshot
  <2> QED
    BY <2>1, <2>2, <2>3 DEF OneAlertPerSnapshot, SameSnapshot
<1> QED
  BY <1>1, <1>2, <1>3, AlertSteps

\* A snapshot is alerted at most once: the unique index and ON CONFLICT DO
\* NOTHING, whatever ticks, failures, restarts and acknowledgements do.
THEOREM AlertedOnce == Spec => []OneAlertPerSnapshot
<1>1. Init => OneAlertPerSnapshot
  BY DEF Init, OneAlertPerSnapshot
<1>2. OneAlertPerSnapshot /\ [Next]_vars => OneAlertPerSnapshot'
  BY OneAlertStep
<1> QED
  BY <1>1, <1>2, PTL DEF Spec

\* A dismissed alert stays in the table, dismissed.
THEOREM DismissedForGood == Spec => AcknowledgedStays
<1>1. ASSUME [Next]_vars, NEW a \in alerts, a.acked
      PROVE  a \in alerts'
  <2>1. CASE UNCHANGED alerts
    BY <2>1
  <2>2. CASE \E b \in watch.found : WatchRecord(b)
    BY <2>2 DEF WatchRecord, Recorded
  <2>3. CASE \E b \in alerts : Acknowledge(b)
    BY <1>1, <2>3 DEF Acknowledge
  <2> QED
    BY <1>1, <2>1, <2>2, <2>3, AlertSteps
<1>2. [Next]_vars => [\A a \in alerts : a.acked => a \in alerts']_vars
  BY <1>1
<1> QED
  BY <1>2, PTL DEF Spec, AcknowledgedStays

-------------------------------------------------------------------------------
(* The placement search                                                     *)

\* The cost that a cuts in a graph, and what the edges of n into zone g cost.
CutIn(w, a) == SumOf(w, {e \in DOMAIN w : \E m, n \in e : a[m] # a[n]})
TowardsIn(w, a, n, g) == SumOf(w, {e \in DOMAIN w : n \in e /\ \E m \in e \ {n} : a[m] = g})

\* What a move makes of an assignment.
Moved(a, n, g) == [a EXCEPT ![n] = g]

\* The model's three sums, as sums.
LEMMA CutCostIs == \A a : CutCost(a) = CutIn(edges, a)
  BY DEF CutCost, Crossing, CutIn, MapThenSumSet, MapThenFoldSet, SumOf, IsSum, Pick

LEMMA ObservedIs == Observed = SumOf(edges, DOMAIN edges)
  BY DEF Observed, MapThenSumSet, MapThenFoldSet, SumOf, IsSum, Pick

LEMMA TowardsIs == \A n, g : Towards(n, g) = TowardsIn(edges, assignment, n, g)
  BY DEF Towards, TowardsIn, MapThenSumSet, MapThenFoldSet, SumOf, IsSum, Pick

\* A graph is finite, and an edge has two ends.
LEMMA GraphIs ==
  ASSUME NEW w \in Graph
  PROVE  /\ IsFiniteSet(DOMAIN w) /\ IsFiniteSet(UNION DOMAIN w)
         /\ \A e \in DOMAIN w : w[e] \in Nat
         /\ \A e \in DOMAIN w : \A n \in e : \E m : m # n /\ e = {m, n}
<1>1. DOMAIN w \subseteq Pair /\ IsFiniteSet(Workload) /\ \A e \in DOMAIN w : w[e] \in Nat
  BY PlacementAssumption
<1>2. IsFiniteSet(SUBSET Workload)
  BY <1>1, FS_SUBSET
<1>3. DOMAIN w \subseteq SUBSET Workload /\ UNION DOMAIN w \subseteq Workload
  BY <1>1 DEF Pair
<1>4. ASSUME NEW e \in DOMAIN w, NEW n \in e
      PROVE  \E m : m # n /\ e = {m, n}
  <2>1. IsFiniteSet(e) /\ Cardinality(e) = 2
    BY <1>1, <1>3, FS_Subset DEF Pair
  <2>2. IsFiniteSet(e \ {n}) /\ Cardinality(e \ {n}) = 1
    BY <2>1, FS_RemoveElement
  <2>3. PICK m : e \ {n} = {m}
    BY <2>2, FS_Singleton
  <2> QED
    BY <2>3
<1> QED
  BY <1>1, <1>2, <1>3, <1>4, FS_Subset

\* What is cut costs at most what all edges cost.
LEMMA CutIsBounded ==
  ASSUME NEW w \in Graph, NEW a
  PROVE  /\ CutIn(w, a) \in Nat /\ SumOf(w, DOMAIN w) \in Nat
         /\ CutIn(w, a) <= SumOf(w, DOMAIN w)
<1> DEFINE C == {e \in DOMAIN w : \E m, n \in e : a[m] # a[n]}
<1>1. C \subseteq DOMAIN w /\ IsFiniteSet(C) /\ \A e \in C : w[e] \in Nat
  BY GraphIs, FS_Subset
<1>2. CutIn(w, a) = SumOf(w, C)
  BY DEF CutIn
<1>3. IsFiniteSet(DOMAIN w) /\ \A e \in DOMAIN w : w[e] \in Nat
  BY GraphIs
<1> HIDE DEF C
<1>4. SumOf(w, C) \in Nat /\ SumOf(w, DOMAIN w) \in Nat
  BY <1>1, <1>3, SumType
<1>5. SumOf(w, C) <= SumOf(w, DOMAIN w)
  BY <1>1, <1>3, SumSubset
<1> QED
  BY <1>2, <1>4, <1>5

\* The edges into a zone cost a natural number.
LEMMA TowardsType ==
  ASSUME NEW w \in Graph, NEW a, NEW n, NEW g
  PROVE  TowardsIn(w, a, n, g) \in Nat
<1> DEFINE C == {e \in DOMAIN w : n \in e /\ \E m \in e \ {n} : a[m] = g}
<1>1. C \subseteq DOMAIN w /\ IsFiniteSet(C) /\ \A e \in C : w[e] \in Nat
  BY GraphIs, FS_Subset
<1>2. TowardsIn(w, a, n, g) = SumOf(w, C)
  BY DEF TowardsIn
<1> HIDE DEF C
<1> QED
  BY <1>1, <1>2, SumType

\* What a move changes is what it was chosen for: the edges into the zone that is left are
\* cut now, those into the other zone no longer, and for all others nothing changes.
LEMMA MoveChanges ==
  ASSUME NEW w \in Graph, NEW Z, NEW a \in [UNION DOMAIN w -> Z],
         NEW n \in UNION DOMAIN w, NEW g \in Z, g # a[n]
  PROVE  CutIn(w, Moved(a, n, g))
           = CutIn(w, a) + TowardsIn(w, a, n, a[n]) - TowardsIn(w, a, n, g)
<1> DEFINE b == [a EXCEPT ![n] = g]
           Cut(x) == {e \in DOMAIN w : \E m, k \in e : x[m] # x[k]}
           Into(h) == {e \in DOMAIN w : n \in e /\ \E m \in e \ {n} : a[m] = h}
           Rest == Cut(a) \ Into(g)
<1>1. \A e \in DOMAIN w : n \in e => \E m \in UNION DOMAIN w : m # n /\ e = {m, n}
  BY GraphIs
<1>2. Cut(a) = Rest \cup Into(g) /\ Rest \cap Into(g) = {}
  <2>1. Into(g) \subseteq Cut(a)
    OBVIOUS
  <2> QED
    BY <2>1
<1>3. Cut(b) = Rest \cup Into(a[n]) /\ Rest \cap Into(a[n]) = {}
  <2>1. ASSUME NEW e \in DOMAIN w, n \notin e
        PROVE  e \in Cut(b) <=> e \in Rest \cup Into(a[n])
    <3>1. \A m \in e : m \in UNION DOMAIN w /\ b[m] = a[m]
      BY <2>1
    <3>2. e \in Cut(b) <=> e \in Cut(a)
      BY <3>1
    <3> QED
      BY <2>1, <3>2
  <2>2. ASSUME NEW e \in DOMAIN w, n \in e
        PROVE  /\ e \in Cut(b) <=> e \in Rest \cup Into(a[n])
               /\ ~(e \in Rest /\ e \in Into(a[n]))
    <3>1. PICK m \in UNION DOMAIN w : m # n /\ e = {m, n}
      BY <1>1, <2>2
    <3>2. b[m] = a[m] /\ b[n] = g
      BY <3>1
    <3>3. e \in Cut(b) <=> a[m] # g
      BY <3>1, <3>2
    <3>4. e \in Cut(a) <=> a[m] # a[n]
      BY <3>1
    <3>5. \A h : e \in Into(h) <=> a[m] = h
      BY <3>1
    <3> QED
      BY <3>3, <3>4, <3>5
  <2> QED
    BY <2>1, <2>2
<1>4. /\ IsFiniteSet(Rest) /\ IsFiniteSet(Into(g)) /\ IsFiniteSet(Into(a[n]))
      /\ \A e \in DOMAIN w : w[e] \in Nat
  BY GraphIs, FS_Subset
<1>5. /\ CutIn(w, a) = SumOf(w, Cut(a)) /\ CutIn(w, b) = SumOf(w, Cut(b))
      /\ \A h : TowardsIn(w, a, n, h) = SumOf(w, Into(h))
  BY DEF CutIn, TowardsIn
<1>6. /\ \A e \in Rest \cup Into(g) : w[e] \in Nat
      /\ \A e \in Rest \cup Into(a[n]) : w[e] \in Nat
  BY <1>4
<1> HIDE DEF Cut, Into, Rest, b
<1>7. SumOf(w, Cut(a)) = SumOf(w, Rest) + SumOf(w, Into(g))
  BY <1>2, <1>4, <1>6, SumUnion
<1>8. SumOf(w, Cut(b)) = SumOf(w, Rest) + SumOf(w, Into(a[n]))
  BY <1>3, <1>4, <1>6, SumUnion
<1>9. SumOf(w, Rest) \in Nat /\ SumOf(w, Into(g)) \in Nat /\ SumOf(w, Into(a[n])) \in Nat
  BY <1>4, <1>6, SumType
<1>10. CutIn(w, b) = CutIn(w, a) + TowardsIn(w, a, n, a[n]) - TowardsIn(w, a, n, g)
  BY <1>5, <1>7, <1>8, <1>9
<1> QED
  BY <1>10 DEF b, Moved

-------------------------------------------------------------------------------
\* The zones' sizes before and after a move.
LEMMA MovedZones ==
  ASSUME NEW N, IsFiniteSet(N), NEW Z, NEW a \in [N -> Z],
         NEW n \in N, NEW g \in Z, g # a[n], NEW h \in Z
  PROVE  /\ h = g => Cardinality(In(Moved(a, n, g), h)) = Cardinality(In(a, h)) + 1
         /\ h = a[n] => Cardinality(In(Moved(a, n, g), h)) = Cardinality(In(a, h)) - 1
         /\ h # g /\ h # a[n] => Cardinality(In(Moved(a, n, g), h)) = Cardinality(In(a, h))
<1>1. IsFiniteSet(In(a, h)) /\ Cardinality(In(a, h)) \in Nat
  BY FS_Subset, FS_CardinalityType DEF In, Moved
<1>2. CASE h = g
  <2>1. In(Moved(a, n, g), h) = In(a, h) \cup {n} /\ n \notin In(a, h)
    BY <1>2 DEF In, Moved
  <2> QED
    BY <1>1, <1>2, <2>1, FS_AddElement
<1>3. CASE h = a[n]
  <2>1. In(Moved(a, n, g), h) = In(a, h) \ {n} /\ n \in In(a, h)
    BY <1>3 DEF In, Moved
  <2> QED
    BY <1>1, <1>3, <2>1, FS_RemoveElement
<1>4. CASE h # g /\ h # a[n]
  <2>1. In(Moved(a, n, g), h) = In(a, h)
    BY <1>4 DEF In, Moved
  <2> QED
    BY <1>1, <1>4, <2>1
<1> QED
  BY <1>1, <1>2, <1>3, <1>4

\* Of the first dealing: a zone in use has a workload.
LEMMA DealtInUse ==
  ASSUME NEW g \in InUse, Cardinality(Nodes) \in Nat, numGroups \in Nat \ {0}
  PROVE  Dealt(g) # {}
<1>1. g \in 0 .. Cardinality(Nodes) - 1 /\ g \in 0 .. numGroups - 1
  BY DEF InUse, Zones, Group
<1>2. g % numGroups = g
  BY <1>1, SMTT(60)
<1> QED
  BY <1>1, <1>2 DEF Dealt

LEMMA DealtType ==
  Cardinality(Nodes) \in Nat =>
    \A g : IsFiniteSet(Dealt(g)) /\ Cardinality(Dealt(g)) \in Nat
<1>1. IsFiniteSet(0 .. Cardinality(Nodes) - 1) \/ Cardinality(Nodes) \notin Nat
  BY FS_Interval
<1> QED
  BY <1>1, FS_Subset, FS_CardinalityType DEF Dealt

\* The workloads of a graph are finite in number.
LEMMA NodesIs ==
  ASSUME SearchTypeOK
  PROVE  /\ IsFiniteSet(Nodes) /\ Cardinality(Nodes) \in Nat /\ numGroups \in Nat \ {0}
         /\ edges \in Graph
<1>1. edges \in Graph /\ numGroups \in GroupCount
  BY DEF SearchTypeOK
<1>2. IsFiniteSet(Nodes)
  BY <1>1, GraphIs DEF Nodes
<1> QED
  BY <1>1, <1>2, FS_CardinalityType, PlacementAssumption

\* The graph and the number of zones are given.
LEMMA Frame ==
  ASSUME [SearchNext]_searchVars
  PROVE  /\ UNCHANGED <<edges, numGroups>>
         /\ Nodes' = Nodes /\ Zones' = Zones /\ InUse' = InUse /\ Partitions' = Partitions
        /\ Observed' = Observed
<1>1. UNCHANGED <<edges, numGroups>>
  BY DEF SearchNext, Start, Move, Converged, Finish, searchVars
<1>2. Nodes' = Nodes /\ Zones' = Zones
  BY <1>1 DEF Nodes, Zones
<1>3. InUse' = InUse
  BY <1>2 DEF InUse
<1>4. Observed' = SumOf(edges', DOMAIN edges')
  BY DEF Observed, MapThenSumSet, MapThenFoldSet, SumOf, IsSum, Pick
<1>5. Observed' = Observed
  BY <1>1, <1>4, ObservedIs
<1> QED
  BY <1>1, <1>2, <1>3, <1>5 DEF Partitions

\* What is known of the best answer so far.
BestIsReal ==
  /\ restart = 0 => best = [cost |-> Observed + 1, assignment |-> NoAssignment, iterations |-> 0]
  /\ restart > 0 => /\ best.assignment \in Partitions
                    /\ best.cost = CutIn(edges, best.assignment)
  /\ stage = "search" => restart < Restarts
  /\ stage = "done" => restart = Restarts

\* The inductive invariant of the search.
SInv == SearchTypeOK /\ ZonesStayPopulated /\ BestIsReal

LEMMA SearchInitInv == SearchInit => SInv
<1> SUFFICES ASSUME SearchInit PROVE SInv
  OBVIOUS
<1>1. Observed \in Nat
  BY ObservedIs, CutIsBounded DEF SearchInit
<1>2. SearchTypeOK
  BY <1>1, PlacementAssumption DEF SearchInit, SearchTypeOK
<1> QED
  BY <1>2, PlacementAssumption DEF SearchInit, SInv, ZonesStayPopulated, BestIsReal

LEMMA StartInv == ASSUME SInv, Start PROVE SInv'
<1>0. [SearchNext]_searchVars
  BY DEF SearchNext
<1>1. /\ UNCHANGED <<edges, numGroups, restart, best>>
      /\ Nodes' = Nodes /\ Zones' = Zones /\ InUse' = InUse /\ Partitions' = Partitions
  BY <1>0, Frame DEF Start
<1>2. IsFiniteSet(Nodes) /\ Cardinality(Nodes) \in Nat /\ numGroups \in Nat \ {0}
  BY NodesIs DEF SInv
<1>3. /\ assignment' \in [Nodes -> Zones]
      /\ \A g \in Zones : Cardinality(In(assignment', g)) = Cardinality(Dealt(g))
      /\ groupSize' = [g \in Zones |-> Cardinality(Dealt(g))]
      /\ iterations' = 0 /\ stage' = "search" /\ restart < Restarts
  BY DEF Start
<1>4. SearchTypeOK'
  <2>1. groupSize' \in [Zones -> Nat]
    BY <1>2, <1>3, DealtType
  <2> QED
    BY <1>1, <1>3, <2>1, PlacementAssumption DEF SInv, SearchTypeOK
<1>5. ZonesStayPopulated'
  <2>1. ASSUME NEW g \in InUse
        PROVE  In(assignment', g) # {}
    <3>1. g \in Zones /\ Dealt(g) # {} /\ IsFiniteSet(Dealt(g))
      BY <1>2, DealtInUse, DealtType DEF InUse
    <3>2. Cardinality(In(assignment', g)) # 0
      BY <1>3, <3>1, FS_EmptySet
    <3> QED
      BY <3>2, FS_EmptySet
  <2> QED
    BY <1>1, <1>3, <2>1 DEF ZonesStayPopulated, In
<1>6. BestIsReal'
  <2>1. Observed' = Observed
    BY <1>0, Frame
  <2> QED
    BY <1>1, <1>3, <2>1 DEF SInv, BestIsReal
<1> QED
  BY <1>4, <1>5, <1>6 DEF SInv

LEMMA MoveInv == ASSUME SInv, Move PROVE SInv'
<1>0. [SearchNext]_searchVars
  BY DEF SearchNext
<1>1. /\ UNCHANGED <<edges, numGroups, stage, restart, best>> /\ stage = "search"
      /\ Nodes' = Nodes /\ Zones' = Zones /\ InUse' = InUse /\ Partitions' = Partitions
  BY <1>0, Frame DEF Move
<1>2. IsFiniteSet(Nodes)
  BY NodesIs DEF SInv
<1>3. PICK move \in Improving :
        /\ assignment' = [assignment EXCEPT ![move[1]] = move[2]]
        /\ groupSize' = [groupSize EXCEPT ![assignment[move[1]]] = @ - 1, ![move[2]] = @ + 1]
  BY DEF Move
<1> DEFINE n == move[1]
           g == move[2]
<1>4. n \in Nodes /\ g \in Zones /\ g # assignment[n] /\ groupSize[assignment[n]] > 1
  BY <1>3 DEF Improving, Movable
<1>5. assignment \in [Nodes -> Zones] /\ groupSize \in [Zones -> Nat]
  BY <1>1 DEF SInv, SearchTypeOK
<1>6. assignment' = Moved(assignment, n, g) /\ assignment' \in [Nodes -> Zones]
  BY <1>3, <1>4, <1>5 DEF Moved
<1>7. \A h \in Zones : groupSize'[h] = IF h = g THEN groupSize[h] + 1
                                       ELSE IF h = assignment[n] THEN groupSize[h] - 1
                                       ELSE groupSize[h]
  BY <1>3, <1>4, <1>5
<1>8. groupSize' \in [Zones -> Nat]
  <2>1. groupSize' = [h \in Zones |-> groupSize'[h]]
    BY <1>3, <1>5
  <2>2. \A h \in Zones : groupSize'[h] \in Nat
    BY <1>4, <1>5, <1>7
  <2> QED
    BY <2>1, <2>2
<1>9. SearchTypeOK'
  <2>1. iterations' \in 0 .. MaxIterations
    BY PlacementAssumption DEF Move, SInv, SearchTypeOK
  <2> QED
    BY <1>1, <1>6, <1>8, <2>1 DEF SInv, SearchTypeOK
<1>10. ZonesStayPopulated'
  <2> HIDE DEF n, g
  <2>1. \A h \in Zones : groupSize[h] = Cardinality(In(assignment, h))
    BY <1>1 DEF SInv, ZonesStayPopulated
  <2>2. ASSUME NEW h \in Zones
        PROVE  groupSize'[h] = Cardinality(In(assignment', h))
    <3>1. /\ h = g =>
               Cardinality(In(Moved(assignment, n, g), h)) = Cardinality(In(assignment, h)) + 1
          /\ h = assignment[n] =>
               Cardinality(In(Moved(assignment, n, g), h)) = Cardinality(In(assignment, h)) - 1
          /\ h # g /\ h # assignment[n] =>
               Cardinality(In(Moved(assignment, n, g), h)) = Cardinality(In(assignment, h))
      BY <1>2, <1>4, <1>5, MovedZones
    <3>2. groupSize[h] = Cardinality(In(assignment, h))
      BY <2>1
    <3>3. groupSize'[h] = IF h = g THEN groupSize[h] + 1
                          ELSE IF h = assignment[n] THEN groupSize[h] - 1
                          ELSE groupSize[h]
      BY <1>7
    <3>4. Cardinality(In(assignment, h)) \in Nat
      BY <1>5, <2>1
    <3> QED
      BY <1>4, <1>5, <1>6, <3>1, <3>2, <3>3, <3>4
  <2>3. ASSUME NEW h \in InUse
        PROVE  In(assignment', h) # {}
    <3>1. h \in Zones /\ In(assignment, h) # {} /\ IsFiniteSet(In(assignment, h))
      BY <1>1, <1>2, <1>5, FS_Subset DEF SInv, ZonesStayPopulated, InUse, In
    <3>2. groupSize[h] # 0
      BY <2>1, <3>1, FS_EmptySet
    <3>3. groupSize'[h] # 0
      BY <1>4, <1>5, <1>7, <3>1, <3>2
    <3> QED
      BY <2>2, <3>1, <3>3, FS_EmptySet
  <2> QED
    BY <1>1, <2>2, <2>3 DEF ZonesStayPopulated, In
<1>11. BestIsReal'
  <2>1. Observed' = Observed
    BY <1>0, Frame
  <2> QED
    BY <1>1, <2>1 DEF SInv, BestIsReal
<1> QED
  BY <1>9, <1>10, <1>11 DEF SInv

LEMMA ConvergedInv == ASSUME SInv, Converged PROVE SInv'
<1>0. [SearchNext]_searchVars
  BY DEF SearchNext
<1>1. /\ UNCHANGED <<edges, numGroups, iterations>> /\ stage = "search" /\ stage' = "start"
      /\ Nodes' = Nodes /\ Zones' = Zones /\ InUse' = InUse /\ Partitions' = Partitions
      /\ assignment' = NoAssignment /\ groupSize' = NoAssignment /\ restart' = restart + 1
  BY <1>0, Frame DEF Converged
<1>2. /\ edges \in Graph /\ assignment \in [Nodes -> Zones] /\ restart \in 0 .. Restarts
      /\ best.cost \in Int /\ restart < Restarts
  BY <1>1 DEF SInv, SearchTypeOK, BestIsReal
<1>3. assignment \in Partitions
  BY <1>1, <1>2 DEF SInv, ZonesStayPopulated, Partitions
<1>4. /\ CutCost(assignment) = CutIn(edges, assignment)
      /\ CutIn(edges, assignment) \in Nat /\ CutIn(edges, assignment) <= Observed
      /\ Observed \in Nat
  BY <1>2, CutCostIs, ObservedIs, CutIsBounded
<1>5. \/ best' = [cost |-> CutIn(edges, assignment), assignment |-> assignment,
                   iterations |-> iterations]
      \/ best' = best /\ ~(CutIn(edges, assignment) < best.cost)
  BY <1>4 DEF Converged
<1>6. SearchTypeOK'
  <2>1. best' \in [cost : Int, assignment : [Nodes -> Zones] \cup {NoAssignment},
                   iterations : 0 .. MaxIterations]
    BY <1>2, <1>4, <1>5 DEF SInv, SearchTypeOK
  <2>2. restart' \in 0 .. Restarts
    BY <1>1, <1>2, PlacementAssumption
  <2> QED
    BY <1>1, <2>1, <2>2 DEF SInv, SearchTypeOK
<1>7. BestIsReal'
  <2>1. best'.assignment \in Partitions /\ best'.cost = CutIn(edges, best'.assignment)
    <3>1. CASE best' = [cost |-> CutIn(edges, assignment), assignment |-> assignment,
                        iterations |-> iterations]
      BY <1>3, <3>1
    <3>2. CASE best' = best /\ ~(CutIn(edges, assignment) < best.cost)
      <4>1. restart # 0
        BY <1>2, <1>4, <3>2 DEF SInv, BestIsReal
      <4> QED
        BY <1>2, <3>2, <4>1 DEF SInv, BestIsReal
    <3> QED
      BY <1>5, <3>1, <3>2
  <2> QED
    BY <1>1, <1>2, <2>1 DEF BestIsReal
<1> QED
  BY <1>1, <1>6, <1>7 DEF SInv, ZonesStayPopulated

LEMMA SearchNextInv == SInv /\ [SearchNext]_searchVars => SInv'
<1> SUFFICES ASSUME SInv, [SearchNext]_searchVars PROVE SInv'
  OBVIOUS
<1>1. CASE Finish
  <2>1. UNCHANGED <<edges, numGroups, restart, assignment, groupSize, iterations, best>>
    BY <1>1 DEF Finish
  <2>2. Observed' = Observed /\ Partitions' = Partitions /\ Nodes' = Nodes /\ Zones' = Zones
    BY Frame
  <2> QED
    BY <1>1, <2>1, <2>2 DEF Finish, SInv, SearchTypeOK, ZonesStayPopulated, BestIsReal
<1>2. CASE UNCHANGED searchVars
  <2>1. UNCHANGED <<edges, numGroups, stage, restart, assignment, groupSize, iterations, best>>
    BY <1>2 DEF searchVars
  <2>2. /\ Observed' = Observed /\ Partitions' = Partitions /\ Nodes' = Nodes /\ Zones' = Zones
        /\ InUse' = InUse
    BY Frame
  <2> QED
    BY <2>1, <2>2 DEF SInv, SearchTypeOK, ZonesStayPopulated, BestIsReal, In
<1> QED
  BY <1>1, <1>2, StartInv, MoveInv, ConvergedInv DEF SearchNext

LEMMA SearchInvariance == SearchSpec => []SInv
  BY SearchInitInv, SearchNextInv, PTL DEF SearchSpec

\* Type correctness of the search: the counters of the zones never go below zero.
THEOREM SearchTypeCorrect == SearchSpec => []SearchTypeOK
<1>1. SInv => SearchTypeOK
  BY DEF SInv
<1> QED
  BY <1>1, SearchInvariance, PTL

\* The counters of the zones are their sizes, and a zone that the first dealing gave a
\* workload keeps one, for every graph, number of zones and order of the moves
\* (placement.go:196).
THEOREM NoZoneIsEmptied == SearchSpec => []ZonesStayPopulated
<1>1. SInv => ZonesStayPopulated
  BY DEF SInv
<1> QED
  BY <1>1, SearchInvariance, PTL

\* The cost and the saving that are reported are those of the assignment reported with
\* them, from whichever restart it comes (placement.go:234-247).
THEOREM AnswersAreReal == SearchSpec => []SavingsAreReal
<1>1. SInv => SavingsAreReal
  <2> SUFFICES ASSUME SInv, stage = "done" PROVE SavingsAreReal
    BY DEF SavingsAreReal
  <2>1. best.assignment \in Partitions /\ best.cost = CutIn(edges, best.assignment)
    BY PlacementAssumption DEF SInv, BestIsReal
  <2>2. /\ CutIn(edges, best.assignment) \in Nat /\ Observed \in Nat
        /\ CutIn(edges, best.assignment) <= Observed
    BY CutIsBounded, ObservedIs DEF SInv, SearchTypeOK
  <2> QED
    BY <2>1, <2>2, CutCostIs DEF SavingsAreReal, Savings
<1> QED
  BY <1>1, SearchInvariance, PTL

-------------------------------------------------------------------------------
\* No other zone for one workload is cheaper, as long as its own keeps another.
LocallyOptimal(a) ==
  \A n \in Nodes, g \in Zones :
    Moved(a, n, g) \in Partitions => CutIn(edges, Moved(a, n, g)) >= CutIn(edges, a)

\* A zone that got no workload gets none: a move into it saves nothing.
UnusedInv == stage = "search" => \A g \in Zones \ InUse : In(assignment, g) = {}

\* What is kept is a local optimum, unless the limit may have ended its search.
KeptInv ==
  restart > 0 /\ best.iterations < MaxIterations => LocallyOptimal(best.assignment)

\* The change a move is chosen for is the change of the whole cost, and moving into a zone
\* that nothing is in saves nothing.
LEMMA DeltaIs ==
  ASSUME SInv, stage = "search", NEW n \in Nodes, NEW g \in Zones, g # assignment[n]
  PROVE  /\ CutIn(edges, Moved(assignment, n, g)) = CutIn(edges, assignment) + Delta(n, g)
         /\ Delta(n, g) \in Int
         /\ In(assignment, g) = {} => Delta(n, g) >= 0
<1>1. edges \in Graph /\ assignment \in [UNION DOMAIN edges -> Zones] /\ n \in UNION DOMAIN edges
  BY DEF SInv, SearchTypeOK, Nodes
<1>2. /\ TowardsIn(edges, assignment, n, assignment[n]) \in Nat
      /\ TowardsIn(edges, assignment, n, g) \in Nat
      /\ CutIn(edges, assignment) \in Nat
  BY <1>1, TowardsType, CutIsBounded
<1>3. Delta(n, g) = TowardsIn(edges, assignment, n, assignment[n])
                      - TowardsIn(edges, assignment, n, g)
  BY TowardsIs DEF Delta
<1>4. CutIn(edges, Moved(assignment, n, g))
        = CutIn(edges, assignment) + TowardsIn(edges, assignment, n, assignment[n])
            - TowardsIn(edges, assignment, n, g)
  BY <1>1, MoveChanges
<1>5. ASSUME In(assignment, g) = {} PROVE TowardsIn(edges, assignment, n, g) = 0
  <2> DEFINE C == {e \in DOMAIN edges : n \in e /\ \E m \in e \ {n} : assignment[m] = g}
  <2>1. \A m \in UNION DOMAIN edges : assignment[m] # g
    BY <1>1, <1>5 DEF In
  <2>2. C = {}
    BY <2>1
  <2>3. TowardsIn(edges, assignment, n, g) = SumOf(edges, C)
    BY DEF TowardsIn
  <2> HIDE DEF C
  <2> QED
    BY <2>2, <2>3, SumOfIs, FS_EmptySet
<1> QED
  BY <1>2, <1>3, <1>4, <1>5

\* Of the first dealing: a zone that is not in use has no workload.
LEMMA DealtNotInUse ==
  ASSUME NEW g \in Zones \ InUse, Cardinality(Nodes) \in Nat, numGroups \in Nat \ {0}
  PROVE  Dealt(g) = {}
<1>1. g \in 0 .. numGroups - 1 /\ g >= Cardinality(Nodes)
  BY DEF InUse, Zones, Group
<1>2. ASSUME NEW i \in 0 .. Cardinality(Nodes) - 1 PROVE i % numGroups # g
  <2>1. i \in 0 .. numGroups - 1 /\ i # g
    BY <1>1
  <2>2. i % numGroups = i
    BY <2>1, SMTT(60)
  <2> QED
    BY <2>1, <2>2
<1> QED
  BY <1>2 DEF Dealt

LEMMA StartUnused == ASSUME SInv, Start PROVE UnusedInv'
<1>1. /\ UNCHANGED <<edges, numGroups, restart, best>>
      /\ Nodes' = Nodes /\ Zones' = Zones /\ InUse' = InUse /\ Partitions' = Partitions
  BY Frame DEF Start, SearchNext
<1>2. /\ assignment' \in [Nodes -> Zones]
      /\ \A g \in Zones : Cardinality(In(assignment', g)) = Cardinality(Dealt(g))
  BY DEF Start
<1>3. ASSUME NEW g \in Zones \ InUse PROVE In(assignment', g) = {}
  <2>1. IsFiniteSet(Nodes) /\ Cardinality(Nodes) \in Nat /\ numGroups \in Nat \ {0}
    BY NodesIs DEF SInv
  <2>2. Dealt(g) = {}
    BY <2>1, DealtNotInUse
  <2>3. IsFiniteSet(In(assignment', g)) /\ Cardinality(In(assignment', g)) = 0
    BY <1>2, <2>1, <2>2, FS_Subset, FS_EmptySet DEF In
  <2> QED
    BY <2>3, FS_EmptySet
<1>4. \A g : In(assignment, g)' = In(assignment', g)
  BY DEF In
<1> QED
  BY <1>1, <1>3, <1>4 DEF UnusedInv

LEMMA MoveUnused == ASSUME SInv, UnusedInv, Move PROVE UnusedInv'
<1>1. stage = "search" /\ Zones' = Zones /\ InUse' = InUse
  BY Frame DEF Move, SearchNext
<1>2. PICK move \in Improving : assignment' = [assignment EXCEPT ![move[1]] = move[2]]
  BY DEF Move
<1> DEFINE n == move[1]
           g == move[2]
<1>3. n \in Nodes /\ g \in Zones /\ g # assignment[n] /\ Delta(n, g) < 0
  BY <1>2 DEF Improving
<1>4. assignment' = Moved(assignment, n, g)
  BY <1>2 DEF Moved
<1> HIDE DEF n, g
<1>5. Delta(n, g) \in Int /\ (In(assignment, g) = {} => Delta(n, g) >= 0)
  BY <1>1, <1>3, DeltaIs
<1>6. ASSUME NEW h \in Zones \ InUse PROVE In(assignment', h) = {}
  <2>1. In(assignment, h) = {}
    BY <1>1 DEF UnusedInv
  <2>2. h # g
    BY <1>3, <1>5, <2>1
  <2>3. assignment \in [Nodes -> Zones]
    BY <1>1 DEF SInv, SearchTypeOK
  <2> QED
    BY <1>3, <1>4, <2>1, <2>2, <2>3 DEF In, Moved
<1>7. \A h : In(assignment, h)' = In(assignment', h)
  BY DEF In
<1> QED
  BY <1>1, <1>6, <1>7 DEF UnusedInv

\* Where no move improves, no move to a partition does: a zone is kept by having two.
LEMMA NothingToImprove ==
  ASSUME SInv, UnusedInv, stage = "search", Improving = {}
  PROVE  LocallyOptimal(assignment)
<1> SUFFICES ASSUME NEW n \in Nodes, NEW g \in Zones, Moved(assignment, n, g) \in Partitions
             PROVE  CutIn(edges, Moved(assignment, n, g)) >= CutIn(edges, assignment)
  BY DEF LocallyOptimal
<1>1. /\ edges \in Graph /\ assignment \in [Nodes -> Zones]
      /\ CutIn(edges, Moved(assignment, n, g)) \in Nat /\ CutIn(edges, assignment) \in Nat
  BY CutIsBounded DEF SInv, SearchTypeOK
<1>2. CASE g = assignment[n]
  <2>1. Moved(assignment, n, g) = assignment
    BY <1>1, <1>2 DEF Moved
  <2> QED
    BY <1>1, <2>1
<1>3. CASE g # assignment[n]
  <2> DEFINE h == assignment[n]
  <2>1. h \in InUse /\ h \in Zones
    BY <1>1 DEF UnusedInv, In
  <2>2. IsFiniteSet(In(assignment, h)) /\ groupSize[h] = Cardinality(In(assignment, h))
    <3>1. IsFiniteSet(Nodes)
      BY NodesIs DEF SInv
    <3> QED
      BY <1>1, <2>1, <3>1, FS_Subset DEF SInv, ZonesStayPopulated, In
  <2>3. PICK m : m \in In(Moved(assignment, n, g), h)
    BY <2>1 DEF Partitions
  <2>4. m \in In(assignment, h) /\ n \in In(assignment, h) /\ m # n
    BY <1>1, <1>3, <2>3 DEF In, Moved
  <2>5. groupSize[h] > 1
    <3>1. /\ IsFiniteSet(In(assignment, h) \ {n}) /\ m \in In(assignment, h) \ {n}
          /\ Cardinality(In(assignment, h) \ {n}) = Cardinality(In(assignment, h)) - 1
      BY <2>2, <2>4, FS_RemoveElement
    <3>2. /\ Cardinality(In(assignment, h) \ {n}) # 0
          /\ Cardinality(In(assignment, h) \ {n}) \in Nat
      BY <3>1, FS_EmptySet, FS_CardinalityType
    <3> QED
      BY <2>2, <3>1, <3>2, FS_CardinalityType
  <2>6. ~(Delta(n, g) < 0)
    <3>1. <<n, g>> \in Nodes \X Zones /\ <<n, g>> \notin Improving
      OBVIOUS
    <3> QED
      BY <1>3, <2>5, <3>1 DEF Improving, Movable
  <2>7. /\ CutIn(edges, Moved(assignment, n, g)) = CutIn(edges, assignment) + Delta(n, g)
        /\ Delta(n, g) \in Int
    BY <1>3, DeltaIs
  <2> QED
    BY <1>1, <2>6, <2>7
<1> QED
  BY <1>2, <1>3

LEMMA UnusedNext == SInv /\ UnusedInv /\ [SearchNext]_searchVars => UnusedInv'
<1> SUFFICES ASSUME SInv, UnusedInv, [SearchNext]_searchVars PROVE UnusedInv'
  OBVIOUS
<1>1. CASE Finish \/ UNCHANGED searchVars
  <2>1. /\ UNCHANGED assignment
        /\ stage' = "search" => stage = "search"
        /\ Zones' = Zones /\ InUse' = InUse
    BY <1>1, Frame DEF Finish, searchVars
  <2> QED
    BY <2>1 DEF UnusedInv, In
<1>2. CASE Converged
  BY <1>2 DEF Converged, UnusedInv
<1> QED
  BY <1>1, <1>2, StartUnused, MoveUnused DEF SearchNext

LEMMA UnusedInvariance == SearchSpec => []UnusedInv
<1>1. SearchInit => UnusedInv
  BY DEF SearchInit, UnusedInv
<1> QED
  BY <1>1, UnusedNext, SearchInvariance, PTL DEF SearchSpec

LEMMA ConvergedLocal == ASSUME SInv, UnusedInv, KeptInv, Converged PROVE KeptInv'
<1>1. /\ UNCHANGED <<edges, numGroups>> /\ stage = "search" /\ stage' = "start"
      /\ Nodes' = Nodes /\ Zones' = Zones /\ InUse' = InUse /\ Partitions' = Partitions
      /\ iterations = MaxIterations \/ Improving = {}
  BY Frame DEF Converged, SearchNext
<1>2. iterations < MaxIterations => LocallyOptimal(assignment)
  <2>1. iterations \in Nat /\ MaxIterations \in Nat
    BY PlacementAssumption DEF SInv, SearchTypeOK
  <2> QED
    BY <1>1, <2>1, NothingToImprove
<1>3. /\ CutCost(assignment) = CutIn(edges, assignment)
      /\ CutIn(edges, assignment) \in Nat /\ CutIn(edges, assignment) <= Observed
      /\ Observed \in Nat
  BY CutCostIs, ObservedIs, CutIsBounded DEF SInv, SearchTypeOK
<1>4. \/ best'.assignment = assignment /\ best'.iterations = iterations
      \/ restart > 0 /\ best' = best
  <2>1. CASE CutCost(assignment) < best.cost
    <3>1. best' = [cost |-> CutCost(assignment), assignment |-> assignment,
                   iterations |-> iterations]
      BY <2>1 DEF Converged
    <3> QED
      BY <3>1
  <2>2. CASE ~(CutCost(assignment) < best.cost)
    <3>1. restart # 0
      BY <1>3, <2>2 DEF SInv, BestIsReal
    <3>2. best' = best /\ restart \in Nat
      BY <2>2 DEF Converged, SInv, SearchTypeOK
    <3> QED
      BY <3>1, <3>2
  <2> QED
    BY <2>1, <2>2
<1>5. best'.iterations < MaxIterations => LocallyOptimal(best'.assignment)
  BY <1>2, <1>4 DEF KeptInv
<1>6. LocallyOptimal(best.assignment)' <=> LocallyOptimal(best'.assignment)
  BY <1>1 DEF LocallyOptimal
<1> QED
  BY <1>5, <1>6 DEF KeptInv

LEMMA KeptNext == SInv /\ UnusedInv /\ KeptInv /\ [SearchNext]_searchVars => KeptInv'
<1> SUFFICES ASSUME SInv, UnusedInv, KeptInv, [SearchNext]_searchVars PROVE KeptInv'
  OBVIOUS
<1>1. CASE Start \/ Move \/ Finish \/ UNCHANGED searchVars
  <2>1. /\ UNCHANGED <<edges, restart, best>>
        /\ Nodes' = Nodes /\ Zones' = Zones /\ Partitions' = Partitions
    BY <1>1, Frame DEF Start, Move, Finish, searchVars
  <2> QED
    BY <2>1 DEF KeptInv, LocallyOptimal
<1> QED
  BY <1>1, ConvergedLocal DEF SearchNext

\* A move lowers the cost that is cut: the difference that placement.go:203-210 computes
\* from the edges of one workload is never wrong about the whole.
THEOREM MovesSave == SearchSpec => EveryMoveSaves
<1>1. ASSUME SInv, Move PROVE CutCost(assignment') < CutCost(assignment)
  <2>1. PICK move \in Improving : assignment' = [assignment EXCEPT ![move[1]] = move[2]]
    BY <1>1 DEF Move
  <2> DEFINE n == move[1]
             g == move[2]
  <2>2. n \in Nodes /\ g \in Zones /\ g # assignment[n] /\ Delta(n, g) < 0
    BY <2>1 DEF Improving
  <2>3. assignment' = Moved(assignment, n, g)
    BY <2>1 DEF Moved
  <2> HIDE DEF n, g
  <2>4. /\ CutIn(edges, assignment') = CutIn(edges, assignment) + Delta(n, g)
        /\ Delta(n, g) \in Int
    BY <1>1, <2>2, <2>3, DeltaIs DEF Move
  <2>5. CutIn(edges, assignment) \in Nat
    BY <1>1, CutIsBounded DEF SInv, SearchTypeOK
  <2>6. /\ CutCost(assignment) = CutIn(edges, assignment)
        /\ CutCost(assignment') = CutIn(edges, assignment')
    BY CutCostIs
  <2> QED
    BY <2>2, <2>4, <2>5, <2>6
<1>2. ASSUME SInv, [SearchNext]_searchVars
      PROVE  [stage = "search" /\ stage' = "search" =>
                CutCost(assignment') < CutCost(assignment)]_searchVars
  BY <1>1, <1>2 DEF SearchNext, Start, Converged, Finish
<1> QED
  BY <1>2, SearchInvariance, PTL DEF SearchSpec, EveryMoveSaves

\* A restart that the limit of iterations did not end has found a local optimum: nothing is
\* assumed about the limit (placement.go:219-221).
THEOREM SearchesConverge ==
  SearchSpec =>
    [][Converged /\ iterations < MaxIterations => LocallyOptimal(assignment)]_searchVars
<1>1. ASSUME SInv, UnusedInv, Converged, iterations < MaxIterations
      PROVE  LocallyOptimal(assignment)
  <2>1. stage = "search" /\ Improving = {}
    BY <1>1, PlacementAssumption DEF Converged, SInv, SearchTypeOK
  <2> QED
    BY <1>1, <2>1, NothingToImprove
<1>2. SInv /\ UnusedInv =>
        [Converged /\ iterations < MaxIterations => LocallyOptimal(assignment)]_searchVars
  BY <1>1
<1> QED
  BY <1>2, SearchInvariance, UnusedInvariance, PTL

\* An answer that is reported with fewer iterations than the limit is one that no single
\* move would make cheaper: the iterations reported are those of the restart whose
\* assignment is, and that restart ended because nothing improved (placement.go:219-238).
THEOREM AnswersAreLocalOptima == SearchSpec => []AnswerIsLocalOptimum
<1>1. SearchInit => KeptInv
  BY DEF SearchInit, KeptInv
<1>2. SInv /\ KeptInv => AnswerIsLocalOptimum
  <2> SUFFICES ASSUME SInv, KeptInv, stage = "done", best.iterations < MaxIterations,
                      NEW n \in Nodes, NEW g \in Zones,
                      Moved(best.assignment, n, g) \in Partitions
               PROVE  CutCost(Moved(best.assignment, n, g)) >= best.cost
    BY DEF AnswerIsLocalOptimum, Moved
  <2>1. restart > 0 /\ best.cost = CutIn(edges, best.assignment)
    BY PlacementAssumption DEF SInv, BestIsReal
  <2> QED
    BY <2>1, CutCostIs DEF KeptInv, LocallyOptimal
<1>3. SInv /\ UnusedInv /\ KeptInv /\ [SearchNext]_searchVars => KeptInv'
  BY KeptNext
<1> QED
  BY <1>1, <1>2, <1>3, SearchInvariance, UnusedInvariance, PTL DEF SearchSpec

-------------------------------------------------------------------------------
(* The chat assistant                                                       *)

\* The numbers of a kind are given out from 1, each to one name.
Numbered(f) ==
  /\ \A n \in DOMAIN f : f[n] \in 1 .. Count(n[1], f)
  /\ \A m, n \in DOMAIN f : m[1] = n[1] /\ f[m] = f[n] => m = n

\* A text in the conversation stands for what its alias was given to.
AliasInv ==
  /\ Numbered(forward)
  /\ mode = "sanitized" =>
       \A s \in shown : s[2] \in DOMAIN forward /\ s[1] = AliasOf(forward, s[2])
  /\ mode = "raw" => \A s \in shown : s[1] = s[2]

\* Message i has its answers, or is one.
Settled(i) ==
  /\ \A j \in 1 .. Calls(messages[i]) :
       i + j \in DOMAIN messages /\ messages[i + j] = <<"tool", j>>
  /\ messages[i][1] = "tool" =>
       LET j == messages[i][2] IN i > j /\ Calls(messages[i - j]) >= j

\* Message i is the last of the model, and its calls but todo of them are answered.
Pending(i) ==
  /\ messages[i][1] = "assistant" /\ todo <= messages[i][2]
  /\ Len(messages) = i + (messages[i][2] - todo)
  /\ \A j \in 1 .. messages[i][2] - todo : messages[i + j] = <<"tool", j>>
  /\ \A k \in 1 .. i - 1 : Settled(k)

ConvInv ==
  /\ pc \in {"ask", "retry"} => \A i \in DOMAIN messages : Settled(i)
  /\ pc = "tools" => \E i \in DOMAIN messages : Pending(i)

\* The counters of the result and the conversation.
CountInv ==
  /\ res.calls = Cardinality(Of("tool")) /\ res.errors <= res.calls
  /\ res.rounds = Cardinality(Of("assistant"))
                    + (IF pc \in {"ask", "tools"} \/ res.hitLimit THEN 0 ELSE 1)
  /\ res.rounds <= MaxToolRounds /\ (pc = "ask" => res.rounds < MaxToolRounds)
  /\ res.rounds <= asked /\ asked <= 2 * res.rounds
  /\ pc = "retry" => asked < 2 * res.rounds
  /\ pc \in {"ask", "retry", "tools"} => meant = {} /\ ~res.failed /\ ~res.hitLimit
  /\ res.hitLimit => res.rounds = MaxToolRounds /\ meant = {} /\ ~res.failed
  /\ res.failed => asked > res.rounds /\ meant = {}
  /\ events = <<>> \/ (pc = "done" /\ events = <<res>>)

\* A table with more names has no fewer of a kind.
LEMMA CountIs ==
  ASSUME NEW f, DOMAIN f \subseteq Name, NEW k
  PROVE  /\ IsFiniteSet(DOMAIN f) /\ Count(k, f) \in Nat
         /\ \A g : DOMAIN g \subseteq DOMAIN f => Count(k, g) <= Count(k, f)
<1>1. IsFiniteSet(Name)
  BY AssistantAssumption, FS_Product DEF Name
<1>2. IsFiniteSet(DOMAIN f) /\ IsFiniteSet({n \in DOMAIN f : n[1] = k})
  BY <1>1, FS_Subset
<1>3. ASSUME NEW g, DOMAIN g \subseteq DOMAIN f PROVE Count(k, g) <= Count(k, f)
  <2>1. {n \in DOMAIN g : n[1] = k} \subseteq {n \in DOMAIN f : n[1] = k}
    BY <1>3
  <2> QED
    BY <1>2, <2>1, FS_Subset DEF Count
<1> QED
  BY <1>2, <1>3, FS_CardinalityType DEF Count

\* Adding names keeps the numbers that were given out, and gives each to one name.
LEMMA NumberingsAre ==
  ASSUME DOMAIN forward \subseteq Name, Numbered(forward),
         NEW S \in SUBSET Name, NEW f \in Numberings(S)
  PROVE  /\ DOMAIN f = DOMAIN forward \cup S
         /\ \A n \in DOMAIN f : f[n] \in Nat
         /\ \A n \in DOMAIN forward : f[n] = forward[n]
         /\ Numbered(f)
<1> DEFINE new == S \ DOMAIN forward
<1>1. /\ f \in [DOMAIN forward \cup new -> 0 .. Cardinality(DOMAIN forward \cup new)]
      /\ \A n \in DOMAIN forward : f[n] = forward[n]
      /\ \A n \in new : f[n] \in Count(n[1], forward) + 1 .. Count(n[1], f)
      /\ \A m, n \in new : m # n /\ m[1] = n[1] => f[m] # f[n]
  BY DEF Numberings
<1>2. DOMAIN f = DOMAIN forward \cup S
  BY <1>1
<1>3. \A k : /\ Count(k, forward) \in Nat /\ Count(k, f) \in Nat
             /\ Count(k, forward) <= Count(k, f)
  BY <1>2, CountIs
<1>4. \A n \in DOMAIN forward : forward[n] \in 1 .. Count(n[1], forward)
  BY DEF Numbered
<1>5. \A n \in DOMAIN f : f[n] \in 1 .. Count(n[1], f)
  <2> SUFFICES ASSUME NEW n \in DOMAIN f PROVE f[n] \in 1 .. Count(n[1], f)
    OBVIOUS
  <2>1. CASE n \in DOMAIN forward
    BY <1>1, <1>3, <1>4, <2>1
  <2>2. CASE n \in new
    BY <1>1, <1>3, <2>2
  <2> QED
    BY <1>2, <2>1, <2>2
<1>6. ASSUME NEW m \in DOMAIN f, NEW n \in DOMAIN f, m[1] = n[1], f[m] = f[n]
      PROVE  m = n
  <2>1. \A a \in DOMAIN forward, b \in new : a[1] = b[1] => f[a] # f[b]
    <3> SUFFICES ASSUME NEW a \in DOMAIN forward, NEW b \in new, a[1] = b[1] PROVE f[a] # f[b]
      OBVIOUS
    <3>1. /\ f[a] \in 1 .. Count(a[1], forward)
          /\ f[b] \in Count(a[1], forward) + 1 .. Count(a[1], f)
      BY <1>1, <1>4
    <3> QED
      BY <1>3, <3>1
  <2>2. CASE m \in DOMAIN forward /\ n \in DOMAIN forward
    BY <1>1, <1>6, <2>2 DEF Numbered
  <2>3. CASE m \in new /\ n \in new
    BY <1>1, <1>6, <2>3
  <2> QED
    BY <1>2, <1>6, <2>1, <2>2, <2>3
<1>7. \A n \in DOMAIN f : f[n] \in Nat
  BY <1>3, <1>5
<1> HIDE DEF new
<1> QED
  BY <1>1, <1>2, <1>5, <1>6, <1>7 DEF Numbered

\* What was hidden behind an alias comes back.
LEMMA RestoredIs ==
  ASSUME Numbered(forward)
  PROVE  \A n \in DOMAIN forward : mode = "sanitized" => Restored(AliasOf(forward, n)) = n
<1> SUFFICES ASSUME NEW n \in DOMAIN forward, mode = "sanitized"
             PROVE  Restored(AliasOf(forward, n)) = n
  OBVIOUS
<1>1. \A m \in DOMAIN forward : AliasOf(forward, m) = AliasOf(forward, n) => m = n
  BY DEF AliasOf, Numbered
<1> QED
  BY <1>1 DEF Restored

\* A word is restored to a word.
LEMMA RestoredType ==
  ASSUME ChatTypeOK, NEW t \in Name \cup Alias
  PROVE  Restored(t) \in Name \cup Alias
<1>1. CASE mode = "sanitized" /\ \E n \in DOMAIN forward : AliasOf(forward, n) = t
  <2>1. Restored(t) \in DOMAIN forward
    BY <1>1 DEF Restored
  <2> QED
    BY <2>1 DEF ChatTypeOK
<1>2. CASE ~(mode = "sanitized" /\ \E n \in DOMAIN forward : AliasOf(forward, n) = t)
  BY <1>2 DEF Restored
<1> QED
  BY <1>1, <1>2

\* The number of an answer is that of the call it is for.
LEMMA AnsweredIs ==
  ASSUME ChatTypeOK, NEW i \in DOMAIN messages, Pending(i), todo > 0
  PROVE  /\ messages[i][2] - todo + 1 \in Nat
         /\ Answered = Append(messages, <<"tool", messages[i][2] - todo + 1>>)
<1> DEFINE n == messages[i][2]
<1>1. /\ n \in Nat /\ todo \in Nat /\ todo <= n /\ i \in 1 .. Len(messages)
      /\ Len(messages) = i + (n - todo) /\ messages[i] = <<"assistant", n>>
      /\ \A j \in 1 .. n - todo : messages[i + j] = <<"tool", j>>
  <2>1. messages[i] \in {"assistant", "tool"} \X Nat /\ i \in 1 .. Len(messages)
    BY DEF ChatTypeOK
  <2>2. messages[i][1] = "assistant"
    BY DEF Pending
  <2>3. messages[i] = <<"assistant", n>> /\ n \in Nat
    BY <2>1, <2>2
  <2> QED
    BY <2>1, <2>3 DEF Pending, ChatTypeOK
<1> HIDE DEF n
<1>2. CASE n = todo
  <2>1. Last = <<"assistant", n>>
    BY <1>1, <1>2 DEF Last
  <2> QED
    BY <1>1, <1>2, <2>1 DEF Answered, n
<1>3. CASE n # todo
  <2>1. n - todo \in 1 .. n - todo
    BY <1>1, <1>3
  <2>2. Last = <<"tool", n - todo>>
    BY <1>1, <2>1 DEF Last
  <2>3. Last[1] # "assistant" /\ Last[2] = n - todo
    BY <2>2
  <2> QED
    BY <1>1, <2>3 DEF Answered, n
<1> QED
  BY <1>2, <1>3

LEMMA AnsweredType ==
  ASSUME ChatTypeOK, ConvInv, pc = "tools", todo > 0
  PROVE  Answered \in Seq({"assistant", "tool"} \X Nat)
<1>1. PICK i \in DOMAIN messages : Pending(i)
  BY DEF ConvInv
<1>2. messages \in Seq({"assistant", "tool"} \X Nat)
  BY DEF ChatTypeOK
<1>3. PICK k \in Nat : Answered = Append(messages, <<"tool", k>>)
  BY <1>1, AnsweredIs
<1> QED
  BY <1>2, <1>3

\* A result with some of its fields changed is one.
LEMMA ResultWith ==
  ASSUME NEW r \in Result, NEW x \in Nat, NEW y \in Nat, NEW b \in BOOLEAN,
         NEW T \in SUBSET (Name \cup Alias)
  PROVE  /\ [r EXCEPT !.rounds = x] \in Result
         /\ [r EXCEPT !.rounds = x, !.failed = b] \in Result
         /\ [r EXCEPT !.rounds = x, !.reply = T] \in Result
         /\ [r EXCEPT !.calls = x] \in Result
         /\ [r EXCEPT !.calls = x, !.errors = y] \in Result
         /\ [r EXCEPT !.hitLimit = b] \in Result
  BY DEF Result

LEMMA ChatTypeStep ==
  ASSUME ChatTypeOK, AliasInv, ConvInv, [ChatNext]_chatVars
  PROVE  ChatTypeOK'
<1>0. /\ res \in Result /\ messages \in Seq({"assistant", "tool"} \X Nat)
      /\ Rounds \in Nat /\ res.calls + 1 \in Nat /\ res.errors + 1 \in Nat
  BY DEF ChatTypeOK, Rounds, Result
<1>1. CASE AskFails
  <2>1. res' \in Result
    BY <1>0, <1>1, ResultWith DEF AskFails
  <2> QED
    BY <1>1, <2>1 DEF AskFails, ChatTypeOK
<1>2. CASE AskForTools
  <2>1. res' \in Result
    BY <1>0, <1>2, ResultWith DEF AskForTools
  <2>2. PICK n \in 1 .. MaxCalls : messages' = Append(messages, <<"assistant", n>>) /\ todo' = n
    BY <1>2 DEF AskForTools
  <2>3. n \in Nat
    BY AssistantAssumption
  <2>4. messages' \in Seq({"assistant", "tool"} \X Nat)
    BY <1>0, <2>2, <2>3
  <2> QED
    BY <1>2, <2>1, <2>2, <2>3, <2>4 DEF AskForTools, ChatTypeOK
<1>3. CASE Answers
  <2>1. PICK S \in SUBSET shown :
          /\ meant' = {s[2] : s \in S}
          /\ res' = [res EXCEPT !.rounds = Rounds, !.reply = {Restored(s[1]) : s \in S}]
    BY <1>3 DEF Answers
  <2>2. \A s \in S : s[1] \in Name \cup Alias /\ s[2] \in Name
    BY DEF ChatTypeOK
  <2>3. {Restored(s[1]) : s \in S} \subseteq Name \cup Alias
    BY <2>2, RestoredType
  <2>4. res' \in Result
    BY <1>0, <2>1, <2>3, ResultWith
  <2>5. meant' \subseteq Name
    BY <2>1, <2>2
  <2> QED
    BY <1>3, <2>4, <2>5 DEF Answers, ChatTypeOK
<1>4. CASE ToolAnswers
  <2>1. PICK S \in SUBSET Name :
          IF mode = "sanitized"
          THEN \E f \in Numberings(S) :
                 /\ forward' = f
                 /\ shown' = shown \cup {<<AliasOf(f, n), n>> : n \in S}
          ELSE /\ shown' = shown \cup {<<n, n>> : n \in S}
               /\ UNCHANGED forward
    BY <1>4 DEF ToolAnswers
  <2>2. /\ DOMAIN forward' \subseteq Name /\ \A n \in DOMAIN forward' : forward'[n] \in Nat
        /\ shown' \subseteq (Name \cup Alias) \X Name
    <3>1. CASE mode = "sanitized"
      <4>1. PICK f \in Numberings(S) :
              forward' = f /\ shown' = shown \cup {<<AliasOf(f, n), n>> : n \in S}
        BY <2>1, <3>1
      <4>2. DOMAIN f = DOMAIN forward \cup S /\ \A n \in DOMAIN f : f[n] \in Nat
        BY NumberingsAre DEF AliasInv, ChatTypeOK
      <4>3. \A n \in S : AliasOf(f, n) \in Alias
        BY <4>2 DEF AliasOf, Name, Alias
      <4> QED
        BY <4>1, <4>2, <4>3 DEF ChatTypeOK
    <3>2. CASE mode # "sanitized"
      BY <2>1, <3>2 DEF ChatTypeOK
    <3> QED
      BY <3>1, <3>2
  <2>3. res' \in Result
    BY <1>0, <1>4, ResultWith DEF ToolAnswers
  <2>4. messages' \in Seq({"assistant", "tool"} \X Nat) /\ todo' \in Nat
    BY <1>4, AnsweredType DEF ToolAnswers, ChatTypeOK
  <2> QED
    BY <1>4, <2>2, <2>3, <2>4 DEF ToolAnswers, ChatTypeOK
<1>5. CASE ToolFails
  <2>1. res' \in Result
    BY <1>0, <1>5, ResultWith DEF ToolFails
  <2>2. messages' \in Seq({"assistant", "tool"} \X Nat) /\ todo' \in Nat
    BY <1>5, AnsweredType DEF ToolFails, ChatTypeOK
  <2> QED
    BY <1>5, <2>1, <2>2 DEF ToolFails, ChatTypeOK
<1>6. CASE ToolsDone
  <2>1. res' \in Result
    BY <1>0, <1>6, ResultWith DEF ToolsDone
  <2> QED
    BY <1>6, <2>1 DEF ToolsDone, ChatTypeOK
<1>7. CASE Record
  <2>1. events \in Seq(Result) /\ (events' = Append(events, res) \/ events' = events)
    BY <1>7 DEF Record, ChatTypeOK
  <2>2. events' \in Seq(Result)
    BY <1>0, <2>1
  <2> QED
    BY <1>7, <2>2 DEF Record, ChatTypeOK
<1>8. CASE UNCHANGED chatVars
  BY <1>8 DEF chatVars, ChatTypeOK
<1> QED
  BY <1>1, <1>2, <1>3, <1>4, <1>5, <1>6, <1>7, <1>8 DEF ChatNext

LEMMA AliasStep ==
  ASSUME ChatTypeOK, AliasInv, AnswerIsMeant, CountInv, [ChatNext]_chatVars
  PROVE  AliasInv' /\ AnswerIsMeant'
<1>0. res \in Result
  BY DEF ChatTypeOK
<1>1. CASE Answers
  <2>1. PICK S \in SUBSET shown :
          /\ meant' = {s[2] : s \in S}
          /\ res' = [res EXCEPT !.rounds = Rounds, !.reply = {Restored(s[1]) : s \in S}]
    BY <1>1 DEF Answers
  <2>2. \A s \in S : Restored(s[1]) = s[2]
    <3>1. CASE mode = "sanitized"
      BY <3>1, RestoredIs DEF AliasInv
    <3>2. CASE mode = "raw"
      BY <3>2 DEF AliasInv, Restored
    <3> QED
      BY <3>1, <3>2, AssistantAssumption DEF ChatTypeOK
  <2>3. {Restored(s[1]) : s \in S} = {s[2] : s \in S}
    BY <2>2
  <2>4. res'.reply = {Restored(s[1]) : s \in S}
    BY <1>0, <2>1 DEF Result
  <2>5. UNCHANGED <<mode, forward, shown>>
    BY <1>1 DEF Answers
  <2> QED
    BY <2>1, <2>3, <2>4, <2>5 DEF AnswerIsMeant, AliasInv
<1>2. CASE ToolAnswers
  <2>1. PICK S \in SUBSET Name :
          IF mode = "sanitized"
          THEN \E f \in Numberings(S) :
                 /\ forward' = f
                 /\ shown' = shown \cup {<<AliasOf(f, n), n>> : n \in S}
          ELSE /\ shown' = shown \cup {<<n, n>> : n \in S}
               /\ UNCHANGED forward
    BY <1>2 DEF ToolAnswers
  <2>2. ASSUME mode = "sanitized" PROVE AliasInv'
    <3>1. PICK f \in Numberings(S) :
            forward' = f /\ shown' = shown \cup {<<AliasOf(f, n), n>> : n \in S}
      BY <2>1, <2>2
    <3>2. /\ DOMAIN f = DOMAIN forward \cup S
          /\ \A n \in DOMAIN forward : f[n] = forward[n]
          /\ Numbered(f)
      BY NumberingsAre DEF AliasInv, ChatTypeOK
    <3>3. \A s \in shown' : s[2] \in DOMAIN f /\ s[1] = AliasOf(f, s[2])
      <4>1. \A s \in shown : s[2] \in DOMAIN f /\ s[1] = AliasOf(f, s[2])
        BY <2>2, <3>2 DEF AliasInv, AliasOf
      <4> QED
        BY <3>1, <3>2, <4>1
    <3>4. mode' = mode
      BY <1>2 DEF ToolAnswers
    <3>5. Numbered(forward)'
      BY <3>1, <3>2 DEF Numbered, Count
    <3>6. (\A s \in shown : s[2] \in DOMAIN forward /\ s[1] = AliasOf(forward, s[2]))'
      BY <3>1, <3>3 DEF AliasOf
    <3>7. (mode # "raw")'
      BY <2>2, <3>4
    <3> QED
      BY <3>5, <3>6, <3>7 DEF AliasInv
  <2>3. ASSUME mode # "sanitized" PROVE AliasInv'
    <3>1. /\ UNCHANGED <<mode, forward>> /\ shown' = shown \cup {<<n, n>> : n \in S}
          /\ mode = "raw"
      BY <1>2, <2>1, <2>3, AssistantAssumption DEF ToolAnswers, ChatTypeOK
    <3>2. Numbered(forward)'
      BY <3>1 DEF AliasInv, Numbered, Count
    <3>3. (\A s \in shown : s[1] = s[2])'
      BY <3>1 DEF AliasInv
    <3>4. (mode # "sanitized")'
      BY <3>1
    <3> QED
      BY <3>2, <3>3, <3>4 DEF AliasInv
  <2>4. AnswerIsMeant'
    BY <1>0, <1>2 DEF ToolAnswers, AnswerIsMeant, Result
  <2> QED
    BY <2>2, <2>3, <2>4
<1>3. CASE AskFails \/ AskForTools \/ ToolFails \/ ToolsDone \/ Record \/ UNCHANGED chatVars
  <2>1. UNCHANGED <<mode, forward, shown, meant>>
    BY <1>3 DEF AskFails, AskForTools, ToolFails, ToolsDone, Record, chatVars
  <2>2. res'.reply = res.reply
    BY <1>0, <1>3 DEF AskFails, AskForTools, ToolFails, ToolsDone, Record, chatVars, Result
  <2> QED
    BY <2>1, <2>2 DEF AliasInv, AnswerIsMeant
<1> QED
  BY <1>1, <1>2, <1>3 DEF ChatNext

\* Messages that are there stay as they are, and so does what was settled.
LEMMA SettledStays ==
  ASSUME NEW c \in {"assistant", "tool"} \X Nat, ChatTypeOK, messages' = Append(messages, c)
  PROVE  /\ Len(messages') = Len(messages) + 1 /\ messages'[Len(messages) + 1] = c
         /\ \A k \in DOMAIN messages : messages'[k] = messages[k]
         /\ DOMAIN messages' = 1 .. Len(messages) + 1 /\ DOMAIN messages = 1 .. Len(messages)
         /\ \A i \in DOMAIN messages : Settled(i) => Settled(i)'
<1>1. messages \in Seq({"assistant", "tool"} \X Nat) /\ Len(messages) \in Nat
  BY DEF ChatTypeOK
<1>2. /\ Len(messages') = Len(messages) + 1 /\ messages'[Len(messages) + 1] = c
      /\ \A k \in DOMAIN messages : messages'[k] = messages[k]
      /\ DOMAIN messages' = 1 .. Len(messages) + 1 /\ DOMAIN messages = 1 .. Len(messages)
  BY <1>1
<1>3. ASSUME NEW i \in DOMAIN messages, Settled(i) PROVE Settled(i)'
  <2>1. messages'[i] = messages[i] /\ DOMAIN messages \subseteq DOMAIN messages'
    BY <1>1, <1>2
  <2>2. \A j \in 1 .. Calls(messages[i]) :
          i + j \in DOMAIN messages' /\ messages'[i + j] = <<"tool", j>>
    BY <1>2, <1>3, <2>1 DEF Settled
  <2>3. ASSUME messages[i][1] = "tool"
        PROVE  i > messages[i][2] /\ Calls(messages'[i - messages[i][2]]) >= messages[i][2]
    <3> DEFINE j == messages[i][2]
    <3>1. i > j /\ Calls(messages[i - j]) >= j
      BY <1>3, <2>3 DEF Settled
    <3>2. j \in Nat
      BY <1>1
    <3>3. i - j \in DOMAIN messages
      BY <1>1, <1>2, <3>1, <3>2
    <3> QED
      BY <1>2, <3>1, <3>3
  <2> QED
    BY <2>1, <2>2, <2>3 DEF Settled, Calls
<1> QED
  BY <1>2, <1>3

\* One more call is answered.
LEMMA AnswerStep ==
  ASSUME ChatTypeOK, NEW i \in DOMAIN messages, Pending(i), todo > 0,
         messages' = Answered, todo' = todo - 1
  PROVE  i \in DOMAIN messages' /\ Pending(i)'
<1> DEFINE n == messages[i][2]
           c == <<"tool", n - todo + 1>>
<1>1. /\ n \in Nat /\ todo \in Nat /\ i \in 1 .. Len(messages) /\ Len(messages) \in Nat
      /\ n - todo + 1 \in Nat /\ messages' = Append(messages, c)
  <2>1. messages[i] \in {"assistant", "tool"} \X Nat
    BY DEF ChatTypeOK
  <2> QED
    BY <2>1, AnsweredIs DEF ChatTypeOK
<1>2. /\ messages[i][1] = "assistant" /\ todo <= n
      /\ Len(messages) = i + (n - todo)
      /\ \A j \in 1 .. n - todo : messages[i + j] = <<"tool", j>>
      /\ \A k \in 1 .. i - 1 : Settled(k)
  BY DEF Pending
<1>3. c \in {"assistant", "tool"} \X Nat
  BY <1>1
<1> HIDE DEF n, c
<1>4. /\ Len(messages') = Len(messages) + 1 /\ messages'[Len(messages) + 1] = c
      /\ \A k \in DOMAIN messages : messages'[k] = messages[k]
      /\ DOMAIN messages' = 1 .. Len(messages) + 1 /\ DOMAIN messages = 1 .. Len(messages)
      /\ \A k \in DOMAIN messages : Settled(k) => Settled(k)'
  BY <1>1, <1>3, SettledStays
<1>5. messages'[i] = messages[i] /\ messages'[i][2] = n
  BY <1>4 DEF n
<1>6. Len(messages') = i + (n - todo')
  BY <1>1, <1>2, <1>4
<1>7. \A j \in 1 .. n - todo' : messages'[i + j] = <<"tool", j>>
  <2> SUFFICES ASSUME NEW j \in 1 .. n - todo' PROVE messages'[i + j] = <<"tool", j>>
    OBVIOUS
  <2>1. CASE j = n - todo + 1
    <3>1. i + j = Len(messages) + 1
      BY <1>1, <1>2, <2>1
    <3> QED
      BY <1>4, <2>1, <3>1 DEF c
  <2>2. CASE j # n - todo + 1
    <3>1. j \in 1 .. n - todo /\ i + j \in 1 .. Len(messages)
      BY <1>1, <1>2, <2>2
    <3> QED
      BY <1>2, <1>4, <3>1
  <2> QED
    BY <2>1, <2>2
<1>8. \A k \in 1 .. i - 1 : Settled(k)'
  <2> SUFFICES ASSUME NEW k \in 1 .. i - 1 PROVE Settled(k)'
    OBVIOUS
  <2>1. k \in DOMAIN messages
    BY <1>1, <1>4
  <2> QED
    BY <1>2, <1>4, <2>1
<1>9. i \in DOMAIN messages' /\ todo' <= n
  BY <1>1, <1>2, <1>4
<1> QED
  BY <1>2, <1>5, <1>6, <1>7, <1>8, <1>9 DEF Pending

\* When all calls are answered, the conversation is in order.
LEMMA AllAnswered ==
  ASSUME ChatTypeOK, NEW i \in DOMAIN messages, Pending(i), todo = 0
  PROVE  \A k \in DOMAIN messages : Settled(k)
<1> DEFINE n == messages[i][2]
<1>1. n \in Nat /\ i \in 1 .. Len(messages) /\ Len(messages) \in Nat
  <2>1. messages[i] \in {"assistant", "tool"} \X Nat
    BY DEF ChatTypeOK
  <2> QED
    BY <2>1 DEF ChatTypeOK
<1>2. /\ messages[i][1] = "assistant" /\ Len(messages) = i + n
      /\ \A j \in 1 .. n : messages[i + j] = <<"tool", j>>
      /\ \A k \in 1 .. i - 1 : Settled(k)
  <2>1. n - todo = n
    BY <1>1
  <2> QED
    BY <2>1 DEF Pending
<1>3. DOMAIN messages = 1 .. Len(messages)
  BY DEF ChatTypeOK
<1>4. Calls(messages[i]) = n
  BY <1>2 DEF Calls
<1>5. Settled(i)
  <2>1. messages[i][1] # "tool"
    BY <1>2
  <2> HIDE DEF n
  <2>2. \A j \in 1 .. n : i + j \in DOMAIN messages
    BY <1>1, <1>2, <1>3
  <2> QED
    BY <1>2, <1>4, <2>1, <2>2 DEF Settled
<1>6. ASSUME NEW k \in i + 1 .. i + n PROVE Settled(k)
  <2> HIDE DEF n
  <2>1. k - i \in 1 .. n /\ i + (k - i) = k /\ k - (k - i) = i
    BY <1>1
  <2>2. messages[k] = <<"tool", k - i>>
    BY <1>2, <2>1
  <2>3. Calls(messages[k]) = 0 /\ messages[k][2] = k - i
    BY <2>2 DEF Calls
  <2>4. Calls(messages[k - (k - i)]) = n
    BY <1>4, <2>1
  <2>5. k > k - i /\ n >= k - i
    BY <1>1, <2>1
  <2> QED
    BY <2>3, <2>4, <2>5 DEF Settled
<1> HIDE DEF n
<1> QED
  BY <1>1, <1>2, <1>3, <1>5, <1>6

LEMMA ConvStep ==
  ASSUME ChatTypeOK, ConvInv, [ChatNext]_chatVars
  PROVE  ConvInv'
<1>1. CASE AskForTools
  <2>1. PICK n \in 1 .. MaxCalls : messages' = Append(messages, <<"assistant", n>>) /\ todo' = n
    BY <1>1 DEF AskForTools
  <2>0. PICK i \in Nat : i = Len(messages) + 1
    BY DEF ChatTypeOK
  <2> DEFINE c == <<"assistant", n>>
  <2>2. n \in Nat /\ c \in {"assistant", "tool"} \X Nat /\ i # 0
    BY <2>0, AssistantAssumption DEF ChatTypeOK
  <2>3. /\ Len(messages') = i /\ messages'[i] = c
        /\ DOMAIN messages' = 1 .. i /\ DOMAIN messages = 1 .. i - 1
        /\ \A k \in DOMAIN messages : Settled(k) => Settled(k)'
    <3> HIDE DEF c
    <3>1. messages' = Append(messages, c)
      BY <2>1 DEF c
    <3>2. Len(messages) \in Nat
      BY DEF ChatTypeOK
    <3> QED
      BY <2>0, <2>2, <3>1, <3>2, SettledStays
  <2>4. \A k \in 1 .. i - 1 : Settled(k)'
    BY <1>1, <2>3 DEF ConvInv, AskForTools
  <2>5. messages'[i][1] = "assistant" /\ messages'[i][2] = n
    BY <2>3
  <2> HIDE DEF c
  <2>6. i \in DOMAIN messages' /\ Pending(i)'
    <3>1. i \in DOMAIN messages' /\ n - todo' = 0 /\ i + 0 = i /\ todo' <= n
      BY <2>1, <2>2, <2>3
    <3>2. 1 .. 0 = {}
      OBVIOUS
    <3> QED
      BY <2>3, <2>4, <2>5, <3>1, <3>2 DEF Pending
  <2>7. pc' = "tools"
    BY <1>1 DEF AskForTools
  <2> QED
    BY <2>6, <2>7 DEF ConvInv
<1>2. CASE ToolAnswers \/ ToolFails
  <2>1. /\ pc = "tools" /\ pc' = pc /\ todo > 0 /\ messages' = Answered /\ todo' = todo - 1
    BY <1>2 DEF ToolAnswers, ToolFails
  <2>2. PICK i \in DOMAIN messages : Pending(i)
    BY <2>1 DEF ConvInv
  <2>3. i \in DOMAIN messages' /\ Pending(i)'
    BY <2>1, <2>2, AnswerStep
  <2> QED
    BY <2>1, <2>3 DEF ConvInv
<1>3. CASE ToolsDone
  <2>1. pc = "tools" /\ pc' \in {"ask", "record"} /\ todo = 0 /\ messages' = messages
    BY <1>3 DEF ToolsDone
  <2>2. PICK i \in DOMAIN messages : Pending(i)
    BY <2>1 DEF ConvInv
  <2>3. \A k \in DOMAIN messages : Settled(k)
    BY <2>1, <2>2, AllAnswered
  <2>4. (\A k \in DOMAIN messages : Settled(k))'
    BY <2>1, <2>3 DEF Settled, Calls
  <2> QED
    BY <2>1, <2>4 DEF ConvInv
<1>4. CASE AskFails
  <2>1. pc \in {"ask", "retry"} /\ pc' \in {"retry", "record"} /\ messages' = messages
    BY <1>4 DEF AskFails
  <2>2. (\A k \in DOMAIN messages : Settled(k))'
    BY <2>1 DEF ConvInv, Settled, Calls
  <2> QED
    BY <2>1, <2>2 DEF ConvInv
<1>5. CASE Answers \/ Record
  BY <1>5 DEF Answers, Record, ConvInv
<1>6. CASE UNCHANGED chatVars
  BY <1>6 DEF chatVars, ConvInv, Settled, Pending, Calls
<1> QED
  BY <1>1, <1>2, <1>3, <1>4, <1>5, <1>6 DEF ChatNext

\* A message more is one of its role.
LEMMA OfIs ==
  ASSUME ChatTypeOK
  PROVE  /\ \A r : IsFiniteSet(Of(r)) /\ Cardinality(Of(r)) \in Nat
         /\ \A c \in {"assistant", "tool"} \X Nat : messages' = Append(messages, c) =>
              \A r : Cardinality(Of(r)') = Cardinality(Of(r)) + (IF c[1] = r THEN 1 ELSE 0)
<1>1. DOMAIN messages = 1 .. Len(messages) /\ Len(messages) \in Nat
  BY DEF ChatTypeOK
<1>2. ASSUME NEW r PROVE IsFiniteSet(Of(r)) /\ Cardinality(Of(r)) \in Nat
  <2>1. IsFiniteSet(DOMAIN messages)
    BY <1>1, FS_Interval
  <2> QED
    BY <2>1, FS_Subset, FS_CardinalityType DEF Of
<1>3. ASSUME NEW c \in {"assistant", "tool"} \X Nat, messages' = Append(messages, c), NEW r
      PROVE  Cardinality(Of(r)') = Cardinality(Of(r)) + (IF c[1] = r THEN 1 ELSE 0)
  <2> DEFINE k == Len(messages) + 1
  <2>1. /\ messages'[k] = c /\ \A i \in DOMAIN messages : messages'[i] = messages[i]
        /\ DOMAIN messages' = 1 .. k
    BY <1>3, SettledStays
  <2>2. DOMAIN messages' = DOMAIN messages \cup {k} /\ k \notin DOMAIN messages
    BY <1>1, <2>1
  <2> HIDE DEF k
  <2>3. CASE c[1] = r
    <3>1. Of(r)' = Of(r) \cup {k} /\ k \notin Of(r)
      BY <2>1, <2>2, <2>3 DEF Of
    <3> QED
      BY <1>2, <2>3, <3>1, FS_AddElement
  <2>4. CASE c[1] # r
    <3>1. Of(r)' = Of(r)
      BY <2>1, <2>2, <2>4 DEF Of
    <3> QED
      BY <1>2, <2>4, <3>1
  <2> QED
    BY <2>3, <2>4
<1> QED
  BY <1>2, <1>3

LEMMA CountStep ==
  ASSUME ChatTypeOK, ConvInv, CountInv, [ChatNext]_chatVars
  PROVE  CountInv'
<1> DEFINE a == Cardinality(Of("assistant"))
           t == Cardinality(Of("tool"))
<1>1. /\ res \in Result /\ asked \in Nat /\ MaxToolRounds \in Nat \ {0}
      /\ res.rounds \in Nat /\ res.calls \in Nat /\ res.errors \in Nat
      /\ res.hitLimit \in BOOLEAN /\ res.failed \in BOOLEAN
  BY AssistantAssumption DEF ChatTypeOK, Result
<1>2. a \in Nat /\ t \in Nat
  BY OfIs
<1> HIDE DEF a, t
<1>3. CountInv <=>
        /\ res.calls = t /\ res.errors <= res.calls
        /\ res.rounds = a + (IF pc \in {"ask", "tools"} \/ res.hitLimit THEN 0 ELSE 1)
        /\ res.rounds <= MaxToolRounds /\ (pc = "ask" => res.rounds < MaxToolRounds)
        /\ res.rounds <= asked /\ asked <= 2 * res.rounds
        /\ pc = "retry" => asked < 2 * res.rounds
        /\ pc \in {"ask", "retry", "tools"} => meant = {} /\ ~res.failed /\ ~res.hitLimit
        /\ res.hitLimit => res.rounds = MaxToolRounds /\ meant = {} /\ ~res.failed
        /\ res.failed => asked > res.rounds /\ meant = {}
        /\ events = <<>> \/ (pc = "done" /\ events = <<res>>)
  BY DEF CountInv, a, t
<1>4. ASSUME messages' = messages PROVE a' = a /\ t' = t
  BY <1>4 DEF Of, a, t
<1>5. CASE AskFails
  <2>1. /\ pc \in {"ask", "retry"} /\ pc' = (IF pc = "ask" THEN "retry" ELSE "record")
        /\ asked' = asked + 1 /\ UNCHANGED <<meant, events>> /\ a' = a /\ t' = t
    BY <1>4, <1>5 DEF AskFails
  <2>2. /\ res'.rounds = Rounds /\ res'.failed = (pc = "retry")
        /\ res'.calls = res.calls /\ res'.errors = res.errors /\ res'.hitLimit = res.hitLimit
    BY <1>1, <1>5 DEF AskFails, Result
  <2>3. CASE pc = "ask"
    <3>1. res'.rounds = res.rounds + 1 /\ ~res'.failed /\ pc' = "retry"
      BY <2>1, <2>2, <2>3 DEF Rounds
    <3> QED
      BY <1>1, <1>2, <1>3, <2>1, <2>2, <2>3, <3>1 DEF CountInv, a, t
  <2>4. CASE pc = "retry"
    <3>1. res'.rounds = res.rounds /\ res'.failed /\ pc' = "record"
      BY <2>1, <2>2, <2>4 DEF Rounds
    <3> QED
      BY <1>1, <1>2, <1>3, <2>1, <2>2, <2>4, <3>1 DEF CountInv, a, t
  <2> QED
    BY <2>1, <2>3, <2>4
<1>6. CASE AskForTools
  <2>1. PICK n \in 1 .. MaxCalls : messages' = Append(messages, <<"assistant", n>>)
    BY <1>6 DEF AskForTools
  <2>2. <<"assistant", n>> \in {"assistant", "tool"} \X Nat
    BY AssistantAssumption
  <2>3. a' = a + 1 /\ t' = t
    BY <1>2, <2>1, <2>2, OfIs DEF a, t
  <2>4. /\ pc \in {"ask", "retry"} /\ pc' = "tools"
        /\ asked' = asked + 1 /\ UNCHANGED <<meant, events>>
    BY <1>6 DEF AskForTools
  <2>5. /\ res'.rounds = Rounds /\ res'.failed = res.failed
        /\ res'.calls = res.calls /\ res'.errors = res.errors /\ res'.hitLimit = res.hitLimit
    BY <1>1, <1>6 DEF AskForTools, Result
  <2>6. CASE pc = "ask"
    <3>1. res'.rounds = res.rounds + 1
      BY <2>5, <2>6 DEF Rounds
    <3> QED
      BY <1>1, <1>2, <1>3, <2>3, <2>4, <2>5, <2>6, <3>1 DEF CountInv, a, t
  <2>7. CASE pc = "retry"
    <3>1. res'.rounds = res.rounds
      BY <2>5, <2>7 DEF Rounds
    <3> QED
      BY <1>1, <1>2, <1>3, <2>3, <2>4, <2>5, <2>7, <3>1 DEF CountInv, a, t
  <2> QED
    BY <2>4, <2>6, <2>7
<1>7. CASE Answers
  <2>1. /\ pc \in {"ask", "retry"} /\ pc' = "record"
        /\ asked' = asked + 1 /\ UNCHANGED events /\ a' = a /\ t' = t
    BY <1>4, <1>7 DEF Answers
  <2>2. /\ res'.rounds = Rounds /\ res'.failed = res.failed
        /\ res'.calls = res.calls /\ res'.errors = res.errors /\ res'.hitLimit = res.hitLimit
    BY <1>1, <1>7 DEF Answers, Result
  <2>3. CASE pc = "ask"
    <3>1. res'.rounds = res.rounds + 1
      BY <2>2, <2>3 DEF Rounds
    <3> QED
      BY <1>1, <1>2, <1>3, <2>1, <2>2, <2>3, <3>1 DEF CountInv, a, t
  <2>4. CASE pc = "retry"
    <3>1. res'.rounds = res.rounds
      BY <2>2, <2>4 DEF Rounds
    <3> QED
      BY <1>1, <1>2, <1>3, <2>1, <2>2, <2>4, <3>1 DEF CountInv, a, t
  <2> QED
    BY <2>1, <2>3, <2>4
<1>8. CASE ToolAnswers \/ ToolFails
  <2>1. /\ pc = "tools" /\ pc' = pc /\ todo > 0 /\ messages' = Answered
        /\ UNCHANGED <<asked, meant, events>>
    BY <1>8 DEF ToolAnswers, ToolFails
  <2>2. PICK i \in DOMAIN messages : Pending(i)
    BY <2>1 DEF ConvInv
  <2>3. PICK k \in Nat : messages' = Append(messages, <<"tool", k>>)
    BY <2>1, <2>2, AnsweredIs
  <2>4. a' = a /\ t' = t + 1
    <3>1. <<"tool", k>> \in {"assistant", "tool"} \X Nat
      OBVIOUS
    <3>2. \A r : Cardinality(Of(r)') = Cardinality(Of(r)) + (IF "tool" = r THEN 1 ELSE 0)
      BY <2>3, <3>1, OfIs
    <3> QED
      BY <1>2, <3>2 DEF a, t
  <2>5. /\ res'.rounds = res.rounds /\ res'.failed = res.failed
        /\ res'.hitLimit = res.hitLimit /\ res'.calls = res.calls + 1
        /\ res'.errors = res.errors \/ res'.errors = res.errors + 1
    BY <1>1, <1>8 DEF ToolAnswers, ToolFails, Result
  <2> QED
    BY <1>1, <1>2, <1>3, <2>1, <2>4, <2>5 DEF CountInv, a, t
<1>9. CASE ToolsDone
  <2>1. /\ pc = "tools" /\ UNCHANGED <<asked, meant, events>> /\ a' = a /\ t' = t
    BY <1>4, <1>9 DEF ToolsDone
  <2>2. CASE res.rounds < MaxToolRounds
    <3>1. pc' = "ask" /\ res' = res
      BY <1>9, <2>2 DEF ToolsDone
    <3> QED
      BY <1>1, <1>2, <1>3, <2>1, <2>2, <3>1 DEF CountInv, a, t
  <2>3. CASE ~(res.rounds < MaxToolRounds)
    <3>1. /\ pc' = "record" /\ res'.rounds = res.rounds /\ res'.failed = res.failed
          /\ res'.hitLimit /\ res'.calls = res.calls /\ res'.errors = res.errors
      BY <1>1, <1>9, <2>3 DEF ToolsDone, Result
    <3>2. res.rounds = MaxToolRounds
      BY <1>1, <1>3, <2>3
    <3> QED
      BY <1>1, <1>2, <1>3, <2>1, <3>1, <3>2 DEF CountInv, a, t
  <2> QED
    BY <2>2, <2>3
<1>10. CASE Record
  <2>1. /\ pc = "record" /\ pc' = "done" /\ UNCHANGED <<res, asked, meant>> /\ a' = a /\ t' = t
        /\ events' = Append(events, res) \/ events' = events
    BY <1>4, <1>10 DEF Record
  <2>2. events = <<>>
    BY <1>3, <2>1
  <2>3. events' = <<>> \/ events' = <<res'>>
    BY <1>1, <2>1, <2>2
  <2> QED
    BY <1>1, <1>2, <1>3, <2>1, <2>3 DEF CountInv, a, t
<1>11. CASE UNCHANGED chatVars
  BY <1>11 DEF chatVars, CountInv, Of
<1> QED
  BY <1>5, <1>6, <1>7, <1>8, <1>9, <1>10, <1>11 DEF ChatNext

\* The inductive invariant.
ChatInv == ChatTypeOK /\ AliasInv /\ AnswerIsMeant /\ ConvInv /\ CountInv

LEMMA ChatInvariance == ChatSpec => []ChatInv
<1>1. ChatInit => ChatInv
  <2> SUFFICES ASSUME ChatInit PROVE ChatInv
    OBVIOUS
  <2>1. ChatTypeOK
    BY DEF ChatInit, ChatTypeOK, Result, NoMap
  <2>2. AliasInv /\ AnswerIsMeant
    BY DEF ChatInit, AliasInv, Numbered, NoMap, AnswerIsMeant
  <2>3. ConvInv
    BY DEF ChatInit, ConvInv
  <2>4. \A r : Of(r) = {}
    BY DEF ChatInit, Of
  <2>5. CountInv
    <3>1. \A r : Cardinality(Of(r)) = 0
      BY <2>4, FS_EmptySet
    <3>2. /\ pc = "ask" /\ res.rounds = 0 /\ res.calls = 0 /\ res.errors = 0
          /\ ~res.hitLimit /\ ~res.failed /\ asked = 0 /\ meant = {} /\ events = <<>>
      BY DEF ChatInit
    <3> QED
      BY <3>1, <3>2, AssistantAssumption DEF CountInv
  <2> QED
    BY <2>1, <2>2, <2>3, <2>5 DEF ChatInv
<1>2. ChatInv /\ [ChatNext]_chatVars => ChatInv'
  BY ChatTypeStep, AliasStep, ConvStep, CountStep DEF ChatInv
<1> QED
  BY <1>1, <1>2, PTL DEF ChatSpec

\* Type correctness of a question to the assistant.
THEOREM ChatTypeCorrect == ChatSpec => []ChatTypeOK
<1>1. ChatInv => ChatTypeOK
  BY DEF ChatInv
<1> QED
  BY <1>1, ChatInvariance, PTL

\* The operator reads of the things the model meant: for any kinds, names, rounds and
\* order of the tools' results, an alias stands for one name throughout (ai_sanitize.go:114-220).
THEOREM MeaningIsRestored == ChatSpec => []AnswerIsMeant
<1>1. ChatInv => AnswerIsMeant
  BY DEF ChatInv
<1> QED
  BY <1>1, ChatInvariance, PTL

\* Whenever the model is asked, every call it ever made has its one answer, whichever tools
\* failed (chat_api.go:155-179).
THEOREM CallsGetAnswers == ChatSpec => []CallsAreAnswered
<1>1. ChatInv => CallsAreAnswered
  BY DEF ChatInv, ConvInv, CallsAreAnswered, Settled
<1> QED
  BY <1>1, ChatInvariance, PTL

\* A question is recorded at most once, with the rounds, calls and errors that took place,
\* whatever failed and was asked again (chat_api.go:103, 137-183).
THEOREM RecordsAreTrue == ChatSpec => []EventsTellWhatHappened
<1>1. ChatInv => EventsTellWhatHappened
  <2> SUFFICES ASSUME ChatInv PROVE EventsTellWhatHappened
    OBVIOUS
  <2>1. CASE events = <<>>
    BY <2>1 DEF EventsTellWhatHappened
  <2>2. CASE pc = "done" /\ events = <<res>>
    <3>1. Len(events) = 1 /\ DOMAIN events = {1} /\ events[1] = res
      BY <2>2
    <3>2. /\ res.hitLimit \in BOOLEAN /\ res.failed \in BOOLEAN
      BY DEF ChatInv, ChatTypeOK, Result
    <3>3. /\ res.calls = Cardinality(Of("tool")) /\ res.errors <= res.calls
          /\ res.rounds = Cardinality(Of("assistant")) + (IF res.hitLimit THEN 0 ELSE 1)
          /\ res.rounds <= MaxToolRounds /\ asked <= 2 * res.rounds
          /\ res.hitLimit => res.rounds = MaxToolRounds
          /\ res.failed => ~res.hitLimit /\ asked > res.rounds
          /\ res.failed \/ res.hitLimit => meant = {}
      BY <2>2 DEF ChatInv, CountInv
    <3> QED
      BY <3>1, <3>3 DEF EventsTellWhatHappened
  <2> QED
    BY <2>1, <2>2 DEF ChatInv, CountInv
<1> QED
  BY <1>1, ChatInvariance, PTL

-------------------------------------------------------------------------------
\* How many steps a question can still take at most: what is left of this round, and whole
\* rounds of two requests, the calls and what becomes of them.
StepsLeft ==
  (MaxCalls + 3) * (MaxToolRounds - res.rounds)
    + CASE pc = "ask" -> 2
        [] pc = "retry" -> MaxCalls + 4
        [] pc = "tools" -> todo + 3
        [] pc = "record" -> 1
        [] OTHER -> 0

\* No message has more calls than there may be.
TodoInv == pc = "tools" => todo <= MaxCalls

LEMMA TodoInvariance == ChatSpec => []TodoInv
<1>1. ChatInit => TodoInv
  BY DEF ChatInit, TodoInv
<1>2. ChatTypeOK /\ TodoInv /\ [ChatNext]_chatVars => TodoInv'
  <2> SUFFICES ASSUME ChatTypeOK, TodoInv, [ChatNext]_chatVars PROVE TodoInv'
    OBVIOUS
  <2>1. CASE AskForTools
    BY <2>1, AssistantAssumption DEF AskForTools, TodoInv
  <2>2. CASE ToolAnswers \/ ToolFails
    BY <2>2, AssistantAssumption DEF ToolAnswers, ToolFails, TodoInv, ChatTypeOK
  <2>3. CASE AskFails \/ Answers \/ ToolsDone \/ Record \/ UNCHANGED chatVars
    BY <2>3 DEF AskFails, Answers, ToolsDone, Record, chatVars, TodoInv
  <2> QED
    BY <2>1, <2>2, <2>3 DEF ChatNext
<1> QED
  BY <1>1, <1>2, ChatTypeCorrect, PTL DEF ChatSpec

\* One round less is as many steps less.
LEMMA RoundSteps ==
  ASSUME NEW k \in Nat, NEW m \in Nat, NEW r \in Nat, r < m
  PROVE  /\ k * (m - r) \in Nat /\ k * (m - (r + 1)) \in Nat
         /\ k * (m - r) = k * (m - (r + 1)) + k
  OBVIOUS

\* It is a number.
LEMMA StepsLeftIs ==
  ASSUME ChatInv
  PROVE  /\ (MaxCalls + 3) * (MaxToolRounds - res.rounds) \in Nat
         /\ StepsLeft \in Nat
<1>1. /\ res.rounds \in Nat /\ MaxToolRounds \in Nat /\ MaxCalls \in Nat /\ todo \in Nat
      /\ res.rounds <= MaxToolRounds
  BY AssistantAssumption DEF ChatInv, ChatTypeOK, Result, CountInv
<1>2. MaxToolRounds - res.rounds \in Nat
  BY <1>1
<1>3. (MaxCalls + 3) * (MaxToolRounds - res.rounds) \in Nat
  BY <1>1, <1>2
<1> QED
  BY <1>1, <1>3 DEF StepsLeft

\* Every step of a question brings it nearer to its end: whatever fails and whatever the
\* model asks for, no question goes on for ever (chat_api.go:139).
THEOREM QuestionsRunOut == ChatSpec => [][StepsLeft' < StepsLeft /\ StepsLeft \in Nat]_chatVars
<1>1. ASSUME ChatInv, ChatInv', TodoInv, ChatNext
      PROVE  StepsLeft \in Nat /\ StepsLeft' < StepsLeft
  <2> DEFINE W(r) == (MaxCalls + 3) * (MaxToolRounds - r)
  <2>1. /\ res.rounds \in Nat /\ res'.rounds \in Nat /\ MaxToolRounds \in Nat
        /\ MaxCalls \in Nat \ {0} /\ todo \in Nat /\ res \in Result
        /\ res'.rounds <= MaxToolRounds
    BY <1>1, AssistantAssumption DEF ChatInv, ChatTypeOK, Result, CountInv
  <2>2. W(res.rounds) \in Nat /\ StepsLeft \in Nat
    BY <1>1, StepsLeftIs
  <2>3. res'.rounds = res.rounds + 1 => W(res.rounds) = W(res'.rounds) + MaxCalls + 3
    <3> SUFFICES ASSUME res'.rounds = res.rounds + 1
                 PROVE  W(res.rounds) = W(res.rounds + 1) + MaxCalls + 3
      OBVIOUS
    <3>1. MaxCalls + 3 \in Nat /\ res.rounds < MaxToolRounds
      BY <2>1
    <3>2. W(res.rounds) = W(res.rounds + 1) + (MaxCalls + 3) /\ W(res.rounds + 1) \in Nat
      BY <2>1, <3>1, RoundSteps
    <3> HIDE DEF W
    <3> QED
      BY <2>1, <3>2
  <2>4. W(res'.rounds) \in Nat
    <3>1. MaxToolRounds - res'.rounds \in Nat /\ MaxCalls + 3 \in Nat
      BY <2>1
    <3> QED
      BY <3>1
  <2>5. StepsLeft = W(res.rounds) + CASE pc = "ask" -> 2
                                      [] pc = "retry" -> MaxCalls + 4
                                      [] pc = "tools" -> todo + 3
                                      [] pc = "record" -> 1
                                      [] OTHER -> 0
    BY DEF StepsLeft
  <2>6. StepsLeft' = W(res'.rounds) + CASE pc' = "ask" -> 2
                                        [] pc' = "retry" -> MaxCalls + 4
                                        [] pc' = "tools" -> todo' + 3
                                        [] pc' = "record" -> 1
                                        [] OTHER -> 0
    BY DEF StepsLeft
  <2> HIDE DEF W
  <2>7. CASE AskFails
    <3>1. /\ pc = "ask" => pc' = "retry" /\ res'.rounds = res.rounds + 1
          /\ pc = "retry" => pc' = "record" /\ res'.rounds = res.rounds
          /\ pc \in {"ask", "retry"}
      BY <2>1, <2>7 DEF AskFails, Rounds, Result
    <3> QED
      BY <2>1, <2>2, <2>3, <2>4, <2>5, <2>6, <3>1
  <2>8. CASE AskForTools
    <3>1. /\ pc = "ask" => res'.rounds = res.rounds + 1
          /\ pc = "retry" => res'.rounds = res.rounds
          /\ pc \in {"ask", "retry"} /\ pc' = "tools" /\ todo' \in 1 .. MaxCalls
      BY <2>1, <2>8 DEF AskForTools, Rounds, Result
    <3> QED
      BY <2>1, <2>2, <2>3, <2>4, <2>5, <2>6, <3>1
  <2>9. CASE Answers
    <3>1. /\ pc = "ask" => res'.rounds = res.rounds + 1
          /\ pc = "retry" => res'.rounds = res.rounds
          /\ pc \in {"ask", "retry"} /\ pc' = "record"
      BY <2>1, <2>9 DEF Answers, Rounds, Result
    <3> QED
      BY <2>1, <2>2, <2>3, <2>4, <2>5, <2>6, <3>1
  <2>10. CASE ToolAnswers \/ ToolFails
    <3>1. /\ res'.rounds = res.rounds /\ pc = "tools" /\ pc' = "tools" /\ todo' = todo - 1
      BY <2>1, <2>10 DEF ToolAnswers, ToolFails, Result
    <3> QED
      BY <2>1, <2>2, <2>5, <2>6, <3>1
  <2>11. CASE ToolsDone
    <3>1. /\ res'.rounds = res.rounds /\ pc = "tools" /\ pc' \in {"ask", "record"} /\ todo = 0
      BY <2>1, <2>11 DEF ToolsDone, Result
    <3> QED
      BY <2>1, <2>2, <2>5, <2>6, <3>1
  <2>12. CASE Record
    <3>1. res'.rounds = res.rounds /\ pc = "record" /\ pc' = "done"
      BY <2>12 DEF Record
    <3> QED
      BY <2>1, <2>2, <2>5, <2>6, <3>1
  <2> QED
    BY <1>1, <2>7, <2>8, <2>9, <2>10, <2>11, <2>12 DEF ChatNext
<1>2. ASSUME ChatInv, ChatInv', TodoInv, [ChatNext]_chatVars
      PROVE  [StepsLeft' < StepsLeft /\ StepsLeft \in Nat]_chatVars
  BY <1>1, <1>2
<1> QED
  BY <1>2, ChatInvariance, TodoInvariance, PTL DEF ChatSpec
================================================================================
