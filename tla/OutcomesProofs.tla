---------------------------- MODULE OutcomesProofs ----------------------------
(***************************************************************************)
(* What Outcomes promises for any number of requests, agents and fixes.    *)
(***************************************************************************)
EXTENDS Outcomes, TLAPS, WellFoundedInduction

Request == [pc : {"idle", "shown", "applying", "measuring"}, seen : SUBSET FlowRow,
            todo : SUBSET Key, probe : SUBSET Probe, found : SUBSET Result]

\* Compaction takes the oldest rows first: as long as there are rows at all, the latest of
\* them is as late as anything that was ever read.
Fresh(t) == flows = {} \/ \E f \in flows : f.at >= t

\* A time at which the cost of an applied fix can be measured.
After(p) ==
  /\ IsApplied(p.key)
  /\ p.at > outcome[p.key].applied /\ p.at >= outcome[p.key].beforeAt

Measuring(r) ==
  /\ r.pc = "idle" => r = Idle
  /\ r.pc = "measuring" => /\ \A k \in r.todo : IsApplied(k)
                           /\ \A p \in r.probe : After(p)
                           /\ \A p \in r.found : After(p)

\* The inductive invariant.
IInv ==
  /\ TypeOK
  /\ \A f \in flows : f.at <= now
  /\ \A k \in Key : outcome[k].beforeAt <= now /\ Fresh(outcome[k].beforeAt)
  /\ \A h \in Handler : \A s \in req[h].seen : s.at <= now /\ Fresh(s.at)
  /\ \A h \in Handler : Measuring(req[h])
  /\ BeforeAndAfter

-------------------------------------------------------------------------------

\* A set of numbers with a bound has a greatest element.
LEMMA MaxIs ==
  ASSUME NEW N \in Nat, NEW S \in SUBSET (0 .. N), S # {}
  PROVE  Max(S) \in S /\ \A y \in S : y <= Max(S)
<1> DEFINE R == {ss \in Nat \X Nat : ss[1] < ss[2]}
           T == {N - x : x \in S}
<1>1. IsWellFoundedOn(R, Nat)
  BY NatLessThanWellFounded DEF OpToRel
<1>2. T \subseteq Nat /\ T # {}
  <2>1. PICK s \in S : TRUE
    OBVIOUS
  <2>2. N - s \in T
    BY <2>1
  <2>3. \A x \in S : N - x \in Nat
    OBVIOUS
  <2> QED
    BY <2>2, <2>3
<1>3. PICK t \in T : \A y \in T : <<y, t>> \notin R
  <2> HIDE DEF R, T
  <2> QED
    BY <1>1, <1>2, WFMin
<1>4. PICK x \in S : t = N - x
  BY DEF T
<1>5. \A y \in S : y <= x
  <2> SUFFICES ASSUME NEW y \in S PROVE y <= x
    OBVIOUS
  <2>1. <<N - y, t>> \notin R /\ N - y \in Nat /\ t \in Nat
    BY <1>2, <1>3
  <2> QED
    BY <2>1, <1>4
<1> QED
  BY <1>5 DEF Max

\* Of several rows, one is the cheapest.
LEMMA CheapestIs ==
  ASSUME NEW rows \in SUBSET FlowRow, rows # {}, MaxCost \in Nat
  PROVE  (CHOOSE f \in rows : \A g \in rows : f.cost <= g.cost) \in rows
<1> DEFINE R == {ss \in Nat \X Nat : ss[1] < ss[2]}
           T == {f.cost : f \in rows}
<1>1. IsWellFoundedOn(R, Nat)
  BY NatLessThanWellFounded DEF OpToRel
<1>2. T \subseteq Nat /\ T # {}
  BY DEF FlowRow, Cost
<1>3. PICK t \in T : \A y \in T : <<y, t>> \notin R
  <2> HIDE DEF R, T
  <2> QED
    BY <1>1, <1>2, WFMin
<1>4. PICK f \in rows : t = f.cost
  BY DEF T
<1>5. \A g \in rows : f.cost <= g.cost
  <2> SUFFICES ASSUME NEW g \in rows PROVE f.cost <= g.cost
    OBVIOUS
  <2>1. <<g.cost, t>> \notin R /\ g.cost \in Nat /\ t \in Nat
    BY <1>2, <1>3
  <2> QED
    BY <2>1, <1>4
<1> QED
  BY <1>5

\* The latest time is no older than anything that was read, once there are rows.
LEMMA LatestIs ==
  ASSUME IInv
  PROVE  /\ LatestAt \in Time
         /\ \A t \in Time \cup {None} : LatestAt > 0 /\ Fresh(t) => LatestAt >= t
<1>1. MaxNow \in Nat
  BY OutcomeAssumption DEF OutcomeAssumption
<1>2. CASE flows = {}
  BY <1>1, <1>2 DEF LatestAt, Time
<1>3. CASE flows # {}
  <2> DEFINE S == {f.at : f \in flows}
  <2>1. S \in SUBSET (0 .. MaxNow) /\ S # {}
    BY <1>3 DEF IInv, TypeOK, FlowRow, Time
  <2> HIDE DEF S
  <2>2. Max(S) \in S /\ \A y \in S : y <= Max(S)
    BY <1>1, <2>1, MaxIs
  <2>3. LatestAt = Max(S)
    BY <1>3 DEF LatestAt, S
  <2>4. LatestAt \in Time
    BY <2>1, <2>2, <2>3 DEF Time
  <2>5. ASSUME NEW t \in Time \cup {None}, Fresh(t) PROVE LatestAt >= t
    <3>1. PICK f \in flows : f.at >= t
      BY <1>3, <2>5 DEF Fresh
    <3>2. f.at \in S /\ f.at \in Time
      BY DEF S, IInv, TypeOK, FlowRow
    <3> QED
      BY <1>1, <2>2, <2>3, <2>4, <3>1, <3>2 DEF Time, None
  <2> QED
    BY <2>4, <2>5
<1> QED
  BY <1>2, <1>3

-------------------------------------------------------------------------------

LEMMA InitIInv == Init => IInv
<1> SUFFICES ASSUME Init PROVE IInv
  OBVIOUS
<1> USE OutcomeAssumption DEF OutcomeAssumption
<1>1. TypeOK
  BY DEF Init, TypeOK, Time, Cost, OutcomeRow, Idle, None
<1>2. \A k \in Key : outcome[k].beforeAt <= now /\ Fresh(outcome[k].beforeAt)
  BY DEF Init, Fresh, None
<1>3. \A h \in Handler : req[h].seen = {} /\ Measuring(req[h])
  BY DEF Init, Idle, Measuring
<1>4. BeforeAndAfter
  BY DEF Init, BeforeAndAfter, IsMeasured
<1> QED
  BY <1>1, <1>2, <1>3, <1>4 DEF IInv, Init

\* A step that changes no table and no clock, but what one request holds.
LEMMA RequestIInv ==
  ASSUME IInv, NEW h \in Handler, NEW r \in Request,
         req' = [req EXCEPT ![h] = r],
         UNCHANGED <<now, cum, ships, flows, outcome, moved>>,
         \A s \in r.seen : s.at <= now /\ Fresh(s.at),
         Measuring(r)
  PROVE  IInv'
<1>1. TypeOK'
  BY DEF IInv, TypeOK, Request
<1>2. \A g \in Handler : req'[g] = IF g = h THEN r ELSE req[g]
  BY DEF IInv, TypeOK
<1>3. BeforeAndAfter' = BeforeAndAfter
  BY DEF BeforeAndAfter, IsMeasured, IsApplied
<1>4. /\ \A t : Fresh(t)' = Fresh(t)
      /\ \A p : After(p)' = After(p)
      /\ \A k : IsApplied(k)' = IsApplied(k)
  BY DEF Fresh, After, IsApplied
<1>5. \A g \in Handler : Measuring(req[g])' 
  BY <1>2, <1>4 DEF Measuring, IInv
<1>6. \A g \in Handler : \A s \in req'[g].seen : s.at <= now' /\ Fresh(s.at)'
  BY <1>2, <1>4 DEF IInv
<1> QED
  BY <1>1, <1>3, <1>4, <1>5, <1>6 DEF IInv

LEMMA IdleRequest == Idle \in Request /\ Idle.seen = {} /\ Measuring(Idle)
  BY DEF Idle, Request, Measuring

LEMMA RequestType == TypeOK => \A h \in Handler : req[h] \in Request
  BY DEF TypeOK, Request

\* The clock and the traffic: nothing that was read gets older by it.
LEMMA WorldIInv ==
  ASSUME IInv,
         \/ Tick
         \/ \E n \in Node, k \in Key : Traffic(n, k)
         \/ \E n \in Node : AgentRestart(n)
  PROVE  IInv'
<1> USE OutcomeAssumption DEF OutcomeAssumption
<1>1. UNCHANGED <<ships, flows, outcome, req>>
  BY DEF Tick, Traffic, AgentRestart
<1>2. now' \in Time /\ now' >= now
  BY DEF Tick, Traffic, AgentRestart, IInv, TypeOK, Time
<1>3. cum' \in [Node -> [Key -> Cost]] /\ moved' \subseteq Key
  <2> USE DEF IInv, TypeOK
  <2>1. CASE Tick
    BY <2>1 DEF Tick
  <2>2. ASSUME NEW n \in Node, NEW k \in Key, Traffic(n, k)
        PROVE  cum' \in [Node -> [Key -> Cost]] /\ moved' \subseteq Key
    <3>1. cum[n][k] + 1 \in Cost
      BY <2>2 DEF Traffic, Cost
    <3> QED
      BY <2>2, <3>1 DEF Traffic
  <2>3. ASSUME NEW n \in Node, AgentRestart(n)
        PROVE  cum' \in [Node -> [Key -> Cost]] /\ moved' \subseteq Key
    BY <2>3 DEF AgentRestart, Cost
  <2> QED
    BY <2>1, <2>2, <2>3
<1>4. TypeOK'
  BY <1>1, <1>2, <1>3 DEF IInv, TypeOK
<1>5. /\ \A t : Fresh(t)' = Fresh(t)
      /\ \A h \in Handler : Measuring(req[h])' = Measuring(req[h])
      /\ BeforeAndAfter' = BeforeAndAfter
  BY <1>1 DEF Fresh, Measuring, After, BeforeAndAfter, IsApplied, IsMeasured
<1>6. \A t \in Time \cup {None} : t <= now => t <= now'
  BY <1>2 DEF IInv, TypeOK, Time, None
<1>7. /\ \A f \in flows : f.at \in Time
      /\ \A k \in Key : outcome[k].beforeAt \in Time \cup {None}
      /\ \A h \in Handler : \A s \in req[h].seen : s.at \in Time
  BY DEF IInv, TypeOK, FlowRow, OutcomeRow
<1> QED
  BY <1>1, <1>4, <1>5, <1>6, <1>7 DEF IInv

\* Rows come with the present time, and go from the past.
LEMMA RowsIInv ==
  ASSUME IInv, (\E n \in Node : Ship(n)) \/ Compact
  PROVE  IInv'
<1> USE OutcomeAssumption DEF OutcomeAssumption
<1>1. UNCHANGED <<now, cum, outcome, req, moved>>
  BY DEF Ship, Compact
<1>2. ships' \in 0 .. MaxShips
  BY DEF Ship, Compact, IInv, TypeOK
<1>3. /\ flows' \subseteq FlowRow
      /\ \A f \in flows' : f.at <= now
      /\ \A t \in Time \cup {None} : t <= now /\ Fresh(t) => Fresh(t)'
  <2>1. ASSUME NEW n \in Node, Ship(n) PROVE <1>3!:
    <3> DEFINE new == {[at |-> now, node |-> n, key |-> k, cost |-> cum[n][k]] :
                         k \in {j \in Key : cum[n][j] > 0}}
    <3>1. flows' = flows \cup new
      BY <2>1 DEF Ship
    <3>2. new \subseteq FlowRow /\ \A f \in new : f.at = now
      BY DEF IInv, TypeOK, FlowRow, Cost
    <3> HIDE DEF new
    <3>3. now \in Time /\ flows \subseteq FlowRow /\ \A f \in flows : f.at <= now
      BY DEF IInv, TypeOK
    <3>4. ASSUME NEW t \in Time \cup {None}, t <= now, Fresh(t) PROVE Fresh(t)'
      BY <3>1, <3>2, <3>4 DEF Fresh
    <3> QED
      BY <3>1, <3>2, <3>3, <3>4 DEF Time
  <2>2. ASSUME Compact PROVE <1>3!:
    <3>1. flows' = {f \in flows : f.at >= now - Retention}
      BY <2>2 DEF Compact
    <3>2. ASSUME NEW t \in Time \cup {None}, t <= now, Fresh(t) PROVE Fresh(t)'
      <4>1. SUFFICES ASSUME NEW g \in flows' PROVE \E f \in flows' : f.at >= t
        BY DEF Fresh
      <4>2. PICK f \in flows : f.at >= t
        BY <3>1, <3>2, <4>1 DEF Fresh
      <4>3. f.at \in Time /\ g.at \in Time /\ now \in Time /\ g.at >= now - Retention
        BY <3>1, <4>1 DEF IInv, TypeOK, FlowRow
      <4>4. CASE f.at >= now - Retention
        BY <3>1, <4>2, <4>4
      <4>5. CASE f.at < now - Retention
        BY <4>1, <4>2, <4>3, <4>5 DEF Time, None
      <4> QED
        BY <4>3, <4>4, <4>5 DEF Time
    <3> QED
      BY <3>1, <3>2 DEF IInv, TypeOK
  <2> QED
    BY <2>1, <2>2
<1>4. TypeOK'
  BY <1>1, <1>2, <1>3 DEF IInv, TypeOK
<1>5. /\ \A h \in Handler : Measuring(req[h])' = Measuring(req[h])
      /\ BeforeAndAfter' = BeforeAndAfter
  BY <1>1 DEF Measuring, After, BeforeAndAfter, IsApplied, IsMeasured
<1>6. /\ \A k \in Key : outcome[k].beforeAt \in Time \cup {None}
      /\ \A h \in Handler : \A s \in req[h].seen : s.at \in Time
  BY DEF IInv, TypeOK, FlowRow, OutcomeRow
<1> QED
  BY <1>1, <1>3, <1>4, <1>5, <1>6 DEF IInv

-------------------------------------------------------------------------------
(* The dashboard.                                                           *)

LEMMA DashboardReadIInv ==
  ASSUME IInv, NEW h \in Handler, DashboardRead(h)
  PROVE  IInv'
<1> DEFINE r == [req[h] EXCEPT !.pc = "shown", !.seen = LatestFindings]
<1>1. req' = [req EXCEPT ![h] = r]
  BY DEF DashboardRead, IInv, TypeOK
<1>2. LatestFindings \subseteq flows
  BY DEF LatestFindings
<1>3. r \in Request /\ r.pc = "shown" /\ r.seen = LatestFindings
  BY <1>2 DEF IInv, TypeOK, Request
<1>4. \A s \in r.seen : s.at <= now /\ Fresh(s.at)
  <2> SUFFICES ASSUME NEW s \in flows PROVE s.at <= now /\ Fresh(s.at)
    BY <1>2, <1>3
  <2>1. s.at \in Time
    BY DEF IInv, TypeOK, FlowRow
  <2> QED
    BY <2>1 DEF IInv, Fresh, Time
<1>5. Measuring(r)
  BY <1>3 DEF Measuring
<1> HIDE DEF r
<1> QED
  BY <1>1, <1>3, <1>4, <1>5, RequestIInv DEF DashboardRead

\* What a baseline is replaced by.
LEMMA ShownIs ==
  ASSUME IInv, NEW k \in Key, NEW rows \in SUBSET FlowRow, rows # {},
         \A s \in rows : s.at <= now /\ Fresh(s.at)
  PROVE  /\ Shown(k, rows) \in OutcomeRow
         /\ IsApplied(k) => Shown(k, rows) = outcome[k]
         /\ Shown(k, rows).applied = outcome[k].applied
         /\ Shown(k, rows).after = outcome[k].after
         /\ Shown(k, rows).afterAt = outcome[k].afterAt
         /\ Shown(k, rows).beforeAt <= now
         /\ Fresh(Shown(k, rows).beforeAt)
<1> DEFINE last == CHOOSE f \in rows : \A g \in rows : f.cost <= g.cost
<1>1. last \in rows
  BY CheapestIs, OutcomeAssumption DEF OutcomeAssumption
<1>2. last \in FlowRow /\ last.at <= now /\ Fresh(last.at)
  BY <1>1
<1>3. Shown(k, rows) = IF IsApplied(k) THEN outcome[k]
        ELSE [outcome[k] EXCEPT !.shown = TRUE, !.before = last.cost, !.beforeAt = last.at]
  BY DEF Shown
<1> HIDE DEF last
<1>4. outcome[k] \in OutcomeRow /\ last.cost \in Cost /\ last.at \in Time
  BY <1>2 DEF IInv, TypeOK, FlowRow
<1>5. CASE IsApplied(k)
  BY <1>3, <1>4, <1>5 DEF IInv
<1>6. CASE ~IsApplied(k)
  <2>1. Shown(k, rows) = [outcome[k] EXCEPT !.shown = TRUE, !.before = last.cost,
                                            !.beforeAt = last.at]
    BY <1>3, <1>6
  <2>2. Shown(k, rows).beforeAt = last.at
    BY <1>4, <2>1 DEF OutcomeRow
  <2>3. Shown(k, rows) \in OutcomeRow
    BY <1>4, <2>1 DEF OutcomeRow
  <2>4. /\ Shown(k, rows).applied = outcome[k].applied
        /\ Shown(k, rows).after = outcome[k].after
        /\ Shown(k, rows).afterAt = outcome[k].afterAt
    BY <1>4, <2>1 DEF OutcomeRow
  <2> QED
    BY <1>2, <1>6, <2>2, <2>3, <2>4
<1> QED
  BY <1>5, <1>6

\* A step that writes outcome rows and ends a request, without moving what is frozen.
LEMMA TableIInv ==
  ASSUME IInv, NEW h \in Handler,
         req' = [req EXCEPT ![h] = Idle],
         UNCHANGED <<now, cum, ships, flows, moved>>,
         outcome' \in [Key -> OutcomeRow],
         \A k \in Key : /\ IsApplied(k) => /\ outcome'[k].applied = outcome[k].applied
                                            /\ outcome'[k].beforeAt = outcome[k].beforeAt
                        /\ outcome'[k].beforeAt <= now /\ Fresh(outcome'[k].beforeAt)
                        /\ IsMeasured(k)' =>
                             /\ IsApplied(k)'
                             /\ outcome'[k].afterAt > outcome'[k].applied
                             /\ outcome'[k].afterAt >= outcome'[k].beforeAt
  PROVE  IInv'
<1>1. TypeOK'
  BY IdleRequest DEF IInv, TypeOK, Request
<1>2. \A t : Fresh(t)' = Fresh(t)
  BY DEF Fresh
<1>3. \A g \in Handler : req'[g] = IF g = h THEN Idle ELSE req[g]
  BY DEF IInv, TypeOK
<1>4. \A k \in Key : IsApplied(k) => IsApplied(k)'
  BY DEF IsApplied
<1>5. ASSUME NEW g \in Handler PROVE Measuring(req[g])'
  <2>1. CASE g = h
    BY <1>3, <2>1 DEF Idle, Measuring
  <2>2. CASE g # h
    <3>1. req'[g] = req[g] /\ Measuring(req[g]) /\ req[g] \in Request
      BY <1>3, <2>2, RequestType DEF IInv
    <3>2. \A p \in req[g].probe \cup req[g].found : p.key \in Key
      BY <3>1 DEF Request, Probe, Result
    <3>3. \A p \in req[g].probe \cup req[g].found : After(p) => After(p)'
      BY <1>4, <3>2 DEF After
    <3>4. \A k \in req[g].todo : k \in Key
      BY <3>1 DEF Request
    <3> QED
      BY <1>4, <3>1, <3>3, <3>4 DEF Measuring
  <2> QED
    BY <2>1, <2>2
<1>6. \A g \in Handler : \A s \in req'[g].seen : s.at <= now' /\ Fresh(s.at)'
  BY <1>2, <1>3 DEF IInv, Idle
<1>7. BeforeAndAfter'
  BY DEF BeforeAndAfter
<1> QED
  BY <1>1, <1>2, <1>5, <1>6, <1>7 DEF IInv

LEMMA DashboardRecordIInv ==
  ASSUME IInv, NEW h \in Handler, DashboardRecord(h)
  PROVE  IInv'
<1>0. PICK fixes \in Shows(req[h].seen) :
        outcome' = [k \in Key |-> IF {f \in fixes : f.key = k} # {}
                                  THEN Shown(k, {f \in fixes : f.key = k})
                                  ELSE outcome[k]]
  BY DEF DashboardRecord
<1> DEFINE of(k) == {f \in fixes : f.key = k}
<1>1. /\ outcome' = [k \in Key |-> IF of(k) # {} THEN Shown(k, of(k)) ELSE outcome[k]]
      /\ req' = [req EXCEPT ![h] = Idle]
      /\ UNCHANGED <<now, cum, ships, flows, moved>>
      /\ fixes \subseteq req[h].seen
  BY <1>0 DEF DashboardRecord, Shows
<1>2. ASSUME NEW k \in Key
      PROVE  /\ outcome'[k] \in OutcomeRow
             /\ IsApplied(k) => outcome'[k] = outcome[k]
             /\ outcome'[k].applied = outcome[k].applied
             /\ outcome'[k].after = outcome[k].after
             /\ outcome'[k].afterAt = outcome[k].afterAt
             /\ outcome'[k].beforeAt <= now /\ Fresh(outcome'[k].beforeAt)
  <2>1. CASE outcome'[k] = outcome[k]
    BY <2>1 DEF IInv, TypeOK
  <2>2. CASE of(k) # {} /\ outcome'[k] = Shown(k, of(k))
    <3>1. of(k) \in SUBSET FlowRow /\ \A s \in of(k) : s.at <= now /\ Fresh(s.at)
      BY <1>1 DEF IInv, TypeOK
    <3> HIDE DEF of
    <3> QED
      BY <2>2, <3>1, ShownIs
  <2> QED
    BY <1>1, <2>1, <2>2
<1>3. outcome' \in [Key -> OutcomeRow]
  BY <1>1, <1>2
<1>4. ASSUME NEW k \in Key, IsMeasured(k)'
      PROVE  /\ IsApplied(k)'
             /\ outcome'[k].afterAt > outcome'[k].applied
             /\ outcome'[k].afterAt >= outcome'[k].beforeAt
  <2>1. IsMeasured(k)
    BY <1>2, <1>4 DEF IsMeasured
  <2> QED
    BY <1>2, <2>1 DEF IInv, BeforeAndAfter, IsApplied
<1> HIDE DEF of
<1> QED
  BY <1>1, <1>2, <1>3, <1>4, TableIInv

-------------------------------------------------------------------------------
(* Applying.                                                                *)

LEMMA ApplyBeginIInv ==
  ASSUME IInv, NEW h \in Handler, NEW k \in Key, ApplyBegin(h, k)
  PROVE  IInv'
<1> DEFINE r == [req[h] EXCEPT !.pc = "applying", !.probe = {[key |-> k, at |-> now]}]
<1>1. req' = [req EXCEPT ![h] = r]
  BY DEF ApplyBegin, IInv, TypeOK
<1>2. r \in Request /\ r.pc = "applying" /\ r.seen = req[h].seen
  <2>1. req[h] \in Request
    BY RequestType DEF IInv
  <2>2. {[key |-> k, at |-> now]} \in SUBSET Probe
    BY DEF IInv, TypeOK, Probe
  <2> QED
    BY <2>1, <2>2 DEF Request
<1>3. Measuring(r)
  BY <1>2 DEF Measuring
<1> HIDE DEF r
<1> QED
  BY <1>1, <1>2, <1>3, RequestIInv DEF ApplyBegin, IInv

LEMMA ApplyWriteIInv ==
  ASSUME IInv, NEW h \in Handler, ApplyWrite(h)
  PROVE  IInv'
<1>1. PICK p \in req[h].probe :
        outcome' = IF outcome[p.key].shown /\ outcome[p.key].applied = None
                   THEN [outcome EXCEPT ![p.key].applied = p.at] ELSE outcome
  BY DEF ApplyWrite
<1>2. p.key \in Key /\ p.at \in Time
  BY RequestType DEF IInv, Request, Probe
<1>3. outcome' \in [Key -> OutcomeRow]
  <2>1. outcome[p.key] \in OutcomeRow
    BY <1>2 DEF IInv, TypeOK
  <2>2. [outcome[p.key] EXCEPT !.applied = p.at] \in OutcomeRow
    BY <1>2, <2>1 DEF OutcomeRow
  <2> QED
    BY <1>1, <1>2, <2>2 DEF IInv, TypeOK
<1>4. \A k \in Key : /\ IsApplied(k) => outcome'[k] = outcome[k]
                     /\ outcome'[k].beforeAt = outcome[k].beforeAt
                     /\ outcome'[k].after = outcome[k].after
  BY <1>1, <1>2 DEF IInv, TypeOK, OutcomeRow, IsApplied
<1>5. \A k \in Key : IsMeasured(k)' => IsMeasured(k)
  BY <1>4 DEF IsMeasured
<1>6. req' = [req EXCEPT ![h] = Idle] /\ UNCHANGED <<now, cum, ships, flows, moved>>
  BY DEF ApplyWrite
<1> QED
  BY <1>3, <1>4, <1>5, <1>6, TableIInv DEF IInv, BeforeAndAfter, IsApplied

-------------------------------------------------------------------------------
(* Measuring.                                                               *)

LEMMA MeasureBeginIInv ==
  ASSUME IInv, NEW h \in Handler, MeasureBegin(h)
  PROVE  IInv'
<1> DEFINE pendings == {k \in Key : IsApplied(k) /\ ~IsMeasured(k)}
           r == [req[h] EXCEPT !.pc = "measuring", !.todo = pendings]
<1>1. req' = [req EXCEPT ![h] = r] /\ req[h].pc = "idle"
  BY DEF MeasureBegin, IInv, TypeOK
<1>2. /\ r \in Request /\ r.seen = req[h].seen /\ r.todo = pendings
      /\ r.probe = req[h].probe /\ r.found = req[h].found
  BY RequestType DEF IInv, Request
<1>3. Measuring(r)
  <2>1. req[h].probe = {} /\ req[h].found = {}
    BY <1>1 DEF IInv, Measuring, Idle
  <2>2. r.pc = "measuring"
    BY DEF IInv, TypeOK
  <2> QED
    BY <1>2, <2>1, <2>2 DEF Measuring
<1> HIDE DEF r
<1> QED
  BY <1>1, <1>2, <1>3, RequestIInv DEF MeasureBegin, IInv

LEMMA MeasureLatestIInv ==
  ASSUME IInv, NEW h \in Handler, NEW k \in Key, MeasureLatest(h, k)
  PROVE  IInv'
<1> DEFINE new == IF LatestAt <= outcome[k].applied
                  THEN {} ELSE {[key |-> k, at |-> LatestAt]}
           r == [req[h] EXCEPT !.todo = @ \ {k}, !.probe = new]
<1>1. req[h] \in Request /\ req[h].pc = "measuring" /\ k \in req[h].todo
  BY RequestType DEF IInv, MeasureLatest
<1>2. IsApplied(k) /\ \A j \in req[h].todo : IsApplied(j)
  BY <1>1 DEF IInv, Measuring
<1>3. LatestAt \in Time
  BY LatestIs
<1>4. new \subseteq Probe /\ \A p \in new : After(p)
  <2> SUFFICES ASSUME LatestAt > outcome[k].applied
               PROVE  [key |-> k, at |-> LatestAt] \in Probe
                      /\ After([key |-> k, at |-> LatestAt])
    BY <1>2, <1>3 DEF IInv, TypeOK, OutcomeRow, Time, IsApplied
  <2>1. outcome[k].applied \in Time /\ outcome[k].beforeAt \in Time \cup {None}
    BY <1>2 DEF IInv, TypeOK, OutcomeRow, IsApplied
  <2>2. LatestAt > 0
    BY <1>3, <2>1 DEF Time
  <2>3. LatestAt >= outcome[k].beforeAt
    BY <2>1, <2>2, LatestIs DEF IInv
  <2> QED
    BY <1>2, <1>3, <2>3 DEF After, Probe
<1>5. req' = [req EXCEPT ![h] = r]
  BY DEF MeasureLatest, IInv, TypeOK
<1> HIDE DEF new
<1>6. /\ r \in Request /\ r.seen = req[h].seen /\ r.todo \subseteq req[h].todo
      /\ r.probe = new /\ r.found = req[h].found /\ r.pc = "measuring"
  BY <1>1, <1>4 DEF Request
<1>7. Measuring(r)
  BY <1>1, <1>2, <1>4, <1>6 DEF Measuring, IInv
<1> HIDE DEF r
<1> QED
  BY <1>5, <1>6, <1>7, RequestIInv DEF MeasureLatest, IInv

LEMMA MeasureCostIInv ==
  ASSUME IInv, NEW h \in Handler, MeasureCost(h)
  PROVE  IInv'
<1>1. req[h] \in Request /\ req[h].pc = "measuring"
  BY RequestType DEF IInv, MeasureCost
<1>2. PICK p \in req[h].probe :
        LET costs == {f.cost : f \in RowsAt(p.at, PairOf[p.key])}
            cost  == IF costs = {} THEN 0 ELSE Max(costs)
        IN  req' = [req EXCEPT ![h].probe = {},
                               ![h].found = @ \cup {[key |-> p.key, cost |-> cost, at |-> p.at]}]
  BY DEF MeasureCost
<1> DEFINE costs == {f.cost : f \in RowsAt(p.at, PairOf[p.key])}
           cost  == IF costs = {} THEN 0 ELSE Max(costs)
           res   == [key |-> p.key, cost |-> cost, at |-> p.at]
           r == [req[h] EXCEPT !.probe = {}, !.found = @ \cup {res}]
<1>3. req' = [req EXCEPT ![h] = r]
  BY <1>2 DEF IInv, TypeOK
<1>4. cost \in Cost
  <2>1. MaxCost \in Nat
    BY OutcomeAssumption DEF OutcomeAssumption
  <2>2. costs \in SUBSET (0 .. MaxCost)
    BY DEF IInv, TypeOK, RowsAt, FlowRow, Cost
  <2> HIDE DEF costs
  <2>3. CASE costs = {}
    BY <2>1, <2>3 DEF Cost
  <2>4. CASE costs # {}
    <3>1. Max(costs) \in costs
      BY <2>1, <2>2, <2>4, MaxIs
    <3> QED
      BY <2>2, <2>4, <3>1 DEF Cost
  <2> QED
    BY <2>3, <2>4
<1> HIDE DEF cost
<1>5. p \in Probe /\ After(p)
  BY <1>1 DEF Request, IInv, Measuring
<1>6. res \in Result /\ After(res)
  BY <1>4, <1>5 DEF Probe, Result, After
<1>7. res.key = p.key /\ res.at = p.at
  OBVIOUS
<1> HIDE DEF res
<1>8. /\ r \in Request /\ r.seen = req[h].seen /\ r.todo = req[h].todo
      /\ r.probe = {} /\ r.found = req[h].found \cup {res} /\ r.pc = "measuring"
  BY <1>1, <1>6 DEF Request
<1>9. Measuring(r)
  BY <1>1, <1>6, <1>8 DEF Measuring, IInv
<1> HIDE DEF r
<1> QED
  BY <1>3, <1>8, <1>9, RequestIInv DEF MeasureCost, IInv

LEMMA MeasureSaveIInv ==
  ASSUME IInv, NEW h \in Handler, MeasureSave(h)
  PROVE  IInv'
<1> DEFINE of(k) == CHOOSE f \in req[h].found : f.key = k
<1>1. /\ outcome' = [k \in Key |->
            IF \E f \in req[h].found : f.key = k
            THEN [outcome[k] EXCEPT !.after = of(k).cost, !.afterAt = of(k).at]
            ELSE outcome[k]]
      /\ req' = [req EXCEPT ![h] = Idle]
      /\ UNCHANGED <<now, cum, ships, flows, moved>>
  BY DEF MeasureSave
<1>2. req[h] \in Request /\ req[h].pc = "measuring"
  BY RequestType DEF IInv, MeasureSave
<1>3. ASSUME NEW k \in Key
      PROVE  /\ outcome'[k] \in OutcomeRow
             /\ outcome'[k].applied = outcome[k].applied
             /\ outcome'[k].beforeAt = outcome[k].beforeAt
             /\ IsMeasured(k)' => /\ IsApplied(k)
                                 /\ outcome'[k].afterAt > outcome[k].applied
                                 /\ outcome'[k].afterAt >= outcome[k].beforeAt
  <2>1. CASE ~\E f \in req[h].found : f.key = k
    <3>1. outcome'[k] = outcome[k]
      BY <1>1, <2>1
    <3> QED
      BY <3>1 DEF IInv, TypeOK, BeforeAndAfter, IsMeasured, IsApplied
  <2>2. CASE \E f \in req[h].found : f.key = k
    <3>1. of(k) \in req[h].found /\ of(k).key = k
      BY <2>2
    <3>2. of(k) \in Result /\ After(of(k))
      BY <1>2, <3>1 DEF Request, IInv, Measuring
    <3>3. outcome'[k] = [outcome[k] EXCEPT !.after = of(k).cost, !.afterAt = of(k).at]
      BY <1>1, <2>2
    <3> HIDE DEF of
    <3>4. outcome[k] \in OutcomeRow /\ of(k).cost \in Cost /\ of(k).at \in Time
      BY <3>2 DEF IInv, TypeOK, Result
    <3>5. /\ outcome'[k] \in OutcomeRow
          /\ outcome'[k].applied = outcome[k].applied
          /\ outcome'[k].beforeAt = outcome[k].beforeAt
          /\ outcome'[k].afterAt = of(k).at
      BY <3>3, <3>4 DEF OutcomeRow
    <3> QED
      BY <3>1, <3>2, <3>5 DEF After
  <2> QED
    BY <2>1, <2>2
<1>4. outcome' \in [Key -> OutcomeRow]
  BY <1>1, <1>3
<1>5. \A k \in Key : /\ outcome[k].beforeAt <= now /\ Fresh(outcome[k].beforeAt)
                     /\ IsApplied(k) => IsApplied(k)'
  BY <1>3 DEF IInv, IsApplied
<1>6. req' = [req EXCEPT ![h] = Idle] /\ UNCHANGED <<now, cum, ships, flows, moved>>
  BY <1>1
<1> HIDE DEF of
<1> QED
  BY <1>3, <1>4, <1>5, <1>6, TableIInv

LEMMA AbandonIInv ==
  ASSUME IInv, NEW h \in Handler, Abandon(h)
  PROVE  IInv'
  BY IdleRequest, RequestIInv DEF Abandon

-------------------------------------------------------------------------------

LEMMA NextIInv == IInv /\ [Next]_vars => IInv'
<1> SUFFICES ASSUME IInv, [Next]_vars PROVE IInv'
  OBVIOUS
<1>1. CASE Tick \/ (\E n \in Node, k \in Key : Traffic(n, k)) \/ \E n \in Node : AgentRestart(n)
  BY <1>1, WorldIInv
<1>2. CASE (\E n \in Node : Ship(n)) \/ Compact
  BY <1>2, RowsIInv
<1>3. ASSUME NEW h \in Handler, DashboardRead(h) \/ DashboardRecord(h) PROVE IInv'
  BY <1>3, DashboardReadIInv, DashboardRecordIInv
<1>4. ASSUME NEW h \in Handler, (\E k \in Key : ApplyBegin(h, k)) \/ ApplyWrite(h) PROVE IInv'
  BY <1>4, ApplyBeginIInv, ApplyWriteIInv
<1>5. ASSUME NEW h \in Handler,
             MeasureBegin(h) \/ (\E k \in Key : MeasureLatest(h, k)) \/ MeasureCost(h)
      PROVE IInv'
  BY <1>5, MeasureBeginIInv, MeasureLatestIInv, MeasureCostIInv
<1>6. ASSUME NEW h \in Handler, MeasureSave(h) \/ Abandon(h) PROVE IInv'
  BY <1>6, MeasureSaveIInv, AbandonIInv
<1>7. CASE UNCHANGED vars
  BY <1>7 DEF vars, IInv, TypeOK, Fresh, Measuring, After, BeforeAndAfter,
              IsApplied, IsMeasured
<1> QED
  BY <1>1, <1>2, <1>3, <1>4, <1>5, <1>6, <1>7 DEF Next

LEMMA Invariance == Spec => []IInv
  BY InitIInv, NextIInv, PTL DEF Spec

-------------------------------------------------------------------------------

\* The tables and what the requests hold keep their types, for any number of them.
THEOREM TypeCorrect == Spec => []TypeOK
<1>1. IInv => TypeOK
  BY DEF IInv
<1> QED
  BY <1>1, Invariance, PTL

\* Every measurement is of a moment after the fix was applied, and not before the
\* baseline's, whatever is ingested and compacted between the statements that lead to it.
THEOREM MeasuredAfterwards == Spec => []BeforeAndAfter
<1>1. IInv => BeforeAndAfter
  BY DEF IInv
<1> QED
  BY <1>1, Invariance, PTL

\* The baseline of an applied fix is frozen, for every request that is still to write.
THEOREM AppliedForGood == Spec => AppliedIsFinal
<1> DEFINE A == \A k \in Key : IsApplied(k) =>
                  /\ outcome'[k].applied = outcome[k].applied
                  /\ outcome'[k].before = outcome[k].before
                  /\ outcome'[k].beforeAt = outcome[k].beforeAt
<1>1. IInv /\ [Next]_vars => [A]_vars
  <2> SUFFICES ASSUME IInv, Next, NEW k \in Key, IsApplied(k)
               PROVE  /\ outcome'[k].applied = outcome[k].applied
                      /\ outcome'[k].before = outcome[k].before
                      /\ outcome'[k].beforeAt = outcome[k].beforeAt
    OBVIOUS
  <2>1. CASE UNCHANGED outcome
    BY <2>1
  <2>2. ASSUME NEW h \in Handler, DashboardRecord(h) PROVE outcome'[k] = outcome[k]
    BY <2>2 DEF DashboardRecord, Shown, IInv, TypeOK
  <2>3. ASSUME NEW h \in Handler, ApplyWrite(h) PROVE outcome'[k] = outcome[k]
    <3>1. PICK p \in req[h].probe :
            outcome' = IF outcome[p.key].shown /\ outcome[p.key].applied = None
                       THEN [outcome EXCEPT ![p.key].applied = p.at] ELSE outcome
      BY <2>3 DEF ApplyWrite
    <3> QED
      BY <3>1 DEF IsApplied, IInv, TypeOK
  <2>4. ASSUME NEW h \in Handler, MeasureSave(h)
        PROVE  /\ outcome'[k].applied = outcome[k].applied
               /\ outcome'[k].before = outcome[k].before
               /\ outcome'[k].beforeAt = outcome[k].beforeAt
    <3>1. outcome'[k] = outcome[k] \/ \E c, t :
            outcome'[k] = [outcome[k] EXCEPT !.after = c, !.afterAt = t]
      BY <2>4 DEF MeasureSave
    <3>2. outcome[k] \in OutcomeRow
      BY DEF IInv, TypeOK
    <3> QED
      BY <3>1, <3>2 DEF OutcomeRow
  <2> QED
    BY <2>1, <2>2, <2>3, <2>4
       DEF Next, Tick, Traffic, AgentRestart, Ship, Compact, DashboardRead, ApplyBegin,
           MeasureBegin, MeasureLatest, MeasureCost, Abandon
<1>2. Spec => [][A]_vars
  BY <1>1, Invariance, PTL DEF Spec
<1> QED
  BY <1>2 DEF AppliedIsFinal
===============================================================================
