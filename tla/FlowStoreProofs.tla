---------------------------- MODULE FlowStoreProofs ----------------------------
(***************************************************************************)
(* What FlowStore promises for every set of requests, findings, clusters   *)
(* and flows, every retention and day length, and any number of crashes.   *)
(***************************************************************************)
EXTENDS FlowStore, TLAPS

\* What the transaction in progress knows.  Between its SELECT and its first
\* upsert the tables may move on, but then it is stale; from the first upsert
\* it holds the write lock, so what it selected is still what it will delete.
TxConsistent ==
  /\ compact # "idle" => cutoff <= now - Retention
  /\ compact = "selected" /\ ~stale =>
       /\ selected = OlderThan(cutoff)
       /\ pending = {GroupOf(r) : r \in selected}
       /\ draft = daily
  /\ compact \in {"upserting", "deleted"} =>
       /\ \A p \in Post : phase[p] # "inserted"
       /\ selected = OlderThan(cutoff)
       /\ \A g \in Group : \A r \in Row :
            draft[g][r] = daily[g][r] +
              IF r \in selected /\ GroupOf(r) = g /\ g \notin pending THEN 1 ELSE 0
  /\ compact = "deleted" =>
       /\ pending = {}
       /\ doomed = selected

\* The inductive invariant.
IInv ==
  /\ TypeOK
  /\ CountedOnce
  /\ RecentRowsAreRaw
  /\ SnapshotsWhole
  /\ TxConsistent

-------------------------------------------------------------------------------

LEMMA GroupOfType == ASSUME TypeOK, NEW r \in Row PROVE GroupOf(r) \in Group
  BY StoreAssumption DEF TypeOK, Row, Group, GroupOf, Day

LEMMA EmptyRollupType == EmptyRollup \in [Group -> [Row -> Nat]]
  BY DEF EmptyRollup

LEMMA CompactOverType ==
  CompactOver =>
    /\ compact' \in {"idle", "selected", "upserting", "deleted"}
    /\ cutoff' \in Int
    /\ selected' \in SUBSET Row /\ doomed' \in SUBSET Row
    /\ pending' \in SUBSET Group
    /\ draft' \in [Group -> [Row -> Nat]]
    /\ stale' \in BOOLEAN
<1>1. CompactOver => stale' \in BOOLEAN
  BY Zenon DEF CompactOver
<1>2. CompactOver => draft' \in [Group -> [Row -> Nat]]
  BY EmptyRollupType DEF CompactOver
<1> QED
  BY <1>1, <1>2 DEF CompactOver

\* An upsert is well typed and adds exactly the selected rows of its group.
LEMMA UpsertedValue ==
  ASSUME NEW table \in [Group -> [Row -> Nat]], NEW g \in Group
  PROVE  /\ Upserted(table, g) \in [Group -> [Row -> Nat]]
         /\ \A h \in Group : \A r \in Row :
              Upserted(table, g)[h][r] =
                IF h = g
                THEN table[g][r] + IF r \in selected /\ GroupOf(r) = g THEN 1 ELSE 0
                ELSE table[h][r]
<1> DEFINE row == [r \in Row |-> table[g][r] +
                     IF r \in selected /\ GroupOf(r) = g THEN 1 ELSE 0]
<1>1. row \in [Row -> Nat]
  OBVIOUS
<1>2. Upserted(table, g) = [table EXCEPT ![g] = row]
  BY DEF Upserted
<1> HIDE DEF row
<1>3. Upserted(table, g) \in [Group -> [Row -> Nat]]
  BY <1>1, <1>2
<1>4. ASSUME NEW h \in Group, h # g PROVE Upserted(table, g)[h] = table[h]
  BY <1>2, <1>4
<1>5. Upserted(table, g)[g] = row
  BY <1>2
<1>6. \A r \in Row : row[r] = table[g][r] +
                       IF r \in selected /\ GroupOf(r) = g THEN 1 ELSE 0
  BY DEF row
<1> QED
  BY <1>3, <1>4, <1>5, <1>6

LEMMA InitIInv == Init => IInv
<1> SUFFICES ASSUME Init PROVE IInv
  OBVIOUS
<1>1. TypeOK
  <2>1. now \in Time /\ stamp \in [Post -> Time] /\ failures \in 0 .. MaxFailures
    BY StoreAssumption DEF Init, Time
  <2>2. phase \in [Post -> {"new", "stamped", "inserted", "committed", "failed"}]
    BY DEF Init
  <2>3. daily \in [Group -> [Row -> Nat]] /\ draft \in [Group -> [Row -> Nat]]
    BY EmptyRollupType DEF Init
  <2>4. /\ cutoff \in Int
        /\ compact \in {"idle", "selected", "upserting", "deleted"}
        /\ raw \in SUBSET Row /\ selected \in SUBSET Row
        /\ pending \in SUBSET Group /\ doomed \in SUBSET Row
        /\ batch \in [Post -> SUBSET Finding]
    BY DEF Init
  <2>5. stale \in BOOLEAN
    BY Zenon DEF Init
  <2> QED
    BY <2>1, <2>2, <2>3, <2>4, <2>5 DEF TypeOK
<1>2. CountedOnce
  <2>1. Ingested = {}
    BY DEF Init, Ingested, Row
  <2>2. ASSUME NEW r \in Row PROVE NoTrace(r)
    BY DEF Init, NoTrace, EmptyRollup
  <2> QED
    BY <2>1, <2>2 DEF Init, CountedOnce
<1>3. RecentRowsAreRaw
  BY DEF Init, RecentRowsAreRaw, Ingested, Row
<1>4. SnapshotsWhole
  BY DEF Init, SnapshotsWhole
<1>5. TxConsistent
  BY DEF Init, TxConsistent
<1> QED
  BY <1>1, <1>2, <1>3, <1>4, <1>5 DEF IInv

-------------------------------------------------------------------------------
\* Type correctness.
LEMMA NextTypeOK == TypeOK /\ [Next]_vars => TypeOK'
<1> SUFFICES ASSUME TypeOK, [Next]_vars PROVE TypeOK'
  OBVIOUS
<1> USE StoreAssumption DEF TypeOK
<1>0. ASSUME CompactOver
      PROVE  /\ compact' \in {"idle", "selected", "upserting", "deleted"}
             /\ cutoff' \in Int
             /\ selected' \in SUBSET Row /\ doomed' \in SUBSET Row
             /\ pending' \in SUBSET Group
             /\ draft' \in [Group -> [Row -> Nat]]
             /\ stale' \in BOOLEAN
  BY <1>0, CompactOverType
<1>1. CASE Tick
  BY <1>1 DEF Tick, Time, postVars, tableVars, compactVars
<1>2. ASSUME NEW p \in Post, NEW fs \in SUBSET Finding, IngestBegin(p, fs)
      PROVE  TypeOK'
  BY <1>2 DEF IngestBegin, tableVars, compactVars
<1>3. ASSUME NEW p \in Post, IngestInsert(p) PROVE TypeOK'
  BY <1>3 DEF IngestInsert, tableVars, compactVars
<1>4. ASSUME NEW p \in Post, IngestCommit(p) PROVE TypeOK'
  <2>1. RowsOf(p) \subseteq Row
    BY DEF RowsOf, Row
  <2> QED
    BY <1>4, <2>1 DEF IngestCommit
<1>5. ASSUME NEW p \in Post, IngestFail(p) PROVE TypeOK'
  BY <1>5 DEF IngestFail, tableVars, compactVars
<1>6. CASE CompactSelect
  <2>1. {GroupOf(r) : r \in OlderThan(now - Retention)} \subseteq Group
    BY GroupOfType DEF OlderThan
  <2>2. now - Retention \in Int
    BY DEF Time
  <2> QED
    BY <1>6, <2>1, <2>2 DEF CompactSelect, OlderThan, postVars, tableVars
<1>7. ASSUME NEW g \in Group, CompactUpsert(g) PROVE TypeOK'
  <2>1. draft' \in [Group -> [Row -> Nat]]
    BY <1>7, UpsertedValue DEF CompactUpsert
  <2> QED
    BY <1>7, <2>1 DEF CompactUpsert, postVars, tableVars
<1>8. CASE CompactDelete
  BY <1>8 DEF CompactDelete, OlderThan, postVars, tableVars
<1>9. CASE CompactCommit
  BY <1>0, <1>9 DEF CompactCommit, postVars
<1>10. CASE CompactRefused
  BY <1>0, <1>10 DEF CompactRefused, postVars, tableVars
<1>11. CASE CompactFail
  BY <1>0, <1>11 DEF CompactFail, postVars, tableVars
<1>12. CASE Crash
  BY <1>0, <1>12 DEF Crash, tableVars
<1>13. CASE UNCHANGED vars
  BY <1>13 DEF vars, postVars, tableVars, compactVars
<1>14. CASE OtherCommit
  BY <1>14 DEF OtherCommit, postVars, tableVars
<1> QED
  BY <1>1, <1>2, <1>3, <1>4, <1>5, <1>6, <1>7, <1>8, <1>9, <1>10, <1>11, <1>12,
     <1>13, <1>14 DEF Next

-------------------------------------------------------------------------------
\* The three promises about the tables, which most steps leave alone.
TablePromises == CountedOnce /\ RecentRowsAreRaw /\ SnapshotsWhole

\* A step that commits nothing, in either table, keeps them.
QuietStep ==
  /\ \A p \in Post : phase'[p] = "committed" <=> phase[p] = "committed"
  /\ \A p \in Post : phase[p] = "committed" =>
        stamp'[p] = stamp[p] /\ batch'[p] = batch[p]
  /\ raw' = raw
  /\ daily' = daily
  /\ now' \in Int /\ now' >= now

LEMMA QuietStepKeepsPromises ==
  ASSUME TypeOK, TablePromises, QuietStep PROVE TablePromises'
<1>1. Ingested' = Ingested
  BY DEF QuietStep, Ingested, Row
<1>2. \A r \in Ingested : GroupOf(r)' = GroupOf(r)
  BY DEF QuietStep, GroupOf, Ingested, Row
<1>3. CountedOnce'
  BY <1>1, <1>2 DEF TablePromises, CountedOnce, NoTrace, OnceIn, QuietStep
<1>4. RecentRowsAreRaw'
  <2> SUFFICES ASSUME NEW r \in Ingested, stamp'[r[1]] >= now' - Retention
               PROVE  r \in raw
    BY <1>1 DEF RecentRowsAreRaw, QuietStep
  <2>1. r[1] \in Post /\ phase[r[1]] = "committed"
    BY DEF Ingested, Row
  <2>2. stamp[r[1]] \in Int /\ now \in Int
    BY <2>1, StoreAssumption DEF TypeOK, Time
  <2>3. stamp[r[1]] >= now - Retention
    BY <2>1, <2>2, StoreAssumption DEF QuietStep
  <2> QED
    BY <2>3 DEF TablePromises, RecentRowsAreRaw
<1>5. SnapshotsWhole'
  <2> SUFFICES ASSUME NEW p \in Post
               PROVE  RowsOf(p)' \subseteq raw \/ RowsOf(p)' \cap raw = {}
    BY DEF SnapshotsWhole, QuietStep
  <2>1. CASE phase[p] = "committed"
    BY <2>1 DEF TablePromises, SnapshotsWhole, RowsOf, QuietStep
  <2>2. CASE phase[p] # "committed"
    BY <2>2 DEF TablePromises, CountedOnce, Ingested, RowsOf
  <2> QED
    BY <2>1, <2>2
<1> QED
  BY <1>3, <1>4, <1>5 DEF TablePromises

\* The commit of a snapshot adds rows nothing has counted yet.
LEMMA IngestCommitKeepsPromises ==
  ASSUME TypeOK, TablePromises, NEW p \in Post, IngestCommit(p)
  PROVE  TablePromises'
<1>1. phase[p] # "committed" /\ phase'[p] = "committed"
  BY DEF IngestCommit, TypeOK
<1>2. \A q \in Post : q # p => phase'[q] = phase[q]
  BY DEF IngestCommit, TypeOK
<1>3. RowsOf(p) \subseteq Row /\ RowsOf(p) \cap Ingested = {}
  BY <1>1 DEF RowsOf, Row, Ingested, TypeOK
<1>4. Ingested' = Ingested \cup RowsOf(p)
  BY <1>1, <1>2 DEF Ingested, RowsOf, Row, IngestCommit, TypeOK
<1>5. raw' = raw \cup RowsOf(p) /\ daily' = daily /\ now' = now
  BY DEF IngestCommit
<1>6. \A r \in Row : GroupOf(r)' = GroupOf(r)
  BY DEF GroupOf, IngestCommit
<1>7. CountedOnce'
  <2>1. raw' \subseteq Ingested'
    BY <1>4, <1>5 DEF TablePromises, CountedOnce
  <2>2. Ingested' \ raw' = Ingested \ raw
    BY <1>3, <1>4, <1>5 DEF TablePromises, CountedOnce
  <2> QED
    BY <2>1, <2>2, <1>5, <1>6 DEF TablePromises, CountedOnce, NoTrace, OnceIn
<1>8. RecentRowsAreRaw'
  BY <1>4, <1>5 DEF TablePromises, RecentRowsAreRaw, IngestCommit
<1>9. SnapshotsWhole'
  <2>1. ASSUME NEW q \in Post, q # p
        PROVE  RowsOf(q)' \subseteq raw' \/ RowsOf(q)' \cap raw' = {}
    <3>1. RowsOf(q) \cap RowsOf(p) = {} /\ RowsOf(q)' = RowsOf(q)
      BY <2>1 DEF RowsOf, IngestCommit
    <3>2. RowsOf(q) \subseteq raw \/ RowsOf(q) \cap raw = {}
      BY DEF TablePromises, SnapshotsWhole
    <3> QED
      BY <3>1, <3>2, <1>5
  <2>2. RowsOf(p)' \subseteq raw'
    BY <1>5 DEF RowsOf, IngestCommit
  <2> QED
    BY <2>1, <2>2 DEF SnapshotsWhole
<1> QED
  BY <1>7, <1>8, <1>9 DEF TablePromises

\* The commit of a pass moves exactly the rows it selected.
LEMMA CompactCommitKeepsPromises ==
  ASSUME TypeOK, TablePromises, TxConsistent, CompactCommit
  PROVE  TablePromises'
<1>1. raw' = raw \ selected /\ daily' = draft /\ now' = now
  BY DEF CompactCommit, TxConsistent
<1>2. selected = OlderThan(cutoff) /\ selected \subseteq raw
  BY DEF CompactCommit, TxConsistent, OlderThan
<1>3. \A g \in Group : \A r \in Row :
        daily'[g][r] = daily[g][r] +
          IF r \in selected /\ GroupOf(r) = g THEN 1 ELSE 0
  BY DEF CompactCommit, TxConsistent
<1>4. Ingested' = Ingested /\ \A r \in Row : GroupOf(r)' = GroupOf(r)
  BY DEF CompactCommit, postVars, Ingested, GroupOf
<1>5. CountedOnce'
  <2>1. raw' \subseteq Ingested'
    BY <1>1, <1>4 DEF TablePromises, CountedOnce
  <2>2. ASSUME NEW r \in Row, r \in Ingested' \ raw' PROVE OnceIn(r, GroupOf(r))'
    <3>1. CASE r \in selected
      <4>1. NoTrace(r)
        BY <1>2, <3>1 DEF TablePromises, CountedOnce
      <4> QED
        BY <4>1, <3>1, <1>3, <1>4 DEF NoTrace, OnceIn
    <3>2. CASE r \notin selected
      <4>1. OnceIn(r, GroupOf(r))
        BY <2>2, <1>1, <1>4, <3>2 DEF TablePromises, CountedOnce
      <4>2. \A g \in Group : daily'[g][r] = daily[g][r]
        BY <3>2, <1>3 DEF TypeOK
      <4> QED
        BY <4>1, <4>2, <1>4 DEF OnceIn
    <3> QED
      BY <3>1, <3>2
  <2>3. ASSUME NEW r \in Row, r \notin Ingested' \ raw' PROVE NoTrace(r)'
    <3>1. r \notin selected /\ NoTrace(r)
      BY <2>3, <1>1, <1>2, <1>4 DEF TablePromises, CountedOnce
    <3> QED
      BY <3>1, <1>3 DEF NoTrace
  <2> QED
    BY <2>1, <2>2, <2>3 DEF CountedOnce
<1>6. RecentRowsAreRaw'
  <2> SUFFICES ASSUME NEW r \in Ingested, stamp[r[1]] >= now - Retention
               PROVE  r \in raw \ selected
    BY <1>1, <1>4 DEF RecentRowsAreRaw, CompactCommit, postVars
  <2>1. r[1] \in Post
    BY DEF Ingested, Row
  <2>2. stamp[r[1]] \in Int /\ now \in Int /\ cutoff \in Int
    BY <2>1, StoreAssumption DEF TypeOK, Time
  <2>3. cutoff <= now - Retention
    BY DEF TxConsistent, CompactCommit
  <2>4. ~(stamp[r[1]] < cutoff)
    BY <2>2, <2>3, StoreAssumption
  <2> QED
    BY <2>4, <1>2 DEF TablePromises, RecentRowsAreRaw, OlderThan
<1>7. SnapshotsWhole'
  <2> SUFFICES ASSUME NEW p \in Post
               PROVE  \/ RowsOf(p) \subseteq raw \ selected
                      \/ RowsOf(p) \cap (raw \ selected) = {}
    BY <1>1 DEF SnapshotsWhole, CompactCommit, postVars, RowsOf
  <2>1. \A r \in RowsOf(p) : r[1] = p
    BY DEF RowsOf
  <2>2. CASE RowsOf(p) \cap raw = {}
    BY <2>2
  <2>3. CASE RowsOf(p) \subseteq raw /\ stamp[p] < cutoff
    BY <2>1, <2>3, <1>2 DEF OlderThan
  <2>4. CASE RowsOf(p) \subseteq raw /\ ~(stamp[p] < cutoff)
    BY <2>1, <2>4, <1>2 DEF OlderThan
  <2> QED
    BY <2>2, <2>3, <2>4 DEF TablePromises, SnapshotsWhole
<1> QED
  BY <1>5, <1>6, <1>7 DEF TablePromises

-------------------------------------------------------------------------------
\* A step that touches neither the transaction nor the rows it can see.
LEMMA TxUndisturbed ==
  ASSUME TypeOK, raw \subseteq Ingested, TxConsistent,
         UNCHANGED <<compactVars, daily, raw>>,
         now' \in Int, now' >= now,
         \A p \in Post : phase[p] = "committed" => stamp'[p] = stamp[p],
         \/ compact \notin {"upserting", "deleted"}
         \/ \A p \in Post : phase'[p] # "inserted"
  PROVE  TxConsistent'
<1>1. \A t : OlderThan(t)' = {r \in raw : stamp'[r[1]] < t'}
  BY DEF OlderThan
<1>2. \A r \in raw : stamp'[r[1]] = stamp[r[1]]
  BY DEF Ingested, Row
<1>3. OlderThan(cutoff)' = OlderThan(cutoff)
  BY <1>1, <1>2 DEF OlderThan, compactVars
<1>4. \A r \in raw : GroupOf(r)' = GroupOf(r)
  BY <1>2 DEF GroupOf
<1>5. (compact # "idle" => cutoff <= now - Retention)'
  BY StoreAssumption DEF TypeOK, Time, TxConsistent, compactVars
<1>6. (compact = "selected" /\ ~stale =>
         /\ selected = OlderThan(cutoff)
         /\ pending = {GroupOf(r) : r \in selected}
         /\ draft = daily)'
  <2> SUFFICES ASSUME compact = "selected", ~stale
               PROVE  /\ selected = OlderThan(cutoff)
                      /\ pending = {GroupOf(r)' : r \in selected}
                      /\ draft = daily
    BY <1>3 DEF compactVars
  <2>1. selected \subseteq raw
    BY DEF TxConsistent, OlderThan
  <2> QED
    BY <2>1, <1>4 DEF TxConsistent
<1>7. (compact \in {"upserting", "deleted"} =>
         /\ \A p \in Post : phase[p] # "inserted"
         /\ selected = OlderThan(cutoff)
         /\ \A g \in Group : \A r \in Row :
              draft[g][r] = daily[g][r] +
                IF r \in selected /\ GroupOf(r) = g /\ g \notin pending THEN 1 ELSE 0)'
  <2> SUFFICES ASSUME compact \in {"upserting", "deleted"}
               PROVE  /\ \A p \in Post : phase'[p] # "inserted"
                      /\ selected = OlderThan(cutoff)
                      /\ \A g \in Group : \A r \in Row :
                           draft[g][r] = daily[g][r] +
                             IF r \in selected /\ GroupOf(r)' = g /\ g \notin pending
                             THEN 1 ELSE 0
    BY <1>3 DEF compactVars
  <2>1. selected \subseteq raw
    BY DEF TxConsistent, OlderThan
  <2> QED
    BY <2>1, <1>4 DEF TxConsistent
<1>8. (compact = "deleted" => pending = {} /\ doomed = selected)'
  BY DEF TxConsistent, compactVars
<1> QED
  BY <1>5, <1>6, <1>7, <1>8 DEF TxConsistent

\* The upsert that starts the writing finds what the SELECT found; each one
\* moves a group from what is to do to what is done.
LEMMA CompactUpsertConsistent ==
  ASSUME TypeOK, TxConsistent, NEW g \in Group, CompactUpsert(g)
  PROVE  TxConsistent'
<1>1. /\ \A p \in Post : phase[p] # "inserted"
      /\ selected = OlderThan(cutoff)
      /\ cutoff <= now - Retention
  BY DEF CompactUpsert, WriteLockFree, TxConsistent
<1>2. \A h \in Group : \A r \in Row :
        draft[h][r] = daily[h][r] +
          IF r \in selected /\ GroupOf(r) = h /\ h \notin pending THEN 1 ELSE 0
  <2>1. CASE compact = "selected"
    <3>1. pending = {GroupOf(r) : r \in selected} /\ draft = daily
      BY <2>1 DEF CompactUpsert, TxConsistent
    <3>2. \A h \in Group, r \in Row : daily[h][r] \in Nat
      BY DEF TypeOK
    <3> QED
      BY <3>1, <3>2
  <2>2. CASE compact = "upserting"
    BY <2>2 DEF TxConsistent
  <2> QED
    BY <2>1, <2>2 DEF CompactUpsert
<1>3. /\ compact' = "upserting" /\ pending' = pending \ {g}
      /\ draft' = Upserted(draft, g) /\ g \in pending
      /\ UNCHANGED <<now, phase, stamp, raw, daily, cutoff, selected>>
  BY DEF CompactUpsert, postVars, tableVars
<1>4. \A r \in Row : GroupOf(r)' = GroupOf(r)
  BY <1>3 DEF GroupOf
<1>5. OlderThan(cutoff)' = OlderThan(cutoff)
  BY <1>3 DEF OlderThan
<1>6. ASSUME NEW h \in Group, NEW r \in Row
      PROVE  draft'[h][r] = daily[h][r] +
               IF r \in selected /\ GroupOf(r) = h /\ h \notin pending' THEN 1 ELSE 0
  <2>0. daily[h][r] \in Nat
    BY DEF TypeOK
  <2>1. draft'[h][r] = IF h = g
                       THEN draft[g][r] +
                              IF r \in selected /\ GroupOf(r) = g THEN 1 ELSE 0
                       ELSE draft[h][r]
    <3>1. draft \in [Group -> [Row -> Nat]]
      BY DEF TypeOK
    <3>2. Upserted(draft, g)[h][r] =
            IF h = g
            THEN draft[g][r] + IF r \in selected /\ GroupOf(r) = g THEN 1 ELSE 0
            ELSE draft[h][r]
      BY <3>1, UpsertedValue
    <3> QED
      BY <3>2, <1>3
  <2>2. CASE h = g
    BY <2>0, <2>1, <2>2, <1>2, <1>3
  <2>3. CASE h # g
    BY <2>1, <2>3, <1>2, <1>3
  <2> QED
    BY <2>2, <2>3
<1> QED
  BY <1>1, <1>3, <1>4, <1>5, <1>6 DEF TxConsistent

LEMMA NextTxConsistent ==
  ASSUME TypeOK, CountedOnce, TxConsistent, [Next]_vars, TypeOK'
  PROVE  TxConsistent'
<1>a. raw \subseteq Ingested
  BY DEF CountedOnce
<1>b. now \in Int /\ now' \in Int
  BY StoreAssumption DEF TypeOK, Time
<1>1. CASE Tick
  BY <1>1, <1>a, <1>b, TxUndisturbed DEF Tick, postVars, tableVars, TxConsistent
<1>2. ASSUME NEW p \in Post, NEW fs \in SUBSET Finding, IngestBegin(p, fs)
      PROVE  TxConsistent'
  <2>1. \A q \in Post : phase[q] = "committed" => stamp'[q] = stamp[q]
    BY <1>2 DEF IngestBegin, TypeOK
  <2>2. \A q \in Post : phase'[q] = "inserted" => phase[q] = "inserted"
    BY <1>2 DEF IngestBegin, TypeOK
  <2>3. UNCHANGED <<compactVars, daily, raw>> /\ now' = now
    BY <1>2 DEF IngestBegin, tableVars
  <2> QED
    BY <2>1, <2>2, <2>3, <1>a, <1>b, TxUndisturbed DEF TxConsistent
<1>3. ASSUME NEW p \in Post, IngestInsert(p) PROVE TxConsistent'
  BY <1>3, <1>a, <1>b, TxUndisturbed DEF IngestInsert, WriteLockFree, tableVars
<1>4. ASSUME NEW p \in Post, IngestCommit(p) PROVE TxConsistent'
  <2>0. /\ UNCHANGED <<now, stamp, daily, compact, cutoff, selected, pending,
                       draft, doomed>>
        /\ \A q \in Post : phase'[q] = "inserted" => phase[q] = "inserted"
    BY <1>4 DEF IngestCommit, TypeOK
  <2>1. CASE batch[p] = {}
    <3>1. raw' = raw
      BY <1>4, <2>1 DEF IngestCommit, RowsOf
    <3>2. stale' = stale
      BY <1>4, <2>1 DEF IngestCommit, TypeOK
    <3> QED
      BY <3>1, <3>2, <2>0, <1>a, <1>b, TxUndisturbed DEF compactVars, TxConsistent
  <2>2. CASE batch[p] # {}
    <3>1. phase[p] = "inserted"
      BY <1>4, <2>2 DEF IngestCommit
    <3>2. compact \notin {"upserting", "deleted"}
      BY <3>1 DEF TxConsistent
    <3>3. compact = "selected" => stale'
      BY <1>4, <2>2 DEF IngestCommit
    <3> QED
      BY <3>2, <3>3, <2>0 DEF TxConsistent
  <2> QED
    BY <2>1, <2>2
<1>5. ASSUME NEW p \in Post, IngestFail(p) PROVE TxConsistent'
  <2>1. \A q \in Post : phase'[q] = "inserted" => phase[q] = "inserted"
    BY <1>5 DEF IngestFail, TypeOK
  <2> QED
    BY <2>1, <1>5, <1>a, <1>b, TxUndisturbed DEF IngestFail, tableVars, TxConsistent
<1>6. CASE CompactSelect
  <2>1. OlderThan(cutoff)' = OlderThan(now - Retention)
    BY <1>6 DEF CompactSelect, OlderThan, postVars, tableVars
  <2>2. \A r \in Row : GroupOf(r)' = GroupOf(r)
    BY <1>6 DEF CompactSelect, GroupOf, postVars
  <2>3. OlderThan(now - Retention) \subseteq Row
    BY DEF OlderThan, TypeOK
  <2>4. /\ compact' = "selected" /\ cutoff' = now - Retention
        /\ selected' = OlderThan(now - Retention)
        /\ pending' = {GroupOf(r) : r \in OlderThan(now - Retention)}
        /\ draft' = daily' /\ now' = now
    BY <1>6 DEF CompactSelect, tableVars
  <2>5. pending' = {GroupOf(r)' : r \in selected'}
    BY <2>2, <2>3, <2>4
  <2>6. cutoff' <= now' - Retention
    BY <2>4, <1>b, StoreAssumption
  <2>7. selected' = OlderThan(cutoff)'
    BY <2>1, <2>4
  <2> QED
    BY <2>4, <2>5, <2>6, <2>7 DEF TxConsistent
<1>7. ASSUME NEW g \in Group, CompactUpsert(g) PROVE TxConsistent'
  BY <1>7, CompactUpsertConsistent
<1>8. CASE CompactDelete
  <2>1. OlderThan(cutoff)' = OlderThan(cutoff)
    BY <1>8 DEF CompactDelete, OlderThan, postVars, tableVars
  <2>2. \A r \in Row : GroupOf(r)' = GroupOf(r)
    BY <1>8 DEF CompactDelete, GroupOf, postVars
  <2> QED
    BY <1>8, <2>1, <2>2 DEF CompactDelete, TxConsistent, postVars, tableVars
<1>9. ASSUME CompactOver PROVE TxConsistent'
  BY <1>9 DEF CompactOver, TxConsistent
<1>10. CASE UNCHANGED vars
  BY <1>10, <1>a, <1>b, TxUndisturbed DEF vars, postVars, tableVars, TxConsistent
<1>11. CASE OtherCommit
  <2>1. \A r \in Row : GroupOf(r)' = GroupOf(r)
    BY <1>11 DEF OtherCommit, GroupOf, postVars
  <2> QED
    BY <1>11, <2>1 DEF OtherCommit, TxConsistent, postVars, tableVars, TypeOK
<1> QED
  BY <1>1, <1>2, <1>3, <1>4, <1>5, <1>6, <1>7, <1>8, <1>9, <1>10, <1>11
  DEF Next, CompactCommit, CompactRefused, CompactFail, Crash

-------------------------------------------------------------------------------
\* Every step is quiet, except the two commits.
LEMMA StepKinds ==
  ASSUME TypeOK, [Next]_vars
  PROVE  QuietStep \/ CompactCommit \/ \E p \in Post : IngestCommit(p)
<1>b. now \in Int
  BY StoreAssumption DEF TypeOK, Time
<1>1. CASE Tick
  BY <1>1, <1>b DEF Tick, QuietStep, postVars, tableVars
<1>2. ASSUME NEW p \in Post, NEW fs \in SUBSET Finding, IngestBegin(p, fs)
      PROVE  QuietStep
  BY <1>2, <1>b DEF IngestBegin, QuietStep, tableVars, TypeOK
<1>3. ASSUME NEW p \in Post, IngestInsert(p) PROVE QuietStep
  BY <1>3, <1>b DEF IngestInsert, QuietStep, tableVars, TypeOK
<1>4. ASSUME NEW p \in Post, IngestFail(p) PROVE QuietStep
  BY <1>4, <1>b DEF IngestFail, QuietStep, tableVars, TypeOK
<1>5. CASE CompactSelect
  BY <1>5, <1>b DEF CompactSelect, QuietStep, postVars, tableVars
<1>6. ASSUME NEW g \in Group, CompactUpsert(g) PROVE QuietStep
  BY <1>6, <1>b DEF CompactUpsert, QuietStep, postVars, tableVars
<1>7. CASE CompactDelete
  BY <1>7, <1>b DEF CompactDelete, QuietStep, postVars, tableVars
<1>8. CASE CompactRefused
  BY <1>8, <1>b DEF CompactRefused, QuietStep, postVars, tableVars
<1>9. CASE CompactFail
  BY <1>9, <1>b DEF CompactFail, QuietStep, postVars, tableVars
<1>10. CASE Crash
  BY <1>10, <1>b DEF Crash, QuietStep, tableVars, TypeOK
<1>11. CASE UNCHANGED vars
  BY <1>11, <1>b DEF vars, QuietStep, postVars, tableVars
<1>12. CASE OtherCommit
  BY <1>12, <1>b DEF OtherCommit, QuietStep, postVars, tableVars
<1> QED
  BY <1>1, <1>2, <1>3, <1>4, <1>5, <1>6, <1>7, <1>8, <1>9, <1>10, <1>11, <1>12
  DEF Next

LEMMA NextIInv == IInv /\ [Next]_vars => IInv'
<1> SUFFICES ASSUME IInv, [Next]_vars PROVE IInv'
  OBVIOUS
<1>1. TypeOK /\ TablePromises /\ TxConsistent
  BY DEF IInv, TablePromises
<1>2. TypeOK'
  BY <1>1, NextTypeOK
<1>3. TxConsistent'
  BY <1>1, <1>2, NextTxConsistent DEF TablePromises
<1>4. TablePromises'
  BY <1>1, StepKinds, QuietStepKeepsPromises, IngestCommitKeepsPromises,
     CompactCommitKeepsPromises
<1> QED
  BY <1>2, <1>3, <1>4 DEF IInv, TablePromises

THEOREM SpecIInv == Spec => []IInv
  BY InitIInv, NextIInv, PTL DEF Spec

-------------------------------------------------------------------------------
\* Every variable keeps its type.
THEOREM TypeCorrect == Spec => []TypeOK
<1>1. IInv => TypeOK
  BY DEF IInv
<1> QED
  BY <1>1, SpecIInv, PTL

\* No row is lost or counted twice, whatever ingest and compaction do to each
\* other and wherever they fail.
THEOREM RowsCountedOnce == Spec => []CountedOnce
<1>1. IInv => CountedOnce
  BY DEF IInv
<1> QED
  BY <1>1, SpecIInv, PTL

\* Compaction leaves the retention window alone.
THEOREM RetentionKept == Spec => []RecentRowsAreRaw
<1>1. IInv => RecentRowsAreRaw
  BY DEF IInv
<1> QED
  BY <1>1, SpecIInv, PTL

\* A snapshot is visible as a whole or not at all.
THEOREM SnapshotsStayWhole == Spec => []SnapshotsWhole
<1>1. IInv => SnapshotsWhole
  BY DEF IInv
<1> QED
  BY <1>1, SpecIInv, PTL

\* The latest snapshot of a cluster is never replaced by an older one.
THEOREM LatestMonotone == Spec => LatestNeverRegresses
<1>1. ASSUME IInv, IInv', [Next]_vars
      PROVE  \A r \in LatestFindings : \A q \in LatestFindings' :
               ClusterOf[q[1]] = ClusterOf[r[1]] => stamp'[q[1]] >= stamp[r[1]]
  <2> SUFFICES ASSUME NEW r \in LatestFindings, NEW q \in LatestFindings',
                      ClusterOf[q[1]] = ClusterOf[r[1]]
               PROVE  stamp'[q[1]] >= stamp[r[1]]
    OBVIOUS
  <2>1. r \in raw /\ q \in raw'
    BY DEF LatestFindings
  <2>2. r[1] \in Post /\ q[1] \in Post /\ r \in Ingested
    BY <1>1, <2>1 DEF IInv, TypeOK, CountedOnce, Row
  <2>3. /\ stamp[r[1]] \in Int /\ stamp'[r[1]] \in Int /\ stamp'[q[1]] \in Int
    BY <1>1, <2>2, StoreAssumption DEF IInv, TypeOK, Time
  <2>4. stamp'[r[1]] = stamp[r[1]]
    <3>1. CASE QuietStep
      BY <3>1, <2>2 DEF QuietStep, Ingested
    <3>2. CASE CompactCommit
      BY <3>2 DEF CompactCommit, postVars
    <3>3. CASE \E p \in Post : IngestCommit(p)
      BY <3>3 DEF IngestCommit
    <3> QED
      BY <3>1, <3>2, <3>3, <1>1, StepKinds DEF IInv
  <2>5. CASE r \in raw'
    BY <2>3, <2>4, <2>5 DEF LatestFindings
  <2>6. CASE r \notin raw'
    <3>1. CompactCommit
      BY <2>1, <2>6, <1>1, StepKinds DEF IInv, QuietStep, IngestCommit
    <3>2. raw' = raw \ OlderThan(cutoff) /\ stamp' = stamp /\ cutoff \in Int
      BY <3>1, <1>1 DEF CompactCommit, IInv, TxConsistent, postVars, TypeOK
    <3>3. stamp[r[1]] < cutoff /\ ~(stamp[q[1]] < cutoff)
      BY <3>2, <2>1, <2>6 DEF OlderThan
    <3> QED
      BY <3>2, <3>3, <2>3
  <2> QED
    BY <2>5, <2>6
<1>2. IInv /\ IInv' /\ [Next]_vars =>
        [\A r \in LatestFindings : \A q \in LatestFindings' :
           ClusterOf[q[1]] = ClusterOf[r[1]] => stamp[q[1]]' >= stamp[r[1]]]_vars
  BY <1>1
<1> QED
  BY <1>2, SpecIInv, PTL DEF Spec, LatestNeverRegresses

-------------------------------------------------------------------------------
\* Under the invariant a row's tier is told by where it is and whether its
\* ingest committed.
LEMMA TierByInvariant ==
  ASSUME TypeOK, CountedOnce, NEW r \in Row
  PROVE  TierOf(r) = IF r \in raw THEN "raw"
                     ELSE IF r \in Ingested THEN "rolled" ELSE "absent"
<1>1. GroupOf(r) \in Group
  BY GroupOfType
<1>2. ~(NoTrace(r) /\ OnceIn(r, GroupOf(r)))
  BY <1>1 DEF NoTrace, OnceIn
<1>3. CASE r \in raw
  <2>1. NoTrace(r)
    BY <1>3 DEF CountedOnce
  <2> QED
    BY <1>3, <2>1 DEF TierOf
<1>4. CASE r \notin raw /\ r \in Ingested
  <2>1. OnceIn(r, GroupOf(r))
    BY <1>4 DEF CountedOnce
  <2> QED
    BY <1>2, <1>4, <2>1 DEF TierOf
<1>5. CASE r \notin raw /\ r \notin Ingested
  <2>1. NoTrace(r)
    BY <1>5 DEF CountedOnce
  <2> QED
    BY <1>2, <1>5, <2>1 DEF TierOf
<1> QED
  BY <1>3, <1>4, <1>5

\* Where the invariant says a row is.
TierNow(r) ==
  IF r \in raw THEN "raw" ELSE IF r \in Ingested THEN "rolled" ELSE "absent"

LEMMA TierIsTierNow == IInv => \A r \in Row : TierOf(r) = TierNow(r)
  BY TierByInvariant DEF IInv, TierNow

LEMMA TierIsTierNowNext == IInv' => \A r \in Row : TierOf(r)' = TierNow(r)'
<1>1. (IInv => \A r \in Row : TierOf(r) = TierNow(r))'
  BY TierIsTierNow, PTL
<1> QED
  BY <1>1

\* The flow tables implement the ledger.
THEOREM StoreImplementsLedger == Spec => ImplementsLedger
<1> DEFINE tierBar == [r \in Row |-> TierOf(r)]
<1>0. Ledger!Row = Row
  BY DEF Ledger!Row, Row
<1>1. Init => Ledger!Init
  <2> SUFFICES ASSUME Init PROVE tierBar = [r \in Row |-> "absent"]
    BY <1>0 DEF Ledger!Init
  <2>1. TypeOK /\ CountedOnce
    BY InitIInv DEF IInv
  <2>2. raw = {} /\ Ingested = {}
    BY DEF Init, Ingested, Row
  <2> QED
    BY <2>1, <2>2, TierByInvariant
<1>2. ASSUME IInv, IInv', [Next]_vars
      PROVE  Ledger!Next \/ UNCHANGED tierBar
  <2>1. tierBar = [r \in Row |-> TierNow(r)]
    BY <1>2, TierIsTierNow
  <2>2. tierBar' = [r \in Row |-> TierNow(r)']
    BY <1>2, TierIsTierNowNext
  <2> USE DEF TierNow
  <2>3. CASE QuietStep
    <3>1. raw' = raw /\ Ingested' = Ingested
      BY <2>3 DEF QuietStep, Ingested, Row
    <3> QED
      BY <3>1, <2>1, <2>2
  <2>4. ASSUME NEW p \in Post, IngestCommit(p) PROVE Ledger!Next
    <3>1. phase[p] # "committed" /\ batch[p] \in SUBSET Finding
      BY <1>2, <2>4 DEF IngestCommit, IInv, TypeOK
    <3>2. \A f \in Finding : <<p, f>> \notin Ingested
      BY <3>1 DEF Ingested
    <3>3. raw' = raw \cup RowsOf(p) /\ Ingested' = Ingested \cup RowsOf(p)
      BY <1>2, <2>4, <3>1 DEF IngestCommit, IInv, TypeOK, Ingested, RowsOf, Row
    <3>4. raw \subseteq Ingested
      BY <1>2 DEF IInv, CountedOnce
    <3>5. \A f \in Finding : tierBar[<<p, f>>] = "absent"
      BY <2>1, <3>2, <3>4 DEF Row
    <3>6. \A r \in Row : r \in RowsOf(p) <=> r[1] = p /\ r[2] \in batch[p]
      BY DEF RowsOf, Row
    <3>7. tierBar' = [r \in Row |-> IF r[1] = p /\ r[2] \in batch[p]
                                   THEN "raw" ELSE tierBar[r]]
      BY <2>1, <2>2, <3>3, <3>6
    <3>8. Ledger!Record(p, batch[p])
      BY <1>0, <3>5, <3>7 DEF Ledger!Record
    <3> QED
      BY <3>1, <3>8 DEF Ledger!Next
  <2>5. CASE CompactCommit
    <3> DEFINE ps == {p \in Post : stamp[p] < cutoff}
    <3>1. raw' = raw \ OlderThan(cutoff) /\ Ingested' = Ingested
      BY <2>5, <1>2 DEF CompactCommit, IInv, TxConsistent, postVars, Ingested
    <3>2. raw \subseteq Ingested /\ raw \subseteq Row
      BY <1>2 DEF IInv, CountedOnce, TypeOK
    <3>3. \A r \in raw : r \in OlderThan(cutoff) <=> r[1] \in ps
      BY <3>2 DEF OlderThan, Row
    <3>4. \A r \in Row : tierBar[r] = "raw" <=> r \in raw
      BY <2>1
    <3>5. tierBar' = [r \in Row |-> IF r[1] \in ps /\ tierBar[r] = "raw"
                                   THEN "rolled" ELSE tierBar[r]]
      BY <2>1, <2>2, <3>1, <3>2, <3>3, <3>4
    <3>6. Ledger!Roll(ps)
      BY <1>0, <3>5 DEF Ledger!Roll
    <3> QED
      BY <3>6 DEF Ledger!Next
  <2> QED
    BY <2>3, <2>4, <2>5, <1>2, StepKinds DEF IInv
<1>3. IInv /\ IInv' /\ [Next]_vars => [Ledger!Next]_tierBar
  BY <1>2
<1> QED
  BY <1>1, <1>3, SpecIInv, PTL DEF Spec, ImplementsLedger, Ledger!Spec
===============================================================================
