------------------------ MODULE TelemetryStoreProofs ------------------------
(***************************************************************************)
(* Proofs about TelemetryStore, for every number of rows, devices and      *)
(* keys and every retention period: the tables keep their types, and what  *)
(* DeviceLatest shows stays in step with Telemetry and lastReportedAt.     *)
(***************************************************************************)
EXTENDS TelemetryStore, WellFoundedInduction, TLAPS

NatLess == OpToRel(<, Nat)

\* The least-number principle for a set.
LEMMA MinExists ==
  ASSUME NEW S, S \subseteq Nat, S # {}
  PROVE  \E x \in S : \A y \in S : x <= y
<1>1. IsWellFoundedOn(NatLess, Nat)
  BY NatLessThanWellFounded DEF NatLess
<1>2. PICK x \in S : \A y \in S : ~ (<<y, x>> \in NatLess)
  BY <1>1, WFMin
<1>3. ASSUME NEW y \in S PROVE x <= y
  <2>1. ~ (<<y, x>> \in NatLess)
    BY <1>2
  <2>2. y < x => <<y, x>> \in NatLess
    BY DEF NatLess, OpToRel
  <2> QED BY <2>1, <2>2
<1> QED BY <1>3

\* A nonempty set of rows has a newest one, and NewestOf finds it.
LEMMA NewestOfSpec ==
  ASSUME NEW S \in SUBSET Rows, S # {}
  PROVE  /\ NewestOf(S) \in S
         /\ \A q \in S : q = NewestOf(S) \/ Newer(NewestOf(S), q)
<1>1. /\ S \subseteq Rows
      /\ NumRows \in Nat /\ MaxTime \in Nat
      /\ \A r \in Rows : r \in Nat /\ r <= NumRows
      /\ \A r \in Rows : At[r] \in Nat /\ At[r] <= MaxTime
  BY StoreAssumption DEF StoreAssumption, Rows
<1>2. PICK t \in S : \A q \in S : At[q] <= At[t]
  <2> DEFINE T == {MaxTime - At[r] : r \in S}
  <2>1. T \subseteq Nat /\ T # {}
    BY <1>1
  <2> HIDE DEF T
  <2>2. PICK x \in T : \A y \in T : x <= y
    BY <2>1, MinExists
  <2>3. PICK t \in S : x = MaxTime - At[t]
    BY DEF T
  <2>4. ASSUME NEW q \in S PROVE At[q] <= At[t]
    <3>1. MaxTime - At[q] \in T
      BY DEF T
    <3>2. MaxTime - At[t] <= MaxTime - At[q]
      BY <2>2, <2>3, <3>1
    <3> QED BY <1>1, <3>2
  <2> QED BY <2>4
<1>3. PICK m \in S : At[m] = At[t] /\ \A q \in S : At[q] = At[t] => q <= m
  <2> DEFINE T == {NumRows - r : r \in {r \in S : At[r] = At[t]}}
  <2>1. T \subseteq Nat /\ T # {}
    BY <1>1
  <2> HIDE DEF T
  <2>2. PICK x \in T : \A y \in T : x <= y
    BY <2>1, MinExists
  <2>3. PICK m \in S : At[m] = At[t] /\ x = NumRows - m
    BY DEF T
  <2>4. ASSUME NEW q \in S, At[q] = At[t] PROVE q <= m
    <3>1. NumRows - q \in T
      BY <2>4 DEF T
    <3>2. NumRows - m <= NumRows - q
      BY <2>2, <2>3, <3>1
    <3> QED BY <1>1, <3>2
  <2> QED BY <2>3, <2>4
<1>4. \A q \in S : q = m \/ Newer(m, q)
  BY <1>1, <1>2, <1>3 DEF Newer
<1> QED BY <1>4 DEF NewestOf

-----------------------------------------------------------------------------

\* A sweep's cutoff stays a retention period behind the clock.
CutoffInv == cutoff = 0 \/ cutoff + Retention <= clock

StoreInv ==
    /\ StoreTypeOK
    /\ CutoffInv
    /\ LatestCoversStore
    /\ LatestIsStoredOrSwept
    /\ LatestWithinLastReported

\* upsertBatch keeps the types of the tables.
LEMMA UpsertType ==
  ASSUME StoreTypeOK,
         NEW batch \in SUBSET Rows, NEW snOf \in [batch -> Sns],
         UpsertBatch(batch, snOf)
  PROVE  /\ telemetry' \in [Rows -> Sns \cup {NoSn}]
         /\ lastReportedAt' \in [Sns -> Times]
         /\ latest' \in [Keys -> Rows \cup {NoRow}]
<1> DEFINE created == Created(batch, snOf)
           stored  == [r \in Rows |-> IF r \in created THEN snOf[r] ELSE telemetry[r]]
           touched == {<<snOf[r], Metric[r]>> : r \in created}
<1>1. created \subseteq batch /\ created \subseteq Rows
  BY DEF Created
<1>2. telemetry' = stored
  BY DEF UpsertBatch
<1>3. stored \in [Rows -> Sns \cup {NoSn}]
  BY <1>1 DEF StoreTypeOK
<1>4. lastReportedAt' \in [Sns -> Times]
  <2>1. lastReportedAt' = [s \in Sns |-> Raised(s, {r \in created : snOf[r] = s})]
    BY DEF UpsertBatch
  <2>2. ASSUME NEW s \in Sns, NEW rows \in SUBSET Rows
        PROVE  Raised(s, rows) \in Times
    <3>1. CASE rows = {}
      BY <3>1 DEF Raised, StoreTypeOK
    <3>2. CASE rows # {}
      <4>1. NewestOf(rows) \in Rows
        BY <3>2, NewestOfSpec
      <4>2. At[NewestOf(rows)] \in Times
        BY <4>1, StoreAssumption DEF StoreAssumption, Times
      <4> QED BY <4>2 DEF Raised, StoreTypeOK
    <3> QED BY <3>1, <3>2
  <2>3. \A s \in Sns : {r \in created : snOf[r] = s} \in SUBSET Rows
    BY <1>1
  <2> QED BY <2>1, <2>2, <2>3
<1>5. latest' \in [Keys -> Rows \cup {NoRow}]
  <2>1. latest' = [k \in Keys |-> IF k \in touched THEN NewestOf(RowsOf(stored, k))
                                                   ELSE latest[k]]
    BY DEF UpsertBatch
  <2>2. ASSUME NEW k \in Keys, k \in touched
        PROVE  NewestOf(RowsOf(stored, k)) \in Rows
    <3>1. PICK r \in created : k = <<snOf[r], Metric[r]>>
      BY <2>2
    <3>2. r \in RowsOf(stored, k)
      BY <1>1, <3>1 DEF RowsOf
    <3>3. RowsOf(stored, k) \in SUBSET Rows
      BY DEF RowsOf
    <3> QED BY <3>2, <3>3, NewestOfSpec
  <2> QED BY <2>1, <2>2 DEF StoreTypeOK
<1> QED BY <1>2, <1>3, <1>4, <1>5

\* What one upsertBatch does to the tables, in the terms the invariants use.
LEMMA UpsertFacts ==
  ASSUME StoreTypeOK,
         NEW batch \in SUBSET Rows, NEW snOf \in [batch -> Sns],
         UpsertBatch(batch, snOf)
  PROVE  LET created == Created(batch, snOf) IN
         /\ \A r \in created :
              r \in Rows /\ snOf[r] \in Sns /\ snOf[r] \in devices /\ telemetry[r] = NoSn
         /\ \A r \in Rows :
              telemetry'[r] = IF r \in created THEN snOf[r] ELSE telemetry[r]
         /\ \A s \in Sns : lastReportedAt'[s] >= lastReportedAt[s]
         /\ \A r \in created : At[r] <= lastReportedAt'[snOf[r]]
         /\ \A s \in Sns : lastReportedAt'[s] # lastReportedAt[s]
                             => \E r \in created : snOf[r] = s
         /\ \A k \in Keys :
              (\E r \in created : k = <<snOf[r], Metric[r]>>) =>
                 /\ latest'[k] \in RowsOf(telemetry', k)
                 /\ \A q \in RowsOf(telemetry', k) :
                       q = latest'[k] \/ Newer(latest'[k], q)
         /\ \A k \in Keys :
              ~ (\E r \in created : k = <<snOf[r], Metric[r]>>) => latest'[k] = latest[k]
<1> DEFINE created == Created(batch, snOf)
           stored  == [r \in Rows |-> IF r \in created THEN snOf[r] ELSE telemetry[r]]
           touched == {<<snOf[r], Metric[r]>> : r \in created}
<1>1. \A r \in created :
         r \in Rows /\ snOf[r] \in Sns /\ snOf[r] \in devices /\ telemetry[r] = NoSn
  BY DEF Created
<1>2. telemetry' = stored
  BY DEF UpsertBatch
<1>3. \A r \in Rows : telemetry'[r] = IF r \in created THEN snOf[r] ELSE telemetry[r]
  BY <1>2
<1>4. latest' = [k \in Keys |-> IF k \in touched THEN NewestOf(RowsOf(telemetry', k))
                                                 ELSE latest[k]]
  BY <1>2 DEF UpsertBatch
<1>5. ASSUME NEW k \in Keys, \E r \in created : k = <<snOf[r], Metric[r]>>
      PROVE  /\ latest'[k] \in RowsOf(telemetry', k)
             /\ \A q \in RowsOf(telemetry', k) : q = latest'[k] \/ Newer(latest'[k], q)
  <2>1. latest'[k] = NewestOf(RowsOf(telemetry', k))
    BY <1>4, <1>5
  <2>2. PICK r \in created : k = <<snOf[r], Metric[r]>>
    BY <1>5
  <2>3. r \in RowsOf(telemetry', k) /\ RowsOf(telemetry', k) \in SUBSET Rows
    BY <1>1, <1>3, <2>2 DEF RowsOf
  <2> QED BY <2>1, <2>3, NewestOfSpec
<1>6. \A k \in Keys :
         ~ (\E r \in created : k = <<snOf[r], Metric[r]>>) => latest'[k] = latest[k]
  BY <1>4
<1>7. ASSUME NEW s \in Sns
      PROVE  /\ lastReportedAt'[s] >= lastReportedAt[s]
             /\ \A r \in created : snOf[r] = s => At[r] <= lastReportedAt'[s]
             /\ lastReportedAt'[s] # lastReportedAt[s] => \E r \in created : snOf[r] = s
  <2> DEFINE rows == {r \in created : snOf[r] = s}
  <2>1. lastReportedAt'[s] = Raised(s, rows)
    BY DEF UpsertBatch
  <2>2. lastReportedAt[s] \in Int /\ \A r \in Rows : At[r] \in Int
    BY StoreAssumption DEF StoreAssumption, StoreTypeOK, Times
  <2>3. rows \in SUBSET Rows
    BY <1>1
  <2> HIDE DEF rows
  <2>4. CASE rows = {}
    BY <2>1, <2>2, <2>4 DEF Raised, rows
  <2>5. CASE rows # {}
    <3>1. NewestOf(rows) \in rows /\ \A q \in rows : q = NewestOf(rows) \/ Newer(NewestOf(rows), q)
      BY <2>3, <2>5, NewestOfSpec
    <3>2. \A q \in rows : At[q] <= At[NewestOf(rows)]
      BY <2>2, <2>3, <3>1 DEF Newer
    <3>3. lastReportedAt'[s] = IF At[NewestOf(rows)] > lastReportedAt[s]
                               THEN At[NewestOf(rows)] ELSE lastReportedAt[s]
      BY <2>1, <2>5 DEF Raised
    <3>4. \A q \in rows : At[q] \in Int
      BY <2>2, <2>3
    <3>5. /\ lastReportedAt'[s] >= lastReportedAt[s]
          /\ \A q \in rows : At[q] <= lastReportedAt'[s]
      BY <2>2, <3>1, <3>2, <3>3, <3>4
    <3> QED BY <2>5, <3>5 DEF rows
  <2> QED BY <2>4, <2>5
<1> QED BY <1>1, <1>3, <1>5, <1>6, <1>7

\* upsertBatch keeps DeviceLatest in step with Telemetry and lastReportedAt,
\* and shows an older row only in place of one that was swept.
LEMMA UpsertInv ==
  ASSUME StoreInv,
         NEW batch \in SUBSET Rows, NEW snOf \in [batch -> Sns],
         UpsertBatch(batch, snOf), UNCHANGED <<devices, cutoff>>
  PROVE  /\ LatestCoversStore'
         /\ LatestIsStoredOrSwept'
         /\ LatestWithinLastReported'
         /\ \A k \in Keys : latest[k] # NoRow /\ At[latest'[k]] < At[latest[k]]
                              => At[latest[k]] < cutoff
<1> DEFINE created == Created(batch, snOf)
           Touched(k) == \E r \in created : k = <<snOf[r], Metric[r]>>
<1>1. /\ StoreTypeOK /\ LatestCoversStore /\ LatestIsStoredOrSwept
      /\ LatestWithinLastReported
  BY DEF StoreInv
<1>2. /\ \A r \in created :
            r \in Rows /\ snOf[r] \in Sns /\ snOf[r] \in devices /\ telemetry[r] = NoSn
      /\ \A r \in Rows :
            telemetry'[r] = IF r \in created THEN snOf[r] ELSE telemetry[r]
      /\ \A s \in Sns : lastReportedAt'[s] >= lastReportedAt[s]
      /\ \A r \in created : At[r] <= lastReportedAt'[snOf[r]]
      /\ \A s \in Sns : lastReportedAt'[s] # lastReportedAt[s]
                          => \E r \in created : snOf[r] = s
      /\ \A k \in Keys : Touched(k) =>
               /\ latest'[k] \in RowsOf(telemetry', k)
               /\ \A q \in RowsOf(telemetry', k) :
                     q = latest'[k] \/ Newer(latest'[k], q)
      /\ \A k \in Keys : ~ Touched(k) => latest'[k] = latest[k]
  BY <1>1, UpsertFacts
<1> HIDE DEF created, Touched
<1>3. /\ telemetry \in [Rows -> Sns \cup {NoSn}]
      /\ telemetry' \in [Rows -> Sns \cup {NoSn}]
      /\ lastReportedAt \in [Sns -> Int] /\ lastReportedAt' \in [Sns -> Int]
      /\ latest \in [Keys -> Rows \cup {NoRow}]
      /\ latest' \in [Keys -> Rows \cup {NoRow}]
      /\ \A r \in Rows : At[r] \in Int /\ r \in Int /\ r # NoRow /\ Metric[r] \in Metrics
      /\ NoSn \notin Sns
      /\ cutoff \in Int
  <2>1. /\ telemetry' \in [Rows -> Sns \cup {NoSn}]
        /\ lastReportedAt' \in [Sns -> Times]
        /\ latest' \in [Keys -> Rows \cup {NoRow}]
    BY <1>1, UpsertType
  <2>2. \A r \in Rows : At[r] \in Int /\ r \in Int /\ r # NoRow /\ Metric[r] \in Metrics
    BY StoreAssumption DEF StoreAssumption, Rows, NoRow
  <2>3. [Sns -> Times] \subseteq [Sns -> Int] /\ Times \subseteq Int
    BY DEF Times
  <2> QED BY <1>1, <2>1, <2>2, <2>3, StoreAssumption DEF StoreAssumption, StoreTypeOK
<1>k. ASSUME NEW k \in Keys, NEW r \in RowsOf(telemetry, k)
      PROVE  r \in RowsOf(telemetry', k)
  <2>1. telemetry[r] # NoSn
    BY <1>3 DEF RowsOf, Keys
  <2> QED BY <1>2, <2>1 DEF RowsOf
<1>4. LatestCoversStore'
  <2> SUFFICES ASSUME NEW r \in Rows, telemetry'[r] # NoSn
               PROVE  /\ latest'[<<telemetry'[r], Metric[r]>>] # NoRow
                      /\ ~ Newer(r, latest'[<<telemetry'[r], Metric[r]>>])
    BY DEF LatestCoversStore, Newer
  <2> DEFINE k == <<telemetry'[r], Metric[r]>>
  <2>1. k \in Keys /\ r \in RowsOf(telemetry', k)
    BY <1>3 DEF Keys, RowsOf
  <2>2. CASE Touched(k)
    <3>1. latest'[k] \in RowsOf(telemetry', k) /\ (r = latest'[k] \/ Newer(latest'[k], r))
      BY <1>2, <2>1, <2>2
    <3>2. latest'[k] \in Rows
      BY <3>1 DEF RowsOf
    <3> QED BY <1>3, <3>1, <3>2 DEF Newer
  <2>3. CASE ~ Touched(k)
    <3>1. latest'[k] = latest[k]
      BY <1>2, <2>1, <2>3
    <3>2. r \notin created
      BY <1>2, <2>3 DEF Touched
    <3>3. telemetry'[r] = telemetry[r]
      BY <1>2, <3>2
    <3> QED BY <1>1, <3>1, <3>3 DEF LatestCoversStore
  <2> QED BY <2>2, <2>3
<1>5. LatestIsStoredOrSwept'
  <2> SUFFICES ASSUME NEW k \in Keys, latest'[k] # NoRow
               PROVE  latest'[k] \in RowsOf(telemetry', k) \/ At[latest'[k]] < cutoff
    BY DEF LatestIsStoredOrSwept, RowsOf
  <2>1. CASE Touched(k)
    BY <1>2, <2>1
  <2>2. CASE ~ Touched(k)
    <3>1. latest'[k] = latest[k]
      BY <1>2, <2>2
    <3>2. latest[k] \in RowsOf(telemetry, k) \/ At[latest[k]] < cutoff
      BY <1>1, <3>1 DEF LatestIsStoredOrSwept
    <3> QED BY <1>k, <3>1, <3>2
  <2> QED BY <2>1, <2>2
<1>6. LatestWithinLastReported'
  <2>1. ASSUME NEW k \in Keys, latest'[k] # NoRow
        PROVE  At[latest'[k]] <= lastReportedAt'[k[1]]
    <3>1. k[1] \in Sns /\ lastReportedAt[k[1]] <= lastReportedAt'[k[1]]
      BY <1>2, <1>3 DEF Keys
    <3>2. CASE Touched(k)
      <4> DEFINE r == latest'[k]
      <4>1. r \in Rows /\ telemetry'[r] = k[1] /\ Metric[r] = k[2]
        BY <1>2, <3>2 DEF RowsOf
      <4>2. CASE r \in created
        BY <1>2, <4>1, <4>2
      <4>3. CASE r \notin created
        <5>1. telemetry[r] = k[1] /\ k = <<telemetry[r], Metric[r]>>
          BY <1>2, <4>1, <4>3 DEF Keys
        <5>2. latest[k] # NoRow /\ ~ Newer(r, latest[k])
          BY <1>1, <1>3, <3>1, <4>1, <5>1 DEF LatestCoversStore
        <5>3. At[latest[k]] <= lastReportedAt[k[1]]
          BY <1>1, <5>2 DEF LatestWithinLastReported
        <5>4. latest[k] \in Rows
          BY <1>3, <5>2
        <5>5. At[r] <= At[latest[k]]
          BY <1>3, <4>1, <5>2, <5>4 DEF Newer
        <5> QED
          <6>1. At[r] \in Int /\ At[latest[k]] \in Int /\ lastReportedAt[k[1]] \in Int
                /\ lastReportedAt'[k[1]] \in Int
            BY <1>3, <3>1, <4>1, <5>4
          <6> QED BY <3>1, <5>3, <5>5, <6>1
      <4> QED BY <4>2, <4>3
    <3>3. CASE ~ Touched(k)
      <4>1. latest'[k] = latest[k]
        BY <1>2, <3>3
      <4>2. At[latest[k]] <= lastReportedAt[k[1]] /\ latest[k] \in Rows
        BY <1>1, <1>3, <2>1, <4>1 DEF LatestWithinLastReported
      <4>3. At[latest[k]] \in Int /\ lastReportedAt[k[1]] \in Int
            /\ lastReportedAt'[k[1]] \in Int
        BY <1>3, <3>1, <4>2
      <4> QED BY <3>1, <4>1, <4>2, <4>3
    <3> QED BY <3>2, <3>3
  <2>2. ASSUME NEW s \in Sns, lastReportedAt'[s] > 0
        PROVE  s \in devices
    BY <1>1, <1>2, <2>2 DEF LatestWithinLastReported
  <2> QED BY <2>1, <2>2 DEF LatestWithinLastReported
<1>7. ASSUME NEW k \in Keys, latest[k] # NoRow, At[latest'[k]] < At[latest[k]]
      PROVE  At[latest[k]] < cutoff
  <2>1. latest[k] \in Rows
    BY <1>3, <1>7
  <2>2. CASE Touched(k)
    <3>1. latest'[k] \in Rows
      BY <1>2, <2>2 DEF RowsOf
    <3>2. latest[k] \notin RowsOf(telemetry', k)
      BY <1>2, <1>3, <1>7, <2>1, <2>2, <3>1 DEF Newer
    <3> QED BY <1>1, <1>k, <1>7, <3>2 DEF LatestIsStoredOrSwept
  <2>3. CASE ~ Touched(k)
    BY <1>2, <1>3, <1>7, <2>1, <2>3
  <2> QED BY <2>2, <2>3
<1> QED BY <1>4, <1>5, <1>6, <1>7

\* A sweep takes rows away and raises the cutoff above the ones it takes.
LEMMA CleanupInv ==
  ASSUME StoreInv, Cleanup
  PROVE  StoreInv'
<1>1. /\ clock \in Nat /\ cutoff \in Nat /\ Retention \in Nat \ {0}
      /\ clock <= MaxTime /\ MaxTime \in Nat
      /\ cutoff' = clock - Retention /\ clock > Retention
      /\ \A r \in Rows : At[r] \in Int
      /\ NoSn \notin Sns
  BY StoreAssumption DEF StoreAssumption, StoreInv, StoreTypeOK, Times, Cleanup
<1>2. cutoff <= cutoff'
  BY <1>1 DEF StoreInv, CutoffInv
<1>3. /\ \A r \in Rows : telemetry'[r] = IF At[r] < cutoff' THEN NoSn ELSE telemetry[r]
      /\ UNCHANGED <<clock, devices, lastReportedAt, latest>>
  BY DEF Cleanup
<1>4. StoreTypeOK'
  <2>1. telemetry' \in [Rows -> Sns \cup {NoSn}]
    BY DEF StoreInv, StoreTypeOK, Cleanup
  <2>2. cutoff' \in Times
    BY <1>1 DEF Times
  <2> QED BY <1>3, <2>1, <2>2 DEF StoreInv, StoreTypeOK
<1>5. CutoffInv'
  BY <1>1, <1>3 DEF CutoffInv
<1>6. LatestCoversStore'
  BY <1>3 DEF StoreInv, LatestCoversStore, Newer
<1>7. LatestIsStoredOrSwept'
  <2> SUFFICES ASSUME NEW k \in Keys, latest[k] # NoRow
               PROVE  latest[k] \in RowsOf(telemetry', k) \/ At[latest[k]] < cutoff'
    BY <1>3 DEF LatestIsStoredOrSwept, RowsOf
  <2>1. latest[k] \in RowsOf(telemetry, k) \/ At[latest[k]] < cutoff
    BY DEF StoreInv, LatestIsStoredOrSwept
  <2>2. latest[k] \in Rows
    BY DEF StoreInv, StoreTypeOK
  <2>3. CASE latest[k] \in RowsOf(telemetry, k)
    BY <1>3, <2>3 DEF RowsOf
  <2>4. CASE At[latest[k]] < cutoff
    BY <1>1, <1>2, <2>2, <2>4
  <2> QED BY <2>1, <2>3, <2>4
<1>8. LatestWithinLastReported'
  BY <1>3 DEF StoreInv, LatestWithinLastReported
<1> QED BY <1>4, <1>5, <1>6, <1>7, <1>8 DEF StoreInv

\* The store's invariant is inductive.
LEMMA StoreInitInv ==
  StoreInit => StoreInv
<1> SUFFICES ASSUME StoreInit PROVE StoreInv
  OBVIOUS
<1>1. MaxTime \in Nat /\ 0 \in Times /\ cutoff = 0
  BY StoreAssumption DEF StoreAssumption, StoreInit, Times
<1>2. StoreTypeOK
  BY <1>1, StoreAssumption DEF StoreAssumption, StoreInit, StoreTypeOK
<1>3. LatestCoversStore /\ LatestIsStoredOrSwept /\ LatestWithinLastReported
  BY DEF StoreInit, LatestCoversStore, LatestIsStoredOrSwept,
         LatestWithinLastReported, NoRow, Keys
<1> QED BY <1>1, <1>2, <1>3 DEF StoreInv, CutoffInv

LEMMA StoreNextInv ==
  ASSUME StoreInv, [StoreNext]_storeVars
  PROVE  StoreInv'
<1> USE DEF StoreInv
<1>1. CASE Tick
  <2>1. /\ clock \in Int /\ MaxTime \in Int /\ cutoff \in Int /\ Retention \in Int
        /\ clock >= 1 /\ clock < MaxTime /\ clock' = clock + 1
        /\ UNCHANGED <<devices, telemetry, lastReportedAt, latest, cutoff>>
    BY <1>1, StoreAssumption DEF StoreAssumption, StoreTypeOK, Times, Tick, tables
  <2>2. StoreTypeOK' /\ CutoffInv'
    BY <2>1 DEF StoreTypeOK, CutoffInv
  <2> QED BY <2>1, <2>2 DEF LatestCoversStore, LatestIsStoredOrSwept, RowsOf, Newer,
                            LatestWithinLastReported
<1>2. ASSUME NEW sns \in SUBSET Sns, RegisterDevices(sns)
      PROVE  StoreInv'
  <2>1. /\ devices' = devices \cup sns
        /\ UNCHANGED <<clock, telemetry, lastReportedAt, latest, cutoff>>
    BY <1>2 DEF RegisterDevices
  <2>2. StoreTypeOK' /\ CutoffInv'
    BY <2>1 DEF StoreTypeOK, CutoffInv
  <2> QED BY <2>1, <2>2 DEF LatestCoversStore, LatestIsStoredOrSwept, RowsOf, Newer,
                            LatestWithinLastReported
<1>3. ASSUME NEW batch \in SUBSET Rows, NEW snOf \in [batch -> Sns], WriteBatch(batch, snOf)
      PROVE  StoreInv'
  <2>1. UpsertBatch(batch, snOf) /\ UNCHANGED <<clock, devices, cutoff>>
    BY <1>3 DEF WriteBatch
  <2>2. StoreTypeOK' /\ CutoffInv'
    <3>1. /\ telemetry' \in [Rows -> Sns \cup {NoSn}]
          /\ lastReportedAt' \in [Sns -> Times]
          /\ latest' \in [Keys -> Rows \cup {NoRow}]
      BY <2>1, UpsertType
    <3> QED BY <2>1, <3>1 DEF StoreTypeOK, CutoffInv
  <2>3. LatestCoversStore' /\ LatestIsStoredOrSwept' /\ LatestWithinLastReported'
    BY <2>1, UpsertInv
  <2> QED BY <2>2, <2>3
<1>4. CASE Cleanup
  BY <1>4, CleanupInv
<1>5. CASE UNCHANGED storeVars
  BY <1>5 DEF storeVars, tables, StoreTypeOK, CutoffInv, LatestCoversStore, Newer,
              LatestIsStoredOrSwept, RowsOf, LatestWithinLastReported
<1> QED BY <1>1, <1>2, <1>3, <1>4, <1>5 DEF StoreNext

\* The tables keep their types and DeviceLatest stays in step with Telemetry
\* and Device, whatever order batches, imports and sweeps come in.
THEOREM StoreCorrect == StoreSpec => []StoreInv
<1>1. StoreInit => StoreInv
  BY StoreInitInv
<1>2. StoreInv /\ [StoreNext]_storeVars => StoreInv'
  BY StoreNextInv
<1> QED BY <1>1, <1>2, PTL DEF StoreSpec

\* Type correctness of the tables.
THEOREM StoreTypes == StoreSpec => []StoreTypeOK
<1>1. StoreInv => StoreTypeOK
  BY DEF StoreInv
<1> QED BY <1>1, StoreCorrect, PTL

\* No stored row is newer than what DeviceLatest shows for its key.
THEOREM LatestCovers == StoreSpec => []LatestCoversStore
<1>1. StoreInv => LatestCoversStore
  BY DEF StoreInv
<1> QED BY <1>1, StoreCorrect, PTL

\* What DeviceLatest shows is stored, or a sweep removed it.
THEOREM LatestHasTelemetry == StoreSpec => []LatestIsStoredOrSwept
<1>1. StoreInv => LatestIsStoredOrSwept
  BY DEF StoreInv
<1> QED BY <1>1, StoreCorrect, PTL

\* lastReportedAt is not behind DeviceLatest.
THEOREM LastReportedIsCurrent == StoreSpec => []LatestWithinLastReported
<1>1. StoreInv => LatestWithinLastReported
  BY DEF StoreInv
<1> QED BY <1>1, StoreCorrect, PTL

\* DeviceLatest goes back to an older row only where the newer was swept.
THEOREM RegressionNeedsSweep == StoreSpec => LatestRegressesOnlyAfterSweep
<1> DEFINE A == \A k \in Keys :
                    /\ latest[k] # NoRow
                    /\ At[latest'[k]] < At[latest[k]]
                    => At[latest[k]] < cutoff
<1>1. StoreInv /\ [StoreNext]_storeVars => [A]_storeVars
  <2> SUFFICES ASSUME StoreInv, StoreNext PROVE A
    OBVIOUS
  <2>1. ASSUME NEW batch \in SUBSET Rows, NEW snOf \in [batch -> Sns], WriteBatch(batch, snOf)
        PROVE  A
    <3>1. UpsertBatch(batch, snOf) /\ UNCHANGED <<devices, cutoff>>
      BY <2>1 DEF WriteBatch
    <3> QED BY <3>1, UpsertInv
  <2>2. CASE UNCHANGED latest
    <3>1. \A k \in Keys : latest[k] # NoRow => At[latest[k]] \in Int
      BY StoreAssumption DEF StoreAssumption, StoreInv, StoreTypeOK
    <3> QED BY <2>2, <3>1
  <2> QED BY <2>1, <2>2 DEF StoreNext, Tick, RegisterDevices, Cleanup, tables
<1> QED BY <1>1, StoreCorrect, PTL DEF StoreSpec, LatestRegressesOnlyAfterSweep
=============================================================================
