--------------------------- MODULE ReadModelProofs ---------------------------
(* Proofs about what is shown of the telemetry: LiveKpis, for any number of  *)
(* overlapping fetches and renders and any lengths of them; Fleet, for any   *)
(* devices, registries and lengths of the list; History, for any rows, times *)
(* and thresholds; ChartPanel, for any samples and choices.  With those of   *)
(* ExcelImportProofs they hold of the composition.                           *)
EXTENDS MCReadModel, ExcelImportProofs, FiniteSetTheorems, WellFoundedInduction

-----------------------------------------------------------------------------
(* The KPI band.                                                             *)

Props == [device : Devices, hint : BOOLEAN]

\* How old values may be when they are set.
SetAge == IF RenderLimit > FetchLimit THEN RenderLimit ELSE FetchLimit

\* When the last tick was, or the effect was entered.
LastTick == nextTick - Interval

BandInv ==
    /\ kpiTime \in 0..KpiEnd
    /\ props \in Props
    /\ kpis.props = props
    /\ kpis \in [props : Props, readAt : 0..KpiEnd]
    /\ nextTick \in kpiTime..(kpiTime + Interval)

\* A fetch as it is at time t on a page with the props p: it does not outlive
\* its limit, and has those props if it counts.
FetchOK(f, t, p) ==
    /\ f \in Fetches
    /\ f.start <= t /\ t <= f.start + FetchLimit
    /\ f.readAt # -1 => f.start <= f.readAt /\ f.readAt <= t
    /\ ~ f.cancelled => f.props = p

FetchesInv == \A f \in fetches : FetchOK(f, kpiTime, props)

\* As long as none is missed, the values were set since the last tick; or since
\* the one before it, and then the fetch of the last one is under way.
FreshInv ==
    ~ missed =>
      \/ kpis.readAt >= LastTick - SetAge
      \/ /\ kpis.readAt >= LastTick - Interval - SetAge
         /\ \E f \in fetches : ~ f.cancelled /\ f.start = LastTick

FlagsInv == hidden \in BOOLEAN /\ missed \in BOOLEAN

KpiInv == BandInv /\ FetchesInv /\ FreshInv /\ FlagsInv

LEMMA SetAgeType == SetAge \in Nat /\ SetAge >= RenderLimit /\ SetAge >= FetchLimit
BY KpiAssumption DEF SetAge

\* A fetch that starts now.
LEMMA FetchStarts ==
    ASSUME BandInv, NEW p \in Props
    PROVE  /\ fetchOf(p) \in Fetches /\ fetchOf(p).start = kpiTime /\ fetchOf(p).readAt = -1
           /\ fetchOf(p).cancelled = FALSE /\ fetchOf(p).props = p
           /\ FetchOK(fetchOf(p), kpiTime, p)
<1>1. /\ fetchOf(p) \in Fetches /\ fetchOf(p).start = kpiTime /\ fetchOf(p).readAt = -1
      /\ fetchOf(p).cancelled = FALSE /\ fetchOf(p).props = p
  BY KpiAssumption DEF BandInv, fetchOf, Fetches, Props
<1> QED
  BY <1>1, KpiAssumption DEF BandInv, FetchOK

\* The fields of a fetch.
LEMMA FetchFields ==
    ASSUME NEW f \in Fetches
    PROVE  /\ f.props \in Props /\ f.start \in 0..KpiEnd /\ f.readAt \in -1..KpiEnd
           /\ f.cancelled \in BOOLEAN
BY DEF Fetches, Props

LEMMA KpiStarts == KpiInit => KpiInv
<1> SUFFICES ASSUME KpiInit
             PROVE  KpiInv
  OBVIOUS
<1>1. /\ kpiTime = 0 /\ kpis = [props |-> props, readAt |-> 0]
      /\ nextTick = Interval /\ fetches = {fetchOf(props)}
  BY DEF KpiInit
<1>2. hidden = FALSE /\ missed = FALSE
  BY DEF KpiInit
<1>3. props \in Props
  BY DEF KpiInit, Props
<1>4. BandInv
  BY <1>1, <1>3, KpiAssumption DEF BandInv
<1>5. FetchesInv
  BY <1>1, <1>3, <1>4, FetchStarts, KpiAssumption DEF FetchesInv
<1>6. FreshInv
  BY <1>1, SetAgeType, KpiAssumption DEF FreshInv, LastTick
<1> QED
  BY <1>2, <1>4, <1>5, <1>6 DEF KpiInv, FlagsInv

LEMMA TickPreserves ==
    ASSUME KpiInv, IntervalFires
    PROVE  KpiInv'
<1> USE KpiAssumption
<1>1. /\ nextTick = kpiTime /\ nextTick' = kpiTime + Interval
      /\ UNCHANGED <<kpiTime, props, kpis>> /\ hidden' = hidden
  BY DEF IntervalFires
<1>2. \/ fetches' = fetches /\ missed' = TRUE
      \/ fetches' = fetches \cup {fetchOf(props)} /\ missed' = missed
  BY DEF IntervalFires, tick
<1>3. BandInv'
  BY <1>1 DEF KpiInv, BandInv
<1>4. props \in Props
  BY DEF KpiInv, BandInv
<1>5. FetchesInv'
  BY <1>1, <1>2, <1>4, FetchStarts DEF KpiInv, FetchesInv
\* A fetch of the last tick would be over by now.
<1>6. \A f \in fetches : f.start # LastTick
  BY <1>1, FetchFields DEF KpiInv, BandInv, FetchesInv, FetchOK, LastTick
<1>7. ~ missed => kpis.readAt >= LastTick - SetAge
  BY <1>6 DEF KpiInv, FreshInv
<1>8. FreshInv'
  <2>1. CASE missed'
    BY <2>1 DEF FreshInv
  <2>2. CASE ~ missed'
    <3>1. fetches' = fetches \cup {fetchOf(props)} /\ ~ missed
      BY <1>2, <2>2
    <3>2. kpis.readAt >= LastTick - SetAge
      BY <1>7, <3>1
    <3>3. LastTick' = kpiTime /\ LastTick = kpiTime - Interval
      BY <1>1 DEF LastTick, KpiInv, BandInv
    <3>4. kpis'.readAt >= LastTick' - Interval - SetAge
      BY <1>1, <3>2, <3>3
    <3>5. fetchOf(props) \in fetches' /\ fetchOf(props).start = LastTick'
      BY <1>4, <3>1, <3>3, FetchStarts DEF KpiInv
    <3>6. ~ fetchOf(props).cancelled
      BY <1>4, FetchStarts DEF KpiInv
    <3> QED
      BY <3>4, <3>5, <3>6 DEF FreshInv
  <2> QED
    BY <2>1, <2>2
<1>9. FlagsInv'
  BY <1>1, <1>2 DEF KpiInv, FlagsInv
<1> QED
  BY <1>3, <1>5, <1>8, <1>9 DEF KpiInv

LEMMA VisiblePreserves ==
    ASSUME KpiInv, onVisible
    PROVE  KpiInv'
<1>1. UNCHANGED <<kpiTime, props, kpis, nextTick>> /\ hidden' = ~ hidden
  BY DEF onVisible
<1>2. /\ fetches' = fetches \/ fetches' = fetches \cup {fetchOf(props)}
      /\ missed' = missed
  BY DEF onVisible, tick
<1>3. props \in Props
  BY DEF KpiInv, BandInv
<1>4. BandInv'
  BY <1>1 DEF KpiInv, BandInv
<1>5. FetchesInv'
  BY <1>1, <1>2, <1>3, FetchStarts DEF KpiInv, FetchesInv
<1>6. FreshInv'
  BY <1>1, <1>2 DEF KpiInv, FreshInv, LastTick
<1>7. FlagsInv'
  BY <1>1, <1>2 DEF KpiInv, FlagsInv
<1> QED
  BY <1>4, <1>5, <1>6, <1>7 DEF KpiInv

LEMMA ReadPreserves ==
    ASSUME KpiInv, NEW f \in fetches, ServerReads(f)
    PROVE  KpiInv'
<1> DEFINE e == [f EXCEPT !.readAt = kpiTime]
<1>1. /\ UNCHANGED <<kpiTime, props, kpis, nextTick>> /\ fetches' = (fetches \ {f}) \cup {e}
      /\ hidden' = hidden /\ missed' = missed
  BY DEF ServerReads
<1>2. FetchOK(f, kpiTime, props) /\ f \in Fetches
  BY DEF KpiInv, FetchesInv, FetchOK
<1>3. /\ e \in Fetches /\ e.props = f.props /\ e.start = f.start /\ e.readAt = kpiTime
  BY <1>2, KpiAssumption DEF Fetches, KpiInv, BandInv
<1>4. e.cancelled = f.cancelled
  BY <1>2 DEF Fetches
<1> HIDE DEF e
<1>5. FetchOK(e, kpiTime, props)
  BY <1>2, <1>3, <1>4, FetchFields DEF FetchOK, KpiInv, BandInv
<1>6. BandInv'
  BY <1>1 DEF KpiInv, BandInv
<1>7. FetchesInv'
  BY <1>1, <1>5 DEF KpiInv, FetchesInv
<1>8. FreshInv'
  BY <1>1, <1>3, <1>4 DEF KpiInv, FreshInv, LastTick
<1>9. FlagsInv'
  BY <1>1 DEF KpiInv, FlagsInv
<1> QED
  BY <1>6, <1>7, <1>8, <1>9 DEF KpiInv

\* Values that are set were read a fetch ago at most.
LEMMA AnswerPreserves ==
    ASSUME KpiInv, NEW f \in fetches, Answered(f)
    PROVE  KpiInv'
<1>1. /\ UNCHANGED <<kpiTime, props, nextTick>> /\ fetches' = fetches \ {f} /\ f.readAt >= 0
      /\ hidden' = hidden
  BY DEF Answered
<1>2. FetchOK(f, kpiTime, props) /\ f \in Fetches
  BY DEF KpiInv, FetchesInv, FetchOK
<1>3. FetchesInv'
  BY <1>1 DEF KpiInv, FetchesInv
<1>4. CASE f.cancelled
  <2>1. kpis' = kpis /\ missed' = missed
    BY <1>4 DEF Answered
  <2>2. BandInv' /\ FlagsInv'
    BY <1>1, <2>1 DEF KpiInv, BandInv, FlagsInv
  <2>3. FreshInv'
    BY <1>1, <1>4, <2>1 DEF KpiInv, FreshInv, LastTick
  <2> QED
    BY <1>3, <2>2, <2>3 DEF KpiInv
<1>5. CASE ~ f.cancelled
  <2>1. kpis' = [props |-> f.props, readAt |-> f.readAt] /\ missed' = FALSE
    BY <1>5 DEF Answered
  <2>2. f.props = props /\ f.props \in Props /\ f.readAt \in 0..KpiEnd
    BY <1>1, <1>2, <1>5, FetchFields DEF FetchOK
  <2>3. BandInv'
    BY <1>1, <2>1, <2>2 DEF KpiInv, BandInv
  <2>4. kpiTime - f.readAt <= FetchLimit
    BY <1>1, <1>2, FetchFields, KpiAssumption DEF FetchOK, KpiInv, BandInv
  <2>5. LastTick' <= kpiTime /\ LastTick' \in Int
    BY <1>1, KpiAssumption DEF KpiInv, BandInv, LastTick
  <2>6. FreshInv'
    BY <2>1, <2>2, <2>4, <2>5, SetAgeType, KpiAssumption DEF FreshInv, KpiInv, BandInv
  <2>7. FlagsInv'
    BY <1>1, <2>1 DEF KpiInv, FlagsInv
  <2> QED
    BY <1>3, <2>3, <2>6, <2>7 DEF KpiInv
<1> QED
  BY <1>4, <1>5

LEMMA FetchFailurePreserves ==
    ASSUME KpiInv, NEW f \in fetches, FetchFails(f)
    PROVE  KpiInv'
<1>1. /\ UNCHANGED <<kpiTime, props, kpis, nextTick>> /\ fetches' = fetches \ {f}
      /\ hidden' = hidden /\ missed' = (missed \/ ~ f.cancelled)
  BY DEF FetchFails
<1>2. BandInv'
  BY <1>1 DEF KpiInv, BandInv
<1>3. FetchesInv'
  BY <1>1 DEF KpiInv, FetchesInv
<1>4. FreshInv'
  BY <1>1 DEF KpiInv, FreshInv, LastTick
<1>5. FlagsInv'
  BY <1>1 DEF KpiInv, FlagsInv
<1> QED
  BY <1>2, <1>3, <1>4, <1>5 DEF KpiInv

\* A render brings values of its own, and calls off what is under way if the
\* props have changed.
LEMMA RenderPreserves ==
    ASSUME KpiInv, NEW p \in Props, NEW age \in 0..RenderLimit, kpiTime >= age,
           Rendered(p, kpiTime - age)
    PROVE  KpiInv'
<1> USE KpiAssumption
<1>1. /\ kpis' = [props |-> p, readAt |-> kpiTime - age] /\ props' = p /\ kpiTime' = kpiTime
      /\ hidden' = hidden
  BY DEF Rendered
<1>2. kpiTime \in 0..KpiEnd /\ nextTick \in kpiTime..(kpiTime + Interval)
  BY DEF KpiInv, BandInv
<1>3. kpiTime - age \in 0..KpiEnd /\ kpiTime - age >= kpiTime - SetAge
  BY <1>2, SetAgeType
<1>4. CASE p = props
  <2>1. missed' = FALSE /\ UNCHANGED <<fetches, nextTick>>
    BY <1>4 DEF Rendered
  <2>2. BandInv'
    BY <1>1, <1>2, <1>3, <2>1 DEF BandInv
  <2>3. FetchesInv'
    BY <1>1, <1>4, <2>1 DEF KpiInv, FetchesInv
  <2>4. FreshInv'
    BY <1>1, <1>2, <1>3, <2>1, SetAgeType DEF FreshInv, LastTick
  <2>5. FlagsInv'
    BY <1>1, <2>1 DEF KpiInv, FlagsInv
  <2> QED
    BY <2>2, <2>3, <2>4, <2>5 DEF KpiInv
<1>5. CASE p # props
  <2> DEFINE off(f) == [f EXCEPT !.cancelled = TRUE]
  <2>1. nextTick' = kpiTime + Interval /\ missed' = hidden
    BY <1>5 DEF Rendered
  <2>2. \A e \in fetches' : e = fetchOf(p) \/ \E f \in fetches : e = off(f)
    BY <1>5 DEF Rendered
  <2>3. BandInv'
    BY <1>1, <1>2, <1>3, <2>1 DEF BandInv
  <2>4. FetchOK(fetchOf(p), kpiTime', props')
    BY <1>1, FetchStarts DEF KpiInv
  <2>5. ASSUME NEW f \in fetches PROVE FetchOK(off(f), kpiTime', props')
    <3>1. FetchOK(f, kpiTime, props) /\ f \in Fetches
      BY DEF KpiInv, FetchesInv, FetchOK
    <3>2. /\ off(f) \in Fetches /\ off(f).start = f.start /\ off(f).readAt = f.readAt
      BY <3>1 DEF Fetches
    <3>3. off(f).cancelled
      BY <3>1 DEF Fetches
    <3> HIDE DEF off
    <3> QED
      BY <1>1, <3>1, <3>2, <3>3 DEF FetchOK
  <2> HIDE DEF off
  <2>6. FetchesInv'
    BY <2>2, <2>4, <2>5 DEF FetchesInv
  <2>7. FreshInv'
    <3>1. LastTick' = kpiTime
      BY <1>2, <2>1 DEF LastTick
    <3>2. kpis'.readAt >= LastTick' - SetAge
      BY <1>1, <1>3, <3>1
    <3> QED
      BY <3>2 DEF FreshInv
  <2>8. FlagsInv'
    BY <1>1, <2>1 DEF KpiInv, FlagsInv
  <2> QED
    BY <2>3, <2>6, <2>7, <2>8 DEF KpiInv
<1> QED
  BY <1>4, <1>5

LEMMA TimePreserves ==
    ASSUME KpiInv, TimePasses
    PROVE  KpiInv'
<1> USE KpiAssumption
<1>1. /\ kpiTime < KpiEnd /\ nextTick > kpiTime /\ kpiTime' = kpiTime + 1
      /\ \A f \in fetches : kpiTime < f.start + FetchLimit
      /\ UNCHANGED <<props, kpis, fetches, nextTick>> /\ hidden' = hidden /\ missed' = missed
  BY DEF TimePasses
<1>2. BandInv'
  BY <1>1 DEF KpiInv, BandInv
<1>3. FetchesInv'
  <2> SUFFICES ASSUME NEW f \in fetches PROVE FetchOK(f, kpiTime + 1, props)
    BY <1>1 DEF FetchesInv
  <2>1. FetchOK(f, kpiTime, props) /\ f \in Fetches
    BY DEF KpiInv, FetchesInv, FetchOK
  <2>2. kpiTime < f.start + FetchLimit /\ kpiTime \in 0..KpiEnd
    BY <1>1 DEF KpiInv, BandInv
  <2> QED
    BY <2>1, <2>2, FetchFields DEF FetchOK
<1>4. FreshInv'
  BY <1>1 DEF KpiInv, FreshInv, LastTick
<1>5. FlagsInv'
  BY <1>1 DEF KpiInv, FlagsInv
<1> QED
  BY <1>2, <1>3, <1>4, <1>5 DEF KpiInv

\* Whatever order fetches, renders and ticks come in, the invariant holds.
THEOREM BandCorrect == KpiSpec => []KpiInv
<1>1. ASSUME KpiInv, [KpiNext]_kpiVars
      PROVE  KpiInv'
  <2>1. CASE IntervalFires
    BY <1>1, <2>1, TickPreserves
  <2>2. CASE onVisible
    BY <1>1, <2>2, VisiblePreserves
  <2>3. ASSUME NEW f \in fetches, ServerReads(f) \/ Answered(f) \/ FetchFails(f)
        PROVE  KpiInv'
    BY <1>1, <2>3, ReadPreserves, AnswerPreserves, FetchFailurePreserves
  <2>4. ASSUME NEW d \in Devices, NEW hint \in BOOLEAN, NEW age \in 0..RenderLimit,
               kpiTime >= age, Rendered([device |-> d, hint |-> hint], kpiTime - age)
        PROVE  KpiInv'
    <3> DEFINE p == [device |-> d, hint |-> hint]
    <3>1. p \in Props
      BY DEF Props
    <3> HIDE DEF p
    <3> QED
      BY <1>1, <2>4, <3>1, RenderPreserves DEF p
  <2>5. CASE TimePasses
    BY <1>1, <2>5, TimePreserves
  <2>6. CASE UNCHANGED kpiVars
    <3>1. /\ UNCHANGED <<kpiTime, props, kpis, fetches, nextTick>>
          /\ hidden' = hidden /\ missed' = missed
      BY <2>6 DEF kpiVars
    <3> QED
      BY <1>1, <3>1 DEF KpiInv, BandInv, FetchesInv, FreshInv, FlagsInv, LastTick
  <2> QED
    BY <1>1, <2>1, <2>2, <2>3, <2>4, <2>5, <2>6 DEF KpiNext
<1> QED
  BY KpiStarts, <1>1, PTL DEF KpiSpec

\* The band and its fetches keep their types.
THEOREM KpiTypes == KpiSpec => []KpiTypeOK
<1>1. KpiInv => KpiTypeOK
  <2> SUFFICES ASSUME KpiInv PROVE KpiTypeOK
    OBVIOUS
  <2>1. fetches \subseteq Fetches
    BY DEF KpiInv, FetchesInv, FetchOK
  <2>2. nextTick \in 0..(KpiEnd + Interval)
    BY KpiAssumption DEF KpiInv, BandInv
  <2>3. hidden \in BOOLEAN /\ missed \in BOOLEAN
    BY DEF KpiInv, FlagsInv
  <2>4. /\ kpiTime \in 0..KpiEnd /\ props \in [device : Devices, hint : BOOLEAN]
        /\ kpis \in [props : [device : Devices, hint : BOOLEAN], readAt : 0..KpiEnd]
    BY DEF KpiInv, BandInv, Props
  <2> QED
    BY <2>1, <2>2, <2>3, <2>4 DEF KpiTypeOK
<1> QED
  BY BandCorrect, <1>1, PTL

\* The band shows its own device; unless a tick or a fetch was missed, values
\* read an interval, a fetch and the longer of a fetch and a render ago.
THEOREM BandFollows == KpiSpec => []KpisFollow
<1>1. KpiInv => KpisFollow
  <2> SUFFICES ASSUME KpiInv
               PROVE  /\ kpis.props = props
                      /\ ~ missed => kpiTime - kpis.readAt <= Interval + FetchLimit + SetAge
    BY DEF KpisFollow, SetAge
  <2>1. /\ kpis.props = props /\ kpiTime \in Nat /\ kpis.readAt \in Nat /\ LastTick \in Int
        /\ kpiTime <= LastTick + Interval
    BY KpiAssumption DEF KpiInv, BandInv, LastTick
  <2>2. CASE kpis.readAt >= LastTick - SetAge
    BY <2>1, <2>2, SetAgeType, KpiAssumption
  <2>3. ASSUME kpis.readAt >= LastTick - Interval - SetAge,
               NEW f \in fetches, f.start = LastTick
        PROVE  kpiTime - kpis.readAt <= Interval + FetchLimit + SetAge
    <3>1. kpiTime <= LastTick + FetchLimit
      BY <2>3 DEF KpiInv, FetchesInv, FetchOK
    <3> QED
      BY <2>1, <2>3, <3>1, SetAgeType, KpiAssumption
  <2> QED
    BY <2>1, <2>2, <2>3 DEF KpiInv, FreshInv
<1> QED
  BY BandCorrect, <1>1, PTL

-----------------------------------------------------------------------------
(* The fleet: what the invariant says.                                       *)

DeviceRecord == [created : 0..MaxTime, last : 0..MaxTime, reverse : BOOLEAN,
                 reverseAt : Never..MaxTime, faultAt : Never..MaxTime, channel : Channels]

\* A device has reported since it was created, and at whatever it reported.
RecordOK(d, t) ==
    /\ d \in DeviceRecord
    /\ d.created <= d.last /\ d.last <= t
    /\ d.reverseAt <= d.last /\ d.faultAt <= d.last

RecordsInv ==
    /\ time \in 0..MaxTime
    /\ DOMAIN records \subseteq Sns
    /\ \A s \in DOMAIN records : RecordOK(records[s], time)
    /\ registry \in RegistriesOf(Sns)
    /\ reports \in 0..MaxReports /\ syncs \in 0..MaxSyncs

\* What an export may have written, linked or failed at.
Pages == {"index", "device", "inverter", "run"} \X Nat

ExportSets == [phase : {"idle", "listed", "devices", "inverters", "done", "failed"},
               queue : SUBSET [key : {0, 1} \X Nat, sn : Sns],
               sns : SUBSET Sns, index : SUBSET Sns, moved : BOOLEAN,
               files : SUBSET Pages, links : SUBSET Pages, next : SUBSET Pages,
               errors : SUBSET Pages, zip : {"earlier", "this", "cut"}]

-----------------------------------------------------------------------------
(* The rows of the list.                                                     *)

\* A row of a device that is known.
LEMMA DeviceItem ==
    ASSUME RecordsInv, NEW sn \in DOMAIN records, NEW x, x = deviceItem(sn)
    PROVE  /\ x.sn = sn /\ x.last = records[sn].last
           /\ x.isOnline => recent(x.last)
           /\ x.reverseState = "active" => recent(x.last)
           /\ x.hasRecentReverse => recent(x.last)
           /\ x.hasRecentInverterFault => recent(x.last)
<1> DEFINE d == records[sn]
<1>1. RecordOK(d, time) /\ time \in Nat
  BY FleetAssumption DEF RecordsInv
<1>2. /\ d.last \in Nat /\ d.last <= time
      /\ d.reverseAt \in Int /\ d.reverseAt <= d.last
      /\ d.faultAt \in Int /\ d.faultAt <= d.last
  BY <1>1, FleetAssumption DEF RecordOK, DeviceRecord, Never
<1>3. time - d.last <= OnlineMinutes => recent(d.last)
  BY <1>1, <1>2, FleetAssumption DEF recent, Never
<1>4. (recent(d.reverseAt) => recent(d.last)) /\ (recent(d.faultAt) => recent(d.last))
  BY <1>1, <1>2, FleetAssumption DEF recent, Never
<1>5. x.sn = sn /\ x.last = d.last
  BY DEF deviceItem
<1>6. x.isOnline => time - d.last <= OnlineMinutes
  BY DEF deviceItem
<1>7. (x.hasRecentReverse => recent(d.reverseAt)) /\ (x.hasRecentInverterFault => recent(d.faultAt))
  BY DEF deviceItem
<1>8. x.reverseState = "active" => time - d.last <= OnlineMinutes
  BY DEF deviceItem
<1> HIDE DEF d
<1>9. /\ x.isOnline => recent(d.last)
      /\ x.reverseState = "active" => recent(d.last)
      /\ x.hasRecentReverse => recent(d.last)
      /\ x.hasRecentInverterFault => recent(d.last)
  BY ONLY <1>3, <1>4, <1>6, <1>7, <1>8, Zenon
<1> QED
  BY ONLY <1>5, <1>9 DEF d

\* A row of an entry whose serial number is not known.
LEMMA StubItem ==
    ASSUME NEW sn, NEW x, x = buildStubFleetItem(sn)
    PROVE  /\ x.sn = sn
           /\ ~ x.isOnline /\ x.reverseState # "active"
           /\ ~ x.hasRecentReverse /\ ~ x.hasRecentInverterFault
BY DEF buildStubFleetItem

\* A row of the list: it is of one device, it is active or silent, and silent
\* if it is not online and has nothing recent to show.
ItemOK(x) ==
    /\ x.item.sn \in Sns
    /\ x.status \in {"active", "stale-offline"}
    /\ x.status = "stale-offline" =>
          /\ ~ x.online /\ x.item.reverseState # "active"
          /\ ~ x.item.hasRecentReverse /\ ~ x.item.hasRecentInverterFault

\* What With makes of an item.
LEMMA WithOK ==
    ASSUME NEW item, NEW key, NEW online \in BOOLEAN, NEW iot \in BOOLEAN, iot => online,
           item.sn \in Sns,
           item.isOnline => recent(item.last),
           item.reverseState = "active" => recent(item.last),
           item.hasRecentReverse => recent(item.last),
           item.hasRecentInverterFault => recent(item.last)
    PROVE  ItemOK(With(item, key, online, iot))
<1> DEFINE x == With(item, key, online, iot)
<1>1. x.item = item /\ x.status = classifyDeviceStatus(item.last, online)
  BY DEF With
<1>2. x.online <=> (iot \/ item.isOnline)
  BY DEF With
<1> HIDE DEF x
<1>3. /\ x.status \in {"active", "stale-offline"}
      /\ x.status = "stale-offline" => ~ recent(item.last) /\ ~ online
  BY <1>1 DEF classifyDeviceStatus
<1> QED
  BY <1>1, <1>2, <1>3 DEF ItemOK, x

\* What the registry's entries are.
LEMMA EntryOK ==
    ASSUME RecordsInv, NEW i \in DOMAIN registry
    PROVE  registry[i].sn \in Sns /\ registry[i].online \in BOOLEAN
<1>1. PICK I \in SUBSET Entries : registry \in [I -> [sn : Sns, online : BOOLEAN]]
  BY DEF RecordsInv, RegistriesOf
<1> QED
  BY <1>1

LEMMA ItemsOK ==
    ASSUME RecordsInv, NEW x \in mergedItems
    PROVE  ItemOK(x)
<1>1. ASSUME NEW i \in DOMAIN registry, NEW sn, sn = registry[i].sn,
             sn \in DOMAIN records,
             x = With(deviceItem(sn), <<0, i>>, registry[i].online, registry[i].online)
      PROVE  ItemOK(x)
  <2>1. sn \in Sns /\ registry[i].online \in BOOLEAN
    BY <1>1, EntryOK
  <2> HIDE DEF ItemOK
  <2> DEFINE it == deviceItem(sn)
  <2>2. /\ it.sn = sn
        /\ it.isOnline => recent(it.last)
        /\ it.reverseState = "active" => recent(it.last)
        /\ it.hasRecentReverse => recent(it.last)
        /\ it.hasRecentInverterFault => recent(it.last)
    BY <1>1, DeviceItem
  <2> HIDE DEF it
  <2>3. ItemOK(With(it, <<0, i>>, registry[i].online, registry[i].online))
    BY <2>1, <2>2, WithOK
  <2> QED
    BY <1>1, <2>3, Zenon DEF it
<1>2. ASSUME NEW i \in DOMAIN registry, NEW sn, sn = registry[i].sn,
             x = With(buildStubFleetItem(sn), <<0, i>>, registry[i].online, registry[i].online)
      PROVE  ItemOK(x)
  <2>1. sn \in Sns /\ registry[i].online \in BOOLEAN
    BY <1>2, EntryOK
  <2> DEFINE it == buildStubFleetItem(sn)
  <2>2. /\ it.sn = sn /\ ~ it.isOnline /\ it.reverseState # "active"
        /\ ~ it.hasRecentReverse /\ ~ it.hasRecentInverterFault
    BY StubItem
  <2> HIDE DEF it
  <2> QED
    BY <1>2, <2>1, <2>2, WithOK DEF it
<1>3. ASSUME NEW sn \in DOMAIN records, x = With(deviceItem(sn), <<1, sn>>, TRUE, FALSE)
      PROVE  ItemOK(x)
  <2>1. sn \in Sns
    BY <1>3 DEF RecordsInv
  <2> DEFINE it == deviceItem(sn)
  <2>2. /\ it.sn = sn
        /\ it.isOnline => recent(it.last)
        /\ it.reverseState = "active" => recent(it.last)
        /\ it.hasRecentReverse => recent(it.last)
        /\ it.hasRecentInverterFault => recent(it.last)
    BY <1>3, DeviceItem
  <2> HIDE DEF it
  <2>3. ItemOK(With(it, <<1, sn>>, TRUE, FALSE))
    BY <2>1, <2>2, WithOK
  <2> QED
    BY <1>3, <2>3, Zenon DEF it
<1>4. \/ \E i \in DOMAIN registry :
            x = With(IF registry[i].sn \in DOMAIN records THEN deviceItem(registry[i].sn)
                     ELSE buildStubFleetItem(registry[i].sn),
                     <<0, i>>, registry[i].online, registry[i].online)
      \/ \E sn \in DOMAIN records : x = With(deviceItem(sn), <<1, sn>>, TRUE, FALSE)
  BY Zenon DEF mergedItems
<1> QED
  BY <1>1, <1>2, <1>3, <1>4

\* What a finite set indexes is finite.
LEMMA ImageIsFinite ==
    ASSUME NEW S, IsFiniteSet(S), NEW T, NEW f \in [S -> T], \A t \in T : \E i \in S : f[i] = t
    PROVE  IsFiniteSet(T)
<1>1. f \in Surjection(S, T)
  BY DEF Surjection
<1> QED
  BY <1>1, FS_Surjection

LEMMA ItemsAreFinite ==
    ASSUME RecordsInv
    PROVE  IsFiniteSet(mergedItems)
<1> DEFINE base(i) == IF registry[i].sn \in DOMAIN records THEN deviceItem(registry[i].sn)
                      ELSE buildStubFleetItem(registry[i].sn)
           entry(i) == With(base(i), <<0, i>>, registry[i].online, registry[i].online)
           other(sn) == With(deviceItem(sn), <<1, sn>>, TRUE, FALSE)
           Named == {entry(i) : i \in DOMAIN registry}
           rest == (DOMAIN records) \ {registry[i].sn : i \in DOMAIN registry}
           Unlisted == {other(sn) : sn \in rest}
<1>1. mergedItems = Named \cup Unlisted
  BY Zenon DEF mergedItems
<1>2. IsFiniteSet(DOMAIN registry)
  <2>1. DOMAIN registry \in SUBSET Entries
    BY DEF RecordsInv, RegistriesOf
  <2> QED
    BY <2>1, FleetAssumption, FS_Subset
<1>3. IsFiniteSet(rest)
  BY FleetAssumption, FS_Subset DEF RecordsInv
<1> HIDE DEF base, rest
<1>4. IsFiniteSet(Named)
  <2> DEFINE f == [i \in DOMAIN registry |-> entry(i)]
  <2>1. f \in [DOMAIN registry -> Named] /\ \A x \in Named : \E i \in DOMAIN registry : f[i] = x
    OBVIOUS
  <2> HIDE DEF f, Named
  <2> QED
    BY <2>1, <1>2, ImageIsFinite
<1>5. IsFiniteSet(Unlisted)
  <2> DEFINE f == [sn \in rest |-> other(sn)]
  <2>1. f \in [rest -> Unlisted] /\ \A x \in Unlisted : \E sn \in rest : f[sn] = x
    OBVIOUS
  <2> HIDE DEF f, Unlisted
  <2> QED
    BY <2>1, <1>3, ImageIsFinite
<1> QED
  BY <1>1, <1>4, <1>5, FS_Union

-----------------------------------------------------------------------------
(* The cards and the filters.                                                *)

\* The cards of counted rows, spelled out.
LEMMA SummaryIs ==
    ASSUME NEW active, active = {x \in mergedItems : x.status = "active"}
    PROVE  /\ summary.activeTotal = Cardinality(active)
           /\ summary.newlyOnlineCount = Cardinality({x \in active : x.item.isNewlyOnline})
           /\ summary.onlineCtCount = Cardinality({x \in active : x.online})
           /\ summary.offlineCtCount = Cardinality({x \in active : ~ x.online})
           /\ summary.criticalReverseFlowCount =
                 Cardinality({x \in active : x.item.reverseState = "active"})
           /\ summary.staleOfflineCount =
                 Cardinality({x \in mergedItems : x.status = "stale-offline"})
           /\ summary.ctsWithOfflineInverters =
                 Cardinality({x \in active : x.item.hasOfflineInverter})
           /\ summary.recentReverseCtCount =
                 Cardinality({x \in active : x.item.hasRecentReverse})
           /\ summary.recentInverterFaultCtCount =
                 Cardinality({x \in active : x.item.hasRecentInverterFault})
BY DEF summary

\* The filters, one by one.
LEMMA MatchesIs ==
    ASSUME NEW x
    PROVE  /\ matches("active", x) <=> x.status = "active"
           /\ matches("newly-online", x) <=> x.status = "active" /\ x.item.isNewlyOnline
           /\ matches("online", x) <=> x.online
           /\ matches("offline", x) <=> x.status = "active" /\ ~ x.online
           /\ matches("reverse", x) <=> x.item.reverseState = "active"
           /\ matches("recent-reverse", x) <=> x.item.hasRecentReverse
           /\ matches("inv-fault", x) <=> x.item.hasRecentInverterFault
           /\ matches("inv-offline", x) <=> x.item.hasOfflineInverter
           /\ matches("stale-offline", x) <=> x.status = "stale-offline"
           /\ matches("all", x)
BY DEF matches
\* Cards show what their filters list.
LEMMA CardsAgree ==
    ASSUME RecordsInv
    PROVE  KpiCountsItsFilter
<1> DEFINE items == mergedItems
           active == {x \in items : x.status = "active"}
           stale == {x \in items : x.status = "stale-offline"}
           listed(status) == matchingItems(items, status)
<1>1. \A x \in items : ItemOK(x)
  BY ItemsOK
<1>2. IsFiniteSet(items)
  BY ItemsAreFinite
<1>3. \A status : listed(status) = {x \in items : matches(status, x)}
  BY DEF matchingItems
<1>4. SUFFICES
        /\ summary.activeTotal = Cardinality(listed("active"))
        /\ summary.newlyOnlineCount = Cardinality(listed("newly-online"))
        /\ summary.onlineCtCount = Cardinality(listed("online"))
        /\ summary.offlineCtCount = Cardinality(listed("offline"))
        /\ summary.criticalReverseFlowCount = Cardinality(listed("reverse"))
        /\ summary.recentReverseCtCount = Cardinality(listed("recent-reverse"))
        /\ summary.recentInverterFaultCtCount = Cardinality(listed("inv-fault"))
        /\ summary.staleOfflineCount = Cardinality(listed("stale-offline"))
        /\ summary.ctsWithOfflineInverters <= Cardinality(listed("inv-offline"))
        /\ summary.activeTotal + summary.staleOfflineCount = Cardinality(listed("all"))
  BY Zenon DEF KpiCountsItsFilter
<1>5. active = {x \in mergedItems : x.status = "active"}
  OBVIOUS
<1>6. /\ summary.activeTotal = Cardinality(active)
      /\ summary.newlyOnlineCount = Cardinality({x \in active : x.item.isNewlyOnline})
      /\ summary.onlineCtCount = Cardinality({x \in active : x.online})
      /\ summary.offlineCtCount = Cardinality({x \in active : ~ x.online})
      /\ summary.criticalReverseFlowCount =
            Cardinality({x \in active : x.item.reverseState = "active"})
      /\ summary.staleOfflineCount = Cardinality(stale)
      /\ summary.ctsWithOfflineInverters =
            Cardinality({x \in active : x.item.hasOfflineInverter})
      /\ summary.recentReverseCtCount = Cardinality({x \in active : x.item.hasRecentReverse})
      /\ summary.recentInverterFaultCtCount =
            Cardinality({x \in active : x.item.hasRecentInverterFault})
  BY <1>5, SummaryIs
<1> HIDE DEF items, listed
<1>7. /\ listed("active") = active
      /\ listed("stale-offline") = stale
      /\ listed("all") = items
  BY <1>3, MatchesIs
<1>8. /\ listed("newly-online") = {x \in active : x.item.isNewlyOnline}
      /\ listed("offline") = {x \in active : ~ x.online}
  BY <1>3, MatchesIs
<1>9. \A x \in items : x \notin active => x \in stale
  BY <1>1 DEF ItemOK
<1>10. \A x \in stale : ~ x.online /\ x.item.reverseState # "active"
                        /\ ~ x.item.hasRecentReverse /\ ~ x.item.hasRecentInverterFault
  BY <1>1 DEF ItemOK
<1>11. active \subseteq items /\ stale \subseteq items /\ active \cap stale = {}
  OBVIOUS
<1> HIDE DEF active, stale
<1>12. listed("online") = {x \in active : x.online}
  BY <1>3, <1>9, <1>10, <1>11, MatchesIs
<1>13. listed("reverse") = {x \in active : x.item.reverseState = "active"}
  BY <1>3, <1>9, <1>10, <1>11, MatchesIs
<1>14. listed("recent-reverse") = {x \in active : x.item.hasRecentReverse}
  BY <1>3, <1>9, <1>10, <1>11, MatchesIs
<1>15. listed("inv-fault") = {x \in active : x.item.hasRecentInverterFault}
  BY <1>3, <1>9, <1>10, <1>11, MatchesIs
<1>16. Cardinality({x \in active : x.item.hasOfflineInverter})
          <= Cardinality(listed("inv-offline"))
  <2>1. listed("inv-offline") \in SUBSET items
    BY <1>3
  <2>2. {x \in active : x.item.hasOfflineInverter} \in SUBSET listed("inv-offline")
    BY <1>3, <1>11, MatchesIs
  <2> QED
    BY <2>1, <2>2, <1>2, FS_Subset
<1>17. Cardinality(active) + Cardinality(stale) = Cardinality(listed("all"))
  <2>1. items = active \cup stale
    BY <1>9, <1>11
  <2>2. IsFiniteSet(active) /\ IsFiniteSet(stale)
    BY <1>2, <1>11, FS_Subset
  <2>3. /\ Cardinality(active) \in Nat /\ Cardinality(stale) \in Nat
        /\ Cardinality(active \cap stale) = 0
    BY <2>2, <1>11, FS_CardinalityType, FS_EmptySet
  <2>4. Cardinality(items) = Cardinality(active) + Cardinality(stale) - 0
    BY <2>1, <2>2, <2>3, FS_Union
  <2> QED
    BY <2>3, <2>4, <1>7
<1> QED
  BY <1>6, <1>7, <1>8, <1>12, <1>13, <1>14, <1>15, <1>16, <1>17

\* List, page and export count alike the inverter of a device.
LEMMA InvertersAgree ==
    ASSUME RecordsInv
    PROVE  InverterViewsAgree
<1> SUFFICES ASSUME NEW sn \in DOMAIN records
             PROVE  LET list   == deviceItem(sn)
                        page   == detailPage(sn)
                        bundle == buildDeviceViewModel(sn)
                    IN  /\ list.onlineInverterCount = bundle.onlineInverters
                        /\ list.sub1g = bundle.sub1g
                        /\ \/ /\ list.onlineInverterCount = page.onlineInverters
                              /\ list.sub1g = page.sub1g
                           \/ records[sn].channel = "power" /\ page.sub1g = "ok"
  BY Zenon DEF InverterViewsAgree
<1> DEFINE c == records[sn].channel
<1>1. c \in Channels
  BY DEF RecordsInv, RecordOK, DeviceRecord
<1>2. /\ deviceItem(sn).onlineInverterCount = IF listedOnline(c) THEN 1 ELSE 0
      /\ deviceItem(sn).sub1g = deriveCtSub1gStatus(c # "none", listedOnline(c))
  BY DEF deviceItem
<1>3. /\ detailPage(sn).onlineInverters
            = IF resolveInverterCardStatus(c) = "online" THEN 1 ELSE 0
      /\ detailPage(sn).sub1g
            = deriveCtSub1gStatus(c # "none", resolveInverterCardStatus(c) = "online")
  BY DEF detailPage
<1>4. /\ buildDeviceViewModel(sn).onlineInverters
            = IF getInverterStatus(c) = "online" THEN 1 ELSE 0
      /\ buildDeviceViewModel(sn).sub1g
            = deriveCtSub1gStatus(c # "none", getInverterStatus(c) = "online")
  BY DEF buildDeviceViewModel
<1>5. listedOnline(c) <=> getInverterStatus(c) = "online"
  BY DEF listedOnline, getInverterStatus
<1>6. \/ listedOnline(c) <=> resolveInverterCardStatus(c) = "online"
      \/ c = "power" /\ resolveInverterCardStatus(c) = "online"
  BY <1>1 DEF listedOnline, resolveInverterCardStatus, Channels
<1>7. c = "power" /\ resolveInverterCardStatus(c) = "online"
         => deriveCtSub1gStatus(c # "none", resolveInverterCardStatus(c) = "online") = "ok"
  BY DEF deriveCtSub1gStatus
<1> DEFINE inList == listedOnline(c)
           inBundle == getInverterStatus(c) = "online"
           onPage == resolveInverterCardStatus(c) = "online"
           sub(x) == deriveCtSub1gStatus(c # "none", x)
<1>8. sub(inList) = sub(inBundle)
  BY <1>5 DEF deriveCtSub1gStatus
<1>9. (inList <=> onPage) => sub(inList) = sub(onPage)
  BY DEF deriveCtSub1gStatus
<1> HIDE DEF inList, inBundle, onPage, sub
<1> QED
  BY <1>2, <1>3, <1>4, <1>5, <1>6, <1>7, <1>8, <1>9 DEF inList, inBundle, onPage, sub
-----------------------------------------------------------------------------
(* The export.                                                               *)

\* While nothing moves the list stays.
LEMMA ListStays ==
    ASSUME UNCHANGED <<time, records, registry>>
    PROVE  exportList' = exportList
BY DEF exportList, listDevices, mergedItems, matchingItems, matches, before,
       fleetDevicePriority, With, classifyDeviceStatus, recent, deviceItem,
       buildStubFleetItem, listedOnline, deriveCtSub1gStatus

\* What a row of the list is known by.
LEMMA ItemKey ==
    ASSUME RecordsInv, NEW x \in mergedItems
    PROVE  x.key \in {0, 1} \X Nat
<1>1. DOMAIN registry \subseteq Nat /\ DOMAIN records \subseteq Nat
  BY FleetAssumption DEF RecordsInv, RegistriesOf
<1>2. \/ \E i \in DOMAIN registry : x.key = <<0, i>>
      \/ \E sn \in DOMAIN records : x.key = <<1, sn>>
  <2>1. ASSUME NEW item, NEW key, NEW online, NEW iot, x = With(item, key, online, iot)
        PROVE  x.key = key
    BY <2>1 DEF With
  <2>2. ASSUME NEW i \in DOMAIN registry, NEW base,
               x = With(base, <<0, i>>, registry[i].online, registry[i].online)
        PROVE  x.key = <<0, i>>
    BY <2>1, <2>2
  <2>3. ASSUME NEW sn \in DOMAIN records, x = With(deviceItem(sn), <<1, sn>>, TRUE, FALSE)
        PROVE  x.key = <<1, sn>>
    BY <2>1, <2>3
  <2>4. \/ \E i \in DOMAIN registry :
              x = With(IF registry[i].sn \in DOMAIN records THEN deviceItem(registry[i].sn)
                       ELSE buildStubFleetItem(registry[i].sn),
                       <<0, i>>, registry[i].online, registry[i].online)
        \/ \E sn \in DOMAIN records : x = With(deviceItem(sn), <<1, sn>>, TRUE, FALSE)
    BY Zenon DEF mergedItems
  <2> QED
    BY <2>2, <2>3, <2>4
<1>3. PICK c \in {0, 1}, n \in Nat : x.key = <<c, n>>
  BY ONLY <1>1, <1>2
<1> QED
  BY <1>3

\* The rows of the export's list.
LEMMA ListOfKnown ==
    ASSUME RecordsInv
    PROVE  exportList \subseteq [key : {0, 1} \X Nat, sn : Sns]
<1> SUFFICES ASSUME NEW x \in listDevices("active", 1, ExportLimit)
             PROVE  x.key \in {0, 1} \X Nat /\ x.item.sn \in Sns
  BY DEF exportList
<1>1. x \in mergedItems
  BY DEF listDevices, matchingItems
<1> QED
  BY <1>1, ItemsOK, ItemKey DEF ItemOK

\* The devices that have an inverter bound.
Paired == {s \in DOMAIN records : records[s].channel # "none"}

\* An export whose list would now be L, with known devices D and bound ones B:
\* it goes through the list it took, which is that of the index unless
\* something moved, and leaves behind a page for each device and each link, or
\* an error; without one it fails at a device that is not known.
ExportOK(e, L, D, B) ==
    /\ e \in ExportSets
    /\ snsOf(e.queue) \subseteq e.sns
    /\ e.phase = "listed" =>
          /\ snsOf(e.queue) = e.sns /\ e.links = {}
          /\ ~ e.moved => e.sns = L
    /\ e.phase \in {"devices", "inverters", "done"} =>
          /\ \A s \in e.sns : <<"device", s>> \in e.files \/ s \in snsOf(e.queue)
          /\ ~ e.moved => e.index = e.sns
    /\ e.phase = "done" => e.queue = {}
    /\ e.links \subseteq e.files \cup e.errors \cup e.next
    /\ \A l \in e.next : l[2] \in B
    /\ e.next # {} => e.phase = "inverters"
    /\ e.phase \notin {"done", "failed"} => e.zip = "earlier"
    /\ e.phase = "failed" /\ <<"run", 0>> \notin e.errors =>
          /\ e.zip = "earlier"
          /\ e.sns # {} => \E s \in e.sns : s \notin D

ExportInv == ExportOK(export, snsOf(exportList), DOMAIN records, Paired)

FleetInv ==
    /\ RecordsInv
    /\ ExportInv

LEMMA FleetBegins == FleetInit => FleetInv
<1> SUFFICES ASSUME FleetInit PROVE FleetInv
  OBVIOUS
<1> USE DEF FleetInit
<1>1. registry \in RegistriesOf(Sns)
  <2>1. registry \in [{} -> [sn : Sns, online : BOOLEAN]] /\ DOMAIN registry = {}
    OBVIOUS
  <2>2. {} \in SUBSET Entries
    OBVIOUS
  <2> QED
    BY <2>1, <2>2 DEF RegistriesOf
<1>2. RecordsInv
  BY <1>1, FleetAssumption DEF RecordsInv
<1>3. ExportInv
  BY DEF ExportInv, ExportOK, ExportSets, NoExport, snsOf
<1> QED
  BY <1>2, <1>3 DEF FleetInv

\* A report leaves good records.
LEMMA ReportKeepsRecords ==
    ASSUME RecordsInv, NEW sn \in Sns, NEW event \in Events, Reports(sn, event)
    PROVE  RecordsInv' /\ Paired \subseteq Paired'
<1> DEFINE old == IF sn \in DOMAIN records THEN records[sn]
                  ELSE [created |-> time, last |-> Never, reverse |-> FALSE,
                        reverseAt |-> Never, faultAt |-> Never, channel |-> "none"]
           channel == CASE event \in {"plain", "reverse"} -> old.channel
                        [] event = "fault" ->
                             IF old.channel = "none" THEN "bare" ELSE old.channel
                        [] event \in {"silent", "power"}
                             /\ old.channel \in {"power", "offline", "online"} -> old.channel
                        [] OTHER -> event
           new == [old EXCEPT !.last = time,
                              !.reverse = event = "reverse",
                              !.reverseAt = IF event = "reverse" THEN time ELSE @,
                              !.faultAt = IF event = "fault" THEN time ELSE @,
                              !.channel = channel]
<1>1. /\ DOMAIN records' = (DOMAIN records) \cup {sn}
      /\ \A s \in DOMAIN records' : records'[s] = IF s # sn THEN records[s] ELSE new
      /\ time' = time /\ registry' = registry /\ syncs' = syncs
      /\ reports < MaxReports /\ reports' = reports + 1
  BY DEF Reports
<1>2. time \in Nat /\ time <= MaxTime
  BY FleetAssumption DEF RecordsInv
<1>3. /\ old \in [created : 0..MaxTime, last : Never..MaxTime, reverse : BOOLEAN,
                  reverseAt : Never..MaxTime, faultAt : Never..MaxTime, channel : Channels]
      /\ old.created <= time /\ old.reverseAt <= time /\ old.faultAt <= time
  <2>1. CASE sn \in DOMAIN records
    <3>1. RecordOK(records[sn], time)
      BY <2>1 DEF RecordsInv
    <3> HIDE DEF old
    <3>2. old = records[sn]
      BY <2>1 DEF old
    <3> QED
      BY <3>1, <3>2, <1>2, FleetAssumption DEF RecordOK, DeviceRecord, Never
  <2>2. CASE sn \notin DOMAIN records
    <3>1. old = [created |-> time, last |-> Never, reverse |-> FALSE,
                 reverseAt |-> Never, faultAt |-> Never, channel |-> "none"]
      BY <2>2
    <3> HIDE DEF old
    <3> QED
      BY <3>1, <1>2, FleetAssumption DEF Never, Channels
  <2> QED
    BY <2>1, <2>2
<1> HIDE DEF old
<1>4. channel \in Channels /\ (old.channel # "none" => channel # "none")
  <2>1. old.channel \in Channels /\ event \in Events
    BY <1>3
  <2> QED
    BY <2>1 DEF Channels, Events
<1>11. sn \in DOMAIN records => old.channel = records[sn].channel
  BY DEF old
<1> HIDE DEF channel
<1>5. /\ new.created = old.created /\ new.last = time
      /\ new.reverseAt \in {time, old.reverseAt} /\ new.faultAt \in {time, old.faultAt}
      /\ new.channel = channel
  BY <1>3
<1>6. new \in DeviceRecord
  <2>1. 0 <= time /\ time \in 0..MaxTime /\ time \in Never..MaxTime
    BY <1>2, FleetAssumption DEF Never
  <2> QED
    BY <1>3, <1>4, <2>1 DEF DeviceRecord
<1>7. /\ old.created \in Int /\ old.reverseAt \in Int /\ old.faultAt \in Int
      /\ old.created <= time /\ old.reverseAt <= time /\ old.faultAt <= time
  BY <1>3, FleetAssumption DEF Never
<1> HIDE DEF new
<1>8. RecordOK(new, time)
  BY <1>2, <1>5, <1>6, <1>7 DEF RecordOK
<1>9. \A s \in DOMAIN records' : RecordOK(records'[s], time')
  BY <1>1, <1>8 DEF RecordsInv
<1>10. (registry \in RegistriesOf(Sns))'
  BY <1>1 DEF RecordsInv, RegistriesOf
<1>12. RecordsInv'
  BY <1>1, <1>9, <1>10, FleetAssumption DEF RecordsInv
<1>13. Paired \subseteq Paired'
  BY <1>1, <1>4, <1>5, <1>11 DEF Paired
<1> QED
  BY <1>12, <1>13

\* An export that stays as it is, but for the mark that something moved.
LEMMA MoveKeepsExport ==
    ASSUME ExportInv, Paired \subseteq Paired', export.phase \notin {"done", "failed"},
           export' = [export EXCEPT !.moved = @ \/ export.phase = "listed"]
    PROVE  ExportInv'
<1>1. export' \in ExportSets
  BY DEF ExportInv, ExportOK, ExportSets
<1>2. /\ export'.phase = export.phase /\ export'.queue = export.queue
      /\ export'.sns = export.sns /\ export'.index = export.index
      /\ export'.moved = (export.moved \/ export.phase = "listed")
      /\ export'.files = export.files /\ export'.links = export.links
      /\ export'.next = export.next /\ export'.errors = export.errors
      /\ export'.zip = export.zip
  BY DEF ExportInv, ExportOK, ExportSets
<1> QED
  BY <1>1, <1>2 DEF ExportInv, ExportOK, snsOf

\* A step of the export leaves the rest alone.
LEMMA RecordsStay ==
    ASSUME RecordsInv, UNCHANGED <<time, records, registry, reports, syncs>>
    PROVE  RecordsInv' /\ exportList' = exportList /\ Paired' = Paired
<1>1. (registry \in RegistriesOf(Sns))'
  BY DEF RecordsInv, RegistriesOf
<1>2. RecordsInv'
  BY <1>1 DEF RecordsInv
<1> QED
  BY <1>2, ListStays DEF Paired

\* The list is taken.
LEMMA ListKeepsExport ==
    ASSUME FleetInv, listExportSns
    PROVE  ExportInv'
<1> DEFINE L == exportList
<1>1. L \subseteq [key : {0, 1} \X Nat, sn : Sns] /\ L' = L
  BY ListOfKnown, ListStays DEF FleetInv, listExportSns, ExportStep
<1>2. export' = IF L = {} THEN [NoExport EXCEPT !.phase = "failed"]
                ELSE [NoExport EXCEPT !.phase = "listed", !.queue = L, !.sns = snsOf(L)]
  BY DEF listExportSns
<1>3. snsOf(L) \subseteq Sns
  BY <1>1 DEF snsOf
<1> DEFINE S == snsOf(L)
<1>4. /\ export' \in ExportSets
      /\ L = {} => export'.phase = "failed" /\ export'.queue = {} /\ export'.sns = {}
      /\ L # {} => export'.phase = "listed" /\ export'.queue = L /\ export'.sns = S
      /\ export'.links = {} /\ export'.next = {} /\ export'.zip = "earlier"
  <2> HIDE DEF L, S
  <2>1. S \subseteq Sns /\ export' = IF L = {} THEN [NoExport EXCEPT !.phase = "failed"]
                ELSE [NoExport EXCEPT !.phase = "listed", !.queue = L, !.sns = S]
    BY <1>2, <1>3 DEF S
  <2> QED
    BY <1>1, <2>1 DEF ExportSets, NoExport
<1>5. snsOf({}) = {}
  BY DEF snsOf
<1>6. snsOf(exportList') = S
  BY <1>1
<1> QED
  BY <1>4, <1>5, <1>6 DEF ExportInv, ExportOK, snsOf

\* The index is written.
LEMMA IndexKeepsExport ==
    ASSUME FleetInv, buildOverviewViewModel
    PROVE  ExportInv'
<1> DEFINE S == snsOf(exportList)
           files == {<<"index", 0>>}
<1>1. S \subseteq Sns /\ files \subseteq Pages
  BY ListOfKnown DEF FleetInv, snsOf, Pages
<1>2. /\ export.phase = "listed"
      /\ export' = [export EXCEPT !.phase = "devices", !.index = S, !.files = files]
  BY DEF buildOverviewViewModel
<1>3. ExportOK(export, S, DOMAIN records, Paired)
  BY DEF FleetInv, ExportInv
<1> HIDE DEF S, files
<1>4. export' \in ExportSets
  BY <1>1, <1>2, <1>3 DEF ExportOK, ExportSets
<1>5. /\ export'.phase = "devices" /\ export'.queue = export.queue /\ export'.sns = export.sns
      /\ export'.index = S /\ export'.moved = export.moved /\ export'.links = export.links
      /\ export'.next = export.next /\ export'.zip = export.zip
  BY <1>2, <1>3 DEF ExportOK, ExportSets
<1> QED
  BY <1>2, <1>3, <1>4, <1>5 DEF ExportInv, ExportOK, snsOf

\* The page of a device is written, or the run ends for want of one.
LEMMA DeviceKeepsExport ==
    ASSUME FleetInv, NEW row \in export.queue, exportDevice(row)
    PROVE  ExportInv'
<1> DEFINE sn == row.sn
           links == buildDeviceViewModel(sn).links
<1>1. ExportOK(export, snsOf(exportList), DOMAIN records, Paired) /\ export.phase = "devices"
  BY DEF FleetInv, ExportInv, exportDevice
<1>2. sn \in export.sns /\ sn \in Sns /\ sn \in Nat
  BY <1>1, FleetAssumption DEF ExportOK, ExportSets, snsOf
<1>3. Paired' = Paired /\ DOMAIN records' = DOMAIN records
  BY DEF exportDevice, ExportStep, Paired
<1>4. CASE sn \notin DOMAIN records
  <2>1. export' = [export EXCEPT !.phase = "failed"]
    BY <1>4 DEF exportDevice, resolvable
  <2>2. export' \in ExportSets
    BY <1>1, <2>1 DEF ExportOK, ExportSets
  <2>3. /\ export'.phase = "failed" /\ export'.queue = export.queue
        /\ export'.sns = export.sns /\ export'.files = export.files
        /\ export'.links = export.links /\ export'.next = export.next
        /\ export'.errors = export.errors /\ export'.zip = export.zip
    BY <1>1, <2>1 DEF ExportOK, ExportSets
  <2> QED
    BY <1>1, <1>2, <1>3, <1>4, <2>2, <2>3 DEF ExportInv, ExportOK, snsOf
<1>5. CASE sn \in DOMAIN records
  <2>1. \/ links = {}
        \/ links = {<<"inverter", sn>>} /\ sn \in Paired
    BY <1>5 DEF buildDeviceViewModel, Paired
  <2>2. /\ links \subseteq Pages /\ \A l \in links : l[2] \in Paired
        /\ <<"inverter", sn>> \in Pages /\ <<"device", sn>> \in Pages
    <3>1. <<"inverter", sn>> \in Pages /\ <<"device", sn>> \in Pages
      BY <1>2 DEF Pages
    <3> HIDE DEF sn, links
    <3> QED
      BY <2>1, <3>1
  <2>3. export' = [export EXCEPT !.phase = IF links = {} THEN "devices" ELSE "inverters",
                      !.queue = @ \ {row},
                      !.files = @ \cup {<<"device", sn>>},
                      !.links = (@ \ {<<"inverter", sn>>}) \cup links,
                      !.next = links]
    BY <1>5 DEF exportDevice, resolvable
  <2> DEFINE page == <<"device", sn>>
             link == <<"inverter", sn>>
  <2>4. \A s \in snsOf(export.queue) : s = sn \/ s \in snsOf(export.queue \ {row})
    BY DEF snsOf
  <2>5. snsOf(export.queue \ {row}) \subseteq snsOf(export.queue)
    BY DEF snsOf
  <2>6. page = <<"device", sn>>
    OBVIOUS
  <2>7. page \in Pages /\ links \subseteq Pages
    BY <2>2
  <2>8. export' = [export EXCEPT !.phase = IF links = {} THEN "devices" ELSE "inverters",
                      !.queue = @ \ {row}, !.files = @ \cup {page},
                      !.links = (@ \ {link}) \cup links, !.next = links]
    BY <2>3
  <2> HIDE DEF links, page, link
  <2>9. export' \in ExportSets
    BY <1>1, <2>7, <2>8 DEF ExportOK, ExportSets
  <2>10. /\ export'.phase = IF links = {} THEN "devices" ELSE "inverters"
         /\ export'.queue = export.queue \ {row} /\ export'.sns = export.sns
         /\ export'.index = export.index /\ export'.moved = export.moved
         /\ export'.files = export.files \cup {page}
         /\ export'.links = (export.links \ {link}) \cup links
         /\ export'.next = links /\ export'.errors = export.errors
         /\ export'.zip = export.zip
    BY <1>1, <2>8 DEF ExportOK, ExportSets
  <2>11. \A s \in export'.sns : <<"device", s>> \in export'.files \/ s \in snsOf(export'.queue)
    BY <1>1, <2>4, <2>6, <2>10 DEF ExportOK
  <2>12. snsOf(export'.queue) \subseteq export'.sns
    BY <1>1, <2>5, <2>10 DEF ExportOK
  <2>13. export'.links \subseteq export'.files \cup export'.errors \cup export'.next
    BY <1>1, <2>10 DEF ExportOK
  <2>14. \A l \in export'.next : l[2] \in Paired'
    BY <1>3, <2>2, <2>10
  <2>15. /\ export'.phase \in {"devices", "inverters"} /\ export'.zip = "earlier"
         /\ export'.next # {} => export'.phase = "inverters"
         /\ ~ export'.moved => export'.index = export'.sns
    BY <1>1, <2>10 DEF ExportOK
  <2> HIDE DEF sn
  <2> QED
    BY <2>9, <2>11, <2>12, <2>13, <2>14, <2>15 DEF ExportInv, ExportOK
<1> QED
  BY <1>4, <1>5

\* The page of a linked inverter is written or not.
LEMMA InverterKeepsExport ==
    ASSUME FleetInv, NEW fails \in BOOLEAN, exportInverter(fails)
    PROVE  ExportInv'
<1> DEFINE made == {l \in export.next : ~ fails /\ records[l[2]].channel # "none"}
           failed == IF fails THEN export.errors \cup export.next ELSE export.errors
<1>1. ExportOK(export, snsOf(exportList), DOMAIN records, Paired) /\ export.phase = "inverters"
  BY DEF FleetInv, ExportInv, exportInverter
<1>2. /\ made \subseteq export.next /\ failed \subseteq export.errors \cup export.next
      /\ export.errors \subseteq failed /\ export.next \subseteq made \cup failed
  BY <1>1 DEF ExportOK, Paired
<1>3. export' = [export EXCEPT !.phase = "devices", !.next = {}, !.files = @ \cup made,
                               !.errors = failed]
  BY <1>1 DEF exportInverter, ExportOK, ExportSets
<1> HIDE DEF made, failed
<1>4. export' \in ExportSets
  BY <1>1, <1>2, <1>3 DEF ExportOK, ExportSets
<1>5. /\ export'.phase = "devices" /\ export'.queue = export.queue /\ export'.sns = export.sns
      /\ export'.index = export.index /\ export'.moved = export.moved
      /\ export'.files = export.files \cup made /\ export'.links = export.links
      /\ export'.next = {} /\ export'.errors = failed /\ export'.zip = export.zip
  BY <1>1, <1>3 DEF ExportOK, ExportSets
<1> QED
  BY <1>1, <1>2, <1>4, <1>5 DEF ExportInv, ExportOK, snsOf

\* The archive is written, or the run fails.
LEMMA EndKeepsExport ==
    ASSUME FleetInv, writeZipArchive \/ exportThrows
    PROVE  ExportInv'
<1>1. ExportOK(export, snsOf(exportList), DOMAIN records, Paired)
  BY DEF FleetInv, ExportInv
<1>2. CASE writeZipArchive
  <2>1. /\ export.phase = "devices" /\ export.queue = {}
        /\ export' = [export EXCEPT !.phase = "done", !.zip = "this"]
    BY <1>2 DEF writeZipArchive
  <2>2. export' \in ExportSets
    BY <1>1, <2>1 DEF ExportOK, ExportSets
  <2>3. /\ export'.phase = "done" /\ export'.queue = export.queue /\ export'.sns = export.sns
        /\ export'.index = export.index /\ export'.moved = export.moved
        /\ export'.files = export.files /\ export'.links = export.links
        /\ export'.next = export.next /\ export'.errors = export.errors
    BY <1>1, <2>1 DEF ExportOK, ExportSets
  <2> QED
    BY <1>1, <2>1, <2>2, <2>3 DEF ExportInv, ExportOK, snsOf
<1>3. CASE exportThrows
  <2> DEFINE failed == export.errors \cup {<<"run", 0>>}
             zip == IF export.phase = "devices" /\ export.queue = {} THEN "cut" ELSE export.zip
  <2>1. /\ export.phase \in {"listed", "devices"}
        /\ export' = [export EXCEPT !.phase = "failed", !.errors = failed, !.zip = zip]
    BY <1>1, <1>3 DEF exportThrows, ExportOK, ExportSets
  <2>2. failed \subseteq Pages /\ export.errors \subseteq failed /\ <<"run", 0>> \in failed
    BY <1>1 DEF Pages, ExportOK, ExportSets
  <2>3. zip \in {"earlier", "this", "cut"}
    BY <1>1 DEF ExportOK, ExportSets
  <2> HIDE DEF failed, zip
  <2>4. export' \in ExportSets
    BY <1>1, <2>1, <2>2, <2>3 DEF ExportOK, ExportSets
  <2>5. /\ export'.phase = "failed" /\ export'.queue = export.queue
        /\ export'.sns = export.sns /\ export'.files = export.files
        /\ export'.links = export.links /\ export'.next = export.next
        /\ export'.errors = failed
    BY <1>1, <2>1 DEF ExportOK, ExportSets
  <2> QED
    BY <1>1, <2>1, <2>2, <2>4, <2>5 DEF ExportInv, ExportOK, snsOf
<1> QED
  BY <1>2, <1>3

LEMMA FleetStepKeeps == FleetInv /\ [FleetNext]_fleetVars => FleetInv'
<1> SUFFICES ASSUME FleetInv, [FleetNext]_fleetVars
             PROVE  FleetInv'
  OBVIOUS
<1>0. RecordsInv /\ ExportInv
  BY DEF FleetInv
<1>9. CASE UNCHANGED fleetVars
  <2>1. UNCHANGED <<time, records, registry, export, reports, syncs>>
    BY <1>9 DEF fleetVars
  <2> QED
    BY <1>0, <2>1, RecordsStay, ListStays DEF FleetInv, ExportInv, ExportOK, ExportSets, Paired
<1> SUFFICES ASSUME FleetNext PROVE FleetInv'
  BY <1>9
<1>10. export.phase \notin {"done", "failed"}
  BY DEF FleetNext
<1>1. ASSUME NEW sn \in Sns, NEW event \in Events, Reports(sn, event)
      PROVE  FleetInv'
  <2>1. RecordsInv' /\ Paired \subseteq Paired'
    BY <1>0, <1>1, ReportKeepsRecords
  <2>2. export' = [export EXCEPT !.moved = @ \/ export.phase = "listed"]
    BY <1>1 DEF Reports
  <2> QED
    BY <1>0, <1>10, <2>1, <2>2, MoveKeepsExport DEF FleetInv
<1>2. ASSUME NEW new \in RegistriesOf(Sns), RegistrySync(new)
      PROVE  FleetInv'
  <2>1. RecordsInv'
    <3>1. registry' \in RegistriesOf(Sns)
      BY <1>2 DEF RegistrySync
    <3>2. (registry \in RegistriesOf(Sns))'
      BY <3>1 DEF RegistriesOf
    <3> QED
      BY <1>0, <1>2, <3>2, FleetAssumption DEF RecordsInv, RegistrySync
  <2>2. /\ export' = [export EXCEPT !.moved = @ \/ export.phase = "listed"]
        /\ Paired \subseteq Paired'
    BY <1>2 DEF RegistrySync, Paired
  <2> QED
    BY <1>0, <1>10, <2>1, <2>2, MoveKeepsExport DEF FleetInv
<1>3. CASE MinutePasses
  <2>1. RecordsInv'
    <3>1. /\ time \in Nat /\ time' = time + 1 /\ time' \in 0..MaxTime
          /\ records' = records /\ registry' = registry /\ reports' = reports /\ syncs' = syncs
      BY <1>0, <1>3, FleetAssumption DEF RecordsInv, MinutePasses
    <3>2. \A s \in DOMAIN records : RecordOK(records[s], time')
      BY <1>0, <3>1, FleetAssumption DEF RecordsInv, RecordOK, DeviceRecord
    <3>3. (registry \in RegistriesOf(Sns))'
      BY <1>0, <3>1 DEF RecordsInv, RegistriesOf
    <3> QED
      BY <1>0, <3>1, <3>2, <3>3 DEF RecordsInv
  <2>2. /\ export' = [export EXCEPT !.moved = @ \/ export.phase = "listed"]
        /\ Paired \subseteq Paired'
    BY <1>3 DEF MinutePasses, Paired
  <2> QED
    BY <1>0, <1>10, <2>1, <2>2, MoveKeepsExport DEF FleetInv
<1>4. CASE ExportStep /\ ExportInv'
  BY <1>0, <1>4, RecordsStay DEF FleetInv, ExportStep
<1>5. CASE listExportSns
  BY <1>4, <1>5, ListKeepsExport DEF listExportSns
<1>6. CASE buildOverviewViewModel
  BY <1>4, <1>6, IndexKeepsExport DEF buildOverviewViewModel
<1>7. ASSUME NEW row \in export.queue, exportDevice(row)
      PROVE  FleetInv'
  BY <1>4, <1>7, DeviceKeepsExport DEF exportDevice
<1>8. ASSUME NEW fails \in BOOLEAN, exportInverter(fails)
      PROVE  FleetInv'
  BY <1>4, <1>8, InverterKeepsExport DEF exportInverter
<1>11. CASE writeZipArchive \/ exportThrows
  BY <1>4, <1>11, EndKeepsExport DEF writeZipArchive, exportThrows
<1> QED
  BY <1>1, <1>2, <1>3, <1>5, <1>6, <1>7, <1>8, <1>11 DEF FleetNext

\* The fleet's inductive invariant.
THEOREM FleetCorrect == FleetSpec => []FleetInv
BY FleetBegins, FleetStepKeeps, PTL DEF FleetSpec

\* Types of the fleet, its registry and the run of the export.
THEOREM FleetTypes == FleetSpec => []FleetTypeOK
<1>1. FleetInv => FleetTypeOK
  BY FleetAssumption DEF FleetInv, RecordsInv, ExportInv, ExportOK, ExportSets, FleetTypeOK,
                         RecordOK, DeviceRecord
<1> QED
  BY FleetCorrect, <1>1, PTL

\* A card of the overview page shows as many devices as its filter lists, and
\* the list, the page of a device and the export agree about its inverter.
THEOREM FleetViews == FleetSpec => []FleetViewsAgree
<1>1. FleetInv => FleetViewsAgree
  BY CardsAgree, InvertersAgree DEF FleetInv, FleetViewsAgree
<1> QED
  BY FleetCorrect, <1>1, PTL

\* An export that ends well has a page for each device of its list and, unless
\* the list moved, of its index, and for each linked inverter unless making that
\* page failed, whatever the devices report between two pages; one that fails
\* on its own leaves the last archive and had a device without a record.
THEOREM BundleIsComplete == FleetSpec => []ExportBundleComplete
<1>1. FleetInv => ExportBundleComplete
  BY DEF FleetInv, ExportInv, ExportOK, ExportBundleComplete, snsOf
<1> QED
  BY FleetCorrect, <1>1, PTL

-----------------------------------------------------------------------------
(* The offline windows of a device.                                          *)

NatLess == OpToRel(<, Nat)

\* The least number of a set, and the greatest of a bounded one.
LEMMA LeastOfNaturals ==
    ASSUME NEW S, S \subseteq Nat, S # {}
    PROVE  \E x \in S : \A y \in S : x <= y
<1>1. PICK x \in S : \A y \in S : ~ (<<y, x>> \in NatLess)
  BY NatLessThanWellFounded, WFMin DEF NatLess
<1>2. ASSUME NEW y \in S PROVE x <= y
  <2>1. ~ (<<y, x>> \in NatLess)
    BY <1>1
  <2>2. y < x => <<y, x>> \in NatLess
    BY DEF NatLess, OpToRel
  <2> QED
    BY <2>1, <2>2
<1> QED
  BY <1>2

LEMMA MinOfSpec ==
    ASSUME NEW S, S \subseteq Nat, S # {}
    PROVE  MinOf(S) \in S /\ \A y \in S : MinOf(S) <= y
BY LeastOfNaturals DEF MinOf

LEMMA MaxOfSpec ==
    ASSUME NEW S, NEW n \in Nat, S \subseteq 0..n, S # {}
    PROVE  MaxOf(S) \in S /\ \A y \in S : y <= MaxOf(S)
<1> DEFINE T == {n - y : y \in S}
<1>1. T \subseteq Nat /\ T # {}
  <2>1. \A y \in S : n - y \in Nat
    OBVIOUS
  <2> QED
    BY <2>1, Zenon
<1>2. PICK z \in T : \A w \in T : z <= w
  BY <1>1, LeastOfNaturals
<1>3. PICK x \in S : z = n - x
  OBVIOUS
<1>4. \A y \in S : x >= y
  <2> TAKE y \in S
  <2>1. n - x <= n - y
    BY <1>2, <1>3
  <2> QED
    BY <2>1
<1>5. MaxOf(S) \in S /\ \A y \in S : MaxOf(S) >= y
  BY <1>4 DEF MaxOf
<1>6. \A y \in S : y \in Int
  OBVIOUS
<1> HIDE DEF T
<1> QED
  BY <1>5, <1>6

\* Rows of the device, of the topic.
TopicRows == {r \in [at : 0..MaxNow, metric : Metrics(topic),
                     value : {-1, 1, 2, NoNumber} \cup SUBSET FaultBits] : r.value \in Values(r.metric)}

HistoryInv ==
    /\ now \in 0..MaxNow
    /\ rows \in Seq(TopicRows)
    /\ \A i \in DOMAIN rows : rows[i].at <= now
    /\ \A i, j \in DOMAIN rows : i <= j => rows[i].at <= rows[j].at

LEMMA HistoryStarts == HistoryInit => HistoryInv
BY HistoryAssumption DEF HistoryInit, HistoryInv

LEMMA HistoryStepKeeps == HistoryInv /\ [HistoryNext]_historyVars => HistoryInv'
<1> SUFFICES ASSUME HistoryInv, [HistoryNext]_historyVars
             PROVE  HistoryInv'
  OBVIOUS
<1>1. ASSUME NEW metric \in Metrics(topic), NEW value \in Values(metric), Report(metric, value)
      PROVE  HistoryInv'
  <2> DEFINE row == [at |-> now, metric |-> metric, value |-> value]
  <2>1. value \in {-1, 1, 2, NoNumber} \cup SUBSET FaultBits
    BY DEF Values
  <2>2. row \in TopicRows
    BY <2>1 DEF TopicRows, HistoryInv
  <2>3. now' = now /\ topic' = topic /\ rows' = Append(rows, row)
    BY <1>1 DEF Report
  <2>4. TopicRows' = TopicRows
    BY <2>3 DEF TopicRows, Metrics
  <2>5. row.at = now
    OBVIOUS
  <2> HIDE DEF row
  <2>6. rows' \in Seq(TopicRows)
    BY <2>2, <2>3 DEF HistoryInv
  <2>7. \A i \in DOMAIN rows' : rows'[i].at <= now
    <3> TAKE i \in DOMAIN rows'
    <3>1. rows'[i] = row \/ (i \in DOMAIN rows /\ rows'[i] = rows[i])
      BY <2>3 DEF HistoryInv
    <3> QED
      BY <3>1, <2>5, HistoryAssumption DEF HistoryInv
  <2>8. \A i, j \in DOMAIN rows' : i <= j => rows'[i].at <= rows'[j].at
    <3> TAKE i, j \in DOMAIN rows'
    <3> HAVE i <= j
    <3>1. Len(rows) \in Nat /\ DOMAIN rows = 1..Len(rows) /\ DOMAIN rows' = 1..(Len(rows) + 1)
      BY <2>3 DEF HistoryInv
    <3>2. rows'[j] = row \/ (i \in DOMAIN rows /\ j \in DOMAIN rows
                              /\ rows'[i] = rows[i] /\ rows'[j] = rows[j])
      BY <2>3, <3>1 DEF HistoryInv
    <3> QED
      BY <2>5, <2>7, <3>2 DEF HistoryInv
  <2> QED
    BY <2>3, <2>4, <2>6, <2>7, <2>8 DEF HistoryInv
<1>2. CASE Tick
  <2>1. now' = now + 1 /\ now < MaxNow /\ topic' = topic /\ rows' = rows
    BY <1>2 DEF Tick
  <2>2. TopicRows' = TopicRows
    BY <2>1 DEF TopicRows, Metrics
  <2>3. \A i \in DOMAIN rows : rows[i].at \in Int
    BY DEF HistoryInv, TopicRows
  <2> QED
    BY <2>1, <2>2, <2>3, HistoryAssumption DEF HistoryInv
<1>3. CASE UNCHANGED historyVars
  <2>1. TopicRows' = TopicRows
    BY <1>3 DEF TopicRows, Metrics, historyVars
  <2> QED
    BY <1>3, <2>1 DEF HistoryInv, historyVars
<1> QED
  BY <1>1, <1>2, <1>3 DEF HistoryNext

\* The rows of the device, the clock behind them.
THEOREM HistoryCorrect == HistorySpec => []HistoryInv
BY HistoryStarts, HistoryStepKeeps, PTL DEF HistorySpec

\* Types of the clock and the rows.
THEOREM HistoryTypes == HistorySpec => []HistoryTypeOK
<1>1. HistoryInv => HistoryTypeOK
  BY HistoryAssumption DEF HistoryInv, TopicRows, HistoryTypeOK
<1> QED
  BY HistoryCorrect, <1>1, PTL

\* What the loop over some times makes of one of them.
nextTime(times, t) ==
    LET later == {u \in times : u > t}
    IN  IF later = {} THEN now ELSE MinOf(later)

LEMMA NextTime ==
    ASSUME now \in Nat, NEW times, times \subseteq 0..now, NEW u \in times,
           NEW next, next = nextTime(times, u)
    PROVE  /\ next \in 0..now /\ u <= next
           /\ \A v \in times : v <= u \/ next <= v
           /\ next = now \/ (next \in times /\ u < next)
<1> DEFINE later == {v \in times : v > u}
<1>1. u \in 0..now /\ \A v \in times : v \in 0..now
  OBVIOUS
<1>2. next = IF later = {} THEN now ELSE MinOf(later)
  BY DEF nextTime
<1>3. \A v : v \in later <=> (v \in times /\ v > u)
  OBVIOUS
<1>4. later # {} => MinOf(later) \in later /\ \A v \in later : MinOf(later) <= v
  <2>1. \A v \in later : v \in Nat
    BY <1>1
  <2> HIDE DEF later
  <2> QED
    BY <2>1, MinOfSpec
<1> HIDE DEF later
<1>5. CASE later = {}
  <2>1. next = now
    BY <1>2, <1>5
  <2>2. \A v \in times : v <= u
    <3> TAKE v \in times
    <3>1. ~ (v > u)
      BY <1>3, <1>5
    <3> QED
      BY <1>1, <3>1
  <2> QED
    BY <1>1, <2>1, <2>2
<1>6. CASE later # {}
  <2>1. next \in later /\ \A v \in later : next <= v
    BY <1>2, <1>4, <1>6
  <2>2. next \in times /\ u < next /\ next \in 0..now
    BY <1>1, <1>3, <2>1
  <2>3. \A v \in times : v <= u \/ next <= v
    <3> TAKE v \in times
    <3>1. v > u => v \in later
      BY <1>3
    <3>2. v > u => next <= v
      BY <2>1, <3>1
    <3> QED
      BY <1>1, <3>2
  <2> QED
    BY <1>1, <2>2, <2>3
<1> QED
  BY <1>5, <1>6

LEMMA ClampIs ==
    ASSUME NEW from \in Int, NEW to \in Int, NEW lo \in Int, NEW hi \in Int, NEW g
    PROVE  g \in clampInterval(from, to, lo, hi) <=>
              \E s \in Int, e \in Int :
                 /\ g = [from |-> s, to |-> e] /\ s < e
                 /\ s = (IF from < lo THEN lo ELSE from) /\ e = (IF to > hi THEN hi ELSE to)
<1> DEFINE s == IF from < lo THEN lo ELSE from
           e == IF to > hi THEN hi ELSE to
<1>1. s \in Int /\ e \in Int
  OBVIOUS
<1>2. clampInterval(from, to, lo, hi) = IF e <= s THEN {} ELSE {[from |-> s, to |-> e]}
  BY Zenon DEF clampInterval
<1> HIDE DEF s, e
<1>3. g \in clampInterval(from, to, lo, hi) <=> (s < e /\ g = [from |-> s, to |-> e])
  BY <1>1, <1>2
<1> QED
  BY <1>1, <1>3 DEF s, e

\* The windows of the loop: each begins when a time has been silent for the
\* threshold, at the earliest with the window, and ends with the next one.
LEMMA GapIs ==
    ASSUME now \in Nat, NEW times, times \subseteq 0..now, NEW g
    PROVE  g \in offlineGaps(times) <=>
              \E u \in times :
                 LET next  == nextTime(times, u)
                     begin == IF u + Threshold < startAt THEN startAt ELSE u + Threshold
                 IN  /\ next - u > Threshold /\ begin < next
                     /\ g = [from |-> begin, to |-> next]
<1> DEFINE gap(u) == IF nextTime(times, u) - u > Threshold
                     THEN clampInterval(u + Threshold, nextTime(times, u), startAt, now) ELSE {}
<1>1. offlineGaps(times) = UNION {gap(u) : u \in times}
  BY Zenon DEF offlineGaps, nextTime
<1>2. ASSUME NEW u \in times
      PROVE  g \in gap(u) <=>
                LET next  == nextTime(times, u)
                    begin == IF u + Threshold < startAt THEN startAt ELSE u + Threshold
                IN  /\ next - u > Threshold /\ begin < next
                    /\ g = [from |-> begin, to |-> next]
  <2> DEFINE next == nextTime(times, u)
             begin == IF u + Threshold < startAt THEN startAt ELSE u + Threshold
  <2>1. /\ next \in 0..now /\ u \in 0..now
        /\ startAt \in Int /\ Threshold \in Int
    <3>1. next \in 0..now
      BY NextTime
    <3> HIDE DEF next
    <3> QED
      BY <3>1, HistoryAssumption DEF startAt
  <2>2. g \in gap(u) <=> (next - u > Threshold
                          /\ g \in clampInterval(u + Threshold, next, startAt, now))
    OBVIOUS
  <2> HIDE DEF next
  <2>3. g \in clampInterval(u + Threshold, next, startAt, now)
            <=> (begin < next /\ g = [from |-> begin, to |-> next])
    BY <2>1, ClampIs
  <2> HIDE DEF begin, gap
  <2> QED
    BY <2>2, <2>3 DEF begin, next
<1> HIDE DEF gap
<1>3. g \in offlineGaps(times) <=> \E u \in times : g \in gap(u)
  BY <1>1
<1> QED
  BY <1>2, <1>3, Zenon

\* They cover the instants of silence.
LEMMA GapsAreSilence ==
    ASSUME now \in Nat, NEW times, times \subseteq 0..now, NEW t \in startAt..(now - 1)
    PROVE  covers(offlineGaps(times), t) <=> silentAfter(times, t)
<1>1. /\ startAt \in Int /\ Threshold \in Nat /\ t \in Int /\ startAt <= t /\ t < now
      /\ \A v \in times : v \in 0..now
  BY HistoryAssumption DEF startAt
<1>2. ASSUME covers(offlineGaps(times), t)
      PROVE  silentAfter(times, t)
  <2>1. PICK g \in offlineGaps(times) : g.from <= t /\ t < g.to
    BY <1>2 DEF covers
  <2>2. PICK u \in times :
           LET next  == nextTime(times, u)
               begin == IF u + Threshold < startAt THEN startAt ELSE u + Threshold
           IN  /\ next - u > Threshold /\ begin < next
               /\ g = [from |-> begin, to |-> next]
    BY <2>1, GapIs
  <2> DEFINE next == nextTime(times, u)
             begin == IF u + Threshold < startAt THEN startAt ELSE u + Threshold
  <2>3. begin <= t /\ t < next
    BY <2>1, <2>2
  <2>4. next \in 0..now /\ \A v \in times : v <= u \/ next <= v
    BY NextTime
  <2> HIDE DEF next
  <2>5. u + Threshold <= t
    BY <1>1, <2>3
  <2>6. \A v \in times : v <= t => v <= u
    BY <1>1, <2>3, <2>4
  <2> QED
    BY <2>5, <2>6 DEF silentAfter
<1>3. ASSUME silentAfter(times, t)
      PROVE  covers(offlineGaps(times), t)
  <2>1. PICK u \in times : u + Threshold <= t /\ \A v \in times : v <= t => v <= u
    BY <1>3 DEF silentAfter
  <2> DEFINE next == nextTime(times, u)
             begin == IF u + Threshold < startAt THEN startAt ELSE u + Threshold
             g == [from |-> begin, to |-> next]
  <2>2. /\ next \in 0..now
        /\ next = now \/ (next \in times /\ u < next)
    BY NextTime
  <2>3. t < next
    <3> HIDE DEF next
    <3> QED
      BY <1>1, <2>1, <2>2
  <2>4. next - u > Threshold /\ begin <= t
    <3> HIDE DEF next
    <3> QED
      BY <1>1, <2>1, <2>2, <2>3
  <2>5. begin < next
    <3> HIDE DEF next
    <3> QED
      BY <1>1, <2>2, <2>3, <2>4
  <2>6. g \in offlineGaps(times)
    <3> HIDE DEF g
    <3> QED
      BY <2>4, <2>5, GapIs DEF g
  <2>7. g.from <= t /\ t < g.to
    BY <2>3, <2>4
  <2> HIDE DEF g
  <2> QED
    BY <2>6, <2>7 DEF covers
<1> QED
  BY <1>2, <1>3

\* What connectivity says of the current state.
LEMMA ConnectivityIs ==
    ASSUME NEW times, NEW counted, times # {},
           NEW ended, ended = {g.to : g \in {h \in offlineGaps(times) : h.to \in counted}},
           NEW c, c = connectivity(times, counted)
    PROVE  /\ c.offline = offlineGaps(times)
           /\ c.isOnline \in BOOLEAN
           /\ c.isOnline <=> now - MaxOf(times) <= Threshold
           /\ now - MaxOf(times) > Threshold => c.stateSince = MaxOf(times) + Threshold
           /\ ~ (now - MaxOf(times) > Threshold) /\ ended # {} => c.stateSince = MaxOf(ended)
<1>1. c.offline = offlineGaps(times)
  BY DEF connectivity
<1>2. c.isOnline = (now - MaxOf(times) <= Threshold)
  BY DEF connectivity
<1>3. /\ now - MaxOf(times) > Threshold => c.stateSince = MaxOf(times) + Threshold
      /\ ~ (now - MaxOf(times) > Threshold) /\ ended # {} => c.stateSince = MaxOf(ended)
  BY DEF connectivity
<1>4. c.isOnline \in BOOLEAN
  BY <1>2
<1>5. c.isOnline <=> now - MaxOf(times) <= Threshold
  BY <1>2
<1> QED
  BY <1>1, <1>3, <1>4, <1>5

LEMMA NoTimes ==
    ASSUME NEW counted, NEW c, c = connectivity({}, counted)
    PROVE  c.offline = {} /\ c.stateSince = -1
BY DEF connectivity

\* The windows are those of silence, and the state has lasted since stateSince,
\* if what is counted are the times within the window.
LEMMA ConnectivityShows ==
    ASSUME now \in Nat, NEW times, times \subseteq 0..now, NEW counted,
           \A v \in times : v > startAt => v \in counted,
           NEW t \in startAt..(now - 1),
           NEW c, c = connectivity(times, counted)
    PROVE  /\ covers(c.offline, t) <=> silentAfter(times, t)
           /\ t >= c.stateSince /\ c.stateSince >= 0 => c.isOnline = ~ silentAfter(times, t)
<1>1. /\ startAt \in Int /\ Threshold \in Nat /\ t \in Int /\ startAt <= t /\ t < now
      /\ \A v \in times : v \in 0..now
  BY HistoryAssumption DEF startAt
<1>2. CASE times = {}
  <2>1. c.offline = {} /\ c.stateSince = -1
    BY <1>2, NoTimes
  <2>2. ~ silentAfter(times, t) /\ ~ covers({}, t)
    BY <1>2 DEF silentAfter, covers
  <2> QED
    BY <2>1, <2>2
<1>3. ASSUME times # {}
      PROVE  /\ covers(c.offline, t) <=> silentAfter(times, t)
             /\ t >= c.stateSince /\ c.stateSince >= 0 => c.isOnline = ~ silentAfter(times, t)
  <2> DEFINE last == MaxOf(times)
             ended == {g.to : g \in {h \in offlineGaps(times) : h.to \in counted}}
  <2>1. last \in times /\ \A v \in times : v <= last
    BY <1>3, MaxOfSpec
  <2>2. /\ c.offline = offlineGaps(times)
        /\ c.isOnline \in BOOLEAN
        /\ c.isOnline <=> now - last <= Threshold
        /\ now - last > Threshold => c.stateSince = last + Threshold
        /\ ~ (now - last > Threshold) /\ ended # {} => c.stateSince = MaxOf(ended)
    BY <1>3, ConnectivityIs
  <2>3. covers(c.offline, t) <=> silentAfter(times, t)
    BY <2>2, GapsAreSilence
  <2>4. ended \subseteq 0..now
    <3> SUFFICES ASSUME NEW g \in offlineGaps(times)
                 PROVE  g.to \in 0..now
      OBVIOUS
    <3>1. PICK u \in times :
             LET next  == nextTime(times, u)
                 begin == IF u + Threshold < startAt THEN startAt ELSE u + Threshold
             IN  /\ next - u > Threshold /\ begin < next
                 /\ g = [from |-> begin, to |-> next]
      BY GapIs
    <3> QED
      BY <3>1, NextTime
  <2>5. ASSUME silentAfter(times, t), now - last <= Threshold
        PROVE  \E x \in ended : x > t
    <3>1. PICK g \in offlineGaps(times) : g.from <= t /\ t < g.to
      BY <2>2, <2>3, <2>5 DEF covers
    <3>2. PICK u \in times :
             LET next  == nextTime(times, u)
                 begin == IF u + Threshold < startAt THEN startAt ELSE u + Threshold
             IN  /\ next - u > Threshold /\ begin < next
                 /\ g = [from |-> begin, to |-> next]
      BY GapIs
    <3>3. g.to = nextTime(times, u) /\ g.to - u > Threshold
      BY <3>2
    <3>4. g.to \in 0..now /\ (g.to = now \/ g.to \in times) /\ \A v \in times : v <= u \/ g.to <= v
      BY <3>3, NextTime
    <3>5. g.to \in times
      <4> SUFFICES ASSUME g.to = now PROVE now \in times
        BY <3>4
      <4>1. last <= u \/ now <= last
        BY <2>1, <3>4
      <4>2. last \in 0..now /\ u \in 0..now
        BY <1>1, <2>1
      <4> HIDE DEF last
      <4>3. now <= last
        BY <1>1, <2>5, <3>3, <4>1, <4>2
      <4> QED
        BY <2>1, <4>2, <4>3
    <3>6. g.to \in counted
      BY <1>1, <3>1, <3>4, <3>5
    <3> QED
      BY <3>1, <3>6
  <2> HIDE DEF ended, last
  <2>6. CASE now - last > Threshold
    <3>1. last \in 0..now
      BY <1>1, <2>1
    <3>2. t >= c.stateSince => silentAfter(times, t)
      BY <1>1, <2>1, <2>2, <2>6, <3>1 DEF silentAfter
    <3>3. ~ (now - last <= Threshold)
      BY <1>1, <2>6, <3>1
    <3>4. c.isOnline = FALSE
      BY <2>2, <3>3
    <3> QED
      BY <2>3, <3>2, <3>4
  <2>7. CASE ~ (now - last > Threshold)
    <3>1. now - last <= Threshold
      BY <1>1, <2>1, <2>7
    <3>2. c.isOnline = TRUE
      BY <2>2, <3>1
    <3>3. ASSUME silentAfter(times, t) PROVE ~ (t >= c.stateSince)
      <4>1. PICK x \in ended : x > t
        BY <2>5, <3>1, <3>3
      <4>2. c.stateSince = MaxOf(ended)
        BY <2>2, <2>7, <4>1
      <4>3. x <= MaxOf(ended) /\ MaxOf(ended) \in ended
        BY <2>4, <4>1, MaxOfSpec
      <4>4. \A y \in ended : y \in Int
        BY <2>4
      <4> HIDE DEF ended
      <4> QED
        BY <1>1, <4>1, <4>2, <4>3, <4>4
    <3> QED
      BY <2>3, <3>2, <3>3
  <2> QED
    BY <2>6, <2>7
<1> QED
  BY <1>2, <1>3

\* The times of the rows.
LEMMA ReportTimes ==
    ASSUME HistoryInv, NEW inverter, NEW from, NEW to, NEW v
    PROVE  /\ v \in reportTimes(inverter, 0, now) => v \in 0..now
           /\ v \in reportTimes(inverter, from, to) <=>
                 v \in reportTimes(inverter, 0, now) /\ from <= v /\ v <= to
<1>1. \A i \in DOMAIN rows : rows[i].at \in 0..now
  BY HistoryAssumption DEF HistoryInv, TopicRows
<1> QED
  BY <1>1 DEF reportTimes, listTelemetryWindow

LEMMA SilenceIsOffline ==
    ASSUME HistoryInv
    PROVE  OfflineIsSilence
<1>1. now \in Nat /\ startAt \in Int /\ startAt <= now
  BY HistoryAssumption DEF HistoryInv, startAt
<1>2. ASSUME NEW t \in startAt..(now - 1), NEW c, c = getPlatformConnectivity
      PROVE  /\ covers(c.offline, t) <=> silentAfter(reportTimes(FALSE, 0, now), t)
             /\ t >= c.stateSince /\ c.stateSince >= 0
                  => c.isOnline = ~ silentAfter(reportTimes(FALSE, 0, now), t)
  <2> DEFINE every == reportTimes(FALSE, 0, now)
             counted == reportTimes(FALSE, startAt, now)
             earlier == reportTimes(FALSE, 0, startAt)
             times == counted \cup getLatestAnyBefore(FALSE, startAt)
  <2>1. /\ every \subseteq 0..now
        /\ \A v : v \in counted <=> v \in every /\ startAt <= v /\ v <= now
        /\ \A v : v \in earlier <=> v \in every /\ 0 <= v /\ v <= startAt
    <3>1. \A v : v \in every => v \in 0..now
      BY ReportTimes, Zenon
    <3>2. \A v : v \in counted <=> v \in every /\ startAt <= v /\ v <= now
      BY ReportTimes, Zenon
    <3>3. \A v : v \in earlier <=> v \in every /\ 0 <= v /\ v <= startAt
      BY ReportTimes, Zenon
    <3> HIDE DEF every, counted, earlier
    <3> QED
      BY <3>1, <3>2, <3>3
  <2>2. c = connectivity(times, counted)
    BY <1>2 DEF getPlatformConnectivity
  <2>3. times = counted \cup (IF earlier = {} THEN {} ELSE {MaxOf(earlier)})
    BY DEF getLatestAnyBefore
  <2> HIDE DEF every, counted, earlier, times
  <2> DEFINE m == MaxOf(earlier)
  <2>4. earlier # {} => m \in earlier /\ \A v \in earlier : v <= m
    <3>1. \A v \in earlier : v \in 0..now
      BY <2>1
    <3> QED
      BY <1>1, <3>1, MaxOfSpec
  <2> HIDE DEF m
  <2>0. \A v \in every : v \in Int /\ 0 <= v /\ v <= now
    BY <1>1, <2>1
  <2>5. /\ \A v \in times : v \in every
        /\ \A v \in every : v >= startAt => v \in times
        /\ \A v \in times : v > startAt => v \in counted
    <3>1. \A v \in times : v \in counted \/ (earlier # {} /\ v = m)
      BY <2>3 DEF m
    <3>2. earlier # {} => m \in every /\ m <= startAt
      BY <2>1, <2>4
    <3>3. \A v \in counted : v \in times
      BY <2>3
    <3>4. \A v \in every : v >= startAt => v \in counted
      BY <1>1, <2>0, <2>1
    <3>5. \A v \in counted : v \in every
      BY <2>1
    <3>6. \A v \in times : v > startAt => v \in counted
      BY <1>1, <2>0, <3>1, <3>2
    <3> QED
      BY <3>1, <3>2, <3>3, <3>4, <3>5, <3>6
  <2>6. \A v \in every : v <= startAt =>
           m \in times /\ v <= m /\ m <= startAt /\ m \in every
    <3> SUFFICES ASSUME NEW v \in every, v <= startAt
                 PROVE  m \in times /\ v <= m /\ m <= startAt /\ m \in every
      OBVIOUS
    <3>1. v \in earlier
      BY <2>0, <2>1
    <3>2. m \in earlier /\ v <= m
      BY <2>4, <3>1
    <3>3. m \in times
      BY <2>3, <3>1 DEF m
    <3> QED
      BY <2>1, <3>2, <3>3
  <2>7. silentAfter(times, t) <=> silentAfter(every, t)
    <3>1. ASSUME silentAfter(times, t) PROVE silentAfter(every, t)
      <4>1. PICK u \in times : u + Threshold <= t /\ \A v \in times : v <= t => v <= u
        BY <3>1 DEF silentAfter
      <4>2. ASSUME NEW v \in every, v <= t PROVE v <= u
        <5>1. CASE v \in times
          BY <4>1, <4>2, <5>1
        <5>2. CASE v <= startAt
          <6>1. m \in times /\ v <= m /\ m <= startAt /\ m \in every
            BY <2>6, <5>2
          <6>2. v \in Int /\ u \in Int /\ m \in Int
            BY <2>0, <2>5, <6>1
          <6>3. m <= u
            BY <1>1, <4>1, <6>1, <6>2
          <6> QED
            BY <6>1, <6>2, <6>3
        <5> QED
          BY <1>1, <2>1, <2>5, <5>1, <5>2
      <4> QED
        BY <2>5, <4>1, <4>2 DEF silentAfter
    <3>2. ASSUME silentAfter(every, t) PROVE silentAfter(times, t)
      <4>1. PICK u \in every : u + Threshold <= t /\ \A v \in every : v <= t => v <= u
        BY <3>2 DEF silentAfter
      <4>2. u \in times
        <5>1. CASE u >= startAt
          BY <2>5, <5>1
        <5>2. CASE u <= startAt
          <6>1. m \in times /\ u <= m /\ m <= startAt /\ m \in every
            BY <2>6, <5>2
          <6>2. u \in Int /\ m \in Int
            BY <2>0, <6>1
          <6>3. m <= u
            BY <1>1, <4>1, <6>1, <6>2
          <6>4. u = m
            BY <6>1, <6>2, <6>3
          <6> QED
            BY <6>1, <6>4
        <5> QED
          BY <1>1, <2>1, <5>1, <5>2
      <4> QED
        BY <2>5, <4>1, <4>2 DEF silentAfter
    <3> QED
      BY <3>1, <3>2
  <2>8. times \subseteq 0..now
    BY <2>1, <2>5
  <2>9. /\ covers(c.offline, t) <=> silentAfter(times, t)
        /\ t >= c.stateSince /\ c.stateSince >= 0 => c.isOnline = ~ silentAfter(times, t)
    BY <1>1, <2>2, <2>5, <2>8, ConnectivityShows
  <2> QED
    BY <2>7, <2>9 DEF every
<1>3. ASSUME NEW t \in startAt..(now - 1), NEW c, c = getInverterHeartbeatConnectivity
      PROVE  /\ covers(c.offline, t) <=> silentAfter(reportTimes(TRUE, startAt, now), t)
             /\ t >= c.stateSince /\ c.stateSince >= 0
                  => c.isOnline = ~ silentAfter(reportTimes(TRUE, startAt, now), t)
  <2> DEFINE counted == reportTimes(TRUE, startAt, now)
  <2>1. counted \subseteq 0..now
    <3>1. \A v : v \in counted => v \in reportTimes(TRUE, 0, now)
      BY ReportTimes, Zenon
    <3>2. \A v : v \in reportTimes(TRUE, 0, now) => v \in 0..now
      BY ReportTimes, Zenon
    <3> HIDE DEF counted
    <3> QED
      BY <3>1, <3>2
  <2>2. c = connectivity(counted, counted)
    BY <1>3 DEF getInverterHeartbeatConnectivity
  <2> HIDE DEF counted
  <2>3. /\ covers(c.offline, t) <=> silentAfter(counted, t)
        /\ t >= c.stateSince /\ c.stateSince >= 0 => c.isOnline = ~ silentAfter(counted, t)
    BY <1>1, <2>1, <2>2, ConnectivityShows
  <2> QED
    BY <2>3 DEF counted
<1>4. instants([startAt |-> startAt, endAt |-> now]) = startAt..(now - 1)
  BY DEF instants
<1> QED
  BY <1>2, <1>3, <1>4 DEF OfflineIsSilence, showsOffline

\* A device and an inverter without online_state are shown as offline exactly
\* while they are silent for longer than the threshold.
THEOREM SilenceIsShown == HistorySpec => []OfflineIsSilence
BY HistoryCorrect, SilenceIsOffline, PTL

-----------------------------------------------------------------------------
(* The loops of a device's views.                                            *)

\* What each of the three loops knows after a place.
LEMMA FlowPass ==
    ASSUME Len(rows) \in Nat, NEW points, NEW phase, NEW f, f = flowStates(points, phase)
    PROVE  /\ f[0] = [active |-> -1, over |-> {}]
           /\ \A n \in 1..Len(rows) :
                 f[n] = IF n \in points THEN visitSample(phase, f[n - 1], n) ELSE f[n - 1]
<1> DEFINE N == Len(rows)
           first == [active |-> -1, over |-> {}]
           visit(s, n) == IF n \in points THEN visitSample(phase, s, n) ELSE s
           Unfolds(g, m) == g = [n \in 0..m |-> IF n = 0 THEN first ELSE visit(g[n - 1], n)]
           Bad == {m \in Nat : ~ \E g : Unfolds(g, m)}
<1>1. f = CHOOSE g : Unfolds(g, N)
  BY DEF flowStates, pass
<1> HIDE DEF first, visit
<1>2. Bad = {}
  <2> SUFFICES ASSUME Bad # {} PROVE FALSE
    OBVIOUS
  <2>1. PICK m \in Bad : \A y \in Bad : m <= y
    BY LeastOfNaturals
  <2>2. m # 0
    <3>1. Unfolds([n \in 0..0 |-> first], 0)
      OBVIOUS
    <3> QED
      BY <3>1
  <2>3. m - 1 \in Nat /\ m - 1 \notin Bad
    <3>1. m \in Nat /\ \A y \in Bad : m <= y
      BY <2>1
    <3> HIDE DEF Bad
    <3> QED
      BY <2>2, <3>1
  <2>4. PICK g : Unfolds(g, m - 1)
    BY <2>3
  <2> DEFINE h == [n \in 0..m |-> IF n = m THEN visit(g[m - 1], m) ELSE g[n]]
  <2>5. Unfolds(h, m)
    <3> SUFFICES ASSUME NEW n \in 0..m
                 PROVE  h[n] = IF n = 0 THEN first ELSE visit(h[n - 1], n)
      OBVIOUS
    <3>1. CASE n = 0
      <4>1. h[n] = g[n] /\ 0 \in 0..(m - 1)
        BY <2>2, <2>3, <3>1
      <4> QED
        BY <2>4, <3>1, <4>1
    <3>2. CASE n = m
      <4>1. h[n] = visit(g[m - 1], m) /\ h[n - 1] = g[m - 1]
        BY <2>2, <3>2
      <4> QED
        BY <2>2, <3>2, <4>1
    <3>3. CASE n # 0 /\ n # m
      <4>1. h[n] = g[n] /\ h[n - 1] = g[n - 1] /\ n \in 0..(m - 1)
        BY <3>3
      <4> QED
        BY <2>4, <3>3, <4>1
    <3> QED
      BY <3>1, <3>2, <3>3
  <2> QED
    BY <2>1, <2>5
<1>3. Unfolds(f, N)
  <2>1. \E g : Unfolds(g, N)
    BY <1>2
  <2> HIDE DEF Unfolds
  <2> QED
    BY <1>1, <2>1
<1>4. f[0] = first /\ \A n \in 1..N : f[n] = visit(f[n - 1], n)
  BY <1>3
<1> QED
  BY <1>4 DEF first, visit

LEMMA FaultPass ==
    ASSUME Len(rows) \in Nat, NEW changes, NEW f, f = faultStates(changes)
    PROVE  /\ f[0] = [active |-> [b \in {} |-> 0], over |-> {}]
           /\ \A n \in 1..Len(rows) :
                 f[n] = IF n \in DOMAIN changes THEN visitChange(changes[n], f[n - 1]) ELSE f[n - 1]
<1> DEFINE N == Len(rows)
           first == [active |-> [b \in {} |-> 0], over |-> {}]
           visit(s, n) == IF n \in DOMAIN changes THEN visitChange(changes[n], s) ELSE s
           Unfolds(g, m) == g = [n \in 0..m |-> IF n = 0 THEN first ELSE visit(g[n - 1], n)]
           Bad == {m \in Nat : ~ \E g : Unfolds(g, m)}
<1>1. f = CHOOSE g : Unfolds(g, N)
  BY DEF faultStates, pass
<1> HIDE DEF first, visit
<1>2. Bad = {}
  <2> SUFFICES ASSUME Bad # {} PROVE FALSE
    OBVIOUS
  <2>1. PICK m \in Bad : \A y \in Bad : m <= y
    BY LeastOfNaturals
  <2>2. m # 0
    <3>1. Unfolds([n \in 0..0 |-> first], 0)
      OBVIOUS
    <3> QED
      BY <3>1
  <2>3. m - 1 \in Nat /\ m - 1 \notin Bad
    <3>1. m \in Nat /\ \A y \in Bad : m <= y
      BY <2>1
    <3> HIDE DEF Bad
    <3> QED
      BY <2>2, <3>1
  <2>4. PICK g : Unfolds(g, m - 1)
    BY <2>3
  <2> DEFINE h == [n \in 0..m |-> IF n = m THEN visit(g[m - 1], m) ELSE g[n]]
  <2>5. Unfolds(h, m)
    <3> SUFFICES ASSUME NEW n \in 0..m
                 PROVE  h[n] = IF n = 0 THEN first ELSE visit(h[n - 1], n)
      OBVIOUS
    <3>1. CASE n = 0
      <4>1. h[n] = g[n] /\ 0 \in 0..(m - 1)
        BY <2>2, <2>3, <3>1
      <4> QED
        BY <2>4, <3>1, <4>1
    <3>2. CASE n = m
      <4>1. h[n] = visit(g[m - 1], m) /\ h[n - 1] = g[m - 1]
        BY <2>2, <3>2
      <4> QED
        BY <2>2, <3>2, <4>1
    <3>3. CASE n # 0 /\ n # m
      <4>1. h[n] = g[n] /\ h[n - 1] = g[n - 1] /\ n \in 0..(m - 1)
        BY <3>3
      <4> QED
        BY <2>4, <3>3, <4>1
    <3> QED
      BY <3>1, <3>2, <3>3
  <2> QED
    BY <2>1, <2>5
<1>3. Unfolds(f, N)
  <2>1. \E g : Unfolds(g, N)
    BY <1>2
  <2> HIDE DEF Unfolds
  <2> QED
    BY <1>1, <2>1
<1>4. f[0] = first /\ \A n \in 1..N : f[n] = visit(f[n - 1], n)
  BY <1>3
<1> QED
  BY <1>4 DEF first, visit

LEMMA OnlinePass ==
    ASSUME Len(rows) \in Nat, NEW points, NEW baseline, NEW f, f = onlineStates(points, baseline)
    PROVE  /\ f[0] = initialState(points, baseline)
           /\ \A n \in 1..Len(rows) :
                 f[n] = IF n \in latestPerInstant(points) THEN visitPoint(f[n - 1], n) ELSE f[n - 1]
<1> DEFINE N == Len(rows)
           first == initialState(points, baseline)
           visit(s, n) == IF n \in latestPerInstant(points) THEN visitPoint(s, n) ELSE s
           Unfolds(g, m) == g = [n \in 0..m |-> IF n = 0 THEN first ELSE visit(g[n - 1], n)]
           Bad == {m \in Nat : ~ \E g : Unfolds(g, m)}
<1>1. f = CHOOSE g : Unfolds(g, N)
  BY DEF onlineStates, pass
<1> HIDE DEF first, visit
<1>2. Bad = {}
  <2> SUFFICES ASSUME Bad # {} PROVE FALSE
    OBVIOUS
  <2>1. PICK m \in Bad : \A y \in Bad : m <= y
    BY LeastOfNaturals
  <2>2. m # 0
    <3>1. Unfolds([n \in 0..0 |-> first], 0)
      OBVIOUS
    <3> QED
      BY <3>1
  <2>3. m - 1 \in Nat /\ m - 1 \notin Bad
    <3>1. m \in Nat /\ \A y \in Bad : m <= y
      BY <2>1
    <3> HIDE DEF Bad
    <3> QED
      BY <2>2, <3>1
  <2>4. PICK g : Unfolds(g, m - 1)
    BY <2>3
  <2> DEFINE h == [n \in 0..m |-> IF n = m THEN visit(g[m - 1], m) ELSE g[n]]
  <2>5. Unfolds(h, m)
    <3> SUFFICES ASSUME NEW n \in 0..m
                 PROVE  h[n] = IF n = 0 THEN first ELSE visit(h[n - 1], n)
      OBVIOUS
    <3>1. CASE n = 0
      <4>1. h[n] = g[n] /\ 0 \in 0..(m - 1)
        BY <2>2, <2>3, <3>1
      <4> QED
        BY <2>4, <3>1, <4>1
    <3>2. CASE n = m
      <4>1. h[n] = visit(g[m - 1], m) /\ h[n - 1] = g[m - 1]
        BY <2>2, <3>2
      <4> QED
        BY <2>2, <3>2, <4>1
    <3>3. CASE n # 0 /\ n # m
      <4>1. h[n] = g[n] /\ h[n - 1] = g[n - 1] /\ n \in 0..(m - 1)
        BY <3>3
      <4> QED
        BY <2>4, <3>3, <4>1
    <3> QED
      BY <3>1, <3>2, <3>3
  <2> QED
    BY <2>1, <2>5
<1>3. Unfolds(f, N)
  <2>1. \E g : Unfolds(g, N)
    BY <1>2
  <2> HIDE DEF Unfolds
  <2> QED
    BY <1>1, <2>1
<1>4. f[0] = first /\ \A n \in 1..N : f[n] = visit(f[n - 1], n)
  BY <1>3
<1> QED
  BY <1>4 DEF first, visit

\* What holds at first and is kept by each place holds after the last.
LEMMA Along ==
    ASSUME NEW N \in Nat, NEW G, 0 \in G, \A n \in 1..N : n - 1 \in G => n \in G
    PROVE  \A n \in 0..N : n \in G
<1> DEFINE Bad == {m \in 0..N : m \notin G}
<1> SUFFICES ASSUME Bad # {} PROVE FALSE
  OBVIOUS
<1>1. Bad \subseteq Nat
  OBVIOUS
<1>2. PICK m \in Bad : \A y \in Bad : m <= y
  BY <1>1, LeastOfNaturals
<1>3. m \in 1..N /\ m \notin G
  BY <1>2
<1>4. m - 1 \notin Bad
  <2> HIDE DEF Bad
  <2> QED
    BY <1>2, <1>3
<1> QED
  BY <1>3, <1>4

\* The last of some places up to an instant.
isLast(P, t, i) ==
    /\ i \in P /\ rows[i].at <= t
    /\ \A j \in P : rows[j].at <= t => j <= i

LEMMA RowsInOrder ==
    ASSUME HistoryInv
    PROVE  /\ Len(rows) \in Nat /\ DOMAIN rows = 1..Len(rows)
           /\ \A i \in DOMAIN rows : rows[i].at \in Int /\ 0 <= rows[i].at /\ rows[i].at <= now
           /\ \A i, j \in DOMAIN rows : i <= j => rows[i].at <= rows[j].at
           /\ now \in Nat /\ startAt \in Int /\ startAt <= now
           /\ DOMAIN rows \subseteq Nat
<1>1. \A i \in DOMAIN rows : rows[i].at \in 0..MaxNow
  BY DEF HistoryInv, TopicRows
<1>2. now \in Nat /\ startAt \in Int /\ startAt <= now
  BY HistoryAssumption DEF HistoryInv, startAt
<1> QED
  BY <1>1, <1>2, HistoryAssumption DEF HistoryInv

LEMMA LastIs ==
    ASSUME HistoryInv, NEW P, P \subseteq DOMAIN rows, NEW t, NEW i
    PROVE  i \in lastUpTo(P, t) <=> isLast(P, t, i)
<1> DEFINE upTo == {j \in P : rows[j].at <= t}
<1>1. upTo \subseteq 0..Len(rows) /\ Len(rows) \in Nat
  BY RowsInOrder
<1>2. CASE upTo = {}
  BY <1>2 DEF lastUpTo, isLast
<1>3. CASE upTo # {}
  <2>1. MaxOf(upTo) \in upTo /\ \A y \in upTo : y <= MaxOf(upTo)
    BY <1>1, <1>3, MaxOfSpec
  <2>2. lastUpTo(P, t) = {MaxOf(upTo)}
    BY <1>3 DEF lastUpTo
  <2>3. isLast(P, t, i) <=> i \in upTo /\ \A y \in upTo : y <= i
    BY DEF isLast
  <2>4. \A y \in upTo : y \in Int
    BY <1>1
  <2> HIDE DEF upTo
  <2>5. i \in upTo /\ (\A y \in upTo : y <= i) <=> i = MaxOf(upTo)
    <3>1. ASSUME i \in upTo, \A y \in upTo : y <= i PROVE i = MaxOf(upTo)
      <4>1. i <= MaxOf(upTo) /\ MaxOf(upTo) <= i /\ MaxOf(upTo) \in Int /\ i \in Int
        BY <2>1, <2>4, <3>1
      <4> QED
        BY <4>1
    <3> QED
      BY <2>1, <3>1
  <2> QED
    BY <2>2, <2>3, <2>5
<1> QED
  BY <1>2, <1>3

\* Once a loop has reached the places up to t, the last of them is known.
LEMMA LastReached ==
    ASSUME HistoryInv, NEW P, P \subseteq DOMAIN rows, NEW n \in P, NEW t \in Int,
           rows[n].at <= t, \A j \in P : rows[j].at <= t => j <= n, NEW i
    PROVE  isLast(P, t, i) <=> i = n
<1>1. \A j \in P : j \in Int
  BY RowsInOrder
<1>2. isLast(P, t, n)
  BY DEF isLast
<1>3. ASSUME isLast(P, t, i) PROVE i = n
  <2>1. i \in P /\ n <= i /\ i <= n
    BY <1>3 DEF isLast
  <2> QED
    BY <1>1, <2>1
<1> QED
  BY <1>2, <1>3

\* A place that lies after t is not among them.
LEMMA ReachedBefore ==
    ASSUME HistoryInv, NEW P, P \subseteq DOMAIN rows, NEW n \in 1..Len(rows), NEW t \in Int,
           n \notin P \/ t < rows[n].at, \A j \in P : rows[j].at <= t => j <= n
    PROVE  \A j \in P : rows[j].at <= t => j <= n - 1
<1> TAKE j \in P
<1> HAVE rows[j].at <= t
<1>1. j \in Int /\ j <= n /\ n \in Int /\ rows[j].at \in Int
  BY RowsInOrder
<1>2. j # n
  BY <1>1
<1> QED
  BY <1>1, <1>2

-----------------------------------------------------------------------------
(* Reverse flow.                                                             *)

NumberedSamples(P) ==
    /\ P \subseteq DOMAIN rows
    /\ \A i \in P : rows[i].value \in Int

FlowRecords(phase) == [phase : {phase}, from : Int, to : Int, open : {FALSE}]

\* The flow is reversed at t.
reversedAt(P, t) == \E i \in P : isLast(P, t, i) /\ rows[i].value < 0

\* After place n the runs that are over and the one that is not say, for each
\* instant whose samples have been visited, if the flow was reversed.
FlowInv(P, phase, n, s) ==
    /\ s \in [active : Int, over : SUBSET FlowRecords(phase)]
    /\ s.active = -1 \/ 0 <= s.active
    /\ \A j \in P : j > n => s.active <= rows[j].at /\ \A g \in s.over : g.to <= rows[j].at
    /\ \A t \in Int : (\A j \in P : rows[j].at <= t => j <= n) =>
          (reversedAt(P, t) <=> covers(s.over, t) \/ (s.active # -1 /\ s.active <= t))
    /\ (\E i \in P : i <= n /\ rows[i].value < 0) <=> (s.active # -1 \/ s.over # {})

LEMMA FlowBegins ==
    ASSUME HistoryInv, NEW P, NumberedSamples(P), NEW phase
    PROVE  FlowInv(P, phase, 0, [active |-> -1, over |-> {}])
<1> DEFINE s == [active |-> -1, over |-> {}]
<1>1. s.active = -1 /\ s.over = {} /\ s \in [active : Int, over : SUBSET FlowRecords(phase)]
  OBVIOUS
<1>2. \A j \in P : j \in Int /\ j > 0 /\ rows[j].at \in Int /\ 0 <= rows[j].at
  BY RowsInOrder DEF NumberedSamples
<1>3. \A j \in P : -1 <= rows[j].at
  BY <1>2
<1>4. \A t \in Int : (\A j \in P : rows[j].at <= t => j <= 0) =>
          (~ reversedAt(P, t) /\ ~ covers({}, t))
  BY <1>2 DEF reversedAt, isLast, covers
<1> HIDE DEF s
<1> QED
  BY <1>1, <1>2, <1>3, <1>4 DEF FlowInv

\* The run that ends with place i.
runTo(phase, s, i) == [phase |-> phase, from |-> s.active, to |-> rows[i].at, open |-> FALSE]

\* What a sample does to the state of the loop.
SampleStep(phase, i, s, u) ==
    /\ u \in [active : Int, over : SUBSET FlowRecords(phase)]
    /\ \/ rows[i].value < 0 /\ s.active = -1 /\ u.active = rows[i].at /\ u.over = s.over
       \/ rows[i].value >= 0 /\ s.active # -1 /\ u.active = -1
                              /\ u.over = s.over \cup {runTo(phase, s, i)}
       \/ rows[i].value < 0 /\ s.active # -1 /\ u.active = s.active /\ u.over = s.over
       \/ rows[i].value >= 0 /\ s.active = -1 /\ u.active = s.active /\ u.over = s.over

LEMMA SampleIs ==
    ASSUME NEW phase, NEW i, rows[i].value \in Int, rows[i].at \in Int, NEW s,
           s \in [active : Int, over : SUBSET FlowRecords(phase)]
    PROVE  SampleStep(phase, i, s, visitSample(phase, s, i))
<1> DEFINE u == visitSample(phase, s, i)
           run == runTo(phase, s, i)
<1> SUFFICES SampleStep(phase, i, s, u)
  OBVIOUS
<1>0. run \in FlowRecords(phase)
  BY DEF FlowRecords, runTo
<1>1. CASE rows[i].value < 0 /\ s.active = -1
  <2>1. u = [s EXCEPT !.active = rows[i].at]
    BY <1>1 DEF visitSample, runTo
  <2>2. u = [active |-> rows[i].at, over |-> s.over]
    BY <2>1
  <2> HIDE DEF u
  <2> QED
    BY <1>1, <2>2 DEF SampleStep
<1>2. CASE rows[i].value >= 0 /\ s.active # -1
  <2>1. u = [active |-> -1, over |-> s.over \cup {run}]
    BY <1>2 DEF visitSample, runTo
  <2> HIDE DEF u, run
  <2>2. s.over \cup {run} \subseteq FlowRecords(phase)
    BY <1>0
  <2>3. u.active = -1 /\ u.over = s.over \cup {run}
    BY <2>1
  <2>4. u \in [active : Int, over : SUBSET FlowRecords(phase)]
    <3> DEFINE runs == s.over \cup {run}
    <3>1. runs \in SUBSET FlowRecords(phase) /\ u = [active |-> -1, over |-> runs]
      BY <2>1, <2>2
    <3> HIDE DEF runs
    <3> QED
      BY <3>1
  <2> QED
    BY <1>2, <2>3, <2>4 DEF SampleStep, run
<1>3. CASE rows[i].value < 0 /\ s.active # -1
  BY <1>3 DEF visitSample, SampleStep
<1>4. CASE rows[i].value >= 0 /\ s.active = -1
  BY <1>4 DEF visitSample, SampleStep
<1> QED
  BY <1>1, <1>2, <1>3, <1>4

LEMMA FlowGoesOn ==
    ASSUME HistoryInv, NEW P, NumberedSamples(P), NEW phase, NEW n \in 1..Len(rows),
           NEW s, FlowInv(P, phase, n - 1, s),
           NEW u, u = IF n \in P THEN visitSample(phase, s, n) ELSE s
    PROVE  FlowInv(P, phase, n, u)
<1>0. /\ \A j \in P : j \in Int /\ j > 0 /\ rows[j].at \in Int /\ 0 <= rows[j].at
      /\ \A i, j \in P : i <= j => rows[i].at <= rows[j].at
      /\ n \in Int
      /\ P \subseteq DOMAIN rows
  BY RowsInOrder DEF NumberedSamples
<1>1. CASE n \notin P
  <2>1. u = s /\ \A j \in P : (j > n <=> j > n - 1) /\ (j <= n <=> j <= n - 1)
    BY <1>0, <1>1
  <2> QED
    BY <2>1 DEF FlowInv
<1>2. ASSUME n \in P PROVE FlowInv(P, phase, n, u)
  <2> DEFINE at == rows[n].at
             run == runTo(phase, s, n)
  <2>1. /\ s \in [active : Int, over : SUBSET FlowRecords(phase)]
        /\ s.active = -1 \/ 0 <= s.active
        /\ s.active <= at /\ \A g \in s.over : g.to <= at
        /\ at \in Int /\ 0 <= at /\ rows[n].value \in Int
    BY <1>0, <1>2 DEF FlowInv, NumberedSamples
  <2>2. \A g \in s.over : g.from \in Int /\ g.to \in Int
    BY <2>1 DEF FlowRecords
  <2>3. /\ u \in [active : Int, over : SUBSET FlowRecords(phase)]
        /\ \/ rows[n].value < 0 /\ s.active = -1 /\ u.active = at /\ u.over = s.over
           \/ rows[n].value >= 0 /\ s.active # -1 /\ u.active = -1 /\ u.over = s.over \cup {run}
           \/ rows[n].value < 0 /\ s.active # -1 /\ u.active = s.active /\ u.over = s.over
           \/ rows[n].value >= 0 /\ s.active = -1 /\ u.active = s.active /\ u.over = s.over
    <3>1. u = visitSample(phase, s, n)
      BY <1>2
    <3>2. SampleStep(phase, n, s, u)
      BY <2>1, <3>1, SampleIs
    <3> QED
      BY <3>2 DEF SampleStep
  <2>4. run \in FlowRecords(phase) /\ run.from = s.active /\ run.to = at
    BY <2>1 DEF FlowRecords, runTo
  <2> HIDE DEF run
  <2>5. /\ u \in [active : Int, over : SUBSET FlowRecords(phase)]
        /\ u.active = -1 \/ 0 <= u.active
        /\ u.active <= at /\ \A g \in u.over : g.to <= at
        /\ u.active # -1 <=> rows[n].value < 0
        /\ u.over = s.over \/ (u.over = s.over \cup {run} /\ s.active # -1 /\ u.active = -1)
    BY <2>1, <2>3, <2>4
  <2>6. \A j \in P : j > n => u.active <= rows[j].at /\ \A g \in u.over : g.to <= rows[j].at
    <3> SUFFICES ASSUME NEW j \in P, j > n
                 PROVE  u.active <= rows[j].at /\ \A g \in u.over : g.to <= rows[j].at
      OBVIOUS
    <3>1. at <= rows[j].at /\ rows[j].at \in Int
      BY <1>0, <1>2
    <3>2. u.active \in Int /\ \A g \in u.over : g.to \in Int
      BY <2>5 DEF FlowRecords
    <3> QED
      BY <2>1, <2>5, <3>1, <3>2
  <2>7. ASSUME NEW t \in Int, \A j \in P : rows[j].at <= t => j <= n
        PROVE  reversedAt(P, t) <=> covers(u.over, t) \/ (u.active # -1 /\ u.active <= t)
    <3>1. CASE at <= t
      <4>1. \A i : isLast(P, t, i) <=> i = n
        BY <1>0, <1>2, <2>7, <3>1, LastReached
      <4>2. reversedAt(P, t) <=> rows[n].value < 0
        BY <1>2, <4>1 DEF reversedAt
      <4>3. ~ covers(u.over, t)
        <5>1. \A g \in u.over : g.to \in Int
          BY <2>5 DEF FlowRecords
        <5> QED
          BY <2>1, <2>5, <3>1, <5>1 DEF covers
      <4>4. u.active <= t
        BY <2>1, <2>5, <3>1
      <4> QED
        BY <2>5, <4>2, <4>3, <4>4
    <3>2. CASE t < at
      <4>1. reversedAt(P, t) <=> covers(s.over, t) \/ (s.active # -1 /\ s.active <= t)
        <5>1. \A j \in P : rows[j].at <= t => j <= n - 1
          BY <1>0, <2>7, <3>2, ReachedBefore
        <5> QED
          BY <5>1 DEF FlowInv
      <4>2. covers({run}, t) <=> s.active <= t
        BY <2>4, <3>2 DEF covers
      <4>3. covers(s.over \cup {run}, t) <=> covers(s.over, t) \/ covers({run}, t)
        BY DEF covers
      <4>4. ~ (at <= t)
        BY <2>1, <3>2
      <4>5. \/ s.active = -1 /\ u.active = at /\ u.over = s.over
            \/ s.active # -1 /\ u.active = -1 /\ u.over = s.over \cup {run}
            \/ u.active = s.active /\ u.over = s.over
        BY <2>3
      <4> QED
        BY <2>1, <4>1, <4>2, <4>3, <4>4, <4>5
    <3> QED
      BY <2>1, <3>1, <3>2
  <2>8. (\E i \in P : i <= n /\ rows[i].value < 0) <=> (u.active # -1 \/ u.over # {})
    <3>1. (\E i \in P : i <= n /\ rows[i].value < 0)
             <=> rows[n].value < 0 \/ \E i \in P : i <= n - 1 /\ rows[i].value < 0
      BY <1>0, <1>2
    <3>2. (\E i \in P : i <= n - 1 /\ rows[i].value < 0) <=> (s.active # -1 \/ s.over # {})
      BY DEF FlowInv
    <3> QED
      BY <2>1, <2>3, <3>1, <3>2
  <2> HIDE DEF at
  <2> QED
    BY <2>5, <2>6, <2>7, <2>8 DEF FlowInv
<1> QED
  BY <1>1, <1>2

LEMMA FlowLoop ==
    ASSUME HistoryInv, NEW P, NumberedSamples(P), NEW phase, NEW f, f = flowStates(P, phase)
    PROVE  \A n \in 0..Len(rows) : FlowInv(P, phase, n, f[n])
<1> DEFINE N == Len(rows)
           G == {n \in 0..N : FlowInv(P, phase, n, f[n])}
<1>1. /\ N \in Nat
      /\ f[0] = [active |-> -1, over |-> {}]
      /\ \A n \in 1..N : f[n] = IF n \in P THEN visitSample(phase, f[n - 1], n) ELSE f[n - 1]
  BY RowsInOrder, FlowPass
<1>2. 0 \in G
  BY <1>1, FlowBegins
<1>3. ASSUME NEW n \in 1..N, n - 1 \in G PROVE n \in G
  <2>1. FlowInv(P, phase, n - 1, f[n - 1]) /\ n \in 1..Len(rows) /\ n \in 0..N
    BY <1>3
  <2>2. f[n] = IF n \in P THEN visitSample(phase, f[n - 1], n) ELSE f[n - 1]
    BY <1>1
  <2>3. FlowInv(P, phase, n, f[n])
    BY <2>1, <2>2, FlowGoesOn
  <2> QED
    BY <2>1, <2>3
<1> HIDE DEF G, N
<1>4. \A n \in 0..N : n \in G
  BY <1>1, <1>2, <1>3, Along
<1> QED
  BY <1>4 DEF G, N

\* The intervals of a phase replay its samples, up to the end of the window.
LEMMA IntervalsReplay ==
    ASSUME HistoryInv, NEW P, NumberedSamples(P), NEW phase, NEW end,
           NEW B, B = buildReverseFlowIntervals(P, phase, end)
    PROVE  /\ \A t \in Int : t < end => (covers(B, t) <=> reversedAt(P, t))
           /\ B # {} <=> \E i \in P : rows[i].value < 0
           /\ \A i \in B : i.phase = phase
<1> DEFINE s == flowStates(P, phase)[Len(rows)]
           open == [phase |-> phase, from |-> s.active, to |-> end, open |-> TRUE]
<1>1. FlowInv(P, phase, Len(rows), s)
  <2>1. Len(rows) \in 0..Len(rows)
    BY RowsInOrder
  <2> QED
    BY <2>1, FlowLoop
<1>2. B = s.over \cup IF s.active = -1 THEN {} ELSE {open}
  BY DEF buildReverseFlowIntervals
<1>3. open.from = s.active /\ open.to = end /\ open.phase = phase
  OBVIOUS
<1>4. \A j \in P : j \in Int /\ j <= Len(rows) /\ ~ (j > Len(rows))
  BY RowsInOrder DEF NumberedSamples
<1> HIDE DEF s, open
<1>5. ASSUME NEW t \in Int, t < end
      PROVE  covers(B, t) <=> reversedAt(P, t)
  <2>1. reversedAt(P, t) <=> covers(s.over, t) \/ (s.active # -1 /\ s.active <= t)
    BY <1>1, <1>4 DEF FlowInv
  <2>2. covers(B, t) <=> covers(s.over, t) \/ (s.active # -1 /\ open.from <= t /\ t < open.to)
    BY <1>2 DEF covers
  <2> QED
    BY <1>3, <1>5, <2>1, <2>2
<1>6. B # {} <=> \E i \in P : rows[i].value < 0
  BY <1>1, <1>2, <1>4 DEF FlowInv
<1>7. \A i \in B : i.phase = phase
  BY <1>1, <1>2, <1>3 DEF FlowInv, FlowRecords
<1> QED
  BY <1>5, <1>6, <1>7

\* A loop that begins earlier has the runs of one that begins later, each
\* begun no later.
AheadInv(P, Q, n, s, u) ==
    /\ s.active # -1 => u.active # -1 /\ u.active <= s.active
    /\ \A g \in s.over : \E h \in u.over : h.from <= g.from /\ h.to = g.to
    /\ (\A j \in P : j > n) => s.active = -1

LEMMA EarlierGoesOn ==
    ASSUME HistoryInv, NEW P, NEW Q, NumberedSamples(P), NumberedSamples(Q), P \subseteq Q,
           \A i \in Q \ P : \A j \in P : i < j,
           NEW phase, NEW n \in 1..Len(rows),
           NEW s, NEW u, AheadInv(P, Q, n - 1, s, u),
           FlowInv(P, phase, n - 1, s), FlowInv(Q, phase, n - 1, u),
           NEW s1, s1 = IF n \in P THEN visitSample(phase, s, n) ELSE s,
           NEW u1, u1 = IF n \in Q THEN visitSample(phase, u, n) ELSE u
    PROVE  AheadInv(P, Q, n, s1, u1)
<1> DEFINE at == rows[n].at
           run == runTo(phase, s, n)
           run2 == runTo(phase, u, n)
<1>0. /\ \A j \in Q : j \in Int
      /\ n \in Int
  BY RowsInOrder DEF NumberedSamples
<1>9. /\ s \in [active : Int, over : SUBSET FlowRecords(phase)]
      /\ u \in [active : Int, over : SUBSET FlowRecords(phase)]
  BY DEF FlowInv
<1>1. n \in Q => at \in Int /\ rows[n].value \in Int
  BY RowsInOrder DEF NumberedSamples
<1>2. n \in P => SampleStep(phase, n, s, s1)
  BY <1>1, <1>9, SampleIs
<1>3. n \in Q => SampleStep(phase, n, u, u1)
  BY <1>1, <1>9, SampleIs
<1>4. run.from = s.active /\ run.to = at /\ run2.from = u.active /\ run2.to = at
  BY DEF runTo
<1>5. s.active \in Int /\ u.active \in Int
  BY <1>9
<1> HIDE DEF run, run2, at
<1>6. CASE n \in P
  <2>1. SampleStep(phase, n, s, s1) /\ SampleStep(phase, n, u, u1)
        /\ at \in Int /\ rows[n].value \in Int
    BY <1>1, <1>2, <1>3, <1>6
  <2>2. s1.active # -1 => u1.active # -1 /\ u1.active <= s1.active
    <3>1. at # -1
      BY <1>6, RowsInOrder DEF at, NumberedSamples
    <3>2. s.active # -1 => u.active # -1 /\ u.active <= s.active
      BY DEF AheadInv
    <3>3. u.active <= at
      BY <1>0, <1>6 DEF FlowInv, at
    <3> QED
      BY <1>5, <2>1, <3>1, <3>2, <3>3 DEF SampleStep, at
  <2>3. \A g \in s1.over : \E h \in u1.over : h.from <= g.from /\ h.to = g.to
    <3>1. \A g \in s.over : \E h \in u.over : h.from <= g.from /\ h.to = g.to
      BY DEF AheadInv
    <3>2. s.active # -1 => u.active # -1 /\ u.active <= s.active
      BY DEF AheadInv
    <3>3. s1.over = s.over \/ (s1.over = s.over \cup {run} /\ s.active # -1 /\ rows[n].value >= 0)
      BY <2>1 DEF SampleStep, run, run2
    <3>4. \A h \in u.over : h \in u1.over
      BY <2>1 DEF SampleStep, run, run2
    <3>5. rows[n].value >= 0 /\ u.active # -1 => run2 \in u1.over
      BY <2>1 DEF SampleStep, run, run2
    <3> QED
      BY <1>4, <3>1, <3>2, <3>3, <3>4, <3>5
  <2>4. ~ (\A j \in P : j > n)
    BY <1>0, <1>6
  <2> QED
    BY <2>2, <2>3, <2>4 DEF AheadInv
<1>7. CASE n \notin P
  <2>1. s1 = s
    BY <1>7
  <2>2. (\A j \in P : j > n) => s.active = -1
    <3>1. \A j \in P : j > n => j > n - 1
      BY <1>0
    <3> QED
      BY <3>1 DEF AheadInv
  <2>3. n \in Q => s.active = -1
    <3>1. n \in Q => \A j \in P : j > n
      BY <1>0, <1>7
    <3> QED
      BY <2>2, <3>1
  <2>4. \A h \in u.over : h \in u1.over
    <3>1. n \notin Q => u1 = u
      OBVIOUS
    <3> QED
      BY <1>3, <3>1 DEF SampleStep
  <2>5. n \notin Q => u1 = u
    OBVIOUS
  <2> QED
    BY <2>1, <2>2, <2>3, <2>4, <2>5 DEF AheadInv
<1> QED
  BY <1>6, <1>7

LEMMA EarlierRuns ==
    ASSUME HistoryInv, NEW P, NEW Q, NumberedSamples(P), NumberedSamples(Q), P \subseteq Q,
           \A i \in Q \ P : \A j \in P : i < j,
           NEW phase, NEW end, NEW end2,
           NEW g \in buildReverseFlowIntervals(P, phase, end)
    PROVE  \E h \in buildReverseFlowIntervals(Q, phase, end2) :
              h.from <= g.from /\ (h.open \/ h.to = g.to)
<1> DEFINE N == Len(rows)
           f == flowStates(P, phase)
           k == flowStates(Q, phase)
           G == {n \in 0..N : AheadInv(P, Q, n, f[n], k[n])}
           s == f[N]
           u == k[N]
<1>1. /\ N \in Nat
      /\ f[0] = [active |-> -1, over |-> {}] /\ k[0] = [active |-> -1, over |-> {}]
      /\ \A n \in 1..N : f[n] = IF n \in P THEN visitSample(phase, f[n - 1], n) ELSE f[n - 1]
      /\ \A n \in 1..N : k[n] = IF n \in Q THEN visitSample(phase, k[n - 1], n) ELSE k[n - 1]
  BY RowsInOrder, FlowPass
<1>2. \A n \in 0..N : FlowInv(P, phase, n, f[n]) /\ FlowInv(Q, phase, n, k[n])
  BY FlowLoop
<1> HIDE DEF f, k
<1>3. 0 \in G
  BY <1>1 DEF AheadInv
<1>4. ASSUME NEW n \in 1..N, n - 1 \in G PROVE n \in G
  <2>1. /\ AheadInv(P, Q, n - 1, f[n - 1], k[n - 1]) /\ n \in 1..Len(rows) /\ n \in 0..N
        /\ n - 1 \in 0..N
    BY <1>4
  <2>2. FlowInv(P, phase, n - 1, f[n - 1]) /\ FlowInv(Q, phase, n - 1, k[n - 1])
    BY <1>2, <2>1
  <2>3. /\ f[n] = IF n \in P THEN visitSample(phase, f[n - 1], n) ELSE f[n - 1]
        /\ k[n] = IF n \in Q THEN visitSample(phase, k[n - 1], n) ELSE k[n - 1]
    BY <1>1
  <2>4. AheadInv(P, Q, n, f[n], k[n])
    BY <2>1, <2>2, <2>3, EarlierGoesOn
  <2> QED
    BY <2>1, <2>4
<1>5. AheadInv(P, Q, N, s, u)
  <2>1. \A n \in 0..N : n \in G
    <3> HIDE DEF G, N
    <3> QED
      BY <1>1, <1>3, <1>4, Along
  <2>2. N \in 0..N
    BY <1>1
  <2> QED
    BY <2>1, <2>2
<1>6. FlowInv(P, phase, N, s)
  BY <1>1, <1>2
<1> DEFINE open == [phase |-> phase, from |-> s.active, to |-> end, open |-> TRUE]
           open2 == [phase |-> phase, from |-> u.active, to |-> end2, open |-> TRUE]
<1>7. /\ buildReverseFlowIntervals(P, phase, end)
            = s.over \cup IF s.active = -1 THEN {} ELSE {open}
      /\ buildReverseFlowIntervals(Q, phase, end2)
            = u.over \cup IF u.active = -1 THEN {} ELSE {open2}
  BY DEF buildReverseFlowIntervals, f, k
<1>8. open.from = s.active /\ open2.from = u.active /\ open2.open = TRUE
  OBVIOUS
<1> HIDE DEF s, u, open, open2
<1>9. CASE g \in s.over
  BY <1>5, <1>7, <1>9 DEF AheadInv
<1>10. CASE s.active # -1 /\ g = open
  <2>1. u.active # -1 /\ u.active <= s.active
    BY <1>5, <1>10 DEF AheadInv
  <2> QED
    BY <1>7, <1>8, <1>10, <2>1
<1> QED
  BY <1>7, <1>9, <1>10

\* The samples of a phase in a window are numbers, in order.
LEMMA WindowSamples ==
    ASSUME HistoryInv, NEW phase \in Phases, NEW from, NEW to
    PROVE  NumberedSamples(ofPhase(parsed(listTelemetryWindow(FALSE, from, to)), phase))
<1>1. ASSUME NEW i \in DOMAIN rows, rows[i].metric = phase, rows[i].value # NoNumber
      PROVE  rows[i].value \in Int
  <2>1. rows[i].value \in Values(phase)
    BY <1>1 DEF HistoryInv, TopicRows
  <2>2. Values(phase) = {-1, 1, NoNumber}
    BY HistoryAssumption DEF Values
  <2> QED
    BY <1>1, <2>1, <2>2
<1>2. ASSUME NEW i \in ofPhase(parsed(listTelemetryWindow(FALSE, from, to)), phase)
      PROVE  i \in DOMAIN rows /\ rows[i].metric = phase /\ rows[i].value # NoNumber
  BY DEF ofPhase, parsed, listTelemetryWindow
<1> QED
  BY <1>1, <1>2 DEF NumberedSamples

\* The intervals of one phase among those of all.
LEMMA IntervalsOfPhase ==
    ASSUME HistoryInv, NEW phase \in Phases, NEW from, NEW to, NEW end,
           NEW W, W = listTelemetryWindow(FALSE, from, to)
    PROVE  \A i : i \in intervalsOf(W, end) /\ i.phase = phase
                    <=> i \in buildReverseFlowIntervals(ofPhase(parsed(W), phase), phase, end)
<1> DEFINE B(p) == buildReverseFlowIntervals(ofPhase(parsed(W), p), p, end)
<1>1. \A p \in Phases : \A i \in B(p) : i.phase = p
  <2> SUFFICES ASSUME NEW p \in Phases PROVE \A i \in B(p) : i.phase = p
    OBVIOUS
  <2> DEFINE P == ofPhase(parsed(W), p)
  <2>1. NumberedSamples(P)
    BY WindowSamples
  <2> HIDE DEF P
  <2>2. \A i \in buildReverseFlowIntervals(P, p, end) : i.phase = p
    BY <2>1, IntervalsReplay
  <2> QED
    BY <2>2 DEF P
<1>2. intervalsOf(W, end) = UNION {B(p) : p \in Phases}
  BY DEF intervalsOf
<1> HIDE DEF B
<1>3. \A i : i \in intervalsOf(W, end) <=> \E p \in Phases : i \in B(p)
  BY <1>2
<1>4. \A i : i \in intervalsOf(W, end) /\ i.phase = phase <=> i \in B(phase)
  BY <1>1, <1>3
<1> QED
  BY <1>4 DEF B

\* What replay says of a phase.
LEMMA ReplayIs ==
    ASSUME HistoryInv, NEW P, P \subseteq DOMAIN rows, NEW t
    PROVE  replay(P, t, LAMBDA v : v < 0) <=> reversedAt(P, t)
<1>1. \A i : i \in lastUpTo(P, t) <=> isLast(P, t, i)
  BY LastIs
<1>2. replay(P, t, LAMBDA v : v < 0) <=> \E i \in lastUpTo(P, t) : rows[i].value < 0
  BY DEF replay
<1>3. \A i : isLast(P, t, i) => i \in P
  BY DEF isLast
<1> QED
  BY <1>1, <1>2, <1>3 DEF reversedAt

LEMMA CoversReplay ==
    ASSUME HistoryInv, NEW phase \in Phases, NEW from \in Int, NEW to \in Int,
           NEW W, W = listTelemetryWindow(FALSE, from, to),
           NEW t \in from..(to - 1)
    PROVE  covers({i \in intervalsOf(W, to) : i.phase = phase}, t)
              <=> replay(ofPhase(parsed(W), phase), t, LAMBDA v : v < 0)
<1> DEFINE P == ofPhase(parsed(W), phase)
           B == buildReverseFlowIntervals(P, phase, to)
<1>1. NumberedSamples(P) /\ P \subseteq DOMAIN rows
  <2>1. NumberedSamples(P)
    BY WindowSamples
  <2> QED
    BY <2>1 DEF NumberedSamples
<1>2. \A i : i \in intervalsOf(W, to) /\ i.phase = phase <=> i \in B
  BY IntervalsOfPhase
<1> HIDE DEF P
<1>3. covers(B, t) <=> reversedAt(P, t)
  <2>1. t \in Int /\ t < to
    OBVIOUS
  <2> QED
    BY <1>1, <2>1, IntervalsReplay
<1>4. replay(P, t, LAMBDA v : v < 0) <=> reversedAt(P, t)
  BY <1>1, ReplayIs
<1> QED
  <2>1. covers({i \in intervalsOf(W, to) : i.phase = phase}, t) <=> covers(B, t)
    <3> HIDE DEF B
    <3> QED
      BY <1>2 DEF covers
  <2> QED
    BY <1>3, <1>4, <2>1 DEF P

LEMMA AlarmsOf ==
    ASSUME HistoryInv
    PROVE  /\ rows = <<>> => chartRows = {}
           /\ rows # <<>> =>
                 /\ getLatestReportedAt = rows[Len(rows)].at /\ Len(rows) \in DOMAIN rows
                 /\ chartRows = listTelemetryWindow(FALSE, getLatestReportedAt - WindowDays,
                                                    getLatestReportedAt)
                 /\ getReverseFlowAlarms = intervalsOf(chartRows, getLatestReportedAt)
<1>1. rows = <<>> => chartRows = {}
  BY DEF chartRows, listTelemetryWindow
<1>2. rows # <<>> => getLatestReportedAt = rows[Len(rows)].at /\ Len(rows) \in DOMAIN rows
  BY DEF getLatestReportedAt, HistoryInv
<1>3. rows # <<>> => resolveChartWindow = [startAt |-> getLatestReportedAt - WindowDays,
                                           endAt |-> getLatestReportedAt]
  BY DEF resolveChartWindow
<1>4. rows # <<>> => resolveChartWindow.startAt = getLatestReportedAt - WindowDays
                     /\ resolveChartWindow.endAt = getLatestReportedAt
  BY <1>3
<1>5. getReverseFlowAlarms = intervalsOf(chartRows, resolveChartWindow.endAt)
  BY DEF getReverseFlowAlarms
<1>6. chartRows = listTelemetryWindow(FALSE, resolveChartWindow.startAt, resolveChartWindow.endAt)
  BY DEF chartRows
<1> QED
  BY <1>1, <1>2, <1>4, <1>5, <1>6

\* The list's samples are among the chart's, and the others are before them.
LEMMA ChartReachesBack ==
    ASSUME HistoryInv, NEW phase \in Phases,
           NEW P, P = ofPhase(parsed(listCtPhasePowerForDevices(startAt)), phase),
           NEW Q, Q = ofPhase(parsed(chartRows), phase)
    PROVE  P \subseteq Q /\ \A i \in Q \ P : \A j \in P : i < j
<1>1. CASE rows = <<>>
  BY <1>1 DEF ofPhase, parsed, listCtPhasePowerForDevices, listTelemetryWindow
<1>2. ASSUME rows # <<>> PROVE P \subseteq Q /\ \A i \in Q \ P : \A j \in P : i < j
  <2> DEFINE end == rows[Len(rows)].at
  <2>1. chartRows = listTelemetryWindow(FALSE, end - WindowDays, end)
    BY <1>2, AlarmsOf
  <2>2. /\ end \in Int /\ end <= now /\ WindowDays \in Int /\ now \in Int
        /\ startAt = now - WindowDays
        /\ \A i \in DOMAIN rows : i \in Int /\ rows[i].at \in Int /\ rows[i].at <= end
        /\ \A i, j \in DOMAIN rows : i <= j => rows[i].at <= rows[j].at
        /\ \A i \in DOMAIN rows : rows[i].at <= now
    <3>1. Len(rows) \in DOMAIN rows /\ \A i \in DOMAIN rows : i <= Len(rows) /\ i \in Int
      BY <1>2, RowsInOrder
    <3> QED
      BY <3>1, RowsInOrder, HistoryAssumption DEF startAt
  <2> HIDE DEF end
  <2>3. \A i : i \in P <=> /\ i \in DOMAIN rows /\ ofInverter(rows[i]) = FALSE
                           /\ startAt <= rows[i].at /\ rows[i].at <= now
                           /\ rows[i].value # NoNumber /\ rows[i].metric = phase
    BY DEF ofPhase, parsed, listCtPhasePowerForDevices, listTelemetryWindow
  <2>4. \A i : i \in Q <=> /\ i \in DOMAIN rows /\ ofInverter(rows[i]) = FALSE
                           /\ end - WindowDays <= rows[i].at /\ rows[i].at <= end
                           /\ rows[i].value # NoNumber /\ rows[i].metric = phase
    BY <2>1 DEF ofPhase, parsed, listTelemetryWindow
  <2>5. ASSUME NEW i \in P PROVE i \in Q
    <3>1. end - WindowDays <= rows[i].at
      BY <2>2, <2>3
    <3> QED
      BY <2>2, <2>3, <2>4, <3>1
  <2>6. ASSUME NEW i \in Q \ P, NEW j \in P PROVE i < j
    <3>1. rows[i].at < startAt /\ startAt <= rows[j].at
      BY <2>2, <2>3, <2>4
    <3>2. i \in DOMAIN rows /\ j \in DOMAIN rows
      BY <2>3, <2>4
    <3> QED
      BY <2>2, <3>1, <3>2
  <2> QED
    BY <2>5, <2>6
<1> QED
  BY <1>1, <1>2

\* The list's word that a device is online is that of its last row, of the CT
\* or of the inverter; the page's is that of the last row of the CT.
LEMMA OnlineIsListed ==
    ASSUME HistoryInv
    PROVE  listOnline <=> \/ getPlatformConnectivity.isOnline
                          \/ \E t \in reportTimes(TRUE, 0, now) : now - t <= Threshold
<1> DEFINE counted == reportTimes(FALSE, startAt, now)
           every == reportTimes(FALSE, 0, now)
           earlier == reportTimes(FALSE, 0, startAt)
           times == counted \cup getLatestAnyBefore(FALSE, startAt)
           inverter == reportTimes(TRUE, 0, now)
           young(t) == now - t <= Threshold
<1>0. now \in Nat /\ Threshold \in Nat
  BY HistoryAssumption DEF HistoryInv
<1>1. /\ \A v \in every : v \in 0..now
      /\ \A v : v \in counted => v \in every
      /\ \A v : v \in earlier => v \in every
  BY ReportTimes, Zenon
<1>2. \A v \in every : v \in counted \/ v \in earlier
  BY <1>0, RowsInOrder DEF reportTimes, listTelemetryWindow
<1>3. times = counted \cup (IF earlier = {} THEN {} ELSE {MaxOf(earlier)})
  BY DEF getLatestAnyBefore
<1>4. getPlatformConnectivity = connectivity(times, counted)
  BY DEF getPlatformConnectivity
<1>5. listOnline <=> \E i \in DOMAIN rows : young(rows[i].at)
  <2>1. /\ \A i \in DOMAIN rows : /\ i <= Len(rows) /\ Len(rows) \in DOMAIN rows
                                  /\ rows[i].at <= rows[Len(rows)].at
                                  /\ rows[i].at \in Int /\ rows[Len(rows)].at \in Int
        /\ rows # <<>> => Len(rows) \in DOMAIN rows
    BY RowsInOrder
  <2>2. rows = <<>> => \A i \in DOMAIN rows : FALSE
    OBVIOUS
  <2>3. ASSUME NEW i \in DOMAIN rows, young(rows[i].at)
        PROVE  rows # <<>> /\ getLatestReportedAt >= now - Threshold
    BY <1>0, <2>1, <2>2, <2>3 DEF getLatestReportedAt
  <2>4. ASSUME rows # <<>>, getLatestReportedAt >= now - Threshold
        PROVE  \E i \in DOMAIN rows : young(rows[i].at)
    BY <1>0, <2>1, <2>4 DEF getLatestReportedAt
  <2> QED
    BY <2>3, <2>4 DEF listOnline
<1>6. /\ \A v \in every \cup inverter : \E i \in DOMAIN rows : rows[i].at = v
      /\ \A i \in DOMAIN rows : rows[i].at \in every \cup inverter
  <2>1. \A i \in DOMAIN rows : 0 <= rows[i].at /\ rows[i].at <= now
    BY RowsInOrder DEF HistoryInv, TopicRows
  <2>2. \A r : ofInverter(r) = TRUE \/ ofInverter(r) = FALSE
    BY DEF ofInverter
  <2> QED
    BY <2>1, <2>2 DEF reportTimes, listTelemetryWindow
<1> HIDE DEF counted, every, earlier, times, inverter
<1>7. getPlatformConnectivity.isOnline <=> \E v \in every : young(v)
  <2>1. earlier # {} => MaxOf(earlier) \in earlier /\ \A v \in earlier : v <= MaxOf(earlier)
    <3>1. earlier \subseteq 0..now
      BY <1>1
    <3> QED
      BY <1>0, <3>1, MaxOfSpec
  <2>2. times \subseteq every /\ \A v \in every : \E u \in times : v <= u
    <3>1. times \subseteq every
      BY <1>1, <1>3, <2>1
    <3>2. \A v \in counted : v \in times /\ v <= v
      BY <1>1, <1>3
    <3>3. \A v \in earlier : MaxOf(earlier) \in times /\ v <= MaxOf(earlier)
      BY <1>3, <2>1
    <3> QED
      BY <1>2, <3>1, <3>2, <3>3
  <2>3. CASE times = {}
    BY <1>4, <2>2, <2>3 DEF connectivity
  <2>4. CASE times # {}
    <3>1. MaxOf(times) \in times /\ \A v \in times : v <= MaxOf(times)
      BY <1>0, <1>1, <2>2, <2>4, MaxOfSpec
    <3>2. getPlatformConnectivity.isOnline <=> young(MaxOf(times))
      BY <1>4, <2>4, ConnectivityIs
    <3>3. \A v \in every : v \in Int /\ v <= MaxOf(times)
      BY <1>1, <2>2, <3>1
    <3> QED
      BY <1>0, <2>2, <3>1, <3>2, <3>3
  <2> QED
    BY <2>3, <2>4
<1> HIDE DEF young
<1>8. (\E i \in DOMAIN rows : young(rows[i].at)) <=> \E v \in every \cup inverter : young(v)
  BY <1>6
<1>9. (\E t \in inverter : young(t)) <=> \E t \in reportTimes(TRUE, 0, now) : now - t <= Threshold
  BY DEF inverter, young
<1> QED
  BY <1>5, <1>7, <1>8, <1>9

LEMMA ChartMarks ==
    ASSUME HistoryInv, NEW phase \in Phases
    PROVE  (\E i \in toChartSeries(phase) : rows[i].value < 0)
              <=> \E a \in getReverseFlowAlarms : a.phase = phase
<1> DEFINE W == chartRows
           P == ofPhase(parsed(W), phase)
           end == resolveChartWindow.endAt
           B == buildReverseFlowIntervals(P, phase, end)
<1>1. W = listTelemetryWindow(FALSE, resolveChartWindow.startAt, end)
  BY DEF chartRows
<1>2. getReverseFlowAlarms = intervalsOf(W, end)
  BY DEF getReverseFlowAlarms
<1>3. toChartSeries(phase) = P
  BY DEF toChartSeries
<1> HIDE DEF W, end
<1>4. NumberedSamples(P)
  BY <1>1, WindowSamples
<1>5. \A i : i \in intervalsOf(W, end) /\ i.phase = phase <=> i \in B
  <2> DEFINE from == resolveChartWindow.startAt
  <2>1. W = listTelemetryWindow(FALSE, from, end)
    BY <1>1
  <2> HIDE DEF from
  <2> QED
    BY <2>1, IntervalsOfPhase
<1> HIDE DEF P
<1>6. B # {} <=> \E i \in P : rows[i].value < 0
  BY <1>4, IntervalsReplay
<1> HIDE DEF B
<1> QED
  BY <1>2, <1>3, <1>5, <1>6

LEMMA SustainedIsAlarm ==
    ASSUME HistoryInv, NEW i \in summarizeDeviceSustainedReverse
    PROVE  \E a \in getReverseFlowAlarms :
              a.phase = i.phase /\ a.from <= i.from /\ (a.open \/ a.to = i.to)
<1> DEFINE V == listCtPhasePowerForDevices(startAt)
           W == chartRows
           end == resolveChartWindow.endAt
<1>1. W = listTelemetryWindow(FALSE, resolveChartWindow.startAt, end)
  BY DEF chartRows
<1>2. getReverseFlowAlarms = intervalsOf(W, end)
  BY DEF getReverseFlowAlarms
<1>3. V = listTelemetryWindow(FALSE, startAt, now)
  BY DEF listCtPhasePowerForDevices
<1>4. i \in intervalsOf(V, now)
  BY DEF summarizeDeviceSustainedReverse
<1> HIDE DEF end
<1>5. PICK p \in Phases : i \in buildReverseFlowIntervals(ofPhase(parsed(V), p), p, now)
  BY <1>4 DEF intervalsOf
<1> DEFINE P == ofPhase(parsed(V), p)
           Q == ofPhase(parsed(W), p)
<1>6. P \subseteq Q /\ \A k \in Q \ P : \A j \in P : k < j
  BY ChartReachesBack
<1> HIDE DEF V, W
<1>7. NumberedSamples(P) /\ NumberedSamples(Q)
  BY <1>1, <1>3, WindowSamples
<1> HIDE DEF P, Q
<1>8. i.phase = p
  BY <1>5, <1>7, IntervalsReplay DEF P
<1>9. PICK a \in buildReverseFlowIntervals(Q, p, end) :
         a.from <= i.from /\ (a.open \/ a.to = i.to)
  <2>1. i \in buildReverseFlowIntervals(P, p, now)
    BY <1>5 DEF P
  <2> QED
    BY <1>6, <1>7, <2>1, EarlierRuns
<1>10. a \in intervalsOf(W, end) /\ a.phase = p
  <2>1. a \in buildReverseFlowIntervals(ofPhase(parsed(W), p), p, end)
    BY <1>9 DEF Q
  <2> QED
    <3> DEFINE from == resolveChartWindow.startAt
    <3>1. W = listTelemetryWindow(FALSE, from, end)
      BY <1>1
    <3> HIDE DEF from
    <3> QED
      BY <2>1, <3>1, IntervalsOfPhase
<1> QED
  BY <1>2, <1>8, <1>9, <1>10

LEMMA ReversedHasAlarm ==
    ASSUME HistoryInv, hasRecentReverse
    PROVE  getReverseFlowAlarms # {}
<1>1. PICK i \in parsed(listCtPhasePowerForDevices(startAt)) : rows[i].value < 0
  BY DEF hasRecentReverse
<1> DEFINE p == rows[i].metric
           P == ofPhase(parsed(listCtPhasePowerForDevices(startAt)), p)
           Q == ofPhase(parsed(chartRows), p)
<1>2. p \in Phases
  BY DEF parsed, listCtPhasePowerForDevices, listTelemetryWindow, ofInverter
<1>3. i \in P
  BY DEF ofPhase
<1> HIDE DEF p
<1>4. P \subseteq Q
  BY <1>2, ChartReachesBack
<1>5. i \in toChartSeries(p)
  BY <1>3, <1>4 DEF toChartSeries
<1> QED
  BY <1>1, <1>2, <1>5, ChartMarks

LEMMA FaultIsListed ==
    ASSUME HistoryInv, hadRecentReportableInverterFault(getInverterFaultChanges)
    PROVE  hasRecentInverterFault
<1>1. PICK i \in DOMAIN getInverterFaultChanges :
         hasReportableInverterFault(getInverterFaultChanges[i].to)
  BY DEF hadRecentReportableInverterFault
<1>2. i \in faultPoints /\ getInverterFaultChanges[i].to = rows[i].value
  BY <1>1 DEF getInverterFaultChanges
<1>3. /\ i \in DOMAIN rows /\ ofInverter(rows[i]) = TRUE /\ startAt <= rows[i].at
      /\ rows[i].at <= now /\ rows[i].metric = "fault_param" /\ rows[i].value # NoNumber
  BY <1>2 DEF faultPoints, latestPerInstant, parsed, listTelemetryByMetricContains,
              listTelemetryWindow
<1>4. rows[i].value # {}
  BY <1>1, <1>2 DEF hasReportableInverterFault
<1>5. i \in listInverterFaultMasksForDevices(startAt)
  BY <1>3, <1>4 DEF listInverterFaultMasksForDevices, parsed, listTelemetryWindow
<1> QED
  BY <1>1, <1>2, <1>5 DEF hasRecentInverterFault

LEMMA ViewsHold ==
    ASSUME HistoryInv
    PROVE  ViewsAgree
<1> DEFINE last == [startAt |-> getLatestReportedAt - WindowDays, endAt |-> getLatestReportedAt]
           week == [startAt |-> startAt, endAt |-> now]
           sample(p, w) == ofPhase(parsed(listTelemetryWindow(FALSE, w.startAt, w.endAt)), p)
<1>1. ASSUME NEW p \in Phases, rows # <<>>, NEW t \in instants(last)
      PROVE  covers({i \in getReverseFlowAlarms : i.phase = p}, t)
                <=> replay(sample(p, last), t, LAMBDA v : v < 0)
  <2> DEFINE from == getLatestReportedAt - WindowDays
             to == getLatestReportedAt
             W == listTelemetryWindow(FALSE, from, to)
  <2>1. from \in Int /\ to \in Int
    BY <1>1, AlarmsOf, RowsInOrder, HistoryAssumption
  <2>2. getReverseFlowAlarms = intervalsOf(W, to)
    BY <1>1, AlarmsOf
  <2>3. sample(p, last) = ofPhase(parsed(W), p)
    OBVIOUS
  <2>4. t \in from..(to - 1)
    BY <1>1 DEF instants
  <2>5. W = listTelemetryWindow(FALSE, from, to)
    OBVIOUS
  <2> HIDE DEF from, to, W, last, sample
  <2>6. covers({i \in intervalsOf(W, to) : i.phase = p}, t)
          <=> replay(ofPhase(parsed(W), p), t, LAMBDA v : v < 0)
    BY <1>1, <2>1, <2>4, <2>5, CoversReplay
  <2> QED
    BY <2>2, <2>3, <2>6
<1>2. ASSUME NEW p \in Phases, NEW t \in instants(week)
      PROVE  covers({i \in intervalsOf(listCtPhasePowerForDevices(startAt), now) : i.phase = p}, t)
                <=> replay(sample(p, week), t, LAMBDA v : v < 0)
  <2> DEFINE W == listTelemetryWindow(FALSE, startAt, now)
  <2>1. startAt \in Int /\ now \in Int
    BY RowsInOrder
  <2>2. listCtPhasePowerForDevices(startAt) = W
    BY DEF listCtPhasePowerForDevices
  <2>3. sample(p, week) = ofPhase(parsed(W), p)
    OBVIOUS
  <2>4. t \in startAt..(now - 1)
    BY <1>2 DEF instants
  <2>5. W = listTelemetryWindow(FALSE, startAt, now)
    OBVIOUS
  <2> HIDE DEF W, week, sample
  <2>6. covers({i \in intervalsOf(W, now) : i.phase = p}, t)
          <=> replay(ofPhase(parsed(W), p), t, LAMBDA v : v < 0)
    BY <1>2, <2>1, <2>4, <2>5, CoversReplay
  <2> QED
    BY <2>2, <2>3, <2>6
<1>3. \A p \in Phases : (\E i \in toChartSeries(p) : rows[i].value < 0)
                          <=> \E a \in getReverseFlowAlarms : a.phase = p
  BY ChartMarks
<1>4. hasRecentReverse => getReverseFlowAlarms # {}
  BY ReversedHasAlarm
<1>5. \A i \in summarizeDeviceSustainedReverse :
         \E a \in getReverseFlowAlarms :
            a.phase = i.phase /\ a.from <= i.from /\ (a.open \/ a.to = i.to)
  BY SustainedIsAlarm
<1>6. hadRecentReportableInverterFault(getInverterFaultChanges) => hasRecentInverterFault
  BY FaultIsListed
<1>7. listOnline <=> \/ getPlatformConnectivity.isOnline
                     \/ \E t \in reportTimes(TRUE, 0, now) : now - t <= Threshold
  BY OnlineIsListed
<1> QED
  BY <1>1, <1>2, <1>3, <1>4, <1>5, <1>6, <1>7 DEF ViewsAgree

\* List, alarms and chart of a device agree, for any rows, windows and phases,
\* and the list shows it as online just when its page does or an inverter has
\* reported within the threshold.
THEOREM ViewsOfOneDevice == HistorySpec => []ViewsAgree
BY HistoryCorrect, ViewsHold, PTL

-----------------------------------------------------------------------------
(* A timeline: the points of a window, those V of them that are the last of  *)
(* their instant, and at most one place B before the window.                 *)

Timeline(P, B, V) ==
    /\ P \subseteq DOMAIN rows /\ B \subseteq DOMAIN rows /\ V \subseteq P
    /\ \A i \in P : startAt <= rows[i].at
    /\ \A b \in B : /\ rows[b].at <= startAt
                    /\ \A j \in V : b <= j
                    /\ \A c \in B : c = b
    /\ \A i \in P : \E j \in V : i <= j /\ rows[j].at = rows[i].at

LEMMA TimelineOf ==
    ASSUME HistoryInv, NEW metric, metric \notin Phases,
           NEW P, P = parsed(listTelemetryByMetricContains(metric)),
           NEW B, B = parsed(getLatestBeforeMetricContains(metric, startAt)),
           NEW V, V = latestPerInstant(P)
    PROVE  Timeline(P, B, V)
<1> DEFINE M == {i \in DOMAIN rows : rows[i].metric = metric}
<1>0. /\ Len(rows) \in Nat /\ DOMAIN rows = 1..Len(rows)
      /\ \A i \in DOMAIN rows : i \in Int /\ rows[i].at \in Int /\ rows[i].at <= now
      /\ \A i, j \in DOMAIN rows : i <= j => rows[i].at <= rows[j].at
      /\ now \in Int /\ startAt \in Int /\ startAt <= now
  BY RowsInOrder
<1>1. \A i : i \in P <=> /\ i \in DOMAIN rows /\ rows[i].metric = metric
                         /\ rows[i].value # NoNumber
                         /\ startAt <= rows[i].at /\ rows[i].at <= now
  BY DEF parsed, listTelemetryByMetricContains, listTelemetryWindow, ofInverter
<1>2. \A i : i \in V <=> i \in P /\ \A j \in P : j > i => rows[j].at # rows[i].at
  BY DEF latestPerInstant
<1>3. \A i : i \in B <=> isLast(M, startAt, i) /\ rows[i].value # NoNumber
  <2>1. \A i : i \in lastUpTo(M, startAt) <=> isLast(M, startAt, i)
    BY LastIs
  <2>2. getLatestBeforeMetricContains(metric, startAt) = lastUpTo(M, startAt)
    BY DEF getLatestBeforeMetricContains
  <2> HIDE DEF M
  <2> QED
    BY <2>1, <2>2 DEF parsed
<1>4. \A b \in B : /\ b \in DOMAIN rows /\ rows[b].metric = metric /\ rows[b].at <= startAt
                   /\ rows[b].value # NoNumber
                   /\ \A j \in DOMAIN rows :
                         rows[j].metric = metric /\ rows[j].at <= startAt => j <= b
  BY <1>3 DEF isLast
<1>5. ASSUME NEW b \in B, NEW j \in V PROVE b <= j
  <2> SUFFICES ASSUME j < b PROVE FALSE
    BY <1>0, <1>1, <1>2, <1>4
  <2>1. b \in DOMAIN rows /\ j \in DOMAIN rows /\ j \in P
    BY <1>1, <1>2, <1>4
  <2>2. rows[j].at <= rows[b].at /\ startAt <= rows[j].at /\ rows[b].at <= startAt
    BY <1>0, <1>1, <1>4, <2>1
  <2>3. rows[j].at = rows[b].at /\ rows[b].at = startAt
    BY <1>0, <2>1, <2>2
  <2>4. b \in P
    BY <1>0, <1>1, <1>4, <2>1, <2>3
  <2> QED
    BY <1>0, <1>2, <2>1, <2>3, <2>4
<1>6. ASSUME NEW b \in B, NEW c \in B PROVE c = b
  <2>1. c <= b /\ b <= c /\ c \in Int /\ b \in Int
    BY <1>0, <1>4
  <2> QED
    BY <2>1
<1>7. ASSUME NEW i \in P PROVE \E j \in V : i <= j /\ rows[j].at = rows[i].at
  <2> DEFINE S == {j \in P : rows[j].at = rows[i].at}
             m == MaxOf(S)
  <2>1. S \subseteq 0..Len(rows) /\ i \in S
    BY <1>0, <1>1
  <2>2. m \in S /\ \A j \in S : j <= m
    BY <1>0, <2>1, MaxOfSpec
  <2> HIDE DEF m
  <2>3. m \in P /\ rows[m].at = rows[i].at /\ i <= m
    BY <2>1, <2>2
  <2>4. ASSUME NEW j \in P, j > m PROVE rows[j].at # rows[m].at
    <3>1. j \in Int /\ m \in Int
      BY <1>0, <1>1, <2>3
    <3> QED
      BY <2>2, <2>3, <2>4, <3>1
  <2> QED
    BY <1>2, <2>3, <2>4
<1> QED
  BY <1>1, <1>2, <1>4, <1>5, <1>6, <1>7 DEF Timeline

\* The last of all points is the last of those the loop visits.
LEMMA LastIsVisited ==
    ASSUME HistoryInv, NEW P, NEW B, NEW V, Timeline(P, B, V), NEW t, NEW i
    PROVE  isLast(B \cup P, t, i) <=> isLast(B \cup V, t, i)
<1>0. \A j \in DOMAIN rows : j \in Int /\ rows[j].at \in Int
  BY RowsInOrder
<1>1. /\ P \subseteq DOMAIN rows /\ B \subseteq DOMAIN rows /\ V \subseteq P
      /\ \A k \in P : \E j \in V : k <= j /\ rows[j].at = rows[k].at
  BY DEF Timeline
<1>2. ASSUME isLast(B \cup P, t, i) PROVE isLast(B \cup V, t, i)
  <2>1. i \in B \cup V
    <3> SUFFICES ASSUME i \in P PROVE i \in V
      BY <1>2 DEF isLast
    <3>1. PICK j \in V : i <= j /\ rows[j].at = rows[i].at
      BY <1>1
    <3>2. j <= i
      BY <1>1, <1>2, <3>1 DEF isLast
    <3>3. j \in Int /\ i \in Int
      BY <1>0, <1>1
    <3>4. i = j
      BY <3>1, <3>2, <3>3
    <3> QED
      BY <3>4
  <2> QED
    BY <1>1, <1>2, <2>1 DEF isLast
<1>3. ASSUME isLast(B \cup V, t, i) PROVE isLast(B \cup P, t, i)
  <2>1. i \in B \cup P /\ rows[i].at <= t
    BY <1>1, <1>3 DEF isLast
  <2>2. ASSUME NEW j \in B \cup P, rows[j].at <= t PROVE j <= i
    <3>1. CASE j \in B
      BY <1>3, <2>2, <3>1 DEF isLast
    <3>2. CASE j \in P
      <4>1. PICK k \in V : j <= k /\ rows[k].at = rows[j].at
        BY <1>1, <3>2
      <4>2. k <= i
        BY <1>3, <2>2, <4>1 DEF isLast
      <4>3. j \in Int /\ k \in Int /\ i \in Int
        BY <1>0, <1>1, <2>1
      <4> QED
        BY <4>1, <4>2, <4>3
    <3> QED
      BY <2>2, <3>1, <3>2
  <2> QED
    BY <2>1, <2>2 DEF isLast
<1> QED
  BY <1>2, <1>3

\* The places before the window come before those the loop visits: what it has
\* visited last is the last of all.
LEMMA VisitedLast ==
    ASSUME HistoryInv, NEW P, NEW B, NEW V, Timeline(P, B, V), NEW n \in V, NEW t \in Int,
           rows[n].at <= t, \A j \in V : rows[j].at <= t => j <= n, NEW i
    PROVE  isLast(B \cup V, t, i) <=> i = n
<1>1. \A j \in B \cup V : rows[j].at <= t => j <= n
  BY DEF Timeline
<1>2. B \cup V \subseteq DOMAIN rows /\ n \in B \cup V
  BY DEF Timeline
<1> QED
  BY <1>1, <1>2, LastReached

\* As long as the loop has visited none up to t, the last is the one before
\* the window, if there is one.
LEMMA NoneVisited ==
    ASSUME HistoryInv, NEW P, NEW B, NEW V, Timeline(P, B, V), NEW t \in Int, startAt <= t,
           \A j \in V : ~ (rows[j].at <= t), NEW i
    PROVE  isLast(B \cup V, t, i) <=> i \in B
<1>1. \A b \in B : rows[b].at \in Int /\ rows[b].at <= startAt /\ startAt \in Int /\ b \in Int
                   /\ \A c \in B : c = b
  BY RowsInOrder DEF Timeline
<1>2. \A b \in B : rows[b].at <= t
  BY <1>1
<1>3. \A b \in B : b <= b
  BY <1>1
<1> QED
  BY <1>1, <1>2, <1>3 DEF isLast

-----------------------------------------------------------------------------
(* The history of an inverter that reports online_state.                     *)

Windows == [from : Int, to : Int]

OnlineStates == [isOnline : BOOLEAN, stateSince : Int, offline : SUBSET Windows]

\* The last report up to t does not say 2.
offlineAt(K, t) == \E i \in K : isLast(K, t, i) /\ rows[i].value # 2

\* After place n the state has lasted since stateSince, and the windows before
\* are those of the last report.
OnlineInv(K, V, n, s) ==
    /\ s \in OnlineStates
    /\ startAt <= s.stateSince /\ s.stateSince <= now
    /\ \A g \in s.offline : g.to <= s.stateSince
    /\ \A j \in V : j > n => s.stateSince <= rows[j].at
    /\ \A t \in Int : startAt <= t /\ (\A j \in V : rows[j].at <= t => j <= n) =>
          /\ t >= s.stateSince => (offlineAt(K, t) <=> ~ s.isOnline)
          /\ t < s.stateSince => (covers(s.offline, t) <=> offlineAt(K, t))

\* Closing a window adds what lies between its beginning and its end.
LEMMA CloseIs ==
    ASSUME HistoryInv, NEW s \in OnlineStates, NEW at \in Int,
           startAt <= s.stateSince, s.stateSince <= at, at <= now,
           \A g \in s.offline : g.to <= s.stateSince,
           NEW C, C = closeInterval(s, at)
    PROVE  /\ C \subseteq Windows
           /\ \A g \in C : g.to <= at
           /\ \A t \in Int : covers(C, t) <=>
                 covers(s.offline, t) \/ (~ s.isOnline /\ s.stateSince <= t /\ t < at)
<1>0. /\ now \in Int /\ startAt \in Int /\ s.stateSince \in Int
      /\ s.isOnline \in BOOLEAN /\ s.offline \subseteq Windows
      /\ \A g \in s.offline : g.from \in Int /\ g.to \in Int
  BY RowsInOrder DEF OnlineStates, Windows
<1>1. CASE s.isOnline
  <2>1. C = s.offline
    BY <1>1 DEF closeInterval
  <2>2. \A g \in C : g.to <= at
    BY <1>0, <2>1
  <2> QED
    BY <1>0, <1>1, <2>1, <2>2
<1>2. CASE ~ s.isOnline
  <2> DEFINE D == clampInterval(s.stateSince, at, startAt, now)
             w == [from |-> s.stateSince, to |-> at]
  <2>1. C = s.offline \cup D
    BY <1>2 DEF closeInterval
  <2>2. \A g : g \in D <=> g = w /\ s.stateSince < at
    <3> TAKE g
    <3>1. g \in D <=> \E b \in Int, e \in Int :
                 /\ g = [from |-> b, to |-> e] /\ b < e
                 /\ b = (IF s.stateSince < startAt THEN startAt ELSE s.stateSince)
                 /\ e = (IF at > now THEN now ELSE at)
      BY <1>0, ClampIs
    <3>2. (IF s.stateSince < startAt THEN startAt ELSE s.stateSince) = s.stateSince
      BY <1>0
    <3>3. (IF at > now THEN now ELSE at) = at
      BY <1>0
    <3> HIDE DEF D
    <3> QED
      BY <1>0, <3>1, <3>2, <3>3
  <2>3. w \in Windows /\ w.from = s.stateSince /\ w.to = at
    BY <1>0 DEF Windows
  <2> HIDE DEF D, w
  <2>4. C \subseteq Windows
    BY <1>0, <2>1, <2>2, <2>3
  <2>5. \A g \in C : g.to <= at
    BY <1>0, <2>1, <2>2, <2>3
  <2>6. \A t \in Int : covers(C, t) <=>
                 covers(s.offline, t) \/ (s.stateSince <= t /\ t < at)
    <3> TAKE t \in Int
    <3>1. covers(C, t) <=> covers(s.offline, t) \/ \E g \in D : g.from <= t /\ t < g.to
      BY <2>1 DEF covers
    <3>2. (\E g \in D : g.from <= t /\ t < g.to) <=> s.stateSince <= t /\ t < at
      BY <1>0, <2>2, <2>3
    <3> QED
      BY <3>1, <3>2
  <2> QED
    BY <1>2, <2>4, <2>5, <2>6
<1> QED
  BY <1>1, <1>2

LEMMA OnlineBegins ==
    ASSUME HistoryInv, NEW P, NEW B, NEW V, Timeline(P, B, V), P # {},
           \A i \in P : rows[i].at <= now,
           NEW s, s = initialState(P, B)
    PROVE  OnlineInv(B \cup V, V, 0, s)
<1>0. /\ \A j \in DOMAIN rows : j \in Int /\ j > 0 /\ rows[j].at \in Int
      /\ \A i, j \in DOMAIN rows : i <= j => rows[i].at <= rows[j].at
      /\ startAt \in Int /\ now \in Int /\ startAt <= now
      /\ P \subseteq DOMAIN rows /\ B \subseteq DOMAIN rows /\ V \subseteq P
      /\ DOMAIN rows \subseteq Nat
  BY RowsInOrder DEF Timeline
<1>1. CASE B # {}
  <2>1. PICK b \in B : TRUE
    BY <1>1
  <2>2. B = {b}
    BY <2>1 DEF Timeline
  <2>3. MaxOf(B) = b
    <3>1. B \subseteq 0..Len(rows) /\ Len(rows) \in Nat
      BY <1>0, RowsInOrder
    <3>2. MaxOf(B) \in B
      BY <1>1, <3>1, MaxOfSpec
    <3> QED
      BY <2>2, <3>2
  <2>4. s = [isOnline |-> rows[b].value = 2, stateSince |-> startAt, offline |-> {}]
    BY <1>1, <2>3 DEF initialState
  <2>5. s.isOnline = (rows[b].value = 2) /\ s.stateSince = startAt /\ s.offline = {}
    BY <2>4
  <2>6. s \in OnlineStates
    BY <1>0, <2>4 DEF OnlineStates
  <2>7. ASSUME NEW t \in Int, startAt <= t, \A j \in V : rows[j].at <= t => j <= 0
        PROVE  offlineAt(B \cup V, t) <=> ~ s.isOnline
    <3>1. \A j \in V : ~ (rows[j].at <= t)
      BY <1>0, <2>7
    <3>2. \A i : isLast(B \cup V, t, i) <=> i \in B
      BY <2>7, <3>1, NoneVisited
    <3> QED
      BY <2>2, <2>5, <3>2 DEF offlineAt
  <2>8. \A j \in V : startAt <= rows[j].at
    BY DEF Timeline
  <2>9. \A t \in Int : startAt <= t => ~ (t < s.stateSince)
    BY <1>0, <2>5
  <2> QED
    <3>1. \A j \in V : s.stateSince <= rows[j].at
      BY <2>5, <2>8
    <3>2. ASSUME NEW t \in Int, startAt <= t, \A j \in V : rows[j].at <= t => j <= 0
          PROVE  /\ offlineAt(B \cup V, t) <=> ~ s.isOnline
                 /\ ~ (t < s.stateSince)
      BY <2>7, <2>9, <3>2
    <3>3. startAt <= s.stateSince /\ s.stateSince <= now
      BY <1>0, <2>5
    <3>4. \A g \in s.offline : g.to <= s.stateSince
      BY <2>5
    <3> QED
      BY <2>6, <3>1, <3>2, <3>3, <3>4 DEF OnlineInv
<1>2. CASE B = {}
  <2> DEFINE m == MinOf(P)
  <2>1. m \in P /\ \A j \in P : m <= j
    <3>1. P \subseteq Nat
      BY <1>0
    <3> QED
      BY <3>1, MinOfSpec
  <2>2. s = [isOnline |-> rows[m].value = 2, stateSince |-> rows[m].at, offline |-> {}]
    BY <1>2 DEF initialState
  <2> HIDE DEF m
  <2>3. s.stateSince = rows[m].at /\ s.offline = {}
    BY <2>2
  <2>4. rows[m].at \in Int /\ startAt <= rows[m].at /\ rows[m].at <= now
    BY <1>0, <2>1 DEF Timeline
  <2>5. s \in OnlineStates
    BY <2>2, <2>4 DEF OnlineStates
  <2>6. ASSUME NEW t \in Int, startAt <= t, \A j \in V : rows[j].at <= t => j <= 0
        PROVE  t < rows[m].at /\ ~ offlineAt(B \cup V, t) /\ ~ covers({}, t)
    <3>1. \A j \in V : ~ (rows[j].at <= t)
      BY <1>0, <2>6
    <3>2. \A i : isLast(B \cup V, t, i) <=> i \in B
      BY <2>6, <3>1, NoneVisited
    <3>3. \E j \in V : rows[j].at = rows[m].at
      BY <2>1 DEF Timeline
    <3> QED
      BY <1>2, <2>4, <3>1, <3>2, <3>3 DEF offlineAt, covers
  <2>7. \A j \in V : s.stateSince <= rows[j].at
    BY <1>0, <2>1, <2>3
  <2>8. \A t \in Int : t < rows[m].at => ~ (t >= rows[m].at)
    BY <2>4
  <2> QED
    <3>1. ASSUME NEW t \in Int, startAt <= t, \A j \in V : rows[j].at <= t => j <= 0
          PROVE  /\ ~ (t >= s.stateSince)
                 /\ covers(s.offline, t) <=> offlineAt(B \cup V, t)
      BY <2>3, <2>6, <2>8, <3>1
    <3>2. \A g \in s.offline : g.to <= s.stateSince
      BY <2>3
    <3>3. startAt <= s.stateSince /\ s.stateSince <= now
      BY <2>3, <2>4
    <3> QED
      BY <2>5, <2>7, <3>1, <3>2, <3>3 DEF OnlineInv
<1> QED
  BY <1>1, <1>2

LEMMA OnlineGoesOn ==
    ASSUME HistoryInv, NEW P, NEW B, NEW V, Timeline(P, B, V),
           \A i \in P : rows[i].at <= now,
           NEW n \in 1..Len(rows), NEW s, OnlineInv(B \cup V, V, n - 1, s),
           NEW u, u = IF n \in V THEN visitPoint(s, n) ELSE s
    PROVE  OnlineInv(B \cup V, V, n, u)
<1> DEFINE K == B \cup V
<1>0. /\ \A j \in V : j \in Int /\ j > 0 /\ rows[j].at \in Int /\ rows[j].at <= now
      /\ \A i, j \in V : i <= j => rows[i].at <= rows[j].at
      /\ startAt \in Int /\ now \in Int
      /\ n \in Int /\ V \subseteq DOMAIN rows
      /\ \A j \in V : startAt <= rows[j].at
  BY RowsInOrder DEF Timeline
<1>1. CASE n \notin V
  <2>1. u = s /\ \A j \in V : (j > n <=> j > n - 1) /\ (j <= n <=> j <= n - 1)
    BY <1>0, <1>1
  <2> QED
    BY <2>1 DEF OnlineInv
<1>2. ASSUME n \in V PROVE OnlineInv(K, V, n, u)
  <2> DEFINE at == rows[n].at
  <2>1. /\ s \in OnlineStates /\ s.stateSince \in Int /\ s.isOnline \in BOOLEAN
        /\ startAt <= s.stateSince /\ s.stateSince <= at
        /\ \A g \in s.offline : g.to <= s.stateSince
        /\ at \in Int /\ at <= now /\ startAt <= at
    BY <1>0, <1>2 DEF OnlineInv, OnlineStates
  <2>2. ASSUME NEW t \in Int, startAt <= t, \A j \in V : rows[j].at <= t => j <= n, at <= t
        PROVE  offlineAt(K, t) <=> rows[n].value # 2
    <3>1. \A i : isLast(K, t, i) <=> i = n
      BY <1>2, <2>2, VisitedLast
    <3> QED
      BY <1>2, <3>1 DEF offlineAt
  <2>3. ASSUME NEW t \in Int, startAt <= t, \A j \in V : rows[j].at <= t => j <= n, t < at
        PROVE  /\ t >= s.stateSince => (offlineAt(K, t) <=> ~ s.isOnline)
               /\ t < s.stateSince => (covers(s.offline, t) <=> offlineAt(K, t))
    <3>1. \A j \in V : rows[j].at <= t => j <= n - 1
      BY <1>0, <2>3, ReachedBefore
    <3> QED
      BY <2>3, <3>1 DEF OnlineInv
  <2>4. \A j \in V : j > n => at <= rows[j].at
    BY <1>0, <1>2
  <2> HIDE DEF at, K
  <2>5. CASE (rows[n].value = 2) = s.isOnline
    <3>1. u = s
      BY <1>2, <2>5 DEF visitPoint
    <3>2. \A j \in V : j > n => s.stateSince <= rows[j].at
      BY <1>0, <2>1, <2>4
    <3>3. ASSUME NEW t \in Int, startAt <= t, \A j \in V : rows[j].at <= t => j <= n
          PROVE  /\ t >= s.stateSince => (offlineAt(K, t) <=> ~ s.isOnline)
                 /\ t < s.stateSince => (covers(s.offline, t) <=> offlineAt(K, t))
      <4>1. CASE at <= t
        BY <2>1, <2>2, <2>5, <3>3, <4>1
      <4>2. CASE t < at
        BY <2>3, <3>3, <4>2
      <4> QED
        BY <2>1, <4>1, <4>2
    <3> QED
      BY <2>1, <3>1, <3>2, <3>3 DEF OnlineInv
  <2>6. CASE (rows[n].value = 2) # s.isOnline
    <3> DEFINE C == closeInterval(s, at)
    <3>1. u = [isOnline |-> rows[n].value = 2, stateSince |-> at, offline |-> C]
      BY <1>2, <2>6 DEF visitPoint, at
    <3>2. /\ C \subseteq Windows
          /\ \A g \in C : g.to <= at
          /\ \A t \in Int : covers(C, t) <=>
                covers(s.offline, t) \/ (~ s.isOnline /\ s.stateSince <= t /\ t < at)
      BY <2>1, CloseIs
    <3> HIDE DEF C
    <3>3. u.isOnline = (rows[n].value = 2) /\ u.stateSince = at /\ u.offline = C
      BY <3>1
    <3>4. u \in OnlineStates
      <4> DEFINE on == rows[n].value = 2
      <4>1. on \in BOOLEAN /\ C \in SUBSET Windows
        BY <3>2
      <4>2. u = [isOnline |-> on, stateSince |-> at, offline |-> C]
        BY <3>1
      <4> HIDE DEF on
      <4> QED
        BY <2>1, <4>1, <4>2 DEF OnlineStates
    <3>6. u.isOnline <=> rows[n].value = 2
      BY <3>3
    <3>5. ASSUME NEW t \in Int, startAt <= t, \A j \in V : rows[j].at <= t => j <= n
          PROVE  /\ t >= at => (offlineAt(K, t) <=> ~ u.isOnline)
                 /\ t < at => (covers(C, t) <=> offlineAt(K, t))
      <4>1. CASE at <= t
        <5>1. offlineAt(K, t) <=> rows[n].value # 2
          BY <2>2, <3>5, <4>1
        <5>2. ~ (t < at)
          BY <2>1, <4>1
        <5> QED
          BY <3>6, <5>1, <5>2
      <4>2. CASE t < at
        <5>1. covers(C, t) <=> covers(s.offline, t) \/ (~ s.isOnline /\ s.stateSince <= t)
          BY <3>2, <4>2
        <5>2. s.stateSince <= t => ~ covers(s.offline, t)
          <6>1. \A g \in s.offline : g.to \in Int
            BY <2>1 DEF OnlineStates, Windows
          <6> QED
            BY <2>1, <6>1 DEF covers
        <5>3. ~ (t >= at)
          BY <2>1, <4>2
        <5> QED
          BY <2>1, <2>3, <3>5, <4>2, <5>1, <5>2, <5>3
      <4> QED
        BY <2>1, <4>1, <4>2
    <3> QED
      BY <2>1, <2>4, <3>2, <3>3, <3>4, <3>5 DEF OnlineInv
  <2> QED
    BY <2>5, <2>6
<1> QED
  BY <1>1, <1>2

LEMMA OnlineLoop ==
    ASSUME HistoryInv, NEW P, NEW B, NEW V, Timeline(P, B, V), V = latestPerInstant(P), P # {},
           \A i \in P : rows[i].at <= now,
           NEW f, f = onlineStates(P, B)
    PROVE  OnlineInv(B \cup V, V, Len(rows), f[Len(rows)])
<1> DEFINE N == Len(rows)
           G == {n \in 0..N : OnlineInv(B \cup V, V, n, f[n])}
<1>1. /\ N \in Nat
      /\ f[0] = initialState(P, B)
      /\ \A n \in 1..N : f[n] = IF n \in V THEN visitPoint(f[n - 1], n) ELSE f[n - 1]
  BY RowsInOrder, OnlinePass
<1>2. 0 \in G
  BY <1>1, OnlineBegins
<1>3. ASSUME NEW n \in 1..N, n - 1 \in G PROVE n \in G
  <2>1. OnlineInv(B \cup V, V, n - 1, f[n - 1]) /\ n \in 1..Len(rows) /\ n \in 0..N
    BY <1>3
  <2>2. f[n] = IF n \in V THEN visitPoint(f[n - 1], n) ELSE f[n - 1]
    BY <1>1
  <2>3. OnlineInv(B \cup V, V, n, f[n])
    BY <2>1, <2>2, OnlineGoesOn
  <2> QED
    BY <2>1, <2>3
<1>4. \A n \in 0..N : n \in G
  <2> HIDE DEF G, N
  <2> QED
    BY <1>1, <1>2, <1>3, Along
<1>5. N \in 0..N
  BY <1>1
<1> QED
  BY <1>4, <1>5

\* The last of the points is the last of all.
LEMMA LastOfTimeline ==
    ASSUME HistoryInv, NEW P, NEW B, NEW V, Timeline(P, B, V), P # {},
           \A i \in P : rows[i].at <= now
    PROVE  /\ MaxOf(P) \in V /\ MaxOf(B \cup P) = MaxOf(P)
           /\ \A j \in B \cup P : j <= MaxOf(P)
           /\ \A i : isLast(B \cup V, now, i) <=> i = MaxOf(P)
<1> DEFINE m == MaxOf(P)
<1>0. /\ Len(rows) \in Nat /\ now \in Int
      /\ \A j \in B \cup P : j \in Int /\ j \in 0..Len(rows)
      /\ V \subseteq P /\ P \subseteq B \cup P
  BY RowsInOrder DEF Timeline
<1>1. m \in P /\ \A j \in P : j <= m
  <2>1. P \subseteq 0..Len(rows)
    BY <1>0
  <2> QED
    BY <1>0, <2>1, MaxOfSpec
<1>2. MaxOf(B \cup P) \in B \cup P /\ \A j \in B \cup P : j <= MaxOf(B \cup P)
  <2>1. B \cup P \subseteq 0..Len(rows) /\ B \cup P # {}
    BY <1>0
  <2> HIDE DEF m
  <2> QED
    BY <1>0, <2>1, MaxOfSpec
<1> HIDE DEF m
<1>3. PICK j \in V : m <= j /\ rows[j].at = rows[m].at
  BY <1>1 DEF Timeline
<1>4. j = m
  BY <1>0, <1>1, <1>3
<1>5. \A b \in B : b <= m
  BY <1>3, <1>4 DEF Timeline
<1>6. \A k \in B \cup P : k <= m
  BY <1>1, <1>5
<1>7. MaxOf(B \cup P) = m
  <2>1. MaxOf(B \cup P) \in Int /\ m \in Int /\ MaxOf(B \cup P) <= m /\ m <= MaxOf(B \cup P)
    BY <1>0, <1>1, <1>2, <1>6
  <2> QED
    BY <2>1
<1>8. \A i : isLast(B \cup V, now, i) <=> i = m
  <2>1. m \in V /\ rows[m].at <= now /\ \A k \in V : rows[k].at <= now => k <= m
    BY <1>0, <1>1, <1>3, <1>4
  <2> QED
    BY <1>0, <2>1, VisitedLast
<1> QED
  BY <1>3, <1>4, <1>6, <1>7, <1>8 DEF m

LEMMA PointsOf ==
    ASSUME HistoryInv, NEW metric
    PROVE  \A i \in parsed(listTelemetryByMetricContains(metric)) : rows[i].at <= now
BY DEF parsed, listTelemetryByMetricContains, listTelemetryWindow

LEMMA OnlineHistoryHolds ==
    ASSUME HistoryInv
    PROVE  OnlineStateHistory
<1> DEFINE P == parsed(listTelemetryByMetricContains("online_state"))
           B == parsed(getLatestBeforeMetricContains("online_state", startAt))
           V == latestPerInstant(P)
           end == onlineStates(P, B)[Len(rows)]
           C == closeInterval(end, now)
           shownState == getInverterConnectivity
<1> SUFFICES ASSUME P # {}
             PROVE  /\ showsOffline(shownState, LAMBDA t : replay(B \cup P, t, LAMBDA v : v # 2))
                    /\ shownState.isOnline = (rows[MaxOf(P)].value = 2)
  BY DEF OnlineStateHistory
<1>1. shownState = [end EXCEPT !.offline = C]
  BY DEF getInverterConnectivity, summarizeInverterOnlineStates
<1>2. Timeline(P, B, V) /\ \A i \in P : rows[i].at <= now
  <2>1. "online_state" \notin Phases
    BY HistoryAssumption
  <2>2. \A i \in P : rows[i].at <= now
    BY PointsOf
  <2>3. P = parsed(listTelemetryByMetricContains("online_state"))
        /\ B = parsed(getLatestBeforeMetricContains("online_state", startAt))
        /\ V = latestPerInstant(P)
    OBVIOUS
  <2> HIDE DEF P, B, V
  <2> QED
    BY <2>1, <2>2, <2>3, TimelineOf
<1>3. V = latestPerInstant(P)
  OBVIOUS
<1> HIDE DEF P, B, V, shownState
<1>4. OnlineInv(B \cup V, V, Len(rows), end)
  BY <1>2, <1>3, OnlineLoop
<1> HIDE DEF end
<1>5. /\ now \in Int /\ startAt \in Int /\ startAt <= now
      /\ \A j \in V : j <= Len(rows)
  BY <1>2, RowsInOrder DEF Timeline
<1>6. /\ end \in OnlineStates
      /\ startAt <= end.stateSince /\ end.stateSince <= now
      /\ \A g \in end.offline : g.to <= end.stateSince
      /\ \A t \in Int : startAt <= t =>
            /\ t >= end.stateSince => (offlineAt(B \cup V, t) <=> ~ end.isOnline)
            /\ t < end.stateSince => (covers(end.offline, t) <=> offlineAt(B \cup V, t))
  BY <1>4, <1>5 DEF OnlineInv
<1>7. /\ \A t \in Int : covers(C, t) <=>
            covers(end.offline, t) \/ (~ end.isOnline /\ end.stateSince <= t /\ t < now)
  BY <1>5, <1>6, CloseIs
<1> HIDE DEF C
<1>8. /\ shownState.isOnline = end.isOnline /\ shownState.stateSince = end.stateSince
      /\ shownState.offline = C
      /\ end.isOnline \in BOOLEAN /\ end.stateSince \in Int
      /\ \A g \in end.offline : g.to \in Int
  BY <1>1, <1>6 DEF OnlineStates, Windows
<1>9. ASSUME NEW t \in startAt..(now - 1)
      PROVE  /\ covers(shownState.offline, t) <=> replay(B \cup P, t, LAMBDA v : v # 2)
             /\ t >= shownState.stateSince =>
                   shownState.isOnline = ~ replay(B \cup P, t, LAMBDA v : v # 2)
  <2>1. replay(B \cup P, t, LAMBDA v : v # 2) <=> offlineAt(B \cup V, t)
    <3>1. \A i : i \in lastUpTo(B \cup P, t) <=> isLast(B \cup V, t, i)
      <4>1. \A i : i \in lastUpTo(B \cup P, t) <=> isLast(B \cup P, t, i)
        <5>1. B \cup P \subseteq DOMAIN rows
          BY <1>2 DEF Timeline
        <5> QED
          BY <5>1, LastIs
      <4>2. \A i : isLast(B \cup P, t, i) <=> isLast(B \cup V, t, i)
        BY <1>2, LastIsVisited
      <4> QED
        BY <4>1, <4>2
    <3>2. replay(B \cup P, t, LAMBDA v : v # 2)
            <=> \E i \in lastUpTo(B \cup P, t) : rows[i].value # 2
      BY DEF replay
    <3>3. \A i : isLast(B \cup V, t, i) => i \in B \cup V
      BY DEF isLast
    <3> QED
      BY <3>1, <3>2, <3>3 DEF offlineAt
  <2>2. t \in Int /\ startAt <= t /\ t < now
    BY <1>5
  <2>3. covers(C, t) <=> offlineAt(B \cup V, t)
    <3>1. CASE t >= end.stateSince
      <4>1. ~ covers(end.offline, t)
        BY <1>6, <1>8, <2>2, <3>1 DEF covers
      <4> QED
        BY <1>6, <1>7, <1>8, <2>2, <3>1, <4>1
    <3>2. CASE t < end.stateSince
      BY <1>6, <1>7, <1>8, <2>2, <3>2
    <3> QED
      BY <1>8, <2>2, <3>1, <3>2
  <2>4. t >= end.stateSince => (offlineAt(B \cup V, t) <=> ~ end.isOnline)
    BY <1>6, <2>2
  <2>5. replay(B \cup P, t, LAMBDA v : v # 2) \in BOOLEAN
    BY DEF replay
  <2> QED
    BY <1>8, <2>1, <2>3, <2>4, <2>5
<1>10. shownState.isOnline = (rows[MaxOf(P)].value = 2)
  <2>1. \A i : isLast(B \cup V, now, i) <=> i = MaxOf(P)
    BY <1>2, LastOfTimeline
  <2>2. MaxOf(P) \in V
    BY <1>2, LastOfTimeline
  <2>3. offlineAt(B \cup V, now) <=> rows[MaxOf(P)].value # 2
    BY <2>1, <2>2 DEF offlineAt
  <2>4. offlineAt(B \cup V, now) <=> ~ end.isOnline
    BY <1>5, <1>6, <1>8
  <2> QED
    BY <1>8, <2>3, <2>4
<1> QED
  BY <1>9, <1>10 DEF showsOffline, instants

\* The history of an inverter that reports online_state is that of its last
\* report, for any rows.
THEOREM OnlineStatesAreShown == HistorySpec => []OnlineStateHistory
BY HistoryCorrect, OnlineHistoryHolds, PTL

-----------------------------------------------------------------------------
(* Faults.                                                                   *)

\* The mask after a place.
maskAfter(n) ==
    LET upTo == {j \in faultPoints : j <= n}
    IN  IF upTo = {} THEN faultBaseline ELSE rows[MaxOf(upTo)].value

isChange(n) == n \in faultPoints /\ rows[n].value # maskBefore(n)

\* Since when a bit of the mask has been active.
sinceOf(s, b) == IF b \in DOMAIN s.active THEN s.active[b] ELSE startAt

\* The last mask up to t has the bit.
faultyAt(K, t, b) == \E i \in K : isLast(K, t, i) /\ b \in rows[i].value

ofBit(incidents, b) == {g \in incidents : g.bit = b}

\* After place n the incidents that are over, and the bits of the mask since
\* they became active, say for each instant whose masks have been visited
\* which bits were active.  The loop knows the bits of the mask only once it
\* has visited a change.
FaultInv(K, n, s) ==
    /\ \A g \in s.over : g.from \in Int /\ g.to \in Int /\ g.open = FALSE
    /\ DOMAIN s.active \subseteq maskAfter(n)
    /\ (\E j \in faultPoints : j <= n /\ isChange(j)) => DOMAIN s.active = maskAfter(n)
    /\ \A b \in DOMAIN s.active : s.active[b] \in Int
    /\ \A j \in faultPoints : j > n =>
          /\ \A g \in s.over : g.to <= rows[j].at
          /\ \A b \in DOMAIN s.active : s.active[b] <= rows[j].at
    /\ \A b : \A t \in Int :
          startAt <= t /\ (\A j \in faultPoints : rows[j].at <= t => j <= n) =>
             (faultyAt(K, t, b) <=> \/ covers(ofBit(s.over, b), t)
                                    \/ b \in maskAfter(n) /\ sinceOf(s, b) <= t)

LEMMA MaskIs ==
    ASSUME HistoryInv, faultPoints \subseteq DOMAIN rows, NEW n \in 1..Len(rows)
    PROVE  /\ maskAfter(n) = IF n \in faultPoints THEN rows[n].value ELSE maskAfter(n - 1)
           /\ maskBefore(n) = maskAfter(n - 1)
<1> DEFINE upTo == {j \in faultPoints : j <= n}
<1>0. /\ Len(rows) \in Nat /\ n \in Int
      /\ \A j \in faultPoints : j \in Int /\ j \in 0..Len(rows)
  BY RowsInOrder
<1>1. {j \in faultPoints : j < n} = {j \in faultPoints : j <= n - 1}
  BY <1>0
<1>2. maskBefore(n) = maskAfter(n - 1)
  BY <1>1 DEF maskBefore, maskAfter
<1>3. CASE n \in faultPoints
  <2>1. upTo \subseteq 0..Len(rows) /\ n \in upTo /\ \A j \in upTo : j \in Int /\ j <= n
    BY <1>0, <1>3
  <2>2. MaxOf(upTo) = n
    <3> HIDE DEF upTo
    <3>1. MaxOf(upTo) \in upTo /\ n <= MaxOf(upTo)
      BY <1>0, <2>1, MaxOfSpec
    <3>2. MaxOf(upTo) <= n /\ MaxOf(upTo) \in Int
      BY <2>1, <3>1
    <3> QED
      BY <1>0, <3>1, <3>2
  <2> QED
    BY <1>2, <1>3, <2>1, <2>2 DEF maskAfter
<1>4. CASE n \notin faultPoints
  <2>1. upTo = {j \in faultPoints : j <= n - 1}
    BY <1>0, <1>4
  <2> QED
    BY <1>2, <1>4, <2>1 DEF maskAfter
<1> QED
  BY <1>3, <1>4

\* A change in the words of the loop.
LEMMA ChangeIs ==
    ASSUME NEW c, NEW s, NEW u, u = visitChange(c, s)
    PROVE  /\ DOMAIN u.active = c.to
           /\ \A b \in c.to : u.active[b] = IF b \in (DOMAIN s.active) \cup c.from
                                            THEN sinceOf(s, b) ELSE c.at
           /\ \A g : g \in u.over <=>
                 \/ g \in s.over
                 \/ \E b \in ((DOMAIN s.active) \cup c.from) \ c.to :
                       g = [bit |-> b, from |-> sinceOf(s, b), to |-> c.at, open |-> FALSE]
<1> DEFINE D == (DOMAIN s.active) \cup c.from
           k == [b \in D |-> IF b \in DOMAIN s.active THEN s.active[b] ELSE startAt]
           a == [b \in c.to |-> IF b \in DOMAIN k THEN k[b] ELSE c.at]
           o == s.over \cup {[bit |-> b, from |-> k[b], to |-> c.at, open |-> FALSE]
                                 : b \in (DOMAIN k) \ c.to}
<1>1. u = [active |-> a, over |-> o]
  BY DEF visitChange
<1>2. u.active = a /\ u.over = o
  BY <1>1
<1>3. DOMAIN k = D /\ \A b \in D : k[b] = sinceOf(s, b)
  BY DEF sinceOf
<1> HIDE DEF k, D
<1>4. DOMAIN a = c.to /\ \A b \in c.to : a[b] = IF b \in D THEN sinceOf(s, b) ELSE c.at
  BY <1>3
<1>5. \A g : g \in o <=> \/ g \in s.over
                         \/ \E b \in D \ c.to :
                               g = [bit |-> b, from |-> sinceOf(s, b), to |-> c.at, open |-> FALSE]
  BY <1>3
<1> HIDE DEF a, o
<1> QED
  BY <1>2, <1>4, <1>5 DEF D

LEMMA FaultBegins ==
    ASSUME HistoryInv, NEW P, NEW B, Timeline(P, B, faultPoints),
           B = parsed(getLatestBeforeMetricContains("fault_param", startAt)),
           NEW s, s = [active |-> [b \in {} |-> 0], over |-> {}]
    PROVE  FaultInv(B \cup faultPoints, 0, s)
<1>0. /\ faultPoints \subseteq DOMAIN rows /\ B \subseteq DOMAIN rows
      /\ \A j \in faultPoints : j \in Int /\ ~ (j <= 0)
      /\ \A b, c \in B : b = c
      /\ Len(rows) \in Nat /\ B \subseteq 0..Len(rows)
  BY RowsInOrder DEF Timeline
<1>1. DOMAIN s.active = {} /\ s.over = {}
  OBVIOUS
<1>2. maskAfter(0) = IF B = {} THEN {} ELSE rows[MaxOf(B)].value
  <2>1. {j \in faultPoints : j <= 0} = {}
    BY <1>0
  <2> QED
    BY <2>1 DEF maskAfter, faultBaseline
<1>3. \A b : b \in maskAfter(0) <=> \E i \in B : b \in rows[i].value
  <2>1. CASE B = {}
    BY <1>2, <2>1
  <2>2. CASE B # {}
    <3>1. MaxOf(B) \in B
      BY <1>0, <2>2, MaxOfSpec
    <3> QED
      BY <1>0, <1>2, <2>2, <3>1
  <2> QED
    BY <2>1, <2>2
<1>4. ASSUME NEW b, NEW t \in Int, startAt <= t, \A j \in faultPoints : rows[j].at <= t => j <= 0
      PROVE  faultyAt(B \cup faultPoints, t, b) <=>
                \/ covers(ofBit(s.over, b), t)
                \/ b \in maskAfter(0) /\ sinceOf(s, b) <= t
  <2>1. \A j \in faultPoints : ~ (rows[j].at <= t)
    BY <1>0, <1>4
  <2>2. \A i : isLast(B \cup faultPoints, t, i) <=> i \in B
    BY <1>4, <2>1, NoneVisited
  <2>3. ~ covers(ofBit(s.over, b), t)
    BY <1>1 DEF covers, ofBit
  <2>4. sinceOf(s, b) <= t
    BY <1>1, <1>4 DEF sinceOf
  <2>5. faultyAt(B \cup faultPoints, t, b) <=> \E i \in B : b \in rows[i].value
    BY <2>2 DEF faultyAt
  <2> QED
    BY <1>3, <2>3, <2>4, <2>5
<1>5. ~ \E j \in faultPoints : j <= 0 /\ isChange(j)
  BY <1>0
<1> QED
  BY <1>1, <1>4, <1>5 DEF FaultInv

LEMMA FaultGoesOn ==
    ASSUME HistoryInv, NEW P, NEW B, Timeline(P, B, faultPoints),
           NEW n \in 1..Len(rows), NEW s, FaultInv(B \cup faultPoints, n - 1, s),
           NEW u, u = IF isChange(n) THEN visitChange(getInverterFaultChanges[n], s) ELSE s
    PROVE  FaultInv(B \cup faultPoints, n, u)
<1> DEFINE K == B \cup faultPoints
           W == maskAfter(n - 1)
           M == maskAfter(n)
<1>0. /\ \A j \in faultPoints : j \in Int /\ rows[j].at \in Int /\ startAt <= rows[j].at
      /\ \A i, j \in faultPoints : i <= j => rows[i].at <= rows[j].at
      /\ startAt \in Int /\ n \in Int
      /\ faultPoints \subseteq DOMAIN rows
  BY RowsInOrder DEF Timeline
<1>1. /\ M = IF n \in faultPoints THEN rows[n].value ELSE W
      /\ maskBefore(n) = W
  BY <1>0, MaskIs
<1>2. /\ \A g \in s.over : g.from \in Int /\ g.to \in Int /\ g.open = FALSE
      /\ DOMAIN s.active \subseteq W
      /\ (\E j \in faultPoints : j <= n - 1 /\ isChange(j)) => DOMAIN s.active = W
      /\ \A b \in DOMAIN s.active : s.active[b] \in Int
      /\ \A j \in faultPoints : j > n - 1 =>
            /\ \A g \in s.over : g.to <= rows[j].at
            /\ \A b \in DOMAIN s.active : s.active[b] <= rows[j].at
      /\ \A b : \A t \in Int :
            startAt <= t /\ (\A j \in faultPoints : rows[j].at <= t => j <= n - 1) =>
               (faultyAt(K, t, b) <=> \/ covers(ofBit(s.over, b), t)
                                      \/ b \in W /\ sinceOf(s, b) <= t)
  BY DEF FaultInv
<1>3. \A j \in faultPoints : j > n => j > n - 1
  BY <1>0
<1>4. \A b : sinceOf(s, b) \in Int
  BY <1>0, <1>2 DEF sinceOf
\* Instants before the row at n.
<1>5. ASSUME NEW b, NEW t \in Int, startAt <= t, \A j \in faultPoints : rows[j].at <= t => j <= n,
             n \notin faultPoints \/ t < rows[n].at
      PROVE  faultyAt(K, t, b) <=> \/ covers(ofBit(s.over, b), t)
                                   \/ b \in W /\ sinceOf(s, b) <= t
  <2>1. \A j \in faultPoints : rows[j].at <= t => j <= n - 1
    BY <1>0, <1>5, ReachedBefore
  <2> QED
    BY <1>2, <1>5, <2>1
\* Instants from the row at n on.
<1>6. ASSUME NEW b, NEW t \in Int, \A j \in faultPoints : rows[j].at <= t => j <= n,
             n \in faultPoints, rows[n].at <= t
      PROVE  faultyAt(K, t, b) <=> b \in M
  <2>1. \A i : isLast(K, t, i) <=> i = n
    BY <1>6, VisitedLast
  <2>2. n \in K
    BY <1>6
  <2>3. M = rows[n].value
    BY <1>1, <1>6
  <2> HIDE DEF K, M
  <2> QED
    BY <2>1, <2>2, <2>3 DEF faultyAt
<1>7. n \in faultPoints =>
         /\ \A g \in s.over : g.to <= rows[n].at
         /\ \A b : sinceOf(s, b) <= rows[n].at
  BY <1>0, <1>2 DEF sinceOf
<1> HIDE DEF K, W, M
<1>8. CASE ~ isChange(n)
  <2>1. u = s
    BY <1>8
  <2>2. M = W
    BY <1>1, <1>8 DEF isChange
  <2>3. (\E j \in faultPoints : j <= n /\ isChange(j)) => DOMAIN s.active = M
    <3>1. \A j \in faultPoints : j <= n /\ isChange(j) => j <= n - 1
      <4> TAKE j \in faultPoints
      <4> HAVE j <= n /\ isChange(j)
      <4>1. j # n /\ j \in Int
        BY <1>0, <1>8
      <4> QED
        BY <1>0, <4>1
    <3> QED
      BY <1>2, <2>2, <3>1
  <2>4. ASSUME NEW b, NEW t \in Int, startAt <= t, \A j \in faultPoints : rows[j].at <= t => j <= n
        PROVE  faultyAt(K, t, b) <=> \/ covers(ofBit(s.over, b), t)
                                     \/ b \in M /\ sinceOf(s, b) <= t
    <3>1. CASE n \notin faultPoints \/ t < rows[n].at
      BY <1>5, <2>2, <2>4, <3>1
    <3>2. CASE n \in faultPoints /\ rows[n].at <= t
      <4>1. ~ covers(ofBit(s.over, b), t)
        BY <1>0, <1>2, <1>7, <3>2 DEF covers, ofBit
      <4>2. sinceOf(s, b) <= t
        BY <1>0, <1>4, <1>7, <3>2
      <4> QED
        BY <1>6, <2>4, <3>2, <4>1, <4>2
    <3> QED
      BY <1>0, <3>1, <3>2
  <2> QED
    BY <1>2, <1>3, <2>1, <2>2, <2>3, <2>4 DEF FaultInv, K, M
<1>9. CASE isChange(n)
  <2> DEFINE c == getInverterFaultChanges[n]
             at == rows[n].at
  <2>0. n \in faultPoints /\ at \in Int
    BY <1>0, <1>9 DEF isChange
  <2>1. c.at = at /\ c.from = W /\ c.to = M
    <3>1. c = [at |-> rows[n].at, from |-> maskBefore(n), to |-> rows[n].value]
      BY <1>9 DEF getInverterFaultChanges, isChange
    <3>2. M = rows[n].value
      BY <1>1, <2>0
    <3> HIDE DEF c
    <3> QED
      BY <1>1, <3>1, <3>2
  <2>2. /\ DOMAIN u.active = c.to
        /\ \A b \in c.to : u.active[b] = IF b \in (DOMAIN s.active) \cup c.from
                                         THEN sinceOf(s, b) ELSE c.at
        /\ \A g : g \in u.over <=>
              \/ g \in s.over
              \/ \E b \in ((DOMAIN s.active) \cup c.from) \ c.to :
                    g = [bit |-> b, from |-> sinceOf(s, b), to |-> c.at, open |-> FALSE]
    <3>1. u = visitChange(c, s)
      BY <1>9
    <3> HIDE DEF c
    <3> QED
      BY <3>1, ChangeIs
  <2> HIDE DEF c, at
  <2>3. (DOMAIN s.active) \cup c.from = W
    BY <1>2, <2>1
  <2>4. /\ DOMAIN u.active = M
        /\ \A b \in M : u.active[b] = IF b \in W THEN sinceOf(s, b) ELSE at
        /\ \A g : g \in u.over <=>
              \/ g \in s.over
              \/ \E b \in W \ M :
                    g = [bit |-> b, from |-> sinceOf(s, b), to |-> at, open |-> FALSE]
    BY <2>1, <2>2, <2>3
  <2>5. \A b \in W \ M : LET g == [bit |-> b, from |-> sinceOf(s, b), to |-> at, open |-> FALSE]
                         IN  /\ g.bit = b /\ g.from = sinceOf(s, b) /\ g.to = at /\ g.open = FALSE
                             /\ g \in u.over
    BY <2>4
  <2>6. \A g \in u.over : \/ g \in s.over
                          \/ /\ g.bit \in W \ M /\ g.from = sinceOf(s, g.bit)
                             /\ g.to = at /\ g.open = FALSE
    BY <2>4
  <2>7. \A g \in u.over : /\ g.from \in Int /\ g.to \in Int /\ g.open = FALSE
                          /\ g.to <= at
    BY <1>2, <1>4, <1>7, <2>0, <2>6 DEF at
  <2>8. \A b \in M : u.active[b] \in Int /\ u.active[b] <= at
    BY <1>4, <1>7, <2>0, <2>4 DEF at
  <2>9. \A j \in faultPoints : j > n => at <= rows[j].at /\ rows[j].at \in Int
    BY <1>0, <2>0 DEF at
  <2>10. ASSUME NEW j \in faultPoints, j > n
         PROVE  /\ \A g \in u.over : g.to <= rows[j].at
                /\ \A b \in DOMAIN u.active : u.active[b] <= rows[j].at
    BY <2>0, <2>4, <2>7, <2>8, <2>9, <2>10
  <2>11. \A b \in M : sinceOf(u, b) = IF b \in W THEN sinceOf(s, b) ELSE at
    BY <2>4 DEF sinceOf
  <2>12. \A b : sinceOf(u, b) \in Int
    BY <1>0, <2>4, <2>8 DEF sinceOf
  <2>13. ASSUME NEW b, NEW t \in Int, t < at
         PROVE  covers(ofBit(u.over, b), t) <=>
                   \/ covers(ofBit(s.over, b), t)
                   \/ b \in W \ M /\ sinceOf(s, b) <= t
    <3>1. ASSUME covers(ofBit(u.over, b), t)
          PROVE  \/ covers(ofBit(s.over, b), t)
                 \/ b \in W \ M /\ sinceOf(s, b) <= t
      <4>1. PICK g \in u.over : g.bit = b /\ g.from <= t /\ t < g.to
        BY <3>1 DEF covers, ofBit
      <4>2. CASE g \in s.over
        BY <4>1, <4>2 DEF covers, ofBit
      <4>3. CASE g.bit \in W \ M /\ g.from = sinceOf(s, g.bit)
        BY <4>1, <4>3
      <4> QED
        BY <2>6, <4>2, <4>3
    <3>2. ASSUME covers(ofBit(s.over, b), t) PROVE covers(ofBit(u.over, b), t)
      <4>1. PICK g \in s.over : g.bit = b /\ g.from <= t /\ t < g.to
        BY <3>2 DEF covers, ofBit
      <4>2. g \in u.over
        BY <2>4
      <4> QED
        BY <4>1, <4>2 DEF covers, ofBit
    <3>3. ASSUME b \in W \ M, sinceOf(s, b) <= t PROVE covers(ofBit(u.over, b), t)
      <4>1. PICK g \in u.over : g.bit = b /\ g.from = sinceOf(s, b) /\ g.to = at
        BY <2>5, <3>3
      <4> QED
        BY <2>13, <3>3, <4>1 DEF covers, ofBit
    <3> QED
      BY <3>1, <3>2, <3>3
  <2>14. ASSUME NEW b, NEW t \in Int, startAt <= t, \A j \in faultPoints : rows[j].at <= t => j <= n
         PROVE  faultyAt(K, t, b) <=> \/ covers(ofBit(u.over, b), t)
                                      \/ b \in M /\ sinceOf(u, b) <= t
    <3>1. CASE t < at
      <4>1. faultyAt(K, t, b) <=> \/ covers(ofBit(s.over, b), t)
                                  \/ b \in W /\ sinceOf(s, b) <= t
        BY <1>5, <2>14, <3>1 DEF at
      <4>2. covers(ofBit(u.over, b), t) <=>
                   \/ covers(ofBit(s.over, b), t)
                   \/ b \in W \ M /\ sinceOf(s, b) <= t
        BY <2>13, <3>1
      <4>3. b \in M => (sinceOf(u, b) <= t <=> b \in W /\ sinceOf(s, b) <= t)
        <5>1. ~ (at <= t)
          BY <2>0, <3>1
        <5> QED
          BY <2>11, <5>1
      <4> QED
        BY <4>1, <4>2, <4>3
    <3>2. CASE at <= t
      <4>1. ~ covers(ofBit(u.over, b), t)
        BY <2>0, <2>7, <3>2 DEF covers, ofBit
      <4>2. b \in M => sinceOf(u, b) <= t
        <5>1. b \in M => sinceOf(u, b) <= at
          BY <2>4, <2>8 DEF sinceOf
        <5> QED
          BY <2>0, <2>12, <3>2, <5>1
      <4>3. faultyAt(K, t, b) <=> b \in M
        BY <1>6, <2>0, <2>14, <3>2 DEF at
      <4> QED
        BY <4>1, <4>2, <4>3
    <3> QED
      BY <2>0, <3>1, <3>2
  <2>15. DOMAIN u.active \subseteq M
    BY <2>4
  <2>16. \A b \in DOMAIN u.active : u.active[b] \in Int
    BY <2>4, <2>8
  <2> QED
    BY <2>4, <2>7, <2>10, <2>14, <2>15, <2>16 DEF FaultInv, K, M
<1> QED
  BY <1>8, <1>9

LEMMA FaultLoop ==
    ASSUME HistoryInv, NEW P, NEW B, Timeline(P, B, faultPoints),
           B = parsed(getLatestBeforeMetricContains("fault_param", startAt)),
           NEW f, f = faultStates(getInverterFaultChanges)
    PROVE  FaultInv(B \cup faultPoints, Len(rows), f[Len(rows)])
<1> DEFINE N == Len(rows)
           G == {n \in 0..N : FaultInv(B \cup faultPoints, n, f[n])}
           changes == getInverterFaultChanges
<1>1. /\ N \in Nat
      /\ f[0] = [active |-> [b \in {} |-> 0], over |-> {}]
      /\ \A n \in 1..N : f[n] = IF n \in DOMAIN changes THEN visitChange(changes[n], f[n - 1])
                                ELSE f[n - 1]
  BY RowsInOrder, FaultPass
<1>2. \A n : n \in DOMAIN changes <=> isChange(n)
  BY DEF getInverterFaultChanges, isChange
<1>3. 0 \in G
  BY <1>1, FaultBegins
<1>4. ASSUME NEW n \in 1..N, n - 1 \in G PROVE n \in G
  <2>1. FaultInv(B \cup faultPoints, n - 1, f[n - 1]) /\ n \in 1..Len(rows) /\ n \in 0..N
    BY <1>4
  <2>2. f[n] = IF isChange(n) THEN visitChange(changes[n], f[n - 1]) ELSE f[n - 1]
    BY <1>1, <1>2
  <2>3. FaultInv(B \cup faultPoints, n, f[n])
    BY <2>1, <2>2, FaultGoesOn
  <2> QED
    BY <2>1, <2>3
<1>5. \A n \in 0..N : n \in G
  <2> HIDE DEF G, N
  <2> QED
    BY <1>1, <1>3, <1>4, Along
<1>6. N \in 0..N
  BY <1>1
<1> QED
  BY <1>5, <1>6

LEMMA IncidentsHold ==
    ASSUME HistoryInv
    PROVE  IncidentsCoverFaults
<1> DEFINE P == parsed(listTelemetryByMetricContains("fault_param"))
           B == parsed(getLatestBeforeMetricContains("fault_param", startAt))
           end == faultStates(getInverterFaultChanges)[Len(rows)]
           D == deriveFaultIncidents(getInverterFaultChanges)
           M == maskAfter(Len(rows))
<1> SUFFICES ASSUME DOMAIN getInverterFaultChanges # {}, NEW b \in FaultBits
             PROVE  /\ \A t \in startAt..(now - 1) :
                          covers(ofBit(D, b), t) <=> replay(B \cup P, t, LAMBDA v : b \in v)
                    /\ (\E i \in D : i.bit = b /\ i.open) <=> b \in rows[MaxOf(B \cup P)].value
  BY DEF IncidentsCoverFaults, instants, ofBit
<1>1. D = end.over \cup {[bit |-> a, from |-> end.active[a], to |-> now, open |-> TRUE]
                            : a \in DOMAIN end.active}
  BY DEF deriveFaultIncidents
<1>2. Timeline(P, B, faultPoints) /\ \A i \in P : rows[i].at <= now
  <2>1. "fault_param" \notin Phases
    BY HistoryAssumption
  <2>2. \A i \in P : rows[i].at <= now
    BY PointsOf
  <2>3. P = parsed(listTelemetryByMetricContains("fault_param"))
        /\ B = parsed(getLatestBeforeMetricContains("fault_param", startAt))
        /\ faultPoints = latestPerInstant(P)
    BY DEF faultPoints
  <2> HIDE DEF P, B
  <2> QED
    BY <2>1, <2>2, <2>3, TimelineOf
<1>3. B = parsed(getLatestBeforeMetricContains("fault_param", startAt))
  OBVIOUS
<1> HIDE DEF P, B, D
<1>4. FaultInv(B \cup faultPoints, Len(rows), end)
  BY <1>2, <1>3, FaultLoop
<1> HIDE DEF end
<1>5. PICK j \in faultPoints : isChange(j)
  BY DEF getInverterFaultChanges, isChange
<1>6. /\ now \in Int /\ startAt \in Int /\ startAt <= now /\ Len(rows) \in Nat
      /\ \A i \in faultPoints : i <= Len(rows) /\ i \in Int /\ i \in P
      /\ P # {}
  BY <1>2, <1>5, RowsInOrder DEF Timeline
<1>7. /\ \A g \in end.over : g.from \in Int /\ g.to \in Int /\ g.open = FALSE
      /\ DOMAIN end.active = M
      /\ \A t \in Int : startAt <= t =>
            (faultyAt(B \cup faultPoints, t, b) <=>
                \/ covers(ofBit(end.over, b), t)
                \/ b \in M /\ end.active[b] <= t)
  <2>1. DOMAIN end.active = M
    BY <1>4, <1>5, <1>6 DEF FaultInv
  <2>2. b \in M => sinceOf(end, b) = end.active[b]
    BY <2>1 DEF sinceOf
  <2>3. ASSUME NEW t \in Int, startAt <= t
        PROVE  faultyAt(B \cup faultPoints, t, b) <=>
                  \/ covers(ofBit(end.over, b), t)
                  \/ b \in M /\ sinceOf(end, b) <= t
    BY <1>4, <1>6, <2>3 DEF FaultInv
  <2>4. \A g \in end.over : g.from \in Int /\ g.to \in Int /\ g.open = FALSE
    BY <1>4 DEF FaultInv
  <2> HIDE DEF M
  <2> QED
    BY <2>1, <2>2, <2>3, <2>4
<1>8. M = rows[MaxOf(P)].value /\ MaxOf(B \cup P) = MaxOf(P)
  <2>1. MaxOf(P) \in faultPoints /\ MaxOf(B \cup P) = MaxOf(P) /\ \A i \in P : i <= MaxOf(P)
    BY <1>2, <1>6, LastOfTimeline
  <2>2. {i \in faultPoints : i <= Len(rows)} = faultPoints
    BY <1>6
  <2>3. MaxOf(faultPoints) = MaxOf(P)
    <3>1. faultPoints \subseteq 0..Len(rows) /\ faultPoints # {}
      BY <1>2, <1>5, RowsInOrder DEF Timeline
    <3>2. MaxOf(faultPoints) \in faultPoints /\ \A i \in faultPoints : i <= MaxOf(faultPoints)
      BY <1>6, <3>1, MaxOfSpec
    <3>3. MaxOf(faultPoints) <= MaxOf(P) /\ MaxOf(P) <= MaxOf(faultPoints)
      BY <1>6, <2>1, <3>2
    <3> QED
      BY <1>6, <2>1, <3>2, <3>3
  <2> QED
    BY <1>5, <2>1, <2>2, <2>3 DEF maskAfter
<1> HIDE DEF M
<1>9. \A g : g \in D <=>
         \/ g \in end.over
         \/ \E a \in M : g = [bit |-> a, from |-> end.active[a], to |-> now, open |-> TRUE]
  BY <1>1, <1>7
<1>10. \A g \in D : \/ g \in end.over
                    \/ g.bit \in M /\ g.from = end.active[g.bit] /\ g.to = now /\ g.open
  BY <1>9
<1>11. b \in M => \E g \in D : g.bit = b /\ g.from = end.active[b] /\ g.to = now /\ g.open
  <2> DEFINE w == [bit |-> b, from |-> end.active[b], to |-> now, open |-> TRUE]
  <2>1. w.bit = b /\ w.from = end.active[b] /\ w.to = now /\ w.open
    OBVIOUS
  <2>2. b \in M => w \in D
    BY <1>9
  <2> QED
    BY <2>1, <2>2
<1>12. ASSUME NEW t \in startAt..(now - 1)
       PROVE  covers(ofBit(D, b), t) <=> replay(B \cup P, t, LAMBDA v : b \in v)
  <2>0. t \in Int /\ startAt <= t /\ t < now
    BY <1>6
  <2>1. replay(B \cup P, t, LAMBDA v : b \in v) <=> faultyAt(B \cup faultPoints, t, b)
    <3>1. \A i : i \in lastUpTo(B \cup P, t) <=> isLast(B \cup faultPoints, t, i)
      <4>1. \A i : i \in lastUpTo(B \cup P, t) <=> isLast(B \cup P, t, i)
        <5>1. B \cup P \subseteq DOMAIN rows
          BY <1>2 DEF Timeline
        <5> QED
          BY <5>1, LastIs
      <4>2. \A i : isLast(B \cup P, t, i) <=> isLast(B \cup faultPoints, t, i)
        BY <1>2, LastIsVisited
      <4> QED
        BY <4>1, <4>2
    <3>2. replay(B \cup P, t, LAMBDA v : b \in v)
            <=> \E i \in lastUpTo(B \cup P, t) : b \in rows[i].value
      BY DEF replay
    <3>3. \A i : isLast(B \cup faultPoints, t, i) => i \in B \cup faultPoints
      BY DEF isLast
    <3> QED
      BY <3>1, <3>2, <3>3 DEF faultyAt
  <2>2. covers(ofBit(D, b), t) <=> \/ covers(ofBit(end.over, b), t)
                                   \/ b \in M /\ end.active[b] <= t
    <3>1. ASSUME covers(ofBit(D, b), t)
          PROVE  \/ covers(ofBit(end.over, b), t)
                 \/ b \in M /\ end.active[b] <= t
      <4>1. PICK g \in D : g.bit = b /\ g.from <= t /\ t < g.to
        BY <3>1 DEF covers, ofBit
      <4>2. CASE g \in end.over
        BY <4>1, <4>2 DEF covers, ofBit
      <4>3. CASE g.bit \in M /\ g.from = end.active[g.bit]
        BY <4>1, <4>3
      <4> QED
        BY <1>10, <4>2, <4>3
    <3>2. ASSUME covers(ofBit(end.over, b), t) PROVE covers(ofBit(D, b), t)
      BY <1>9, <3>2 DEF covers, ofBit
    <3>3. ASSUME b \in M, end.active[b] <= t PROVE covers(ofBit(D, b), t)
      <4>1. PICK g \in D : g.bit = b /\ g.from = end.active[b] /\ g.to = now
        BY <1>11, <3>3
      <4> QED
        BY <2>0, <3>3, <4>1 DEF covers, ofBit
    <3> QED
      BY <3>1, <3>2, <3>3
  <2> QED
    BY <1>7, <2>0, <2>1, <2>2
<1>13. (\E i \in D : i.bit = b /\ i.open) <=> b \in rows[MaxOf(B \cup P)].value
  <2>1. (\E i \in D : i.bit = b /\ i.open) <=> b \in M
    BY <1>7, <1>10, <1>11
  <2> QED
    BY <1>8, <2>1
<1> QED
  BY <1>12, <1>13

\* The incidents of a fault are the times at which the last mask had its bit,
\* for any rows.
THEOREM IncidentsAreFaults == HistorySpec => []IncidentsCoverFaults
BY HistoryCorrect, IncidentsHold, PTL

-----------------------------------------------------------------------------
(* The canvas of a chart.                                                    *)

Samples == {s \in [key : AllKeys, value : {-1, 1, 2}, at : 0..MaxAt] :
               s.key \in keysOf(panel) /\ s.value \in valuesOf(s.key)}

\* The option that the canvas shows, or will once the frame has painted.
\* Unless a zoom came in between, it is that of the component.
due == IF frame = NoFrame THEN painted ELSE frame

\* The chart is in a container of the page as long as that was never empty.
CanvasInv ==
    /\ view = "live" /\ instance # "none" =>
          /\ due \in Options
          /\ due = option \/ (raced /\ [due EXCEPT !.zoom = zoom] = option)
          /\ instance = "attached" => div
    /\ view = "live" /\ ~ emptied => instance = "attached"

ChartInv ==
    /\ panel \in {"power", "grid", "energy"}
    /\ samples \in Seq(Samples) /\ Len(samples) <= MaxSamples
    /\ ChartTypeOK
    /\ CanvasInv

LEMMA KeysOfPanel ==
    ASSUME panel \in {"power", "grid", "energy"}
    PROVE  /\ keysOf(panel) \subseteq AllKeys
           /\ Options \subseteq AnyOptions
           /\ NoFrame \notin Options /\ Blank \notin Options /\ Stale \notin Options
<1>1. keysOf(panel) \subseteq AllKeys
  BY DEF keysOf, AllKeys
<1>2. Options \subseteq AnyOptions
  BY <1>1 DEF Options, AnyOptions
<1> QED
  BY <1>1, <1>2, ChartAssumption

LEMMA ChartInvHolds == ChartInit => ChartInv
<1> SUFFICES ASSUME ChartInit PROVE ChartInv
  OBVIOUS
<1>1. option \in Options
  BY ChartAssumption DEF ChartInit, option, Options
<1>2. samples \in Seq(Samples) /\ Len(samples) <= MaxSamples /\ DOMAIN samples = {}
  BY ChartAssumption DEF ChartInit
<1>3. ChartTypeOK /\ CanvasInv
  BY <1>1, <1>2 DEF ChartInit, ChartTypeOK, CanvasInv
<1> QED
  BY <1>2, <1>3 DEF ChartInit, ChartInv

\* A render asks for the option of the component.
LEMMA RenderShows ==
    ASSUME ChartInv, Render, option' \in Options
    PROVE  ChartInv'
<1>0. UNCHANGED <<samples, panel, view>>
  BY DEF Render
<1>1. UNCHANGED Options
  BY <1>0 DEF Options
<1>2. samples' \in Seq(Samples') /\ UNCHANGED <<keysOf(panel), Len(samples)>>
  <2>1. UNCHANGED Samples
    BY <1>0 DEF Samples
  <2> QED
    BY <1>0, <2>1 DEF ChartInv
<1>3. /\ div' \in BOOLEAN /\ raced' \in BOOLEAN /\ emptied' \in BOOLEAN
      /\ instance' \in {"none", "attached", "detached"}
      /\ frame' = NoFrame \/ frame' \in Options
      /\ painted' \in {Blank, Stale} \/ painted' \in Options
  <2>1. div' \in BOOLEAN
    BY DEF Render
  <2>2. emptied' \in BOOLEAN
    BY DEF Render, ChartInv, ChartTypeOK
  <2> QED
    BY <2>1, <2>2 DEF Render, ChartInv, ChartTypeOK
<1>4. ChartTypeOK'
  BY <1>0, <1>1, <1>2, <1>3 DEF ChartInv, ChartTypeOK
<1>5. CanvasInv'
  <2>1. instance' = "none" <=> instance = "none"
    BY DEF Render
  <2>2. instance # "none" => due' = option'
    <3>1. option' # NoFrame
      BY KeysOfPanel DEF ChartInv
    <3> QED
      BY <3>1 DEF Render, due
  <2>3. /\ instance' = "attached" => div'
        /\ view' = "live" /\ ~ emptied' => instance' = "attached"
    BY DEF Render, ChartInv, CanvasInv
  <2> QED
    BY <1>1, <2>1, <2>2, <2>3 DEF CanvasInv
<1> QED
  BY <1>0, <1>2, <1>4, <1>5 DEF ChartInv

LEMMA ChartInvKept == ChartInv /\ [ChartNext]_chartVars => ChartInv'
<1> SUFFICES ASSUME ChartInv, [ChartNext]_chartVars PROVE ChartInv'
  OBVIOUS
<1>0. /\ panel \in {"power", "grid", "energy"}
      /\ loaded \in 0..MaxSamples /\ selected \subseteq keysOf(panel)
      /\ days \in DayChoices /\ zoom \in {"full", "part"}
      /\ MaxSamples \in Nat /\ WindowMax \in DayChoices
  <2>1. option \in Options
    BY DEF ChartInv, ChartTypeOK
  <2> QED
    BY <2>1, ChartAssumption DEF ChartInv, Options, option
<1>1. ASSUME UNCHANGED <<samples, panel>>
      PROVE  UNCHANGED <<Options, keysOf(panel), Len(samples)>> /\ samples' \in Seq(Samples')
  <2>1. UNCHANGED <<Samples, Options>>
    BY <1>1 DEF Samples, Options
  <2> QED
    BY <1>1, <2>1 DEF ChartInv
\* What is left to show of a step of a panel that keeps its samples.
<1>2. ASSUME UNCHANGED <<samples, panel>>,
             view' \in {"none", "live", "offline"},
             option' \in Options,
             div' \in BOOLEAN, raced' \in BOOLEAN, emptied' \in BOOLEAN,
             instance' \in {"none", "attached", "detached"},
             frame' = NoFrame \/ frame' \in Options,
             painted' \in {Blank, Stale} \/ painted' \in Options,
             CanvasInv'
      PROVE  ChartInv'
  <2>1. ChartTypeOK'
    BY <1>1, <1>2 DEF ChartInv, ChartTypeOK
  <2> QED
    BY <1>1, <1>2, <2>1 DEF ChartInv
<1>3. Len(samples) \in 0..MaxSamples
  BY <1>0 DEF ChartInv
<1>4. /\ view \in {"none", "live", "offline"}
      /\ option \in Options
      /\ div \in BOOLEAN /\ raced \in BOOLEAN /\ emptied \in BOOLEAN
      /\ instance \in {"none", "attached", "detached"}
      /\ frame = NoFrame \/ frame \in Options
      /\ painted \in {Blank, Stale} \/ painted \in Options
  BY DEF ChartInv, ChartTypeOK
<1>5. ASSUME NEW key \in keysOf(panel), NEW value \in valuesOf(key), NEW at \in 0..MaxAt,
             Sample(key, value, at)
      PROVE  ChartInv'
  <2>0. UNCHANGED <<panel, view, loaded, selected, days, zoom, div, instance, frame, painted,
                    raced, emptied>>
    BY <1>5 DEF Sample
  <2>1. UNCHANGED <<Samples, Options, option>>
    BY <2>0 DEF Samples, Options, option
  <2>2. [key |-> key, value |-> value, at |-> at] \in Samples
    <3>1. key \in AllKeys
      BY <1>0, KeysOfPanel
    <3>2. value \in {-1, 1, 2}
      BY <1>5 DEF valuesOf
    <3> QED
      BY <3>1, <3>2 DEF Samples
  <2>3. /\ samples' \in Seq(Samples) /\ Len(samples') = Len(samples) + 1
        /\ Len(samples) < MaxSamples
    BY <1>5, <2>2 DEF Sample, ChartInv
  <2>4. Len(samples') <= MaxSamples
    BY <1>0, <1>3, <2>3
  <2>5. \A i \in DOMAIN samples' :
           /\ samples'[i].key \in keysOf(panel) /\ samples'[i].at \in 0..MaxAt
           /\ samples'[i].value \in valuesOf(samples'[i].key)
    <3>1. \A i \in DOMAIN samples' : samples'[i] \in Samples
      BY <2>3
    <3> QED
      BY <3>1 DEF Samples
  <2>6. ChartTypeOK'
    BY <1>4, <2>0, <2>1, <2>5 DEF ChartTypeOK
  <2>7. CanvasInv'
    <3>1. CanvasInv /\ UNCHANGED due
      BY <2>0 DEF ChartInv, due
    <3> QED
      BY <2>0, <2>1, <3>1 DEF CanvasInv
  <2> QED
    BY <1>0, <2>0, <2>1, <2>3, <2>4, <2>6, <2>7 DEF ChartInv
<1>6. CASE Mount
  <2>1. option' \in Options
    <3>1. selected' \subseteq keysOf(panel)
      BY <1>6 DEF Mount, keysOf
    <3>2. /\ loaded' \in 0..MaxSamples /\ days' \in DayChoices /\ zoom' \in {"full", "part"}
      BY <1>0, <1>3, <1>6 DEF Mount
    <3> QED
      BY <3>1, <3>2 DEF option, Options
  <2>2. instance' # "none" => due' = option'
    <3>1. option' # NoFrame
      BY <1>0, <2>1, KeysOfPanel
    <3> QED
      BY <1>6, <3>1 DEF Mount, due
  <2>3. CanvasInv'
    BY <1>1, <1>6, <2>1, <2>2 DEF CanvasInv, Mount
  <2>4. div' \in BOOLEAN
    BY <1>6 DEF Mount
  <2> QED
    BY <1>2, <1>6, <2>1, <2>3, <2>4 DEF Mount
<1>7. ASSUME NEW key \in keysOf(panel), Toggle(key) PROVE ChartInv'
  <2>1. option' \in Options
    BY <1>0, <1>7 DEF Toggle, option, Options
  <2> QED
    BY <1>7, <2>1, RenderShows DEF Toggle
<1>8. ASSUME NEW choice \in DayChoices, SetDays(choice) PROVE ChartInv'
  <2>1. option' \in Options
    BY <1>0, <1>8 DEF SetDays, option, Options
  <2> QED
    BY <1>8, <2>1, RenderShows DEF SetDays
<1>9. CASE NewSeries
  <2>1. option' \in Options
    BY <1>0, <1>3, <1>9 DEF NewSeries, option, Options
  <2> QED
    BY <1>9, <2>1, RenderShows DEF NewSeries
<1>10. CASE FramePaints
  <2>1. UNCHANGED option
    BY <1>10 DEF FramePaints, option
  <2>2. CanvasInv'
    <3>1. UNCHANGED due
      BY <1>10 DEF FramePaints, due
    <3> QED
      BY <1>1, <1>10, <2>1, <3>1 DEF FramePaints, ChartInv, CanvasInv
  <2> QED
    BY <1>2, <1>4, <1>10, <2>1, <2>2 DEF FramePaints
<1>11. ASSUME NEW z \in {"full", "part"}, ZoomsTo(z) PROVE ChartInv'
  <2>0. /\ UNCHANGED <<samples, panel, view, loaded, selected, days, div, instance, frame, emptied>>
        /\ zoom' = z
    BY <1>11 DEF ZoomsTo
  <2>1. option' = [option EXCEPT !.zoom = z] /\ option' \in Options
    BY <1>0, <2>0 DEF option, Options
  <2>2. raced' \in BOOLEAN
    BY <1>11 DEF ZoomsTo
  <2>3. painted' \in {Blank, Stale} \/ painted' \in Options
    <3>1. CASE painted \in {Blank, Stale}
      BY <1>11, <3>1 DEF ZoomsTo
    <3>2. CASE painted \notin {Blank, Stale}
      <4>1. painted \in Options /\ painted' = [painted EXCEPT !.zoom = z]
        BY <1>4, <1>11, <3>2 DEF ZoomsTo
      <4> QED
        BY <4>1 DEF Options
    <3> QED
      BY <3>1, <3>2
  <2>4. CanvasInv'
    <3> SUFFICES ASSUME view = "live", instance # "none"
                 PROVE  /\ due' \in Options
                        /\ due' = option' \/ (raced' /\ [due' EXCEPT !.zoom = z] = option')
      BY <1>1, <2>0 DEF ChartInv, CanvasInv
    <3>1. /\ due \in Options
          /\ [due EXCEPT !.zoom = z] = option'
      <4>1. /\ due \in Options
            /\ due = option \/ [due EXCEPT !.zoom = zoom] = option
        BY DEF ChartInv, CanvasInv
      <4>2. /\ due.loaded = option.loaded /\ due.selected = option.selected
            /\ due.days = option.days
        BY <4>1 DEF option, Options
      <4> QED
        BY <2>1, <4>1, <4>2 DEF option, Options
    <3>2. CASE frame # NoFrame
      <4>1. due = frame /\ due' = frame
        BY <2>0, <3>2 DEF due
      <4>2. CASE frame.zoom = z
        <5>1. due = [due EXCEPT !.zoom = z]
          BY <3>1, <4>1, <4>2 DEF Options
        <5> QED
          BY <3>1, <4>1, <5>1
      <4>3. CASE frame.zoom # z
        <5>1. raced'
          BY <1>11, <3>2, <4>3 DEF ZoomsTo
        <5> QED
          BY <3>1, <4>1, <5>1
      <4> QED
        BY <4>2, <4>3
    <3>3. CASE frame = NoFrame
      <4>1. due = painted /\ due' = painted'
        BY <2>0, <3>3 DEF due
      <4>2. painted \notin {Blank, Stale}
        BY <1>0, <3>1, <4>1, KeysOfPanel
      <4>3. painted' = [painted EXCEPT !.zoom = z]
        BY <1>11, <4>2 DEF ZoomsTo
      <4> QED
        BY <2>1, <3>1, <4>1, <4>3
    <3> QED
      BY <3>2, <3>3
  <2> QED
    BY <1>2, <1>4, <2>0, <2>1, <2>2, <2>3, <2>4
<1>12. CASE onZoom
  BY <1>11, <1>12 DEF onZoom
<1>13. CASE resetZoom
  BY <1>11, <1>13 DEF resetZoom
<1>14. CASE Unmount
  <2>1. option' \in Options
    BY <1>0, <1>14 DEF Unmount, option, Options
  <2>2. CanvasInv'
    BY <1>14 DEF Unmount, CanvasInv
  <2> QED
    BY <1>2, <1>14, <2>1, <2>2 DEF Unmount
<1>15. CASE bindChartPanel
  <2>1. option' \in Options
    <3>1. selected' \subseteq keysOf(panel)
      BY <1>15 DEF bindChartPanel, keysOf
    <3>2. /\ loaded' \in 0..MaxSamples /\ days' \in DayChoices /\ zoom' \in {"full", "part"}
      BY <1>0, <1>3, <1>15 DEF bindChartPanel
    <3> QED
      BY <3>1, <3>2 DEF option, Options
  <2>2. CanvasInv'
    BY <1>15 DEF bindChartPanel, CanvasInv
  <2> QED
    BY <1>2, <1>4, <1>15, <2>1, <2>2 DEF bindChartPanel
<1>16. ASSUME NEW key \in keysOf(panel), toggleOffline(key) PROVE ChartInv'
  <2>1. option' \in Options
    BY <1>0, <1>16 DEF toggleOffline, renderChart, option, Options
  <2>2. CanvasInv'
    BY <1>16 DEF toggleOffline, renderChart, CanvasInv
  <2> QED
    BY <1>2, <1>4, <1>16, <2>1, <2>2 DEF toggleOffline, renderChart
<1>17. ASSUME NEW choice \in DayChoices, setDaysOffline(choice) PROVE ChartInv'
  <2>1. option' \in Options
    BY <1>0, <1>17 DEF setDaysOffline, renderChart, option, Options
  <2>2. CanvasInv'
    BY <1>17 DEF setDaysOffline, renderChart, CanvasInv
  <2> QED
    BY <1>2, <1>4, <1>17, <2>1, <2>2 DEF setDaysOffline, renderChart
<1>18. CASE UNCHANGED chartVars
  <2>0. UNCHANGED <<samples, panel, view, loaded, selected, days, zoom, div, instance,
                    frame, painted, raced, emptied>>
    BY <1>18 DEF chartVars
  <2>1. UNCHANGED <<option, due>>
    BY <2>0 DEF option, due
  <2>2. CanvasInv'
    BY <1>1, <2>0, <2>1 DEF ChartInv, CanvasInv
  <2> QED
    BY <1>2, <1>4, <2>0, <2>1, <2>2
<1> QED
  BY <1>5, <1>6, <1>7, <1>8, <1>9, <1>10, <1>12, <1>13, <1>14, <1>15, <1>16, <1>17, <1>18
  DEF ChartNext

\* Each key is on an axis of its own unit: a panel has one unit, or two that
\* get two axes.
LEMMA AxisOfUnit ==
    ASSUME panel \in {"power", "grid", "energy"}, NEW drawn, drawn \subseteq keysOf(panel),
           NEW k \in drawn
    PROVE  buildAxisPlan(k, drawn) = unitOf(k)
<1> DEFINE units == {unitOf(x) : x \in drawn}
<1>0. unitOf(k) \in units
  OBVIOUS
<1>1. CASE {"V", "Hz"} \subseteq units
  <2>1. unitOf(k) \in {"V", "Hz"}
    <3>1. panel = "grid"
      <4>1. PICK x \in drawn : unitOf(x) = "V"
        BY <1>1
      <4> QED
        BY <4>1 DEF unitOf, keysOf
    <3> QED
      BY <3>1 DEF unitOf, keysOf
  <2>2. buildAxisPlan(k, drawn) = IF unitOf(k) = "Hz" THEN "Hz" ELSE "V"
    BY <1>1 DEF buildAxisPlan
  <2> QED
    BY <2>1, <2>2
<1>2. CASE ~ ({"V", "Hz"} \subseteq units)
  <2>1. \A u \in units : u = unitOf(k)
    <3> SUFFICES ASSUME NEW x \in drawn PROVE unitOf(x) = unitOf(k)
      OBVIOUS
    <3>1. unitOf(x) \in units
      OBVIOUS
    <3>2. CASE panel = "grid"
      <4>1. unitOf(x) \in {"V", "Hz"} /\ unitOf(k) \in {"V", "Hz"}
        BY <3>2 DEF unitOf, keysOf
      <4> HIDE DEF units
      <4> QED
        BY <1>0, <1>2, <3>1, <4>1
    <3>3. CASE panel # "grid"
      BY <3>3 DEF unitOf, keysOf
    <3> QED
      BY <3>2, <3>3
  <2>2. buildAxisPlan(k, drawn) = CHOOSE u \in units : TRUE
    BY <1>2 DEF buildAxisPlan
  <2> HIDE DEF units
  <2> QED
    BY <1>0, <2>1, <2>2
<1> QED
  BY <1>1, <1>2

\* The panel's types, and that its canvas is that of the component once the
\* frame that is due has painted.
THEOREM ChartCorrect == ChartSpec => []ChartInv
<1>1. ChartInit => ChartInv
  BY ChartInvHolds
<1>2. ChartInv /\ [ChartNext]_chartVars => ChartInv'
  BY ChartInvKept
<1> QED
  BY <1>1, <1>2, PTL DEF ChartSpec

\* The types of a panel.
THEOREM ChartTypes == ChartSpec => []ChartTypeOK
<1>1. ChartInv => ChartTypeOK
  BY DEF ChartInv
<1> QED
  BY <1>1, ChartCorrect, PTL

\* However toggles, other days, soft refreshes, zooms and animation frames
\* interleave, a panel that has had something to draw ever since it was opened
\* ends with what was asked for, unless the user zoomed while a frame was due,
\* and each line is on its unit's axis.
THEOREM CanvasFollows == ChartSpec => []LiveChartFollows
<1>1. ChartInv => LiveChartFollows
  <2> SUFFICES ASSUME ChartInv, view = "live", ~ emptied, frame = NoFrame
               PROVE  /\ div
                      /\ shown = option \/ (raced /\ shown # Blank /\ shown # Stale
                                             /\ [shown EXCEPT !.zoom = zoom] = option)
                      /\ \A k \in visible(option) :
                            buildAxisPlan(k, visible(option)) = unitOf(k)
    BY DEF LiveChartFollows
  <2>1. div /\ shown \in Options
        /\ (shown = option \/ (raced /\ [shown EXCEPT !.zoom = zoom] = option))
    BY DEF ChartInv, CanvasInv, due, shown
  <2>2. shown # Blank /\ shown # Stale
    BY <2>1, KeysOfPanel DEF ChartInv
  <2>3. visible(option) \subseteq keysOf(panel)
    <3>1. visible(option) \subseteq selected
      BY DEF visible, option
    <3>2. selected \subseteq keysOf(panel)
      BY DEF ChartInv, ChartTypeOK, option, Options
    <3> QED
      BY <3>1, <3>2
  <2>4. \A k \in visible(option) : buildAxisPlan(k, visible(option)) = unitOf(k)
    BY <2>3, AxisOfUnit DEF ChartInv
  <2> QED
    BY <2>1, <2>2, <2>4
<1> QED
  BY <1>1, ChartCorrect, PTL

-----------------------------------------------------------------------------
(* The nights of a chart.                                                    *)

LEMMA SunOfBeijing ==
    ASSUME Sunrise < Timezone, Timezone <= Sunset, NEW d \in Int
    PROVE  /\ sunTime(d, Sunrise) = (d + 1) * DayLength + Sunrise
           /\ sunTime(d, Sunset) = d * DayLength + Sunset
<1>0. /\ DayLength \in Nat \ {0} /\ Timezone \in 0..(DayLength - 1)
      /\ Sunrise \in 0..Sunset /\ Sunset \in 0..(DayLength - 1)
  BY ChartAssumption
<1>1. /\ (Sunrise - Timezone) % DayLength = Sunrise - Timezone + DayLength
      /\ (Sunset - Timezone) % DayLength = Sunset - Timezone
  BY <1>0
<1>2. (d + 1) * DayLength \in Int /\ d * DayLength \in Int
  BY <1>0
<1> QED
  BY <1>0, <1>1, <1>2 DEF sunTime

\* Where the sun rises before the offset of the time zone, as in Beijing, and
\* sets after it, the carry to the next day leaves no band for the day: on any
\* chart of any window the whole background is that of the night.
THEOREM NightIsEverywhere ==
    ASSUME Sunrise < Timezone, Timezone <= Sunset, NEW window \in [from : Int, to : Int]
    PROVE  \A b \in buildBeijingDayNightBands(window) : b.night
<1>0. /\ DayLength \in Nat \ {0} /\ Timezone \in 0..(DayLength - 1)
      /\ Sunrise \in 0..Sunset /\ Sunset \in 0..(DayLength - 1)
      /\ window.from \in Int /\ window.to \in Int
  BY ChartAssumption
<1> DEFINE first == dayOf(window.from - DayLength)
           last  == dayOf(window.to + DayLength)
           sun   == [d \in first..last |-> beijingSunriseSunsetMs(d)]
           daylight == {clipBand(sun[d].rise, sun[d].set, window, FALSE) : d \in first..last}
           nights == {clipBand(IF d = first THEN window.from ELSE sun[d - 1].set, sun[d].rise,
                               window, TRUE) : d \in first..last}
           rest == clipBand(sun[last].set, window.to, window, TRUE)
<1>1. buildBeijingDayNightBands(window) = (UNION daylight) \cup (UNION nights) \cup rest
  BY Zenon DEF buildBeijingDayNightBands
<1>2. \A x, y : \A b \in clipBand(x, y, window, TRUE) : b.night
  BY DEF clipBand
<1>3. \A d \in first..last : clipBand(sun[d].rise, sun[d].set, window, FALSE) = {}
  <2> SUFFICES ASSUME NEW d \in first..last
               PROVE  clipBand(sun[d].rise, sun[d].set, window, FALSE) = {}
    OBVIOUS
  <2>1. d \in Int
    OBVIOUS
  <2>2. /\ sun[d].rise = (d + 1) * DayLength + Sunrise
        /\ sun[d].set = d * DayLength + Sunset
    BY <2>1, SunOfBeijing DEF beijingSunriseSunsetMs
  <2>3. (d + 1) * DayLength = d * DayLength + DayLength /\ d * DayLength \in Int
    BY <1>0, <2>1
  <2>4. sun[d].rise \in Int /\ sun[d].set \in Int /\ sun[d].set < sun[d].rise
    BY <1>0, <2>2, <2>3
  <2> HIDE DEF sun
  <2> QED
    BY <1>0, <2>4 DEF clipBand
<1>4. \A b \in UNION nights : b.night
  BY <1>2, Zenon
<1>5. \A b \in rest : b.night
  BY <1>2, Zenon
<1>6. UNION daylight = {}
  BY <1>3, Zenon
<1> HIDE DEF daylight, nights, rest
<1> QED
  BY <1>1, <1>4, <1>5, <1>6

-----------------------------------------------------------------------------
(* The read side as a whole.                                                 *)

LEMMA StepsOfParts ==
    ASSUME [ReadModelNext]_readModelVars
    PROVE  /\ [HistoryNext]_historyVars
           /\ [FleetNext]_fleetVars
           /\ [KpiNext]_kpiVars
           /\ [ChartNext]_chartVars
           /\ [ImportNext]_importVars
<1>1. CASE ReadModelNext
  BY <1>1, Zenon DEF ReadModelNext
<1>2. CASE UNCHANGED readModelVars
  <2>1. UNCHANGED <<historyVars, fleetVars, kpiVars, chartVars, importVars>>
    BY <1>2, Zenon DEF readModelVars
  <2> QED
    BY <2>1, Zenon
<1> QED
  BY <1>1, <1>2

\* A behaviour of the read side is one of each part, so what is proved of the
\* parts holds in it.
THEOREM PartsOfReadModel ==
    ReadModelSpec => HistorySpec /\ FleetSpec /\ KpiSpec /\ ChartSpec /\ ImportSpec
<1>1. ReadModelInit => HistoryInit /\ FleetInit /\ KpiInit /\ ChartInit /\ ImportInit
  BY DEF ReadModelInit
<1> QED
  BY <1>1, StepsOfParts, PTL
  DEF ReadModelSpec, HistorySpec, FleetSpec, KpiSpec, ChartSpec, ImportSpec

\* The types of the five parts.
THEOREM ReadModelTypes == ReadModelSpec => []ReadModelTypeOK
<1>1. HistoryTypeOK /\ FleetTypeOK /\ KpiTypeOK /\ ChartTypeOK /\ ImportTypeOK
        => ReadModelTypeOK
  BY DEF ReadModelTypeOK
<1> QED
  BY <1>1, PartsOfReadModel, HistoryTypes, FleetTypes, KpiTypes, ChartTypes, ImportTypes, PTL

\* All that is proved of the parts, in the composition: what a page shows of
\* the telemetry of a device, of the fleet, of the KPI band, of a canvas, and
\* what an import tells.
THEOREM ReadModelSafe ==
    ReadModelSpec => [](/\ OfflineIsSilence /\ OnlineStateHistory
                        /\ IncidentsCoverFaults /\ ViewsAgree
                        /\ FleetViewsAgree /\ ExportBundleComplete
                        /\ KpisFollow /\ LiveChartFollows /\ ImportAccountsForRows)
BY PartsOfReadModel, SilenceIsShown, OnlineStatesAreShown, IncidentsAreFaults, ViewsOfOneDevice,
   FleetViews, BundleIsComplete, BandFollows, CanvasFollows, RowsAreAccounted, PTL
=============================================================================
