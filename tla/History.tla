------------------------------ MODULE History -------------------------------
(* What the pages make of the telemetry of one device: offline windows of   *)
(* the platform and of an inverter, fault changes and incidents, reverse    *)
(* flow on the detail page and in the fleet list.  Each is recomputed from  *)
(* rows on every request by its own loop over them.                         *)
(*                                                                          *)
(* Time is in minutes.  A behaviour reports rows of one topic, as no view   *)
(* needs both: CT phase power (value -1 or 1) and the inverter's            *)
(* online_state (2 is online), or its fault_param mask, a set of bits.      *)
(* NoNumber is a value that parses as no number.                            *)
EXTENDS Integers, FiniteSets, Sequences

CONSTANTS
    Phases,        \* of the CT
    FaultBits,     \* bits of fault_param
    IgnoredBits,   \* FLEET_IGNORED_INVERTER_FAULT_BITS
    Threshold,     \* OFFLINE_THRESHOLD_MS
    WindowDays,    \* length of the window, ACTIVE_WINDOW_DAYS
    SustainedMinutes,
    NoNumber,
    MaxNow, MaxRows \* bounds on the clock and on the rows

ASSUME HistoryAssumption ==
    /\ Phases \cap {"online_state", "fault_param"} = {}
    /\ IgnoredBits \subseteq FaultBits
    /\ Threshold \in Nat /\ WindowDays \in Nat /\ SustainedMinutes \in Nat
    /\ MaxNow \in Nat /\ MaxRows \in Nat

VARIABLES
    now,
    topic,  \* "power" or "fault_param"
    rows    \* the rows of the device, in the order of (reportedAt, id)

historyVars == <<now, topic, rows>>

startAt == now - WindowDays

-----------------------------------------------------------------------------
(* Queries of the repository.  CT rows have no inverter, the others have.  *)
(* What they bring is a set of places in rows, read in ascending order.     *)

ofInverter(row) == row.metric \notin Phases

\* listTelemetryWindow, ordered by (reportedAt, id), both ends included.
listTelemetryWindow(inverter, from, to) ==
    {i \in DOMAIN rows : /\ ofInverter(rows[i]) = inverter
                         /\ from <= rows[i].at /\ rows[i].at <= to}

listTelemetryByMetricContains(metric) ==
    {i \in listTelemetryWindow(TRUE, startAt, now) : rows[i].metric = metric}

\* The times of the rows in a window: all that heartbeats need of them.
reportTimes(inverter, from, to) ==
    {rows[i].at : i \in listTelemetryWindow(inverter, from, to)}

MinOf(S) == CHOOSE x \in S : \A y \in S : x <= y
MaxOf(S) == CHOOSE x \in S : \A y \in S : x >= y

\* The time of the last row up to an instant, if there is one.
getLatestAnyBefore(inverter, at) ==
    LET before == reportTimes(inverter, 0, at)
    IN  IF before = {} THEN {} ELSE {MaxOf(before)}

\* The last of some places up to an instant, if there is one.
lastUpTo(P, at) ==
    LET before == {i \in P : rows[i].at <= at}
    IN  IF before = {} THEN {} ELSE {MaxOf(before)}

getLatestBeforeMetricContains(metric, at) ==
    lastUpTo({i \in DOMAIN rows : rows[i].metric = metric}, at)

\* The latest row of all, which lastReportedAt equals.
getLatestReportedAt == IF rows = <<>> THEN -1 ELSE rows[Len(rows)].at

parsed(P) == {i \in P : rows[i].value # NoNumber}

ofPhase(P, phase) == {i \in P : rows[i].metric = phase}

\* A slip the properties must notice: of rows of the same time the first stays.
FirstPerInstant(P) == {i \in P : \A j \in P : j < i => rows[j].at # rows[i].at}

\* Of rows of the same time the last one stays.
latestPerInstant(P) == {i \in P : \A j \in P : j > i => rows[j].at # rows[i].at}

\* A loop over some rows in their order: what it knows after each place.
pass(visit(_, _), first, P) ==
    LET after[n \in 0..Len(rows)] ==
            IF n = 0 THEN first
            ELSE IF n \in P THEN visit(after[n - 1], n) ELSE after[n - 1]
    IN  after

-----------------------------------------------------------------------------
(* Connectivity.                                                            *)

clampInterval(from, to, lo, hi) ==
    LET s == IF from < lo THEN lo ELSE from
        e == IF to > hi THEN hi ELSE to
    IN  IF e <= s THEN {} ELSE {[from |-> s, to |-> e]}

\* Whatever was silent for longer than the threshold is offline from then on.
offlineGaps(times) ==
    UNION {LET later == {u \in times : u > t}
               next  == IF later = {} THEN now ELSE MinOf(later)
           IN  IF next - t > Threshold
               THEN clampInterval(t + Threshold, next, startAt, now) ELSE {}
           : t \in times}

\* What heartbeats at the given times say; counted are those of the window.
connectivity(times, counted) ==
    LET gaps == offlineGaps(times)
        over == {g.to : g \in {h \in gaps : h.to \in counted}}
        last == MaxOf(times)
    IN  IF times = {}
        THEN [isOnline |-> FALSE, stateSince |-> -1, offline |-> {}]
        ELSE [isOnline   |-> now - last <= Threshold,
              stateSince |-> IF now - last > Threshold THEN last + Threshold
                             ELSE IF over # {} THEN MaxOf(over)
                             ELSE IF counted # {} THEN MinOf(counted) ELSE last,
              offline    |-> gaps]

\* A slip the properties must notice: it forgets the row before the window.
PlatformFromWindow ==
    LET counted == reportTimes(FALSE, startAt, now)
    IN  connectivity(counted, counted)

\* By the rows of the CT body and the one before the window.
getPlatformConnectivity ==
    LET counted == reportTimes(FALSE, startAt, now)
    IN  connectivity(counted \cup getLatestAnyBefore(FALSE, startAt), counted)

\* By any row of the inverter, in the window only.
getInverterHeartbeatConnectivity ==
    LET counted == reportTimes(TRUE, startAt, now)
    IN  connectivity(counted, counted)

closeInterval(s, at) ==
    IF s.isOnline THEN s.offline ELSE s.offline \cup clampInterval(s.stateSince, at, startAt, now)

\* A point: the state, since when, and the windows that are over.
visitPoint(s, i) ==
    IF (rows[i].value = 2) = s.isOnline THEN s
    ELSE [isOnline   |-> rows[i].value = 2,
          stateSince |-> rows[i].at,
          offline    |-> closeInterval(s, rows[i].at)]

initialState(points, baseline) ==
    LET initial == IF baseline # {} THEN MaxOf(baseline) ELSE MinOf(points)
    IN  [isOnline   |-> rows[initial].value = 2,
         stateSince |-> IF baseline # {} THEN startAt ELSE rows[initial].at,
         offline    |-> {}]

onlineStates(points, baseline) ==
    pass(visitPoint, initialState(points, baseline), latestPerInstant(points))

summarizeInverterOnlineStates(points, baseline) ==
    LET end == onlineStates(points, baseline)[Len(rows)]
    IN  [end EXCEPT !.offline = closeInterval(end, now)]

\* By online_state if the window has one that is a number, else by heartbeat.
getInverterConnectivity ==
    LET points == parsed(listTelemetryByMetricContains("online_state"))
    IN  IF points # {}
        THEN summarizeInverterOnlineStates(points,
                 parsed(getLatestBeforeMetricContains("online_state", startAt)))
        ELSE getInverterHeartbeatConnectivity

-----------------------------------------------------------------------------
(* Faults.                                                                  *)

\* A slip the properties must notice: the window begins without a fault.
NoFaultBefore == {}

\* The mask the window begins with: a missing one counts as zero.
faultBaseline ==
    LET before == parsed(getLatestBeforeMetricContains("fault_param", startAt))
    IN  IF before = {} THEN {} ELSE rows[MaxOf(before)].value

faultPoints == latestPerInstant(parsed(listTelemetryByMetricContains("fault_param")))

\* The mask before a place.
maskBefore(i) ==
    LET before == {j \in faultPoints : j < i}
    IN  IF before = {} THEN faultBaseline ELSE rows[MaxOf(before)].value

\* The masks that differ from the one before, by their places.
getInverterFaultChanges ==
    [i \in {j \in faultPoints : rows[j].value # maskBefore(j)} |->
        [at |-> rows[i].at, from |-> maskBefore(i), to |-> rows[i].value]]

hasReportableInverterFault(mask) == mask \ IgnoredBits # {}

hadRecentReportableInverterFault(changes) ==
    \E i \in DOMAIN changes : hasReportableInverterFault(changes[i].to)

\* A change: the bits that are active with their start, and the incidents that
\* are over.  What was active before the first change has been since the
\* window began.
visitChange(c, s) ==
    LET known == [b \in (DOMAIN s.active) \cup c.from |->
                     IF b \in DOMAIN s.active THEN s.active[b] ELSE startAt]
    IN  [active |-> [b \in c.to |-> IF b \in DOMAIN known THEN known[b] ELSE c.at],
         over   |-> s.over \cup {[bit |-> b, from |-> known[b], to |-> c.at, open |-> FALSE]
                                 : b \in (DOMAIN known) \ c.to}]

faultStates(changes) ==
    pass(LAMBDA s, i : visitChange(changes[i], s),
         [active |-> [b \in {} |-> 0], over |-> {}], DOMAIN changes)

deriveFaultIncidents(changes) ==
    LET end == faultStates(changes)[Len(rows)]
    IN  end.over \cup {[bit |-> b, from |-> end.active[b], to |-> now, open |-> TRUE]
                       : b \in DOMAIN end.active}

-----------------------------------------------------------------------------
(* Reverse flow.                                                            *)

\* A sample: since when the flow is reversed, or -1, and the runs that are over.
visitSample(phase, s, i) ==
    CASE rows[i].value < 0 /\ s.active = -1 -> [s EXCEPT !.active = rows[i].at]
      [] rows[i].value >= 0 /\ s.active # -1 ->
           [active |-> -1,
            over   |-> s.over \cup {[phase |-> phase, from |-> s.active, to |-> rows[i].at,
                                     open |-> FALSE]}]
      [] OTHER -> s

flowStates(points, phase) ==
    pass(LAMBDA s, i : visitSample(phase, s, i), [active |-> -1, over |-> {}], points)

\* The runs of negative samples of a phase; the last may still be open.
buildReverseFlowIntervals(points, phase, windowEnd) ==
    LET end == flowStates(points, phase)[Len(rows)]
    IN  end.over \cup IF end.active = -1 THEN {}
                      ELSE {[phase |-> phase, from |-> end.active, to |-> windowEnd, open |-> TRUE]}

intervalsOf(P, windowEnd) ==
    UNION {buildReverseFlowIntervals(ofPhase(parsed(P), p), p, windowEnd) : p \in Phases}

\* The fleet list: phase power of the last seven days, up to now.
listCtPhasePowerForDevices(from) == listTelemetryWindow(FALSE, from, now)

summarizeDeviceSustainedReverse ==
    {i \in intervalsOf(listCtPhasePowerForDevices(startAt), now) : i.to - i.from >= SustainedMinutes}

hasRecentReverse ==
    \E i \in parsed(listCtPhasePowerForDevices(startAt)) : rows[i].value < 0

\* The masks that are a number above zero.
listInverterFaultMasksForDevices(from) ==
    {i \in parsed(listTelemetryWindow(TRUE, from, now)) :
        rows[i].metric = "fault_param" /\ rows[i].value # {}}

hasRecentInverterFault ==
    \E i \in listInverterFaultMasksForDevices(startAt) : hasReportableInverterFault(rows[i].value)

\* A slip the properties must notice: the window of the charts ends now.
ChartEndsNow == [startAt |-> startAt, endAt |-> now]

\* The detail page: the window ends with the latest report.
resolveChartWindow ==
    LET end == IF rows = <<>> THEN now ELSE getLatestReportedAt
    IN  [startAt |-> end - WindowDays, endAt |-> end]

chartRows == listTelemetryWindow(FALSE, resolveChartWindow.startAt, resolveChartWindow.endAt)

getReverseFlowAlarms == intervalsOf(chartRows, resolveChartWindow.endAt)

toChartSeries(phase) == ofPhase(parsed(chartRows), phase)

listOnline == rows # <<>> /\ getLatestReportedAt >= now - Threshold

-----------------------------------------------------------------------------

Values(metric) ==
    CASE metric \in Phases          -> {-1, 1, NoNumber}
      [] metric = "online_state"    -> {1, 2, NoNumber}
      [] OTHER                      -> (SUBSET FaultBits) \cup {NoNumber}

Metrics(t) == IF t = "power" THEN Phases \cup {"online_state"} ELSE {t}

\* A row reaches the table.  Sources may report the same time twice.
Report(metric, value) ==
    /\ Len(rows) < MaxRows
    /\ rows' = Append(rows, [at |-> now, metric |-> metric, value |-> value])
    /\ UNCHANGED <<now, topic>>

Tick ==
    /\ now < MaxNow
    /\ now' = now + 1
    /\ UNCHANGED <<topic, rows>>

HistoryInit ==
    /\ now = 0
    /\ topic \in {"power", "fault_param"}
    /\ rows = <<>>

HistoryNext ==
    \/ \E metric \in Metrics(topic) : \E value \in Values(metric) : Report(metric, value)
    \/ Tick

HistorySpec == HistoryInit /\ [][HistoryNext]_historyVars

-----------------------------------------------------------------------------
(* Properties.  Each view is compared with a replay: what the last row      *)
(* known at an instant said.                                                *)

\* Types of the clock and the rows.
HistoryTypeOK ==
    /\ now \in 0..MaxNow
    /\ \A i \in DOMAIN rows :
          /\ rows[i].at \in 0..now
          /\ rows[i].metric \in Metrics(topic)
          /\ rows[i].value \in Values(rows[i].metric)

instants(window) == window.startAt..(window.endAt - 1)

covers(intervals, t) == \E i \in intervals : i.from <= t /\ t < i.to

\* The value of the last of some rows up to t satisfies Q.
replay(P, t, Q(_)) == \E i \in lastUpTo(P, t) : Q(rows[i].value)

\* A connectivity view against the instants at which it should be offline.
showsOffline(view, offlineAt(_)) ==
    \A t \in instants([startAt |-> startAt, endAt |-> now]) :
       /\ covers(view.offline, t) <=> offlineAt(t)
       /\ t >= view.stateSince /\ view.stateSince >= 0 => view.isOnline = ~ offlineAt(t)

\* At t the last of the given times is as old as the threshold.
silentAfter(times, t) ==
    \E u \in times : /\ u + Threshold <= t
                     /\ \A v \in times : v <= t => v <= u

\* The offline windows of the platform and of an inverter without online_state
\* are exactly the silence that exceeds the threshold, across the edges of
\* the window too, and the state shown as current has lasted since stateSince.
OfflineIsSilence ==
    /\ showsOffline(getPlatformConnectivity,
                    LAMBDA t : silentAfter(reportTimes(FALSE, 0, now), t))
    /\ showsOffline(getInverterHeartbeatConnectivity,
                    LAMBDA t : silentAfter(reportTimes(TRUE, startAt, now), t))

\* The history of an inverter that reports online_state is that of its last
\* report, whatever repeats, contradicts itself at one time, is no number or
\* lies before the window.
OnlineStateHistory ==
    LET points == parsed(listTelemetryByMetricContains("online_state"))
        known  == parsed(getLatestBeforeMetricContains("online_state", startAt)) \cup points
    IN  points # {} =>
          /\ showsOffline(getInverterConnectivity, LAMBDA t : replay(known, t, LAMBDA v : v # 2))
          /\ getInverterConnectivity.isOnline = (rows[MaxOf(points)].value = 2)

\* As soon as the mask changed in the window, the incidents of a fault cover
\* exactly the instants at which it was active, those before the first
\* change included, and what is still active is open.
IncidentsCoverFaults ==
    LET changes   == getInverterFaultChanges
        incidents == deriveFaultIncidents(changes)
        known     == parsed(getLatestBeforeMetricContains("fault_param", startAt))
                       \cup parsed(listTelemetryByMetricContains("fault_param"))
    IN  DOMAIN changes # {} =>
          \A b \in FaultBits :
             /\ \A t \in instants([startAt |-> startAt, endAt |-> now]) :
                   covers({i \in incidents : i.bit = b}, t)
                     <=> replay(known, t, LAMBDA v : b \in v)
             /\ (\E i \in incidents : i.bit = b /\ i.open) <=> b \in rows[MaxOf(known)].value

\* List, alarms and chart of a device agree, although each has its own window
\* and its own loop: alarms and list replay the samples, the alarms to the
\* last report however old; a red mark on the chart has its alarm; a reverse
\* flow of the list has one too, and a fault change of the page is in the list.
\* The list takes any report for a sign of life and the page those of the CT,
\* so but for the registry's word the list shows a device as online exactly if
\* its page does or an inverter of it has reported within the threshold.
ViewsAgree ==
    LET last   == [startAt |-> getLatestReportedAt - WindowDays, endAt |-> getLatestReportedAt]
        week   == [startAt |-> startAt, endAt |-> now]
        sample(p, w) == ofPhase(parsed(listTelemetryWindow(FALSE, w.startAt, w.endAt)), p)
        shows(intervals, p, w) ==
            \A t \in instants(w) : covers({i \in intervals : i.phase = p}, t)
                                    <=> replay(sample(p, w), t, LAMBDA v : v < 0)
    IN  /\ \A p \in Phases :
              /\ rows # <<>> => shows(getReverseFlowAlarms, p, last)
              /\ shows(intervalsOf(listCtPhasePowerForDevices(startAt), now), p, week)
              /\ (\E i \in toChartSeries(p) : rows[i].value < 0)
                    <=> \E a \in getReverseFlowAlarms : a.phase = p
        /\ hasRecentReverse => getReverseFlowAlarms # {}
        /\ \A i \in summarizeDeviceSustainedReverse :
              \E a \in getReverseFlowAlarms :
                 a.phase = i.phase /\ a.from <= i.from /\ (a.open \/ a.to = i.to)
        /\ hadRecentReportableInverterFault(getInverterFaultChanges) => hasRecentInverterFault
        /\ listOnline <=> \/ getPlatformConnectivity.isOnline
                          \/ \E t \in reportTimes(TRUE, 0, now) : now - t <= Threshold
=============================================================================
