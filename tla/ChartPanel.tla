----------------------------- MODULE ChartPanel -----------------------------
(* A chart of the telemetry, in its two copies: the component of the live   *)
(* pages, which React renders and which paints in an animation frame, and   *)
(* the script inside an exported page, which paints at once.  Both choose   *)
(* the points of the selected series in the last days, break the lines,     *)
(* split negative samples off and shade the nights, each by its own code;   *)
(* that of the nights is a copy of the other.                               *)
(*                                                                          *)
(* A panel has the series of one unit, or voltage and frequency.  Time is   *)
(* an integer; a break's point is one unit behind the point before it.      *)
(* Colours, labels, tooltips and layout are left out.                       *)
EXTENDS Integers, FiniteSets, Sequences, SequencesExt

CONSTANTS
    DayLength,        \* of a day of Beijing, the first of which starts at 0
    Sunrise, Sunset,  \* offsets in the day
    Timezone,         \* BEIJING_TZ_OFFSET_HOURS
    GapBreak,         \* CHART_TIME_GAP_BREAK_MS
    DayChoices,       \* days of the radio buttons
    WindowMax,        \* the one that is checked at first
    NoValue,          \* null
    NoFrame,          \* no frame is due
    Blank, Stale,     \* of a canvas: empty; older than the option that is due
    MaxAt, MaxSamples \* bounds on the samples

AllKeys == {"load", "ct-a", "voltage", "frequency", "inverter-today-energy"}

AnyOptions == [loaded : 0..MaxSamples, selected : SUBSET AllKeys, days : DayChoices,
               zoom : {"full", "part"}]

ASSUME ChartAssumption ==
    /\ DayLength \in Nat \ {0} /\ Sunrise \in 0..Sunset /\ Sunset \in 0..(DayLength - 1)
    /\ Timezone \in 0..(DayLength - 1)
    /\ GapBreak \in Nat \ {0} /\ DayChoices \subseteq Nat /\ WindowMax \in DayChoices
    /\ MaxAt \in Nat /\ MaxSamples \in Nat
    /\ NoFrame \notin AnyOptions /\ Blank \notin AnyOptions /\ Stale \notin AnyOptions

VARIABLES
    samples,  \* of the panel's metrics in the database, in order of time
    panel,    \* "power", "grid" or "energy"
    view,     \* "none", "live" or "offline"
    loaded,   \* the page holds the first so many samples, its series
    selected, \* keys
    days,
    zoom,     \* zoomRef: "full" or "part"
    div,      \* the container of the chart is rendered
    instance, \* of echarts: "none", or in a container that is attached or not
    frame,    \* the option of the animation frame that is due
    painted,  \* the option on the canvas; Stale while a newer one is due
    raced,    \* zoomRef has moved since the frame's option was built
    emptied   \* a ghost: at some time since the mount there was nothing to draw

chartVars == <<samples, panel, view, loaded, selected, days, zoom, div, instance,
               frame, painted, raced, emptied>>

\* load is never marked, the phases are; of the grid both go together.
keysOf(p) == CASE p = "power"  -> {"load", "ct-a"}
               [] p = "grid"   -> {"voltage", "frequency"}
               [] p = "energy" -> {"inverter-today-energy"}

unitOf(key) == CASE key \in {"load", "ct-a"} -> "W"
                 [] key = "voltage"          -> "V"
                 [] key = "frequency"        -> "Hz"
                 [] OTHER                    -> "kWh"

markNegative(key) == key = "ct-a"

dailyReset(key) == key = "inverter-today-energy"

option == [loaded |-> loaded, selected |-> selected, days |-> days, zoom |-> zoom]

-----------------------------------------------------------------------------
(* Lines.                                                                   *)

pointsOf(key, count) ==
    LET own == SelectSeq(SubSeq(samples, 1, count), LAMBDA s : s.key = key)
    IN  [i \in DOMAIN own |-> [at |-> own[i].at, value |-> own[i].value]]

isNull(p) == p.value = NoValue

\* The points with a null before each whose predecessor breaks(prev, p).
withBreaks(points, breaks(_, _), nullAt(_, _)) ==
    FlattenSeq([i \in DOMAIN points |->
        IF /\ i > 1 /\ ~ isNull(points[i]) /\ ~ isNull(points[i - 1])
           /\ breaks(points[i - 1], points[i])
        THEN <<[at |-> nullAt(points[i - 1], points[i]), value |-> NoValue], points[i]>>
        ELSE <<points[i]>>])

breakChartTimeGaps(points) ==
    withBreaks(points, LAMBDA a, b : b.at - a.at > GapBreak, LAMBDA a, b : a.at + 1)

dayOf(at) == at \div DayLength

\* A slip the properties must notice: the night before a reset is bridged.
ResetsJoined(points) == points

\* A counter that falls overnight.
disconnectDailyResetPoints(points) ==
    withBreaks(points, LAMBDA a, b : dayOf(a.at) # dayOf(b.at) /\ b.value < a.value,
                       LAMBDA a, b : b.at)

\* The line, the negative part of it, and a dot for each negative sample.
splitNegativeWarningPoints(points) ==
    LET negative(p) == ~ isNull(p) /\ p.value < 0
        unless(p, hide) == IF hide THEN [p EXCEPT !.value = NoValue] ELSE p
    IN  [normal  |-> [i \in DOMAIN points |-> unless(points[i], negative(points[i]))],
         warning |-> [i \in DOMAIN points |-> unless(points[i], ~ negative(points[i]))],
         dots    |-> SelectSeq(points, negative)]

layersOf(key, line) ==
    IF markNegative(key) THEN splitNegativeWarningPoints(line)
    ELSE [normal |-> line, warning |-> <<>>, dots |-> <<>>]

\* The unit of the axis a key is drawn on, among the keys that are.
buildAxisPlan(key, drawn) ==
    LET units == {unitOf(k) : k \in drawn}
    IN  IF {"V", "Hz"} \subseteq units
        THEN IF unitOf(key) = "Hz" THEN "Hz" ELSE "V"
        ELSE CHOOSE u \in units : TRUE

-----------------------------------------------------------------------------
(* The component.                                                           *)

\* The time of the last point of some series, or that of the page.
latestOf(keys, count) ==
    LET times == {samples[i].at : i \in {j \in 1..count : samples[j].key \in keys}}
    IN  IF times = {} THEN MaxAt ELSE CHOOSE t \in times : \A u \in times : u <= t

\* It ends with the last point of all series, selected or not.
axisWindow(o) ==
    LET latest == latestOf(keysOf(panel), o.loaded)
    IN  [from |-> latest - o.days * DayLength, to |-> latest]

windowPoints(o, key) ==
    SelectSeq(pointsOf(key, o.loaded),
        LAMBDA p : axisWindow(o).from <= p.at /\ p.at <= axisWindow(o).to)

visible(o) == {k \in o.selected : windowPoints(o, k) # <<>>}

liveLayers(o, key) ==
    LET points == windowPoints(o, key)
    IN  layersOf(key, breakChartTimeGaps(
            IF dailyReset(key) THEN disconnectDailyResetPoints(points) ELSE points))

\* When the sun rises or sets on a day, from its offset in the day: taken to
\* UTC, which wraps to the day before, and back, with a day for the carry.
sunTime(day, offset) ==
    LET local == ((offset - Timezone) % DayLength) + Timezone
    IN  IF local >= DayLength THEN (day + 1) * DayLength + local - DayLength
        ELSE day * DayLength + local

beijingSunriseSunsetMs(day) == [rise |-> sunTime(day, Sunrise), set |-> sunTime(day, Sunset)]

clipBand(a, b, window, night) ==
    LET left  == IF a < window.from THEN window.from ELSE a
        right == IF b > window.to THEN window.to ELSE b
    IN  IF right > left THEN {[from |-> left, to |-> right, night |-> night]} ELSE {}

\* Bands of day and night across a window, from the day before it to the day
\* after it.  The sun of Beijing rises and sets on every day.
buildBeijingDayNightBands(window) ==
    LET first == dayOf(window.from - DayLength)
        last  == dayOf(window.to + DayLength)
        sun   == [d \in first..last |-> beijingSunriseSunsetMs(d)]
        daylight == {clipBand(sun[d].rise, sun[d].set, window, FALSE) : d \in first..last}
        nights == {clipBand(IF d = first THEN window.from ELSE sun[d - 1].set, sun[d].rise,
                            window, TRUE) : d \in first..last}
    IN  (UNION daylight) \cup (UNION nights) \cup clipBand(sun[last].set, window.to, window, TRUE)

\* The effects of a render: the container comes and goes with what is visible,
\* the chart was made on mount or never, and the option is for the next frame.
Render ==
    /\ div' = (visible(option') # {})
    /\ instance' = IF instance = "attached" /\ ~ div' THEN "detached" ELSE instance
    /\ IF instance = "none" THEN UNCHANGED <<frame, painted, raced>>
       ELSE /\ frame' = option'
            /\ painted' = IF painted = Blank THEN Blank ELSE Stale
            /\ raced' = FALSE
    /\ emptied' = (emptied \/ visible(option') = {})
    /\ UNCHANGED <<samples, panel, view>>

\* The page with the panel is opened, or the dialog that shows it.
Mount ==
    /\ view = "none"
    /\ view' = "live"
    /\ loaded' = Len(samples)
    /\ selected' = IF panel = "power" THEN {"load"}
                   ELSE {k \in keysOf(panel) : pointsOf(k, loaded') # <<>>}
    /\ days' = WindowMax
    /\ zoom' = "full"
    /\ div' = (visible(option') # {})
    /\ instance' = IF div' THEN "attached" ELSE "none"
    /\ frame' = IF div' THEN option' ELSE NoFrame
    /\ painted' = Blank
    /\ raced' = FALSE
    /\ emptied' = (visible(option') = {})
    /\ UNCHANGED <<samples, panel>>

\* A slip the properties must notice: the effect does not depend on the
\* selection.
ToggleUnseen(key) ==
    /\ view = "live"
    /\ pointsOf(key, loaded) # <<>>
    /\ selected' = (selected \ {key}) \cup ({key} \ selected)
    /\ UNCHANGED <<samples, panel, view, loaded, days, zoom, div, instance, frame, painted, raced,
                   emptied>>

\* A checkbox, which is disabled if its series has no point at all.
Toggle(key) ==
    /\ view = "live"
    /\ pointsOf(key, loaded) # <<>>
    /\ selected' = (selected \ {key}) \cup ({key} \ selected)
    /\ UNCHANGED <<loaded, days, zoom>>
    /\ Render

SetDays(choice) ==
    /\ view = "live"
    /\ days # choice
    /\ days' = choice
    /\ zoom' = IF instance = "none" THEN zoom ELSE "full"
    /\ UNCHANGED <<loaded, selected>>
    /\ Render

\* A soft refresh: new series, and the state of the component stays.
NewSeries ==
    /\ view = "live"
    /\ loaded' = Len(samples)
    /\ UNCHANGED <<selected, days, zoom>>
    /\ Render

\* The frame paints what its option was built from, zoomRef included.
FramePaints ==
    /\ frame # NoFrame
    /\ painted' = frame
    /\ frame' = NoFrame
    /\ UNCHANGED <<samples, panel, view, loaded, selected, days, zoom, div, instance, raced,
                   emptied>>

ZoomsTo(z) ==
    /\ zoom' = z
    /\ painted' = IF painted \in {Blank, Stale} THEN painted ELSE [painted EXCEPT !.zoom = z]
    /\ raced' = (frame # NoFrame /\ frame.zoom # z)
    /\ UNCHANGED <<samples, panel, view, loaded, selected, days, div, instance, frame, emptied>>

\* The wheel on a canvas that shows something, on either page.
onZoom ==
    /\ view # "none"
    /\ instance = "attached" /\ painted # Blank
    /\ ZoomsTo("part")

\* The button, which is always there.
resetZoom ==
    /\ view # "none"
    /\ ZoomsTo("full")

\* The chart is disposed of and its frame cancelled.
Unmount ==
    /\ view = "live"
    /\ view' = "none"
    /\ loaded' = 0 /\ selected' = {} /\ days' = WindowMax /\ zoom' = "full"
    /\ div' = FALSE /\ instance' = "none" /\ frame' = NoFrame /\ painted' = Blank
    /\ raced' = FALSE /\ emptied' = FALSE
    /\ UNCHANGED <<samples, panel>>

-----------------------------------------------------------------------------
(* The script of the exported page.                                         *)

\* What the export puts into the page: the gaps are broken already, but those
\* of a daily counter are lost again with its nulls.
toOfflineSeries(key, count) ==
    LET broken == breakChartTimeGaps(pointsOf(key, count))
    IN  IF dailyReset(key)
        THEN disconnectDailyResetPoints(SelectSeq(broken, LAMBDA p : ~ isNull(p)))
        ELSE broken

\* The window ends with the last point of the selected series.
offlineWindow(o) ==
    LET latest == latestOf(o.selected, o.loaded)
    IN  [from |-> latest - o.days * DayLength, to |-> latest]

preparePoints(o, key) ==
    LET points == SelectSeq(toOfflineSeries(key, o.loaded),
                            LAMBDA p : p.at >= offlineWindow(o).from)
    IN  IF dailyReset(key) THEN disconnectDailyResetPoints(points) ELSE points

offlineVisible(o) ==
    {k \in o.selected : \E i \in DOMAIN preparePoints(o, k) : ~ isNull(preparePoints(o, k)[i])}

offlineLayers(o, key) == layersOf(key, preparePoints(o, key))

\* A paint shows everything, at full width.
renderChart ==
    /\ zoom' = "full"
    /\ UNCHANGED <<samples, panel, view, loaded, div, instance, frame, raced, emptied>>
    /\ painted' = option'

\* The page of a bundle is opened: what the export read.
bindChartPanel ==
    /\ view = "none"
    /\ view' = "offline"
    /\ loaded' = Len(samples)
    /\ selected' = IF panel = "power" THEN {"load"} ELSE keysOf(panel)
    /\ days' = WindowMax /\ zoom' = "full"
    /\ instance' = "attached" /\ painted' = option'
    /\ UNCHANGED <<samples, panel, div, frame, raced, emptied>>

\* Checkboxes of series without points are not disabled.
toggleOffline(key) ==
    /\ view = "offline"
    /\ selected' = (selected \ {key}) \cup ({key} \ selected)
    /\ UNCHANGED days
    /\ renderChart

setDaysOffline(choice) ==
    /\ view = "offline"
    /\ days # choice
    /\ days' = choice
    /\ UNCHANGED selected
    /\ renderChart

-----------------------------------------------------------------------------

\* A report that the panel's metrics are in.  The first one is on day 0.
Sample(key, value, at) ==
    /\ view # "offline"
    /\ Len(samples) < MaxSamples
    /\ IF samples = <<>> THEN at = 0 ELSE samples[Len(samples)].at <= at
    /\ samples' = Append(samples, [key |-> key, value |-> value, at |-> at])
    /\ UNCHANGED <<panel, view, loaded, selected, days, zoom, div, instance, frame, painted, raced,
                   emptied>>

valuesOf(key) == CASE key = "ct-a" -> {-1, 1}
                   [] key = "inverter-today-energy" -> {1, 2}
                   [] OTHER -> {1}

ChartInit ==
    /\ samples = <<>>
    /\ panel \in {"power", "grid", "energy"}
    /\ view = "none" /\ loaded = 0 /\ selected = {} /\ days = WindowMax /\ zoom = "full"
    /\ div = FALSE /\ instance = "none" /\ frame = NoFrame /\ painted = Blank /\ raced = FALSE
    /\ emptied = FALSE

ChartNext ==
    \/ \E key \in keysOf(panel) : \E value \in valuesOf(key), at \in 0..MaxAt :
          Sample(key, value, at)
    \/ Mount
    \/ \E key \in keysOf(panel) : Toggle(key)
    \/ \E choice \in DayChoices : SetDays(choice)
    \/ NewSeries
    \/ FramePaints
    \/ onZoom
    \/ resetZoom
    \/ Unmount
    \/ bindChartPanel
    \/ \E key \in keysOf(panel) : toggleOffline(key)
    \/ \E choice \in DayChoices : setDaysOffline(choice)

ChartSpec == ChartInit /\ [][ChartNext]_chartVars

-----------------------------------------------------------------------------
(* Properties.                                                              *)

Options == [loaded : 0..MaxSamples, selected : SUBSET keysOf(panel), days : DayChoices,
            zoom : {"full", "part"}]

\* Types of the panel.
ChartTypeOK ==
    /\ \A i \in DOMAIN samples :
          /\ samples[i].key \in keysOf(panel) /\ samples[i].at \in 0..MaxAt
          /\ samples[i].value \in valuesOf(samples[i].key)
    /\ view \in {"none", "live", "offline"}
    /\ option \in Options
    /\ div \in BOOLEAN /\ raced \in BOOLEAN /\ emptied \in BOOLEAN
    /\ instance \in {"none", "attached", "detached"}
    /\ frame = NoFrame \/ frame \in Options
    /\ painted \in {Blank, Stale} \/ painted \in Options

values(line) == SelectSeq(line, LAMBDA p : ~ isNull(p))

\* Layers show each point once, in red with a dot if it is negative, else as
\* the line; no line is drawn over a gap, nor over a night in which the counter
\* fell, as far as these are to be broken.
showPoints(layers, points, gapsBroken, resetsBroken) ==
    LET red(p) == p.value < 0
        joined(line, i) == i > 1 /\ ~ isNull(line[i - 1]) /\ ~ isNull(line[i])
        reset(a, b) == dayOf(a.at) # dayOf(b.at) /\ b.value < a.value
    IN  /\ values(layers.normal) = SelectSeq(points, LAMBDA p : ~ red(p))
        /\ values(layers.warning) = SelectSeq(points, LAMBDA p : red(p))
        /\ layers.dots = values(layers.warning)
        /\ \A line \in {layers.normal, layers.warning} : \A i \in DOMAIN line :
              joined(line, i) =>
                 /\ gapsBroken => line[i].at - line[i - 1].at <= GapBreak
                 /\ resetsBroken => ~ reset(line[i - 1], line[i])

\* What the user sees in the container of the live page: the canvas, if the
\* chart was made in this container; another one stays empty.
shown == IF instance = "attached" THEN painted ELSE Blank

\* As long as there was something to draw ever since the panel was opened, and
\* once the frame has painted, the user sees the series, the selection, the
\* days and the zoom of the component, unless the user zoomed while the frame
\* was due; and every key is on an axis of its unit.  The exception is of the
\* code: the chart is made once, and a panel that was without a container at
\* first or for a while stays blank, whatever is ticked, until it is opened
\* again.
LiveChartFollows ==
    view = "live" /\ ~ emptied /\ frame = NoFrame =>
        /\ div
        /\ shown = option \/ (raced /\ shown # Blank /\ shown # Stale
                               /\ [shown EXCEPT !.zoom = zoom] = option)
        /\ \A k \in visible(option) : buildAxisPlan(k, visible(option)) = unitOf(k)

\* Both pages show the samples of their window, and the exported page all
\* that the live page does: more only where the window ends with an older
\* sample, as the last one is of a series that is not selected.  Both break
\* the line of a daily counter over the night in which it begins anew, and
\* every line over a gap but, on the exported page, that of a daily counter.
ChartCopiesAgree ==
    view # "none" =>
        \A k \in selected :
           LET points == windowPoints(option, k)
               known  == pointsOf(k, loaded)
               older  == SelectSeq(known, LAMBDA p : p.at >= offlineWindow(option).from)
           IN  /\ showPoints(liveLayers(option, k), points, TRUE, dailyReset(k))
               /\ showPoints(offlineLayers(option, k), older, ~ dailyReset(k), dailyReset(k))
               /\ offlineWindow(option).to = axisWindow(option).to => points = older
               /\ k \in visible(option) => k \in offlineVisible(option)

\* The bands of a chart tile its window, and each instant is in the day if it
\* is between sunrise and sunset of its own day, else in the night.
BandsTileWindow ==
    view = "live" /\ div =>
        LET window == axisWindow(option)
        IN  \A t \in window.from..(window.to - 1) :
               LET around == {b \in buildBeijingDayNightBands(window) : b.from <= t /\ t < b.to}
                   offset == t - dayOf(t) * DayLength
               IN  /\ Cardinality(around) = 1
                   /\ \A b \in around : b.night <=> offset < Sunrise \/ offset >= Sunset
=============================================================================
