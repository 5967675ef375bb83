------------------------------ MODULE LiveKpis ------------------------------
(* The KPI band of a device page.  It shows the values the page was         *)
(* rendered with and fetches newer ones at once, at every interval and when *)
(* the tab becomes visible.  Fetches overlap, are answered in any order or  *)
(* not at all, and outlive the props they were started with.                *)
(*                                                                          *)
(* A set of values is known by the device it is of, the hint shown with it  *)
(* and the time at which the server read it.  Timers fire on time.  Fetches *)
(* that start at one instant with the same props count as one.              *)
EXTENDS Integers, FiniteSets

CONSTANTS
    Devices,     \* devices between whose pages the user moves
    Interval,    \* INTERVAL_MS, in units of FETCH_MS
    FetchLimit,  \* FETCH_MS
    RenderLimit, \* bound on the time a page render takes to arrive
    MaxFetches,  \* bound on the fetches under way when the user acts
    KpiEnd       \* bound on the clock

ASSUME KpiAssumption ==
    /\ FetchLimit \in Nat \ {0} /\ Interval \in Nat /\ Interval > FetchLimit
    /\ RenderLimit \in Nat /\ MaxFetches \in Nat /\ KpiEnd \in Nat

VARIABLES
    kpiTime,
    props,    \* deviceSn and initial.hint
    kpis,     \* what is shown
    fetches,  \* under way; readAt is -1 until the server has read the rows
    nextTick, \* when the interval timer fires
    hidden,   \* document.hidden
    missed    \* since kpis was set, a tick was skipped or its fetch failed

kpiVars == <<kpiTime, props, kpis, fetches, nextTick, hidden, missed>>

Fetches == [props : [device : Devices, hint : BOOLEAN], start : 0..KpiEnd,
            readAt : -1..KpiEnd, cancelled : BOOLEAN]

fetchOf(p) == [props |-> p, start |-> kpiTime, readAt |-> -1, cancelled |-> FALSE]

\* Of the effect that ran with the props p, others being the fetches before.
tick(p, others) ==
    IF hidden'
    THEN fetches' = others /\ missed' = TRUE
    ELSE /\ fetches' = others \cup {fetchOf(p)}
         /\ UNCHANGED missed

IntervalFires ==
    /\ nextTick = kpiTime
    /\ nextTick' = kpiTime + Interval
    /\ UNCHANGED <<kpiTime, props, kpis, hidden>>
    /\ tick(props, fetches)

onVisible ==
    /\ Cardinality(fetches) < MaxFetches
    /\ hidden' = ~ hidden
    /\ IF hidden' THEN UNCHANGED <<fetches, missed>> ELSE tick(props, fetches)
    /\ UNCHANGED <<kpiTime, props, kpis, nextTick>>

ServerReads(f) ==
    /\ f.readAt = -1
    /\ fetches' = (fetches \ {f}) \cup {[f EXCEPT !.readAt = kpiTime]}
    /\ UNCHANGED <<kpiTime, props, kpis, nextTick, hidden, missed>>

\* A slip the properties must notice: the answer of a cancelled effect counts.
AnsweredAnyway(f) ==
    /\ f.readAt >= 0
    /\ fetches' = fetches \ {f}
    /\ kpis' = [props |-> f.props, readAt |-> f.readAt]
    /\ missed' = FALSE
    /\ UNCHANGED <<kpiTime, props, nextTick, hidden>>

\* Rows arrive; those of a cancelled effect are dropped.
Answered(f) ==
    /\ f.readAt >= 0
    /\ fetches' = fetches \ {f}
    /\ IF f.cancelled THEN UNCHANGED <<kpis, missed>>
       ELSE /\ kpis' = [props |-> f.props, readAt |-> f.readAt]
            /\ missed' = FALSE
    /\ UNCHANGED <<kpiTime, props, nextTick, hidden>>

\* An error, an answer that is not ok or has no rows, or the abort timer.
FetchFails(f) ==
    /\ fetches' = fetches \ {f}
    /\ missed' = (missed \/ ~ f.cancelled)
    /\ UNCHANGED <<kpiTime, props, kpis, nextTick, hidden>>

\* A render arrives, of a soft refresh or of another device's page.  It sets
\* kpis; the effect that fetches is left and entered again if its
\* dependencies changed.  (The commit and its effects are one step.)
Rendered(p, readAt) ==
    /\ Cardinality(fetches) < MaxFetches
    /\ kpis' = [props |-> p, readAt |-> readAt]
    /\ props' = p
    /\ UNCHANGED <<kpiTime, hidden>>
    /\ IF p = props
       THEN /\ missed' = FALSE
            /\ UNCHANGED <<fetches, nextTick>>
       ELSE /\ nextTick' = kpiTime + Interval
            /\ missed' = hidden
            /\ fetches' = {[f EXCEPT !.cancelled = TRUE] : f \in fetches}
                             \cup (IF hidden THEN {} ELSE {fetchOf(p)})

\* A slip the properties must notice: a fetch has no abort timer.
TimePassesBy ==
    /\ kpiTime < KpiEnd
    /\ nextTick > kpiTime
    /\ kpiTime' = kpiTime + 1
    /\ UNCHANGED <<props, kpis, fetches, nextTick, hidden, missed>>

\* No fetch outlives its abort timer.
TimePasses ==
    /\ kpiTime < KpiEnd
    /\ nextTick > kpiTime
    /\ \A f \in fetches : kpiTime < f.start + FetchLimit
    /\ kpiTime' = kpiTime + 1
    /\ UNCHANGED <<props, kpis, fetches, nextTick, hidden, missed>>

-----------------------------------------------------------------------------

\* The page was rendered just now, and its effect has run.
KpiInit ==
    /\ kpiTime = 0
    /\ \E d \in Devices : props = [device |-> d, hint |-> FALSE]
    /\ kpis = [props |-> props, readAt |-> 0]
    /\ hidden = FALSE
    /\ missed = FALSE
    /\ nextTick = Interval
    /\ fetches = {fetchOf(props)}

KpiNext ==
    \/ IntervalFires
    \/ onVisible
    \/ \E f \in fetches : ServerReads(f) \/ Answered(f) \/ FetchFails(f)
    \/ \E d \in Devices, hint \in BOOLEAN, age \in 0..RenderLimit :
          kpiTime >= age /\ Rendered([device |-> d, hint |-> hint], kpiTime - age)
    \/ TimePasses

KpiSpec == KpiInit /\ [][KpiNext]_kpiVars

-----------------------------------------------------------------------------
(* Properties.                                                             *)

\* Types of the band and its fetches.
KpiTypeOK ==
    /\ kpiTime \in 0..KpiEnd
    /\ props \in [device : Devices, hint : BOOLEAN]
    /\ kpis \in [props : [device : Devices, hint : BOOLEAN], readAt : 0..KpiEnd]
    /\ fetches \subseteq Fetches
    /\ nextTick \in 0..(KpiEnd + Interval)
    /\ hidden \in BOOLEAN /\ missed \in BOOLEAN

\* The band shows the device of its page, whichever answers are still under
\* way when the user moves on.  A late answer may replace newer values, but
\* as long as the tab is seen and no fetch fails, what is shown was read at
\* most an interval, a fetch and the longer of a fetch and a render ago.
KpisFollow ==
    /\ kpis.props = props
    /\ ~ missed => kpiTime - kpis.readAt <=
          Interval + FetchLimit + (IF RenderLimit > FetchLimit THEN RenderLimit ELSE FetchLimit)
=============================================================================
