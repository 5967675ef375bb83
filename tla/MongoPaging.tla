---------------------------- MODULE MongoPaging -----------------------------
(***************************************************************************)
(* fetchTelemetry of the Mongo log adapter, page after page through one    *)
(* window of time: the time shards, the collections that share one budget, *)
(* the aggregation that keeps the newest PER_DEVICE_DOCUMENT_LIMIT         *)
(* documents of a device, the rows a document expands to, and the cursor.  *)
(* SourceSync takes pages as prefixes of the window; here it is checked    *)
(* when they are.                                                          *)
(*                                                                         *)
(* A row is a document and the number of a field in it, which sorts like   *)
(* the sourceRecordId "<document>:<field>".  Times are whole seconds.      *)
(***************************************************************************)
EXTENDS Integers, FiniteSets

CONSTANTS
    Docs,        \* document ids 1, 2, ...
    WifiEvents,  \* ids of WiFi events, which sort behind those of documents
    LogDevices,  \* devices of the registry, 1, 2, ... in its order
    To,          \* the window goes from 1 to To
    Shard,       \* DEFAULT_TIME_SHARD_MS
    DeviceLimit, \* PER_DEVICE_DOCUMENT_LIMIT
    LogBudget,   \* rows of the device log on a page
    WifiBudget,  \* rows of the event log on a page
    MaxFields    \* bound on the known fields of a document

ASSUME PagingAssumption ==
    /\ Docs \subseteq Nat /\ WifiEvents \subseteq Nat
    /\ LogDevices \subseteq Nat /\ 1 \in LogDevices
    /\ IsFiniteSet(Docs) /\ IsFiniteSet(WifiEvents)
    /\ \A d \in Docs, e \in WifiEvents : d < e
    /\ To \in Nat \ {0} /\ Shard \in Nat \ {0}
    /\ DeviceLimit \in Nat \ {0} /\ LogBudget \in Nat \ {0}
    /\ WifiBudget \in Nat /\ MaxFields \in Nat

VARIABLES
    docs,      \* docs[d]: its time, its device, its number of known fields
    wifiLog,   \* wifiLog[e]: its time, its device, whether it is a DATA event
    collection,\* collection[x]: 1 or 2, whether the logs of device x are in the
               \* collection that is read first or in the second one
    cursor,    \* the last row of the device log on the page before, or NoCursor
    rowsRead,  \* rows of the pages so far
    pages,     \* pages fetched
    paging     \* FALSE when the run asks for no further page

pagingVars == <<docs, wifiLog, collection, cursor, rowsRead, pages, paging>>

NoCursor == <<0, 0>>

\* A document has a row for each field that is known, an event has one if it
\* is a DATA event.
rowsOf(d) == {<<d, k>> : k \in 1..docs[d].fields}

expandIotEventLogDocument(e) == IF wifiLog[e].data THEN {<<e, 1>>} ELSE {}

timeOf(row) == IF row[1] \in Docs THEN docs[row[1]].time ELSE wifiLog[row[1]].time

\* Newest first, then by sourceRecordId.
newestFirst(a, b) ==
    \/ timeOf(a) > timeOf(b)
    \/ timeOf(a) = timeOf(b) /\ (a[1] < b[1] \/ (a[1] = b[1] /\ a[2] < b[2]))

\* A slip the properties must notice: rows of the last page come again.
AfterAlways(row) == TRUE

isAfterSourceCursor(row) == cursor = NoCursor \/ newestFirst(cursor, row)

\* The window's upper end is the cursor's time after the first page.
effectiveTo == IF cursor = NoCursor THEN To ELSE timeOf(cursor)

\* Its shards from the upper end down: one more while there is time left.
shardTimeRange == {w \in 1..To : effectiveTo - (w - 1) * Shard > 1}

upperEnd(w) == effectiveTo - (w - 1) * Shard

lowerEnd(w) == IF effectiveTo - w * Shard > 1 THEN effectiveTo - w * Shard ELSE 1

\* With a cursor the filter starts at the cursor, whatever the shard's upper end.
deviceLogFilter(c, from, to) ==
    {d \in Docs :
        /\ collection[docs[d].device] = c
        /\ IF cursor = NoCursor THEN from <= docs[d].time /\ docs[d].time <= to
           ELSE \/ from <= docs[d].time /\ docs[d].time < timeOf(cursor)
                \/ docs[d].time = timeOf(cursor) /\ d >= cursor[1]}

\* Of the documents D of a log, the newest of each device.
latestPerDevice(D, log) ==
    LET newer(d) == {e \in D : /\ log[e].device = log[d].device
                               /\ \/ log[e].time > log[d].time
                                  \/ log[e].time = log[d].time /\ e < d}
    IN  {d \in D : Cardinality(newer(d)) < DeviceLimit}

\* A read is the number of a query and a row it brought: with a cursor the
\* shards overlap, and a row that comes again counts again.
ahead(p, q) == newestFirst(p[2], q[2]) \/ (p[2] = q[2] /\ p[1] < q[1])

\* The first reads in the order of a page.
firstOf(reads, count) == {r \in reads : Cardinality({q \in reads : ahead(q, r)}) < count}

queryWindow(n, c, from, to, limit) ==
    LET matched == deviceLogFilter(c, from, to)
        latest  == latestPerDevice(matched, docs)
        rows    == {r \in UNION {rowsOf(d) : d \in latest} : isAfterSourceCursor(r)}
        reads   == {n} \X rows
    IN  [reads |-> firstOf(reads, limit), more |-> latest # matched \/ Cardinality(reads) > limit]

\* Events have no cursor; one that is not a DATA event counts for the limit.
queryIotWifiWindow(c, from, to, limit) ==
    LET matched == {e \in WifiEvents : /\ collection[wifiLog[e].device] = c
                                       /\ from <= wifiLog[e].time /\ wifiLog[e].time <= to}
        rows    == UNION {expandIotEventLogDocument(e) : e \in latestPerDevice(matched, wifiLog)}
    IN  firstOf({c} \X rows, limit)

\* The n-th query: the collections in turn, each shard by shard, until the
\* budget is used up.
afterQuery(n, log) ==
    LET c == IF n <= To THEN 1 ELSE 2
        w == IF n <= To THEN n ELSE n - To
        found == queryWindow(n, c, lowerEnd(w), upperEnd(w), LogBudget - Cardinality(log.reads))
    IN  CASE w \notin shardTimeRange -> log
          [] w \in shardTimeRange /\ Cardinality(log.reads) >= LogBudget ->
               [log EXCEPT !.more = @ \/ \E x \in LogDevices : collection[x] = c]
          [] OTHER ->
               [reads |-> log.reads \cup found.reads, more |-> log.more \/ found.more]

logAfter[n \in 0..(2 * To)] ==
    IF n = 0 THEN [reads |-> {}, more |-> FALSE] ELSE afterQuery(n, logAfter[n - 1])

\* WiFi of the time the page spans, or of the newest shard if it is empty.
wifiPage(log) ==
    LET times == {timeOf(r[2]) : r \in log}
        from  == IF log = {} THEN lowerEnd(1)
                 ELSE CHOOSE t \in times : \A u \in times : t <= u
        to    == IF log = {} THEN upperEnd(1)
                 ELSE CHOOSE t \in times : \A u \in times : u <= t
        first == queryIotWifiWindow(1, from, to, WifiBudget)
    IN  IF log = {} /\ shardTimeRange = {} THEN {}
        ELSE first \cup queryIotWifiWindow(2, from, to, WifiBudget - Cardinality(first))

lastOf(reads) == CHOOSE r \in reads : \A q \in reads : q = r \/ ahead(q, r)

\* A slip the properties must notice: the cursor is the page's last row, also
\* if that is a WiFi row.
ComposeByTime(log, more, wifi) ==
    [records    |-> {r[2] : r \in log \cup wifi},
     hasMore    |-> more,
     nextCursor |-> IF log \cup wifi = {} THEN NoCursor ELSE lastOf(log \cup wifi)[2]]

\* The device log alone says where the next page begins and if there is one.
composeDeviceLogDrivenPage(log, more, wifi) ==
    LET wifiRows == firstOf(wifi, WifiBudget)
        budget   == LogBudget + WifiBudget - Cardinality(wifiRows)
        logRows  == firstOf(log, budget)
    IN  [records    |-> {r[2] : r \in wifiRows \cup logRows},
         hasMore    |-> more \/ Cardinality(log) > budget,
         nextCursor |-> IF logRows = {} THEN NoCursor ELSE lastOf(logRows)[2]]

\* The next page.  A page without a cursor is the last of the run.
FetchPage ==
    LET found == logAfter[2 * To]
        page  == composeDeviceLogDrivenPage(found.reads, found.more, wifiPage(found.reads))
    IN  /\ paging
        /\ rowsRead' = rowsRead \cup page.records
        /\ pages' = pages + 1
        /\ paging' = (page.hasMore /\ page.nextCursor # NoCursor)
        /\ cursor' = IF paging' THEN page.nextCursor ELSE cursor
        /\ UNCHANGED <<docs, wifiLog, collection>>

-----------------------------------------------------------------------------

Sources == [Docs -> [time : 1..To, device : LogDevices, fields : 0..MaxFields]]

EventLogs == [WifiEvents -> [time : 1..To, device : LogDevices, data : BOOLEAN]]

\* Collections are read in the order in which the registry names them.
PagingInit ==
    /\ docs \in Sources
    /\ wifiLog \in EventLogs
    /\ collection \in {c \in [LogDevices -> {1, 2}] : c[1] = 1}
    /\ cursor = NoCursor
    /\ rowsRead = {}
    /\ pages = 0
    /\ paging = TRUE

PagingNext == FetchPage

PagingSpec == PagingInit /\ [][PagingNext]_pagingVars

-----------------------------------------------------------------------------
(* Properties.                                                             *)

Rows == UNION {rowsOf(d) : d \in Docs}

WifiRows == {<<e, 1>> : e \in WifiEvents}

\* Types of the source and of a run through it.
PagingTypeOK ==
    /\ docs \in Sources
    /\ wifiLog \in EventLogs
    /\ collection \in [LogDevices -> {1, 2}]
    /\ cursor \in Rows \cup {NoCursor}
    /\ rowsRead \subseteq Rows \cup WifiRows
    /\ pages \in Nat
    /\ paging \in BOOLEAN

\* When pages are complete: a run that is over has read every row above the
\* lower end of the window of every device that has no more documents than the
\* limit and belongs to the collection that is read first, however pages cut
\* documents, shards overlap, WiFi rows share the pages and other devices
\* exceed the limit.
withinLimits(d) ==
    /\ docs[d].time > 1
    /\ collection[docs[d].device] = 1
    /\ Cardinality({e \in Docs : docs[e].device = docs[d].device}) <= DeviceLimit

PagesAreComplete ==
    ~ paging => \A d \in Docs : withinLimits(d) => rowsOf(d) \subseteq rowsRead

\* Every page but the last brings a row of the device log that no page before
\* had: a run comes to its end, however full the instants are and whatever
\* WiFi rows come with them.  One that read the same page again and again
\* would hold the checkpoint back for ever.
PagesAdvance == pages <= Cardinality(rowsRead \cap Rows) + 1
=============================================================================
