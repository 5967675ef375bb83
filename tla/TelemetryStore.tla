--------------------------- MODULE TelemetryStore ---------------------------
(***************************************************************************)
(* The SQLite store as its writers see it: the Device, Telemetry and       *)
(* DeviceLatest tables, the transaction TelemetryRepository.upsertBatch,   *)
(* the Excel import that calls it row by row, and the retention sweep that *)
(* deletes old Telemetry rows and leaves DeviceLatest alone.               *)
(*                                                                         *)
(* A telemetry row is known by its sourceRecordId, a number whose order    *)
(* stands for the order of the ids.  Its reportedAt and its key (metric    *)
(* and inverter channel, folded into Metrics) never change; the device it  *)
(* is written under is a parameter of the write, because the serial number *)
(* of a source device is looked up each time it is read.  Values are not   *)
(* modelled: two writes of one id differ exactly when their devices do.    *)
(***************************************************************************)
EXTENDS Integers

CONSTANTS
    NumRows,    \* rows 1..NumRows exist, numbered in sourceRecordId order
    MaxTime,    \* last value of the wall clock (bound of the model)
    Sns,        \* device serial numbers
    NoSn,       \* "no serial number": the row is not in the Telemetry table
    Metrics,    \* metric keys of one device
    At,         \* At[r]: reportedAt of row r
    Metric,     \* Metric[r]: metric key of row r
    Retention   \* DATA_RETENTION_DAYS, at least 1

Rows == 1..NumRows
NoRow == 0
Times == 0..MaxTime
Keys == Sns \X Metrics

ASSUME StoreAssumption ==
    /\ NumRows \in Nat
    /\ MaxTime \in Nat \ {0}
    /\ NoSn \notin Sns
    /\ At \in [Rows -> 1..MaxTime]
    /\ Metric \in [Rows -> Metrics]
    /\ Retention \in Nat \ {0}

VARIABLES
    clock,           \* wall clock
    devices,         \* serial numbers with a Device row
    telemetry,       \* telemetry[r]: device row r is stored under, or NoSn
    lastReportedAt,  \* Device.lastReportedAt, 0 for NULL
    latest,          \* DeviceLatest per key: the row it was copied from, or NoRow
    cutoff           \* highest cutoff a retention sweep has used

tables == <<devices, telemetry, lastReportedAt, latest>>
storeVars == <<clock, tables, cutoff>>

-----------------------------------------------------------------------------

\* ORDER BY reportedAt DESC, sourceRecordId DESC
Newer(r, q) == At[r] > At[q] \/ (At[r] = At[q] /\ r > q)

NewestOf(S) == CHOOSE r \in S : \A q \in S : q = r \/ Newer(r, q)

\* The Telemetry rows of a key in a state `store' of the table.
RowsOf(store, k) == {r \in Rows : store[r] = k[1] /\ Metric[r] = k[2]}

\* The rows of a batch that INSERT OR IGNORE really inserts: their device
\* exists and their id is new.  A stored id is a duplicate (same content) or
\* a conflict (another device): either way the stored row is kept.
Created(batch, snOf) ==
    {r \in batch : snOf[r] \in devices /\ telemetry[r] = NoSn}

\* A slip the properties must notice: a stored id is a conflict, whoever has it.
ConflictsWithStored(batch, snOf) ==
    {r \in batch : snOf[r] \in devices /\ telemetry[r] # NoSn}

\* Rows whose id is stored under another device: kept, counted as conflicts.
Conflicts(batch, snOf) ==
    {r \in batch : snOf[r] \in devices /\ telemetry[r] \notin {NoSn, snOf[r]}}

\* Slips in the code below that the properties must notice.
RaisedToLast(s, rows) ==
    IF rows # {} THEN At[NewestOf(rows)] ELSE lastReportedAt[s]

LastWriteWins(batch, snOf) ==
    LET created == Created(batch, snOf)
        OfKey(k) == {r \in created : k = <<snOf[r], Metric[r]>>}
    IN  /\ telemetry' =
             [r \in Rows |-> IF r \in created THEN snOf[r] ELSE telemetry[r]]
        /\ lastReportedAt' = [s \in Sns |->
             IF \E r \in created : snOf[r] = s /\ At[r] > lastReportedAt[s]
             THEN At[NewestOf({r \in created : snOf[r] = s})] ELSE lastReportedAt[s]]
        /\ latest' = [k \in Keys |->
             IF OfKey(k) # {} THEN NewestOf(OfKey(k)) ELSE latest[k]]

RegisterNameless(sns) ==
    /\ devices' = devices \cup sns \cup {NoSn}
    /\ UNCHANGED <<clock, telemetry, lastReportedAt, latest, cutoff>>

CleanupInclusive ==
    /\ clock > Retention
    /\ cutoff' = clock - Retention
    /\ telemetry' = [r \in Rows |-> IF At[r] <= cutoff' THEN NoSn ELSE telemetry[r]]
    /\ UNCHANGED <<clock, devices, lastReportedAt, latest>>

-----------------------------------------------------------------------------

\* lastReportedAt of a device after the rows created for it.
Raised(s, rows) ==
    IF rows # {} /\ At[NewestOf(rows)] > lastReportedAt[s]
    THEN At[NewestOf(rows)]
    ELSE lastReportedAt[s]

\* One transaction: insert the new rows, raise lastReportedAt of their
\* devices, then recompute DeviceLatest of every key that got a row.
UpsertBatch(batch, snOf) ==
    LET created == Created(batch, snOf)
        stored  == [r \in Rows |-> IF r \in created THEN snOf[r] ELSE telemetry[r]]
        touched == {<<snOf[r], Metric[r]>> : r \in created}
    IN  /\ telemetry' = stored
        /\ lastReportedAt' =
             [s \in Sns |-> Raised(s, {r \in created : snOf[r] = s})]
        /\ latest' =
             [k \in Keys |-> IF k \in touched THEN NewestOf(RowsOf(stored, k))
                                              ELSE latest[k]]

-----------------------------------------------------------------------------

StoreInit ==
    /\ clock = 1
    /\ devices = {}
    /\ telemetry = [r \in Rows |-> NoSn]
    /\ lastReportedAt = [s \in Sns |-> 0]
    /\ latest = [k \in Keys |-> NoRow]
    /\ cutoff = 0

Tick ==
    /\ clock < MaxTime
    /\ clock' = clock + 1
    /\ UNCHANGED <<tables, cutoff>>

\* upsertDevice: create the Device rows a batch needs before its telemetry is
\* written, with no lastReportedAt (an existing row keeps its own).
RegisterDevices(sns) ==
    /\ devices' = devices \cup sns
    /\ UNCHANGED <<clock, telemetry, lastReportedAt, latest, cutoff>>

\* A writer commits a batch; devices it did not register are skipped.
WriteBatch(batch, snOf) ==
    /\ batch # {}
    /\ UpsertBatch(batch, snOf)
    /\ UNCHANGED <<clock, devices, cutoff>>

\* cleanupRetention deletes the Telemetry rows strictly older than the
\* cutoff; DeviceLatest and Device are not swept.
Cleanup ==
    /\ clock > Retention
    /\ cutoff' = clock - Retention
    /\ telemetry' = [r \in Rows |-> IF At[r] < cutoff' THEN NoSn ELSE telemetry[r]]
    /\ UNCHANGED <<clock, devices, lastReportedAt, latest>>

StoreNext ==
    \/ Tick
    \/ \E sns \in SUBSET Sns : RegisterDevices(sns)
    \/ \E batch \in SUBSET Rows : \E snOf \in [batch -> Sns] : WriteBatch(batch, snOf)
    \/ Cleanup

StoreSpec == StoreInit /\ [][StoreNext]_storeVars

-----------------------------------------------------------------------------

\* Types of the tables.
StoreTypeOK ==
    /\ clock \in 1..MaxTime
    /\ devices \subseteq Sns
    /\ telemetry \in [Rows -> Sns \cup {NoSn}]
    /\ lastReportedAt \in [Sns -> Times]
    /\ latest \in [Keys -> Rows \cup {NoRow}]
    /\ cutoff \in Times

\* What the dashboard shows is never behind what is stored: every stored row
\* has a DeviceLatest row of its key, and no stored row of the key is newer,
\* whatever order batches, imports and sweeps came in (upsertBatch re-queries
\* the table instead of comparing with the row it wrote).
LatestCoversStore ==
    \A r \in Rows : telemetry[r] # NoSn =>
        LET shown == latest[<<telemetry[r], Metric[r]>>]
        IN  shown # NoRow /\ ~ Newer(r, shown)

\* DeviceLatest never shows a value that has no telemetry behind it, except
\* one whose telemetry a retention sweep removed.
LatestIsStoredOrSwept ==
    \A k \in Keys : latest[k] # NoRow =>
        \/ latest[k] \in RowsOf(telemetry, k)
        \/ At[latest[k]] < cutoff

\* Device.lastReportedAt, which decides online/offline, is at least as recent
\* as every value DeviceLatest shows for the device, and only devices that
\* exist have one.
LatestWithinLastReported ==
    /\ \A k \in Keys : latest[k] # NoRow => At[latest[k]] <= lastReportedAt[k[1]]
    /\ \A s \in Sns : lastReportedAt[s] > 0 => s \in devices

\* A DeviceLatest row is replaced by an older one only when the telemetry
\* behind it was swept: re-imports and out-of-order batches never do that.
LatestRegressesOnlyAfterSweep ==
    [][\A k \in Keys :
          /\ latest[k] # NoRow
          /\ At[latest'[k]] < At[latest[k]]
          => At[latest[k]] < cutoff]_storeVars
=============================================================================
