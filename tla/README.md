# Verification of the anti-reverse device monitor

TLA+ models of the monitor, the TLC runs that check them on small instances and the
TLAPS proofs that carry the main results over to every instance. Paths below are those
of the repository.

## The system

The monitor pulls device logs from a company Mongo database into a local SQLite
database and serves pages from it. Its parts, their state and what makes them correct:

| Part | State | Operations | Hard behaviour | Correct when |
|---|---|---|---|---|
| Telemetry store (`src/repositories/telemetry-repository.ts`) | `Device`, `Telemetry`, `DeviceLatest` | `upsertBatch` | batches out of order, the same row again, two writers, rows swept under it | the latest value and `lastReportedAt` agree with the telemetry whatever the order |
| Device repository (`src/repositories/device-repository.ts`) | `Device`, `InverterBinding` | `upsertDevice`, `findOrCreateInverterBinding` | two unique constraints on bindings, several writers | no inverter on two channels; telemetry is under a channel that exists |
| Retention (`scripts/cleanup-retention.ts`) | `Telemetry` and three event tables | delete below a cutoff | deletes behind `DeviceLatest` | only old rows go, repeating it changes nothing |
| Excel import (`app/api/imports/excel`, `scripts/import-excel.ts`) | `ImportBatch` | one row at a time | a row fails, a binding fails, the process dies, two imports at once | a batch says what became of its rows |
| Source sync (`src/services/source-sync-service.ts`) | `SyncCheckpoint`, `SyncBatch`, `SyncError`, the local state of a run | `sync()` | paging newest first, failures and crashes between any two steps, concurrent runs | nothing below the checkpoint is lost silently; everything is read in the end |
| Mongo adapter (`src/adapters/source-db`) | none | `fetchTelemetry` | page cursor, per-device cap, several collections, WiFi rows | pages cover the window and come to an end |
| Device registry (`device-registry.ts`, registry scripts, `app/api/cron/sync-iot`) | one JSON file | merge, prune, SN map | several writers, a truncated file, failed and shifting list pages | no device is lost, no manual SN is overwritten |
| Sync worker (`src/services/source-sync-worker.ts`), resync script | loop state | cycle, busy retry, stop | stop during a wait or a retry, throws | cycles go on; stop ends the loop; failures are told |
| Live refresh (`src/components/live-source-poller.tsx`, `soft-refresh-button.tsx`, `src/domain/soft-refresh-policy.ts`) | shared lock, fingerprints, timers | tick, click, transition end, fail-safe | timers racing transitions | no two refreshes at once; lock and banner are let go |
| Migrations (`scripts/ensure-db-migrations.mjs`) | schema, `_prisma_migrations` | apply or baseline | crash between two statements, a worker that writes | no row is lost; success means the current schema |
| Histories and alarms (`telemetry-service.ts`, `faults.ts`, `sustained-reverse-flow.ts`) | none | one loop over rows for each view | window edges, baselines, rows of one instant, unreadable values | each view is that of the rows, and the views agree |
| Fleet list, pages, export (`device-service.ts`, `src/export/offline`) | none; the export's files | list, detail, `packageExport` | the data moves while an export reads it | cards match filters; a bundle is complete or absent |
| KPI band (`device-live-kpis.tsx`) | shown values, fetches | interval, visibility, new props | answers out of order or never | it shows its own device, and nothing old |
| Chart (`telemetry-chart.tsx`, `client-runtime.ts`, `beijing-sun.ts`) | selection, days, zoom, canvas | toggle, days, zoom, new series, paint | a frame paints what was asked for earlier; the days of two time zones | the canvas shows the samples and the choice, on both pages alike, before the nights they were taken in |
| Diagnostic scripts (`analyze-iot-recency.ts`, `capture-ui-review.ts`, ...) | none | reports, screenshots, demo data | none | not modelled |

The worker and the scripts call `sync()`; `sync()` asks the adapter for pages, the
adapter reads the registry file for each page; `sync()` upserts devices, then writes
chunks of 100 rows through `upsertBatch`; imports use the same two calls. Retention runs
on its own. The live page compares the checkpoint's `lastSuccessAt`, its status and the
newest `lastReportedAt` to decide whether to refresh. List, pages, charts and export are
recomputed from the tables on every request, each by its own loop. The registry file is
rewritten by scripts that know nothing of one another, and read by the sync, the list
and the export.

## The modules

**TelemetryStore** is the SQLite store as its writers see it. `telemetry[r]` says under
which serial number row `r` (one `sourceRecordId`) is stored; `latest[k]` is the row
`DeviceLatest` was copied from. `WriteBatch` is the transaction `upsertBatch`: INSERT OR
IGNORE, raise `lastReportedAt`, recompute `DeviceLatest` of every key that got a row.
`RegisterDevices` is `upsertDevice`, `Cleanup` the sweep. A row's time and key never
change; the device it is written under is a parameter, because the registry resolves the
serial number anew on each read. `StoreNext` lets any batch be written under any devices
at any time, so it stands for the sync, the imports and the scripts at once.

**SourceSync** is `sync()`, extending the store. A process `p` in `Syncs` has a local
state `run[p]` with a program counter:

| `pc` | action | code |
|---|---|---|
| `idle` | `Begin` | the call; `to` is now |
| `open` | `Open` | read the checkpoint, choose `from`, create the batch |
| `fetch` | `Fetch`, `FetchNothing` | `fetchTelemetry` and the loop over `page.records` |
| `devices` | `UpsertDevice` | one device at a time, outside the chunks' `try` |
| `write` | `WriteChunk`, `ChunkFails`, `ConflictUnreported` | one chunk's transaction, its `catch`, and the insert of a conflict's `SyncError` failing |
| `advance` | `Advance` | the checkpoint upsert |
| `finish` | `Finish` | the batch is closed |
| any | `Fail`, `Crash` | the outer `catch`; the death of the process |

Around the runs, `Publish` adds rows to the source, `ChangeRegistry` changes the
registry file, `TimePasses` and `Sweep` are the clock and the retention sweep. Page and
chunk sizes are left open: a page is any nonempty newest-first prefix of what the window
still holds, which covers every limit, and `hasMore` may also be set when a full page
ends the window. The options of a process (`--dry-run`, `--device-id`, `--sn`, `--from`)
are records in `Options[p]`. Three variables are ghosts: `reported` (rows counted as
failed), `skipped` (rows the last page left at the lower end of its window) and `exempt`
(rows no incremental sync promises: they appeared late, or their device is not in the
registry).

**Watermark** says what the checkpoint promises without saying how. Every promised row
from the horizon up to the mark is settled, and the mark moves, either way, only to
places where that is true. `SourceSync` implements it (`WatermarkSpec`), and each of its
steps is a step of the store (`StoreSpec`).

**SoftRefresh** is one open page. `refreshes[i]` is a refresh that waits for the server
or whose fail-safe timer still runs, and `lock` is `refreshInFlight` of the provider:

| action | code |
|---|---|
| `Click(b)` | `onClick` of the page's button or the banner's; hiding the banner unmounts its button |
| `FailsafeFires(i)` | the button's 20 s timer, also after the button has left the page |
| `TickClearsStale`, `TickStart`, `TickEnds(fp)` | `tick()` up to the fetch, and from its answer on; `TickEnds` follows `decideSoftRefresh` |
| `PendingEffect`, `PollerSettles` | the poller's effect on `isPending` true and false |
| `ButtonSettles`, `AnswerUnnoticed` | the button's effect; an answer nobody waits for |
| `Navigate` | another page: its buttons are new, a light page has no banner |
| `Publish`, `TimePasses` | the sync's commits; clock and timers |

Ages are kept instead of a clock and stop growing at the limit the code compares them
with. The effect on `isPending = true` is a step of its own because a tick may begin
before it; all other effects run with the render that triggers them. Answers come in any
order. What a page shows, and the router cache behind it, are left out. The ghost
`gaveUp` says that a timer or the stale limit released the lock of an open refresh.

**DeviceRegistry** is `config/devices.json` and its writers `writer[w]`: a run starts by
reading the file (`Start...`), an IoT run lists the platform page by page (`PageRead`, whose
item may be skipped as malformed, `PageRetried`, `PageFails`, `ListEnds`), then the merge of
its kind is written in two steps, as `writeFileSync` truncates first (`TruncateFile`,
`WriteFile`). `Killed` is the cron route's timeout or a death; `IotChanges` shifts the pages
under a run. Ghosts: `incomplete` (a page failed or moved, or an item was skipped), `stale`
(another run has written since this one read), `mapped` (manual entries that no such run has
taken away). `MaxListed` bounds the pages of the platform's list, and `MaxSafePages` is the
code's own limit on what is read.

**SyncWorker** is `startSourceSyncWorker` with `withSqliteBusyRetry` and the entry script
around it, and the loops of the resync script. `phase` follows the worker through
`BeginSync`, `SyncBusy` and `BackoffOver`, `CycleEnds`, `TimerFires`, `Stop`, `Exit`,
`Die` and `Restart`; `ResyncAttempt` is one attempt for one device.

**Migrations** is `ensure-db-migrations.mjs` on a schema seen as the set of tables,
columns and indexes that its checks and statements are about. `Mark` recognises a
migration, `Execute` runs one statement of it, `StatementFails` ends the script, `Applied`
records. `ScriptDies` comes between any two, `WorkerWrites` at any time. `old` and `new`
are the rows of `Telemetry` and of the table a rebuild copies into.

**MongoPaging** is `fetchTelemetry`: `FetchPage` is one call, with `logAfter[n]` for what the
loop over collections and shards has after its `n`-th query, `latestPerDevice` for the
aggregation with its cap, `wifiPage` for the events of the time the page spans, and
`composeDeviceLogDrivenPage` for the page and its cursor. The arrays of the code are sorted
and cut off, so they are sets here: a read is a row with the number of the query that brought
it, since with a cursor the shards overlap and a row that comes again counts again, and
`firstOf` takes the first reads in the order of a page.

**History** keeps the rows of one device and a clock. Its operators are the queries and
loops behind the histories: `getPlatformConnectivity`, `getInverterConnectivity`,
`getInverterFaultChanges` and `deriveFaultIncidents`, `buildReverseFlowIntervals`, the
alarms, the list's summary and the chart's window. A query brings a set of places in the
rows, whose order is that of the places; `pass` is a loop over such a set, with the step of
each loop (`visitPoint`, `visitChange`, `visitSample`) beside it. Heartbeats need of the rows
only their times, which is `reportTimes`.

**Fleet** keeps what reports say of each device, and the registry. `listDevices`,
`summary`, `matches`, `detailPage`, `buildDeviceViewModel` are operators. The steps of an
export are its reads, between which reports and registry syncs go on: `listExportSns`,
`buildOverviewViewModel` for the index, `exportDevice(row)` for each row of the list,
`exportInverter` for a linked inverter, whose failure the code swallows, `writeZipArchive`
and `exportThrows` for any other error. The rows of the list are taken in any order, which
contains the code's. `export.zip` says whose archive lies in the output directory: that of an
earlier run, of this run, or one cut off in the middle.

**LiveKpis** is the KPI band: `IntervalFires`, `onVisible`, `Rendered` start fetches,
`ServerReads`, `Answered` and `FetchFails` are their ends. **ChartPanel** is a chart in its
two copies: `Mount`, `Toggle`, `SetDays`, `NewSeries`, `FramePaints`, `onZoom`, `resetZoom`
and `Unmount` on the live page (`div` says whether the container is there, `instance`
whether the chart was made in it), `bindChartPanel`, `toggleOffline` and `setDaysOffline` on
an exported one. Its nights are `buildBeijingDayNightBands` from `sunTime`, the way of an
hour of the day to UTC and back. **ExcelImport** is an import row by row (`BindRow`,
`WriteRow` and their failures, `FinishImport`), beside other imports and the bindings of the
sync.

**MCOperations** composes DeviceRegistry, SyncWorker, Migrations and MongoPaging;
**MCReadModel** composes the five modules of the read side. Their parts share no state in
the code while they run, so a behaviour runs one part, chosen at its start. A full
product of the parts would check the same steps in more orders.

**MCTelemetryStore**, **MCSourceSync** and **MCSoftRefresh** give the constants values for TLC.
The theorems are in **TelemetryStoreProofs**, **SourceSyncProofs**, **SoftRefreshProofs**,
**DeviceRegistryProofs**, **MigrationsProofs**, **ExcelImportProofs**, **OperationsProofs** (the
worker, the paging and the composition `MCOperations`) and **ReadModelProofs** (the views, the
list, the band, the chart and the composition `MCReadModel`).
Definitions under the words "slip" or "slips" in the modules are wrong variants of the
code; the properties are tested against them.

## What TLC checks

| Run | Question | Result |
|---|---|---|
| MCTelemetryStore | do `DeviceLatest` and `lastReportedAt` agree with the telemetry for every order of batches, conflicts, re-imports and sweeps? | holds |
| MCSyncFaults | one worker, a failure or crash at any step, sweeps, a device pruned or renamed: types, the inductive invariant with `Coverage` in it, the checkpoint never moves back, and is every row settled in the end (`EventuallySettled`)? | holds |
| MCSyncConcurrent | a worker beside a script that syncs, dry-runs or resyncs one device, and a malformed row: `Coverage`, the refinements of `Watermark` and of the store, and is a row that is read again taken for a conflict (`OnlyRealFailures`)? | holds |
| MCSyncFailedRows | does a failure not advance the checkpoint? | violated |
| MCSyncSkipped | does a run read its whole window? | violated |
| MCSyncPerDevice | does a one-device sync leave the shared checkpoint alone? | violated with `--sn` |
| MCSoftRefresh | poller, buttons, timers and navigation: is there one refresh at a time until a guard gives up, is the lock released and the banner acted on in the end? | holds |
| MCRefreshStacks | is a second refresh never started while one is pending? | violated after a fail-safe |
| MCButtonSticks | does the button come back although a refresh is never answered? | violated |
| MCOperations | does an SN map survive overlapping writers, and does a prune drop only what the platform no longer lists? | holds, `ManualMapKept`, `DropsOnlyUnlisted`, `ListingEnds` |
| | does the worker sync for ever and obey `stop()`; does the resync summary tell each failure? | holds, `WorkerKeepsSyncing`, `StopIsObeyed`, `StopEndsWithTheCycle`, `ResyncTellsFailures` |
| | does a migration lose rows, and does success mean the current schema? | holds, `MigrationKeepsRows`, `MigrationEndsWell` |
| | do pages end, and miss nothing of a device within the limits? | holds, `PagesAdvance`, `PagesAreComplete` |
| MCNightBands | does each instant of a chart have the band of its own day? | violated |
| MCReadModel | are histories those of the rows, and do list, alarms, chart and page agree? | holds, `OfflineIsSilence`, `OnlineStateHistory`, `IncidentsCoverFaults`, `ViewsAgree` |
| | do cards match filters, and is a bundle complete but for what failed or moved? | holds, `FleetViewsAgree`, `ExportBundleComplete` |
| | does the band show its device and nothing old, and a chart its samples? | holds, `KpisFollow`, `LiveChartFollows`, `ChartCopiesAgree` |
| | does an import account for its rows? | holds, `ImportAccountsForRows` |

The six violations are disagreements between the code and its comments, docs or tests:

1. A chunk whose transaction fails is counted and the checkpoint moves past it;
   `docs/PHASE2_ACCEPTANCE_REPORT.md:24` says a failure does not advance the checkpoint.
   `Coverage` therefore counts a reported row as settled.
2. `--sn` restricts the rows of a run and still lets it advance the shared checkpoint,
   against the comment at `source-sync-service.ts:299`; only `--device-id` is protected.
3. A page that ends on a row at the lower bound of its window leaves the rows of that
   instant unread: the next page has no time shard. The comment at
   `source-sync-service.ts:88` promises the window from the watermark to now.
4. A button's fail-safe (20 s) and the poller's stale limit (60 s) release the shared
   lock of a refresh that is still pending, and the next click or tick starts a second
   one; `docs/11_OPS_RUNBOOK.md:96` and `soft-refresh-policy.ts:50` say that never happens.
5. A second refresh of the poller, started while its first is unanswered, does not change
   `isPending`, so the poller never learns that it is pending and never gives up on it.
   While the server stays silent the lock is held and every button disabled; the comment
   at `soft-refresh-button.tsx:8` says the button never sticks.
6. Every chart is shaded as if it were night at all hours. `beijingSunriseSunsetMs` takes
   the hour of the sunrise to UTC modulo 24, which is before midnight, adds eight hours
   and carries a day (`beijing-sun.ts:76-91`), so the sunrise of a day comes out as that
   of the next day, after the sunset. The band of each day is then empty, and those of the
   nights overlap. The comment at `beijing-sun.ts:43` promises the times of that day and
   `docs/10-STUD-学习/01-STUD-技术路线总览.md:434` bands from sunrise to sunset; the unit test
   looks at the clock time and at the number of bands. The exported page has a copy of
   the code (`client-runtime.ts:140-213`).

Once retention removed the telemetry behind a `DeviceLatest` row, an import of an older
row replaces it: `LatestRegressesOnlyAfterSweep` states that this is the only way a shown
value goes back in time.

### What the properties had to leave out

Several properties state an exception, and each exception is a behaviour of the code.

- *Sync.* A dry run that fails marks the shared checkpoint `failed`, which the live page
  then shows (`source-sync-service.ts:342`).
- *Registry.* A run that read the file before another rewrote it undoes the other's work,
  and a script that meets the truncated file continues from an empty registry
  (`device-registry.ts:45`). `sync-iot-device-registry.ts` with `--prune` also drops
  unlabelled devices the platform lists if their page failed (`iot-client.ts:201`) or their
  item did not fit the schema or had no id (`:216-225`): both are skipped with a warning,
  and the script exits with 0. Its usage text (`:13`) and `README.md:66` speak of devices
  that are not in the list.
- *Migrations.* After a death between two statements of 0003 or of a table rebuild, each
  later run fails on the half-made table or column; rows a worker writes between the copy
  and the drop are gone. A statement that fails because the database is busy leaves the
  schema as a death of the script at that statement does, and is covered as that.
- *Worker.* `stop()` during a back-off lets the remaining retries run. A failed result is
  retried only if its code says busy.
- *Paging.* Documents of a device beyond `PER_DEVICE_DOCUMENT_LIMIT` on a page, rows of a
  second collection when the first used up the budget, rows at the lower end of the window,
  and WiFi events between the spans of two pages are not read. A page without any known
  field ends the run.
- *Views.* A fault that is active over the whole window and never changes gives no incident.
  The list takes any report for a sign of life and the page only those of the CT
  (`device-service.ts:213`, `app/devices/[sn]/page.tsx:112`), so a device whose inverters
  alone report is online in the list and offline on its page. An inverter that reports power
  but never `online_state` is online on the detail page alone
  (`app/devices/[sn]/page.tsx:137`). The `inv-offline` filter also lists devices its card
  leaves out.
- *Export.* A device that is in the registry and never reported ends the export. The list is
  read for the pages and again for the index (`package-export.ts:38,76`); a device that
  reports for the first time in between has a link on the index and no page. An inverter
  page that fails is left out without a word and its link stays (`:120`). A run that fails
  leaves the archive of the run before it, or half an archive if the write of it fails.
- *KPI band.* A slow render may replace values that a fetch brought later.
- *Chart.* A zoom while a frame is due is overwritten by it (`telemetry-chart.tsx:255`). The
  chart is initialised once, in an effect without dependencies (`:188`), in a container that
  is there only while a selected series has points (`:502`): a panel that was opened with
  nothing to draw, or whose series were all unticked, stays blank when a series with points
  is ticked, until it is opened again. `LiveChartFollows` excepts such a panel by the ghost
  `emptied`, by what the user could see and not by the state of the chart, so a chart that
  is lost in any other way violates it. The exported page ends its window with the selected
  series (`client-runtime.ts:57`), the live page with any; exported daily counters lose the
  breaks at gaps (`html-utils.ts:56`).
- *Import.* A row that `upsertBatch` ignores as a duplicate counts as inserted
  (`imports/excel/route.ts:80`). A binding that fails leaves the batch `running` (`:53`). An
  inverter that is re-paired to another channel ends each sync run at its binding
  (`source-sync-service.ts:236`), until somebody removes the old one.

### Bounds

Four rows in the store (two of one time, and one key on each of two devices) give every
order of a newer, an equal and an older row of one key and one conflict. In the sync three
rows of two devices, two of them of the same time, give pages that split an instant and
windows that start on it. Where faults happen one device is in no registry and the other is
pruned, comes back, or changes its number between two pages; in the run about concurrency
both are registered for good. `Lookback` reaches back over the whole clock: a row that the
first run finds too old, because earlier attempts failed, is promised by nobody. The clock
has three or four values: a first run by lookback, a second from the checkpoint, a sweep in
between. `MaxFaults` is 1 where faults happen and 0 in the run about concurrency, which
keeps it small; the theorems cover any number. On the page the four limits keep their order
(fail-safe 1, cooldown 2, stale limit 3, gate 4, for 20, 30, 60 and 300 s); three versions
are enough to seed a fingerprint, to refresh, and to refresh again after giving up; three
refreshes may be open or timed at once.

Two registry writers with two runs or changes of the list between them, on a list of at most
two pages (`MaxListed`), give every overlap of two read-merge-write runs and a list that
shifts under one of them. Three documents and an event of two devices in two collections, in
a window of three seconds with shards of one, a cap of one document and two rows on a page,
give documents cut by a page, several of one instant, a capped device and a full budget.
Every age of the schema is an initial state and the script may die and run again without
limit. Three rows at six times around a window of three minutes give a baseline, a
repetition and a contradiction on either side of the window's edge. Two serial numbers and
registry entries with a page of two for the export give stubs, doubled numbers, a list that
is cut and one with two rows of a device; a behaviour of the fleet ends with its export.
Two devices, two fetches and ten units of time give each order of answers and renders over
two intervals. Three samples over two days of four units, with day and night in each,
give gaps, resets and negative runs; the sun rises in the second quarter of a day, before
the offset of the time zone, and sets in the last, as it does in Beijing. Two rows, two
batches and one binding by the sync give each interleaving of two imports.

The page's runs check for deadlock. In the others `CHECK_DEADLOCK FALSE` is there
because the clock and the rows end: when all time has passed and all rows are published
the rest of the world stops. No symmetry is used.

### Fairness

`FairSpec` asks weak fairness of `Step(p)` for each worker and of the clock. The worker's
loop (`source-sync-worker.ts:66-83`) calls `sync()` again after every cycle, whether it
failed or not, and nothing inside `sync()` waits for another process, so a step that is
enabled stays enabled until it is taken. Faults, publication, sweeps and scripts have no
fairness, and faults are finitely many (`MaxFaults`). A worker process that crashes is
restarted by its supervisor, which is the next `Begin`.

On the page `ClientFairness` asks that time goes on, that due timers and effects run, that
ticks come again and again (the 45 s interval at `live-source-poller.tsx:167` of a tab
that is looked at now and then), and, strongly, that `/api/live` answers some of them.
`FairSpec` adds a server that answers each refresh in the end; `MCButtonSticks` leaves
just that out.

`WorkerFairness` asks that a call of `sync()` ends, that timers fire and that a process that
has nothing left to wait for exits: the Mongo and SQLite calls have timeouts. Death and
signals have no fairness. `RegistryFairness` asks that a listing takes its next step, as
each request has a timeout. The migrations, the pages and the read side are checked
for safety only; `PagesAdvance` bounds the number of pages, so a run of them ends.

## What is proved

All theorems hold for every value of the constants that satisfies the module's assumption
(`StoreAssumption`, `SyncAssumption`, `RefreshAssumption`, `RegistryAssumption`,
`WorkerAssumption`, `MigrationAssumption`, `PagingAssumption`, `ImportAssumption`,
`HistoryAssumption`, `FleetAssumption`, `KpiAssumption`, `ChartAssumption`): any rows,
devices, processes, pages, chunks, numbers of faults, limits and refreshes. The assumptions
say what kind of thing each constant is. Those with content are that `Null`, `NoFrame`,
`Blank` and `Stale` are none of the values they stand beside, that the serial numbers and
registry entries of the fleet are finitely many, that a device that is online by its age is
active (`OnlineMinutes <= ActiveWindow`; minutes against a week in `device-service.ts`),
that a fetch of the KPI band ends before the next tick (`FetchLimit < Interval`), that no
phase of the CT is named like a metric of an inverter, and, of the paging, that documents
and events are finitely many, events sort behind documents, and limits, shards and budget
are positive.

*Store.* `StoreInv` is the conjunction of the store's types, its three invariants and
`CutoffInv`: the highest cutoff used so far lags the clock by at least the retention, so
cutoffs never move back and what was swept once stays below every later cutoff. It is
inductive because `UpsertBatch` recomputes exactly the keys that got a row from what is
stored then, and a sweep only removes rows older than its cutoff. From it follow
`StoreTypes`, `LatestCovers`, `LatestHasTelemetry`, `LastReportedIsCurrent` and, for
steps, `RegressionNeedsSweep`.

*Sync.* `SyncTypes` and `SyncImplementsStore` come first: each action of the sync changes
the tables by `WriteBatch`, `RegisterDevices`, `Cleanup` or `Tick`, or not at all, so the
store's theorems carry over. `Coverage` is not inductive: a run that is about to move the
checkpoint must have accounted for what lies below its new mark. `SyncInv` says so for every
unfinished run (`RunCovers`): a row in order between the run's horizon and its
`newestCursor` is settled, is in the page in hand, or is still in the part of the window
that the page cursor has not passed. `WindowOK` says why that is true at the start: before
the first page `newestCursor` is the saved cursor and the window starts there. `ClockInv`
says why new rows do not break it: they are not older than the clock, and no run knows a
later time. The induction uses one assumption, `SourceWideOptions`: a run that moves the
checkpoint is not narrowed by `--sn` or `--from`. Without it `Coverage` is false. From
`SyncInv` follow `CheckpointCovers` and `SyncImplementsWatermark`, for any number of
concurrent processes; `SingleRunnerMonotone` needs that there is one process.
`RereadsAreDuplicates` needs `NamesInv`: a row in the table has the serial number its device
has for every run that may still write it, so that a second write of it is a duplicate and
no conflict, as long as the registry gives the device no other number.

*Page.* `OneRefreshAtATime` is not inductive: timers and effects release the lock without
asking who holds it. `LockInv` says why that does no harm before a guard gives up: a
refresh that is open *or still has a timer* holds the lock and is the only one, so the
timer of a button that left the page can only release its own lock. `SoftCorrect` proves
it with the types, for any limits and any number of refreshes.

*Registry.* `MapIsKept` and `PruneIsSafe`, for any number of writers, devices, pages and
attempts. The file may lose a manual entry only if a run writes what it read before another
one wrote; `MapInv` therefore follows every run that is not stale: what it has read holds
the manual entries that still count, and `TruncateFile` empties the file under all other
runs at once. `DropsOnlyUnlisted` speaks of a step, so `PagesInv` adds what a listing
without a failed or shifted page or a skipped item has collected: all ids of the pages
before the one in hand. `ListingIsBounded` is `ListingEnds` without its fairness:
`stepsLeft` counts the attempts for the pages left, each step of a listing lowers it, and no
other step raises it.

*Worker.* `StopEndsWithTheCycle` bounds the calls of `sync()` after `stop()`. It needs
`LoopInv`: a back-off has a retry left, and nothing waits for a next cycle once `stop()`
was called, so a start after it is a retry and raises `attempt` too. `ResyncTellsFailures`
needs that the script has no outcome of a device it has not left behind: the device in
hand gets its only outcome when it is left.

*Migrations.* `RowsAreKept` and `ScriptEndsWell`, from every age of the schema and through
any deaths, runs and writes. `MigrationInv` says which migrations are recorded when one is in
hand (`OrderInv`), what recorded ones leave in the schema (`RecordedInv`), how far the one
in hand has come (`StageInv`), that the final index of a table implies a complete rebuild
(`IndexInv`, why a half-made table is never taken for a migrated one), that before the
first death each statement finds what it needs (`CleanInv`, why the script cannot fail
then), and that the copy has every row but those written after it (`RowsInv`).

*Paging.* `PagingAdvances` and `PagingCompletes`, for any documents, events, devices, shards,
limits and budgets. `AdvanceInv` says that while the run goes on each page brought a row of
the device log, and that none of those read lies behind the cursor; a page brings only rows
behind it (`isAfterSourceCursor`), so they are new. `PagesAreComplete` speaks of runs that are
over; `CompleteInv` makes the claim of every run: a row of a device within the limits was read
or lies behind the cursor. Within a page, queries of shards above a row bring rows above it
(`AboveStays`), the query of its own shard brings it or fills the page with rows above it
(`ShardSettlesRow`), and later queries only add (`SettledStays`). So a row that is missing on
a page lies behind its last row, and the page says `hasMore` (`PageSettlesRow`). Both
invariants together give `PagesArePrefixes`: between two pages the rows read of such a device
are exactly those up to the cursor, which is what `SourceSync` takes a page to be. Rows of the
second collection have no such theorem, as a full budget starves it.

*Import.* `RowsAreAccounted`, for any sheet and any number of concurrent imports:
`ImportInv` says of each batch that the rows before the one in hand are counted once
(`Counted`), that without a failure they are all in the table (`Written`), and that a row
in hand that is bound has its binding (`Bound`); no other import and no pairing of the sync
takes a row or a binding away.

*KPI band.* `BandFollows`: `FetchesInv` says that a fetch that still counts has the page's
props and does not outlive its limit; `FreshInv`, that as long as no tick was missed the
values were set since the last tick, or since the one before and then the fetch of the
last one is under way. Together they bound the age of what is shown, in whatever order
answers and renders come.

*Fleet.* `FleetViews` shows list, summary, filters and detail page to agree for any
records and registry; they are recomputed from one state, and the theorem is about the
operators. `BundleIsComplete` needs the export's own history (`ExportInv`): the devices of its
list have a row still to come or a page, each link has a page, an error or is the one in
hand, and one in hand has a binding, as nothing takes a binding away (`RecordsStay`,
`MoveKeepsExport`) — so only an error leaves a link without its page.

*Histories.* `SilenceIsShown`: for any rows and any threshold the offline intervals of the
platform and of an inverter's heartbeat are exactly the minutes whose last report is as
old as the threshold. The invariant needed of the state is only that no row is newer than the
clock and that rows lie in the order of their times (`HistoryInv`); the proofs are about the
loops. Least and greatest elements of sets of times come from the well-foundedness of the
numbers, and so does what `pass` computes after each place. The other loops each have an
invariant over the places they have visited, compared with a replay of the rows at every
instant whose rows have been visited:
`OnlineInv` for `OnlineStatesAreShown` (the state has lasted since `stateSince`, the windows
before are those of the last report), `FaultInv` for `IncidentsAreFaults` (a bit was active if
an incident that is over covers the instant, or if it is in the mask and has been since; the
bits of the mask are known to the loop only after the first change, which is why the property
speaks of windows with one), and `FlowInv` for `ViewsOfOneDevice`. There, `AheadInv`
compares two passes over the same samples of which one began earlier, as the alarms do
compared with the list: until the later one meets a sample the earlier one is ahead of it, and
from then on a run of the one is part of a run of the other.

*Chart.* `CanvasFollows`: as long as a panel was never empty its container is the chart's
and its canvas, or the frame that is due, shows the component's option unless a zoom came in
between (`CanvasInv`); `LiveChartFollows` alone is not inductive, as it says nothing while a
frame is due. `NightIsEverywhere` proves the sixth finding for all windows: where sunrise is
before the time zone's offset and sunset is not, no band is a day.

The compositions: each behaviour that `MCReadModel` runs is one of every part
(`PartsOfReadModel`), so `ReadModelTypes` and `ReadModelSafe` follow. In `MCOperations` a
worker or a paged run that is not the part chosen keeps an initial state of its own, so
`OperationsCorrect` proves their invariants of the composition directly; `OperationsTypes`
and `OperationsSafe` follow from it and from the theorems about the registry and the
migrations.

### What is only model-checked

- Liveness: `EventuallySettled`, `ButtonNeverSticks`, `BannerIsActedOn`, `ListingEnds`,
  `StopIsObeyed`, `WorkerKeepsSyncing`. Fairness and ENABLED are out of the prover's reach;
  of `ListingEnds` the bound on the steps is proved (`ListingIsBounded`).
- `ChartCopiesAgree`: it speaks of sequences of points that are filtered, broken and flattened
  (`SelectSeq`, `FlattenSeq`), and what those operators return is an induction over data.
- The violated properties, which are false.

## What is not modelled

Within the modelled parts: the values of rows (two writes of one id differ by their device),
the id inside the checkpoint (nothing reads it back), the batch and error tables of the sync
(written, never read), nickname and collection of registry entries, names, units and aliases
of metrics, labels of faults, the 32-bit conversion of a fault mask (a mask is its set of
bits), the single-file mode of the export, the clock times of sunrise and sunset as
functions of the date (two constants; the day they are put on is computed), what an
inverter's own page shows (the export's model has only whether it could be made). Rendering,
styles, ZIP and workbook formats and the diagnostic scripts have no state that could go
wrong over time. The composition of the adapter's cap with the checkpoint is not modelled:
`SourceSync` takes pages as prefixes, which `PagesArePrefixes` grants for devices within the
limits only.

## Plan

Next: `ChartCopiesAgree` over sets of places instead of sequences, as the histories are now,
so that it can be proved. A later model could compose the worker's loop with `SourceSync`.
