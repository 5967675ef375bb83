----------------------------- MODULE SourceSync -----------------------------
(***************************************************************************)
(* SourceSyncService.sync: the incremental pull of telemetry from the      *)
(* company Mongo logs into SQLite, as the long-running worker and the      *)
(* manual scripts run it, possibly at the same time.                       *)
(*                                                                         *)
(* A run reads the shared checkpoint (the time of the newest row synced    *)
(* so far), fetches the window [checkpoint, now] page by page from the     *)
(* newest row to the oldest, writes each page in chunks, and only at the   *)
(* end moves the checkpoint.  A write failure of a chunk is counted and    *)
(* the run goes on; any other failure ends the run; a crash may hit        *)
(* between any two steps.                                                  *)
(*                                                                         *)
(* Abstractions.  Page and chunk sizes are left open: a page is any        *)
(* nonempty newest-first prefix of what the window still holds.  The       *)
(* checkpoint keeps its time and not the id, which nothing reads back.     *)
(* SyncBatch and SyncError rows are only ever written; what they record    *)
(* is kept as the set "reported".  The source is the interface that        *)
(* fetchTelemetry promises for one collection below its per-device cap.    *)
(***************************************************************************)
EXTENDS TelemetryStore

CONSTANTS
    Syncs,            \* processes that may run sync(): the worker, scripts
    Workers,          \* those of them that run it again and again
    Options,          \* Options[p]: the option records p may be started with
    Devices,          \* source device ids
    AllDevices,       \* no --device-id: the run is source-wide
    Dev,              \* Dev[r]: source device that logged row r
    Malformed,        \* rows the record schema rejects
    Lookback,         \* SOURCE_INITIAL_LOOKBACK_DAYS
    RegistryInit,     \* the device registry at the start
    RegistryChanges,  \* pairs <<device, serial number or NoSn>> it may change to
    MaxFaults         \* bound on crashes and failures in one behaviour

NoFrom == -1

OptionType ==
    [dryRun : BOOLEAN,
     device : Devices \cup {AllDevices},   \* --device-id, sets ignoreCheckpoint
     sn     : Sns \cup {NoSn},             \* --sn
     from   : Times \cup {NoFrom}]         \* --from

ASSUME SyncAssumption ==
    /\ Workers \subseteq Syncs
    /\ Options \in [Syncs -> SUBSET OptionType]
    /\ AllDevices \notin Devices
    /\ Dev \in [Rows -> Devices]
    /\ Malformed \subseteq Rows
    /\ Lookback \in Nat
    /\ RegistryInit \in [Devices -> Sns \cup {NoSn}]
    /\ RegistryChanges \subseteq Devices \X (Sns \cup {NoSn})
    /\ MaxFaults \in Nat

VARIABLES
    source,      \* rows that are in the source collection
    registry,    \* device registry: serial number of a device, or NoSn
    checkpoint,  \* SyncCheckpoint.sourceCursor: its time, 0 when empty
    horizon,     \* start of the history the checkpoint speaks for
    cpStatus,    \* SyncCheckpoint.status
    run,         \* run[p]: local state of process p's current run
    reported,    \* rows counted in totals.failed of some run
    skipped,     \* rows left unread at the lower bound of a window
    exempt,      \* rows an incremental sync never promised to see
    faults       \* crashes and failures so far

syncVars == <<source, registry, checkpoint, horizon, cpStatus, run, reported,
              skipped, exempt, faults>>
vars == <<storeVars, syncVars>>

Plain == [dryRun |-> FALSE, device |-> AllDevices, sn |-> NoSn, from |-> NoFrom]

Idle ==
    [pc |-> "idle", opt |-> Plain, to |-> 0, from |-> 0, saved |-> 0,
     horizon |-> 0, newest |-> 0, cursor |-> NoRow, more |-> FALSE,
     pending |-> {}, snOf |-> RegistryInit]

\* A slip in the code below that the properties must notice: a loop that ends
\* after one page.
FirstPageOnly(s) == "advance"

\* Only a source-wide run reads and writes the shared checkpoint, and only
\* when it is not a dry run does it move it.
Shared(opt) == opt.device = AllDevices
Advances(opt) == Shared(opt) /\ ~ opt.dryRun

\* What has become of a row: it is stored, some run counted it as failed, or
\* it is older than what retention keeps.
Done(r) == telemetry[r] # NoSn \/ r \in reported \/ At[r] < cutoff

-----------------------------------------------------------------------------
(* The source side of a page.                                              *)

\* isAfterSourceCursor: pages go by reportedAt descending, then id ascending.
After(r, c) == At[r] < At[c] \/ (At[r] = At[c] /\ r > c)

\* A slip the properties must notice: the window is open at its lower end.
WindowExclusive(s) ==
    {r \in source :
        /\ registry[Dev[r]] # NoSn
        /\ s.opt.device \in {AllDevices, Dev[r]}
        /\ s.from < At[r] /\ At[r] <= s.to
        /\ s.cursor # NoRow => After(r, s.cursor)}

\* Rows of the query window not yet passed by the page cursor.
Window(s) ==
    {r \in source :
        /\ registry[Dev[r]] # NoSn
        /\ s.opt.device \in {AllDevices, Dev[r]}
        /\ s.from <= At[r] /\ At[r] <= s.to
        /\ s.cursor # NoRow => After(r, s.cursor)}

\* The window's upper end moves down to the cursor; once it meets the lower
\* end there is no time shard left to query.
NoShards(s) == s.to <= s.from \/ (s.cursor # NoRow /\ At[s.cursor] <= s.from)

\* Nonempty prefixes of a set of rows in page order.
Prefixes(S) == {P \in SUBSET S : P # {} /\ \A r \in P, q \in S \ P : After(q, r)}

LastOf(P) == CHOOSE r \in P : \A q \in P : q = r \/ After(r, q)

\* Rows of a page that pass the schema and the --sn filter.
Accepted(s, page) ==
    {r \in page \ Malformed : s.opt.sn \in {NoSn, registry[Dev[r]]}}

\* Serial number each row of the page in hand is written under.
SnOf(s, rows) == [r \in rows |-> s.snOf[Dev[r]]]

\* Where a run goes when the page in hand is finished.
NextPage(s) == IF s.more THEN "fetch" ELSE "advance"

-----------------------------------------------------------------------------
(* Steps of a run.                                                         *)

\* More slips: newestCursor does not start from the saved cursor, every known
\* device is upserted and not only those of the page, a chunk is written
\* without refreshing DeviceLatest, a failed run saves its newestCursor.
OpenAfresh(p) ==
    LET s     == run[p]
        saved == IF Shared(s.opt) THEN checkpoint ELSE 0
        back  == IF s.to > Lookback THEN s.to - Lookback ELSE 0
        from  == IF s.opt.from # NoFrom THEN s.opt.from
                 ELSE IF saved # 0 THEN saved ELSE back
    IN  /\ s.pc = "open"
        /\ run' = [run EXCEPT
             ![p].pc = "fetch", ![p].from = from, ![p].saved = saved,
             ![p].newest = 0,
             ![p].horizon = IF saved # 0 THEN horizon ELSE from]
        /\ UNCHANGED <<storeVars, source, registry, checkpoint, horizon,
                       cpStatus, reported, skipped, exempt, faults>>

UpsertAllDevices(p) ==
    /\ run[p].pc = "devices"
    /\ RegisterDevices({run[p].snOf[d] : d \in Devices})
    /\ run' = [run EXCEPT ![p].pc = "write"]
    /\ UNCHANGED <<source, registry, checkpoint, horizon, cpStatus,
                   reported, skipped, exempt, faults>>

WriteTelemetryOnly(p) ==
    LET s == run[p]
    IN  /\ s.pc = "write"
        /\ telemetry' = [r \in Rows |-> IF r \in s.pending THEN s.snOf[Dev[r]]
                                                           ELSE telemetry[r]]
        /\ run' = [run EXCEPT ![p].pending = {}, ![p].pc = NextPage(s)]
        /\ UNCHANGED <<clock, devices, lastReportedAt, latest, cutoff, source,
                       registry, checkpoint, horizon, cpStatus, reported,
                       skipped, exempt, faults>>

FailSavesCursor(p) ==
    /\ run[p].pc \in {"fetch", "devices", "write"}
    /\ faults < MaxFaults
    /\ cpStatus' = "failed"
    /\ checkpoint' = run[p].newest
    /\ run' = [run EXCEPT ![p] = Idle]
    /\ faults' = faults + 1
    /\ UNCHANGED <<storeVars, source, registry, horizon, reported, skipped, exempt>>

\* The script or worker calls sync(): `to' is the time of the call.
Begin(p) ==
    /\ run[p].pc = "idle"
    /\ \E opt \in Options[p] :
          run' = [run EXCEPT ![p].pc = "open", ![p].opt = opt, ![p].to = clock]
    /\ UNCHANGED <<storeVars, source, registry, checkpoint, horizon, cpStatus,
                   reported, skipped, exempt, faults>>

\* Read the checkpoint and fix the window's lower end.
Open(p) ==
    LET s     == run[p]
        saved == IF Shared(s.opt) THEN checkpoint ELSE 0
        back  == IF s.to > Lookback THEN s.to - Lookback ELSE 0
        from  == IF s.opt.from # NoFrom THEN s.opt.from
                 ELSE IF saved # 0 THEN saved ELSE back
    IN  /\ s.pc = "open"
        /\ run' = [run EXCEPT
             ![p].pc = "fetch", ![p].from = from, ![p].saved = saved,
             ![p].newest = saved,
             ![p].horizon = IF saved # 0 THEN horizon ELSE from]
        /\ UNCHANGED <<storeVars, source, registry, checkpoint, horizon,
                       cpStatus, reported, skipped, exempt, faults>>

\* An empty page ends the loop.
FetchNothing(p) ==
    LET s == run[p]
    IN  /\ s.pc = "fetch"
        /\ NoShards(s) \/ Window(s) = {}
        /\ run' = [run EXCEPT ![p].pc = "advance", ![p].more = FALSE]
        /\ skipped' = IF s.cursor # NoRow THEN skipped \cup Window(s) ELSE skipped
        /\ UNCHANGED <<storeVars, source, registry, checkpoint, horizon,
                       cpStatus, reported, exempt, faults>>

\* A page: malformed rows are counted, rows of another --sn are passed over,
\* the rest raise newestCursor and, unless this is a dry run, wait to be
\* written.  hasMore is also set when a full page happens to end the window.
Fetch(p) ==
    LET s == run[p]
    IN  /\ s.pc = "fetch"
        /\ ~ NoShards(s)
        /\ \E page \in Prefixes(Window(s)) : \E more \in {page # Window(s), TRUE} :
             LET rows == Accepted(s, page)
                 top  == IF rows = {} THEN 0 ELSE At[NewestOf(rows)]
                 pend == IF s.opt.dryRun THEN {} ELSE rows
             IN  /\ run' = [run EXCEPT ![p] =
                      [s EXCEPT !.pc = IF pend # {} THEN "devices"
                                       ELSE IF more THEN "fetch" ELSE "advance",
                                !.newest = IF top > s.newest THEN top ELSE s.newest,
                                !.cursor = LastOf(page),
                                !.more = more,
                                !.pending = pend,
                                !.snOf = registry]]
                 /\ reported' = reported \cup (page \cap Malformed)
        /\ UNCHANGED <<storeVars, source, registry, checkpoint, horizon,
                       cpStatus, skipped, exempt, faults>>

\* Upsert the devices of the page one by one, outside the chunks' try block.
UpsertDevice(p) ==
    LET s      == run[p]
        needed == {s.snOf[Dev[r]] : r \in s.pending}
    IN  /\ s.pc = "devices"
        /\ \E sn \in needed : RegisterDevices({sn})
        /\ run' = [run EXCEPT
             ![p].pc = IF needed \subseteq devices' THEN "write" ELSE "devices"]
        /\ UNCHANGED <<source, registry, checkpoint, horizon, cpStatus,
                       reported, skipped, exempt, faults>>

\* The page minus a chunk, and where that leaves the run.
AfterChunk(p, chunk) ==
    LET s == run[p]
    IN  run' = [run EXCEPT
          ![p].pending = s.pending \ chunk,
          ![p].pc = IF s.pending = chunk THEN NextPage(s) ELSE "write"]

\* A chunk commits; its conflicts are counted.
WriteChunk(p) ==
    LET s == run[p]
    IN  /\ s.pc = "write"
        /\ \E chunk \in Prefixes(s.pending) :
             /\ WriteBatch(chunk, SnOf(s, chunk))
             /\ reported' = reported \cup Conflicts(chunk, SnOf(s, chunk))
             /\ AfterChunk(p, chunk)
        /\ UNCHANGED <<source, registry, checkpoint, horizon, cpStatus,
                       skipped, exempt, faults>>

\* A chunk's transaction fails: its rows are counted, nothing is written,
\* and the run goes on.
ChunkFails(p) ==
    LET s == run[p]
    IN  /\ s.pc = "write"
        /\ faults < MaxFaults
        /\ \E chunk \in Prefixes(s.pending) :
             /\ reported' = reported \cup chunk
             /\ AfterChunk(p, chunk)
        /\ faults' = faults + 1
        /\ UNCHANGED <<storeVars, source, registry, checkpoint, horizon,
                       cpStatus, skipped, exempt>>

\* A chunk commits, but the SyncError row of a conflict cannot be inserted:
\* the whole chunk is counted although it is written.
ConflictUnreported(p) ==
    LET s == run[p]
    IN  /\ s.pc = "write"
        /\ faults < MaxFaults
        /\ \E chunk \in Prefixes(s.pending) :
             /\ Conflicts(chunk, SnOf(s, chunk)) # {}
             /\ WriteBatch(chunk, SnOf(s, chunk))
             /\ reported' = reported \cup chunk
             /\ AfterChunk(p, chunk)
        /\ faults' = faults + 1
        /\ UNCHANGED <<source, registry, checkpoint, horizon, cpStatus,
                       skipped, exempt>>

\* After the last page a source-wide run moves the checkpoint to the newest
\* row it accepted, whatever happened to the rows.
Advance(p) ==
    LET s == run[p]
    IN  /\ s.pc = "advance"
        /\ IF Advances(s.opt)
           THEN /\ checkpoint' = s.newest
                /\ horizon' = s.horizon
                /\ cpStatus' = "ok"
           ELSE UNCHANGED <<checkpoint, horizon, cpStatus>>
        /\ run' = [run EXCEPT ![p].pc = "finish"]
        /\ UNCHANGED <<storeVars, source, registry, reported, skipped, exempt, faults>>

\* The SyncBatch is closed and sync() returns.
Finish(p) ==
    /\ run[p].pc = "finish"
    /\ run' = [run EXCEPT ![p] = Idle]
    /\ UNCHANGED <<storeVars, source, registry, checkpoint, horizon, cpStatus,
                   reported, skipped, exempt, faults>>

\* A fetch, a device upsert, a SyncError insert or the closing updates throw:
\* the catch block marks the shared checkpoint failed, in a dry run too, and
\* leaves its cursor alone.
Fail(p) ==
    LET s == run[p]
    IN  /\ \/ s.pc = "fetch"
           \/ s.pc \in {"devices", "write"}
           \/ s.pc = "advance" /\ Advances(s.opt)
           \/ s.pc = "finish" /\ ~ s.opt.dryRun
        /\ faults < MaxFaults
        /\ cpStatus' = IF Shared(s.opt) THEN "failed" ELSE cpStatus
        /\ run' = [run EXCEPT ![p] = Idle]
        /\ faults' = faults + 1
        /\ UNCHANGED <<storeVars, source, registry, checkpoint, horizon,
                       reported, skipped, exempt>>

\* The process dies; what it committed stays.
Crash(p) ==
    /\ run[p].pc # "idle"
    /\ faults < MaxFaults
    /\ run' = [run EXCEPT ![p] = Idle]
    /\ faults' = faults + 1
    /\ UNCHANGED <<storeVars, source, registry, checkpoint, horizon, cpStatus,
                   reported, skipped, exempt>>

-----------------------------------------------------------------------------
(* The rest of the world.                                                  *)

\* A device's row reaches the source.  A row that shows up with a time
\* already past, or from a device that is not registered, is exempt.
Publish(r) ==
    /\ r \notin source
    /\ source' = source \cup {r}
    /\ exempt' = IF At[r] < clock \/ registry[Dev[r]] = NoSn
                 THEN exempt \cup {r} ELSE exempt
    /\ UNCHANGED <<storeVars, registry, checkpoint, horizon, cpStatus, run,
                   reported, skipped, faults>>

\* The registry files change: a device is added, pruned, or its placeholder
\* serial number is replaced.
ChangeRegistry(d, sn) ==
    /\ registry[d] # sn
    /\ registry' = [registry EXCEPT ![d] = sn]
    /\ exempt' = IF sn = NoSn THEN exempt \cup {r \in source : Dev[r] = d}
                 ELSE exempt
    /\ UNCHANGED <<storeVars, source, checkpoint, horizon, cpStatus, run,
                   reported, skipped, faults>>

TimePasses == Tick /\ UNCHANGED syncVars

Sweep == Cleanup /\ UNCHANGED syncVars

-----------------------------------------------------------------------------

Init ==
    /\ StoreInit
    /\ source = {}
    /\ registry = RegistryInit
    /\ checkpoint = 0
    /\ horizon = 0
    /\ cpStatus = "none"
    /\ run = [p \in Syncs |-> Idle]
    /\ reported = {}
    /\ skipped = {}
    /\ exempt = {}
    /\ faults = 0

\* What the code does next in process p when nothing fails.
Step(p) ==
    \/ Begin(p)
    \/ Open(p)
    \/ FetchNothing(p)
    \/ Fetch(p)
    \/ UpsertDevice(p)
    \/ WriteChunk(p)
    \/ Advance(p)
    \/ Finish(p)

Next ==
    \/ \E p \in Syncs : Step(p) \/ ChunkFails(p) \/ ConflictUnreported(p)
                      \/ Fail(p) \/ Crash(p)
    \/ \E r \in Rows : Publish(r)
    \/ \E c \in RegistryChanges : ChangeRegistry(c[1], c[2])
    \/ TimePasses
    \/ Sweep

Spec == Init /\ [][Next]_vars

\* A worker's process keeps running its cycles and the clock goes on; nothing
\* else has to happen.
FairSpec == Spec /\ (\A p \in Workers : WF_vars(Step(p))) /\ WF_vars(TimePasses)

-----------------------------------------------------------------------------
(* Properties.                                                             *)

PCs == {"idle", "open", "fetch", "devices", "write", "advance", "finish"}

RunType ==
    [pc : PCs, opt : OptionType, to : Times, from : Times, saved : Times,
     horizon : Times, newest : Times, cursor : Rows \cup {NoRow},
     more : BOOLEAN, pending : SUBSET Rows, snOf : [Devices -> Sns \cup {NoSn}]]

\* Types of the sync's own state, beside those of the tables.
TypeOK ==
    /\ StoreTypeOK
    /\ source \subseteq Rows
    /\ registry \in [Devices -> Sns \cup {NoSn}]
    /\ checkpoint \in Times
    /\ horizon \in Times
    /\ cpStatus \in {"none", "ok", "failed"}
    /\ run \in [Syncs -> RunType]
    /\ reported \subseteq Rows
    /\ skipped \subseteq Rows
    /\ exempt \subseteq Rows
    /\ faults \in 0..MaxFaults

Settled(r) == Done(r) \/ r \in skipped

\* The high-water mark keeps its promise through crashes, failed runs,
\* concurrent runs, dry runs, registry changes and sweeps: every row that
\* reached the source in order, from the horizon up to the checkpoint, was
\* stored, counted as failed, is past retention, or was left at the lower
\* bound of a window (see NothingSkipped).
Coverage ==
    \A r \in source \ exempt :
        horizon <= At[r] /\ At[r] < checkpoint => Settled(r)

\* The same promise as an abstract specification: sync implements Watermark.
WM == INSTANCE Watermark
        WITH promised <- source \ exempt,
             settled  <- {r \in Rows : Settled(r)},
             mark     <- checkpoint

WatermarkSpec == WM!Spec

\* With a single process the checkpoint never moves back (the time of the
\* last success the live page shows goes with it).
CheckpointNeverMovesBack == [][checkpoint' >= checkpoint]_vars

\* Every row that reaches the source in order ends up settled, whatever
\* failures and crashes (finitely many) come first, because the checkpoint
\* stays behind until a run has read the whole window.
EventuallySettled ==
    \A r \in Rows : (r \in source \ exempt) ~> (Settled(r) \/ r \in exempt)

\* A row that is delivered again, by the inclusive checkpoint, a resync or a
\* run that overlaps, counts as a duplicate: as long as no write fails, only
\* malformed rows and rows whose device got another serial number are ever
\* counted as failed.
OnlyRealFailures ==
    \A r \in reported \ Malformed :
        faults > 0 \/ \E c \in RegistryChanges : c[1] = Dev[r]

\* docs/PHASE2_ACCEPTANCE_REPORT.md: a failure does not advance the
\* checkpoint; so below the checkpoint nothing is missing that only failed
\* to be written.
NoFailedRowBelowCheckpoint ==
    \A r \in source \ (exempt \cup skipped \cup Malformed) :
        /\ horizon <= At[r]
        /\ At[r] < checkpoint
        => telemetry[r] # NoSn \/ At[r] < cutoff

\* The comment above the checkpoint upsert: a per-device sync does not
\* advance the shared source checkpoint.
PerDeviceSyncKeepsCheckpoint ==
    [][\A p \in Syncs :
          /\ run[p].pc = "advance" /\ run'[p].pc = "finish"
          /\ run[p].opt.device # AllDevices \/ run[p].opt.sn # NoSn
          => checkpoint' = checkpoint]_vars

\* Paging reaches every row of the window [checkpoint, now].
NothingSkipped == skipped = {}

-----------------------------------------------------------------------------
(* The inductive invariant behind Coverage.                                *)

\* Source-wide runs that move the checkpoint do not narrow what they read.
SourceWideOptions ==
    \A p \in Syncs : \A opt \in Options[p] :
        Advances(opt) => opt.sn = NoSn /\ opt.from = NoFrom

\* No run knows of a time later than now, and rows in order come from
\* registered devices.
ClockInv ==
    /\ checkpoint <= clock
    /\ cutoff <= clock
    /\ \A p \in Syncs : run[p].to <= clock /\ run[p].newest <= clock
    /\ \A r \in source \ exempt : registry[Dev[r]] # NoSn

\* What the local state s of a run of p says when devs have a Device row.
RunOK(p, s, devs) ==
    /\ s.pc \notin {"devices", "write"} => s.pending = {}
    /\ \A r \in s.pending : s.snOf[Dev[r]] \in Sns
    /\ s.pc = "write" => \A r \in s.pending : s.snOf[Dev[r]] \in devs
    /\ s.pc # "idle" => s.opt \in Options[p]
    /\ s.pc \in {"idle", "open"} => s.cursor = NoRow

\* A run that will move the checkpoint reads from where the checkpoint was,
\* and nothing it has not read yet raised its newestCursor.
WindowOK(s) ==
    s.pc \notin {"idle", "open"} /\ Advances(s.opt) =>
       /\ s.from = IF s.saved # 0 THEN s.saved ELSE s.horizon
       /\ s.saved <= s.newest
       /\ s.cursor = NoRow => s.newest = s.saved

\* What has become of a row: settled, in the page in hand, or still to come.
Accounted(s, r) ==
    \/ Settled(r)
    \/ r \in s.pending
    \/ s.pc = "fetch" /\ r \in Window(s)
    \/ s.pc \in {"devices", "write"} /\ s.more /\ r \in Window(s)

\* A run that will move the checkpoint accounts for every row in order below
\* the mark it would set.
RunCovers(p) ==
    LET s == run[p]
    IN  s.pc \notin {"idle", "open"} /\ Advances(s.opt) =>
          \A r \in source \ exempt :
              s.horizon <= At[r] /\ At[r] < s.newest => Accounted(s, r)

SyncInv ==
    /\ ClockInv
    /\ \A p \in Syncs :
          /\ RunOK(p, run[p], devices)
          /\ WindowOK(run[p])
          /\ RunCovers(p)
    /\ Coverage
=============================================================================
