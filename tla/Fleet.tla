------------------------------- MODULE Fleet --------------------------------
(* The fleet list and what is built from it: the KPI cards and filters of    *)
(* the overview page, the inverter counts of list, detail page and offline   *)
(* export, and the export's bundle, which asks for the list twice, and then  *)
(* for one device and one inverter after the other, while reports and        *)
(* registry syncs go on.                                                     *)
(*                                                                           *)
(* A device keeps the times of its last report, its last negative sample and *)
(* its last reportable fault; each device has one inverter channel.  Serial  *)
(* numbers and registry ids are numbers, whose order is that of the lists.   *)
EXTENDS Integers, FiniteSets

CONSTANTS
    Sns, Entries,    \* serial numbers and registry ids
    OnlineMinutes,   \* OFFLINE_THRESHOLD_MINUTES
    ActiveWindow,    \* seven days: activity, reverse flow, faults, newly online
    ExportLimit,     \* the page size of the export's list
    MaxTime, MaxReports, MaxSyncs  \* bounds

ASSUME FleetAssumption ==
    /\ Sns \subseteq Nat /\ IsFiniteSet(Sns)
    /\ Entries \subseteq Nat /\ IsFiniteSet(Entries)
    /\ OnlineMinutes \in 0..ActiveWindow /\ ActiveWindow \in Nat
    /\ ExportLimit \in Nat \ {0}
    /\ MaxTime \in Nat /\ MaxReports \in Nat /\ MaxSyncs \in Nat

VARIABLES
    time,
    records,   \* the devices of the database, by serial number
    registry,  \* the registry: serial number and IoT state, by id
    export,    \* the run of the offline export
    reports, syncs  \* so far

fleetVars == <<time, records, registry, export, reports, syncs>>

Never == -1

\* No binding; bound and nothing known of it, its serial number only, or its
\* power, but not its online_state; online_state 1 or 2.
Channels == {"none", "bare", "silent", "power", "offline", "online"}

recent(at) == at # Never /\ time - at <= ActiveWindow

-----------------------------------------------------------------------------
(* One row of the list.                                                     *)

\* isPairedOnline: only online_state counts; a binding is always paired.
listedOnline(channel) == channel = "online"

\* The card of the detail page takes power for a state that is not reported.
resolveInverterCardStatus(channel) ==
    CASE channel \in {"online", "power"} -> "online"
      [] channel = "offline"             -> "offline"
      [] OTHER                           -> "unknown"

\* The export does not.
getInverterStatus(channel) ==
    IF channel \in {"online", "offline"} THEN channel ELSE "unknown"

deriveCtSub1gStatus(paired, someOnline) ==
    CASE ~ paired   -> "unpaired"
      [] someOnline -> "ok"
      [] OTHER      -> "poor"

\* A row of a device of the database.
deviceItem(sn) ==
    LET d      == records[sn]
        fresh  == d.last # Never /\ time - d.last <= OnlineMinutes
        channelOffline == d.channel # "none" /\ ~ listedOnline(d.channel)
    IN  [sn |-> sn, known |-> TRUE, last |-> d.last, platformOnline |-> TRUE,
         isOnline |-> fresh,
         reverseState |-> CASE fresh /\ d.reverse   -> "active"
                            [] fresh /\ ~ d.reverse -> "normal"
                            [] d.reverse            -> "unknown-last-seen-reverse"
                            [] OTHER                -> "unknown",
         offlineAlert |-> ~ fresh /\ d.last # Never /\ time - d.last < ActiveWindow,
         hasOfflineInverter |-> channelOffline,
         onlineInverterCount |-> IF listedOnline(d.channel) THEN 1 ELSE 0,
         sub1g |-> deriveCtSub1gStatus(d.channel # "none", listedOnline(d.channel)),
         hasRecentReverse |-> recent(d.reverseAt),
         hasRecentInverterFault |-> recent(d.faultAt),
         isNewlyOnline |-> recent(d.created)]

buildStubFleetItem(sn) ==
    [sn |-> sn, known |-> FALSE, last |-> Never, platformOnline |-> FALSE, isOnline |-> FALSE,
     reverseState |-> "unknown", offlineAlert |-> FALSE, hasOfflineInverter |-> FALSE,
     onlineInverterCount |-> 0, sub1g |-> "none", hasRecentReverse |-> FALSE,
     hasRecentInverterFault |-> FALSE, isNewlyOnline |-> FALSE]

\* A slip the properties must notice: the seventh day is over too soon.
ClassifyStrict(last, online) ==
    IF (last # Never /\ time - last < ActiveWindow) \/ online THEN "active" ELSE "stale-offline"

classifyDeviceStatus(last, online) ==
    IF recent(last) \/ online THEN "active" ELSE "stale-offline"

-----------------------------------------------------------------------------
(* The list.                                                                *)

With(item, key, online, iot) ==
    [key |-> key, online |-> iot \/ item.isOnline, item |-> item,
     status |-> classifyDeviceStatus(item.last, online)]

\* Every registry entry, with the record of its serial number or a stub, and
\* behind them the records the registry does not name.  platformOnline is set
\* with the first report and never reset, so each record is among them and
\* those behind count as online at the platform.
mergedItems ==
    LET entry(i)  == registry[i]
        base(i)   == IF entry(i).sn \in DOMAIN records THEN deviceItem(entry(i).sn)
                     ELSE buildStubFleetItem(entry(i).sn)
        named     == {entry(i).sn : i \in DOMAIN registry}
    IN  {With(base(i), <<0, i>>, entry(i).online, entry(i).online) : i \in DOMAIN registry}
        \cup {With(deviceItem(sn), <<1, sn>>, TRUE, FALSE) : sn \in (DOMAIN records) \ named}

fleetDevicePriority(x) ==
    CASE x.item.reverseState = "active"   -> 0
      [] x.item.hasRecentReverse          -> 1
      [] x.item.hasRecentInverterFault    -> 2
      [] x.item.offlineAlert              -> 3
      [] x.item.hasOfflineInverter        -> 4
      [] x.item.isNewlyOnline             -> 5
      [] x.status = "stale-offline"       -> 6
      [] OTHER                            -> 7

\* compareFleetDevices, stable.
before(x, y) ==
    LET p == fleetDevicePriority(x)
        q == fleetDevicePriority(y)
    IN  \/ p < q
        \/ p = q /\ x.key[1] < y.key[1]
        \/ p = q /\ x.key[1] = y.key[1] /\ x.key[2] < y.key[2]

\* The rows a filter lets through.
matches(status, x) ==
    CASE status = "online"         -> x.online
      [] status = "offline"        -> x.status = "active" /\ ~ x.online
      [] status = "reverse"        -> x.item.reverseState = "active"
      [] status = "recent-reverse" -> x.item.hasRecentReverse
      [] status = "inv-offline"    -> x.item.hasOfflineInverter
      [] status = "inv-fault"      -> x.item.hasRecentInverterFault
      [] status = "stale-offline"  -> x.status = "stale-offline"
      [] status = "active"         -> x.status = "active"
      [] status = "newly-online"   -> x.status = "active" /\ x.item.isNewlyOnline
      [] OTHER                     -> TRUE

matchingItems(items, status) == {x \in items : matches(status, x)}

\* One page of a filter: the rows with as many before them as pages before this
\* one hold.  Its total is the number of the matching items.
listDevices(status, page, pageSize) ==
    LET filtered == matchingItems(mergedItems, status)
        place(x) == Cardinality({y \in filtered : before(y, x)})
    IN  {x \in filtered : place(x) \in ((page - 1) * pageSize)..(page * pageSize - 1)}

\* The numbers on the KPI cards, counted over the active devices.
summary ==
    LET items  == mergedItems
        active == {x \in items : x.status = "active"}
        count(P(_)) == Cardinality({x \in active : P(x.item)})
    IN  [activeTotal                |-> Cardinality(active),
         newlyOnlineCount           |-> count(LAMBDA i : i.isNewlyOnline),
         onlineCtCount              |-> Cardinality({x \in active : x.online}),
         offlineCtCount             |-> Cardinality({x \in active : ~ x.online}),
         criticalReverseFlowCount   |-> count(LAMBDA i : i.reverseState = "active"),
         staleOfflineCount          |-> Cardinality({x \in items : x.status = "stale-offline"}),
         ctsWithOfflineInverters    |-> count(LAMBDA i : i.hasOfflineInverter),
         recentReverseCtCount       |-> count(LAMBDA i : i.hasRecentReverse),
         recentInverterFaultCtCount |-> count(LAMBDA i : i.hasRecentInverterFault)]

\* resolveDeviceSn for a full serial number; one that is in the registry only
\* is not found.
resolvable(sn) == sn \in DOMAIN records

-----------------------------------------------------------------------------
(* The page of one device.                                                  *)

detailPage(sn) ==
    LET channel == records[sn].channel
    IN  [onlineInverters |-> IF resolveInverterCardStatus(channel) = "online" THEN 1 ELSE 0,
         sub1g |-> deriveCtSub1gStatus(channel # "none",
                                       resolveInverterCardStatus(channel) = "online")]

\* A slip the properties must notice: every channel has a link.
DeviceViewModelLinksAll(sn) ==
    LET channel == records[sn].channel
    IN  [onlineInverters |-> IF getInverterStatus(channel) = "online" THEN 1 ELSE 0,
         sub1g |-> deriveCtSub1gStatus(channel # "none", getInverterStatus(channel) = "online"),
         links |-> {<<"inverter", sn>>}]

\* Of the export: the link to the inverter's page is left out if nothing is
\* known of the channel.
buildDeviceViewModel(sn) ==
    LET channel == records[sn].channel
    IN  [onlineInverters |-> IF getInverterStatus(channel) = "online" THEN 1 ELSE 0,
         sub1g |-> deriveCtSub1gStatus(channel # "none", getInverterStatus(channel) = "online"),
         links |-> IF channel \in {"none", "bare"} THEN {} ELSE {<<"inverter", sn>>}]

-----------------------------------------------------------------------------
(* The export.  Every page is of the moment it is made at.                  *)

\* What an earlier run has left may be an archive too; each run makes the
\* bundle directory anew.
NoExport == [phase |-> "idle", queue |-> {}, sns |-> {}, index |-> {}, moved |-> FALSE,
             files |-> {}, links |-> {}, next |-> {}, errors |-> {}, zip |-> "earlier"]

\* The rows of the first page; a serial number may have two.
exportList == {[key |-> x.key, sn |-> x.item.sn] : x \in listDevices("active", 1, ExportLimit)}

snsOf(rows) == {row.sn : row \in rows}

ExportStep == UNCHANGED <<time, records, registry, reports, syncs>>

\* A run with --all --bundle: the devices of the first page of the list.
listExportSns ==
    /\ export.phase = "idle"
    /\ export' = IF exportList = {} THEN [NoExport EXCEPT !.phase = "failed"]
                 ELSE [NoExport EXCEPT !.phase = "listed", !.queue = exportList,
                                       !.sns = snsOf(exportList)]
    /\ ExportStep

\* The bundle directory is made anew and the index written, with its own list.
buildOverviewViewModel ==
    /\ export.phase = "listed"
    /\ export' = [export EXCEPT !.phase = "devices",
                                !.index = snsOf(exportList),
                                !.files = {<<"index", 0>>}]
    /\ ExportStep

\* The next row of the list, in any order.  The device's page is written, with
\* its links; a device without a record stops the whole run.
exportDevice(row) ==
    /\ export.phase = "devices" /\ row \in export.queue
    /\ IF ~ resolvable(row.sn) THEN export' = [export EXCEPT !.phase = "failed"]
       ELSE LET vm == buildDeviceViewModel(row.sn)
            IN  export' = [export EXCEPT !.phase = IF vm.links = {} THEN "devices" ELSE "inverters",
                              !.queue = @ \ {row},
                              !.files = @ \cup {<<"device", row.sn>>},
                              !.links = (@ \ {<<"inverter", row.sn>>}) \cup vm.links,
                              !.next = vm.links]
    /\ ExportStep

\* The page of a linked inverter.  It cannot be made without a binding, nor if
\* the database or the disk fails; either way the run goes on without it.
exportInverter(fails) ==
    /\ export.phase = "inverters"
    /\ export' = [export EXCEPT !.phase = "devices", !.next = {},
                     !.files = @ \cup {l \in export.next :
                                          ~ fails /\ records[l[2]].channel # "none"},
                     !.errors = IF fails THEN @ \cup export.next ELSE @]
    /\ ExportStep

\* The archive takes the place of the last one.
writeZipArchive ==
    /\ export.phase = "devices" /\ export.queue = {}
    /\ export' = [export EXCEPT !.phase = "done", !.zip = "this"]
    /\ ExportStep

\* Anything else that fails ends the run, the write of the archive in the
\* middle of the file.
exportThrows ==
    /\ export.phase \in {"listed", "devices"}
    /\ export' = [export EXCEPT !.phase = "failed", !.errors = @ \cup {<<"run", 0>>},
                     !.zip = IF export.phase = "devices" /\ export.queue = {} THEN "cut" ELSE @]
    /\ ExportStep

-----------------------------------------------------------------------------
(* The rest of the system.                                                  *)

\* What a report brings: nothing the list shows, a negative sample, a fault of
\* the inverter, or a state of the channel.
Events == {"plain", "reverse", "fault"} \cup (Channels \ {"none", "bare"})

\* A report of a device reaches the database.  The latest state of a channel
\* stays until another is reported.
Reports(sn, event) ==
    LET old == IF sn \in DOMAIN records THEN records[sn]
               ELSE [created |-> time, last |-> Never, reverse |-> FALSE, reverseAt |-> Never,
                     faultAt |-> Never, channel |-> "none"]
        channel == CASE event \in {"plain", "reverse"}                   -> old.channel
                     [] event = "fault"                                   ->
                          IF old.channel = "none" THEN "bare" ELSE old.channel
                     [] event \in {"silent", "power"}
                          /\ old.channel \in {"power", "offline", "online"} -> old.channel
                     [] OTHER                                             -> event
    IN  /\ reports < MaxReports
        /\ reports' = reports + 1
        /\ records' = [s \in (DOMAIN records) \cup {sn} |->
              IF s # sn THEN records[s]
              ELSE [old EXCEPT !.last = time,
                               !.reverse = event = "reverse",
                               !.reverseAt = IF event = "reverse" THEN time ELSE @,
                               !.faultAt = IF event = "fault" THEN time ELSE @,
                               !.channel = channel]]
        /\ export' = [export EXCEPT !.moved = @ \/ export.phase = "listed"]
        /\ UNCHANGED <<time, registry, syncs>>

\* The registry is written again.
RegistrySync(new) ==
    /\ syncs < MaxSyncs
    /\ syncs' = syncs + 1
    /\ registry' = new
    /\ export' = [export EXCEPT !.moved = @ \/ export.phase = "listed"]
    /\ UNCHANGED <<time, records, reports>>

MinutePasses ==
    /\ time < MaxTime
    /\ time' = time + 1
    /\ export' = [export EXCEPT !.moved = @ \/ export.phase = "listed"]
    /\ UNCHANGED <<records, registry, reports, syncs>>

\* Ids are given out from 1 on; entry 1 has the first serial number, the others
\* any.
RegistriesOf(S) ==
    {r \in UNION {[I -> [sn : S, online : BOOLEAN]] : I \in SUBSET Entries} :
        DOMAIN r # {} => 1 \in DOMAIN r /\ r[1].sn = 1}

FleetInit ==
    /\ time = 0
    /\ records = [s \in {} |-> 0]
    /\ registry = [i \in {} |-> 0]
    /\ export = NoExport
    /\ reports = 0
    /\ syncs = 0

\* A behaviour ends with its export, a bound.
FleetNext ==
    /\ export.phase \notin {"done", "failed"}
    /\ \/ \E sn \in Sns, event \in Events : Reports(sn, event)
       \/ \E new \in RegistriesOf(Sns) : RegistrySync(new)
       \/ MinutePasses
       \/ listExportSns
       \/ buildOverviewViewModel
       \/ \E row \in export.queue : exportDevice(row)
       \/ \E fails \in BOOLEAN : exportInverter(fails)
       \/ writeZipArchive
       \/ exportThrows

FleetSpec == FleetInit /\ [][FleetNext]_fleetVars

-----------------------------------------------------------------------------
(* Properties.                                                              *)

\* Types of the fleet.
FleetTypeOK ==
    /\ time \in 0..MaxTime
    /\ DOMAIN records \subseteq Sns
    /\ \A s \in DOMAIN records :
          records[s] \in [created : 0..MaxTime, last : 0..MaxTime, reverse : BOOLEAN,
                          reverseAt : Never..MaxTime, faultAt : Never..MaxTime,
                          channel : Channels]
    /\ registry \in RegistriesOf(Sns)
    /\ export.phase \in {"idle", "listed", "devices", "inverters", "done", "failed"}
    /\ export.sns \cup export.index \subseteq Sns
    /\ reports \in 0..MaxReports /\ syncs \in 0..MaxSyncs

\* A KPI card shows as many devices as the filter behind it lists, although
\* cards count active devices only and the filters do not ask for that: also
\* on the last minute of the seventh day, for a device the IoT platform calls
\* online, one that the registry lacks, and two entries with one serial number.
KpiCountsItsFilter ==
    LET shown         == summary
        items         == mergedItems
        total(status) == Cardinality(matchingItems(items, status))
    IN  /\ shown.activeTotal = total("active")
        /\ shown.newlyOnlineCount = total("newly-online")
        /\ shown.onlineCtCount = total("online")
        /\ shown.offlineCtCount = total("offline")
        /\ shown.criticalReverseFlowCount = total("reverse")
        /\ shown.recentReverseCtCount = total("recent-reverse")
        /\ shown.recentInverterFaultCtCount = total("inv-fault")
        /\ shown.staleOfflineCount = total("stale-offline")
        /\ shown.ctsWithOfflineInverters <= total("inv-offline")
        /\ shown.activeTotal + shown.staleOfflineCount = total("all")

\* List, detail page and export show the same online inverters and the same
\* Sub1G state, unless the inverter never reported online_state but power:
\* then only the detail page shows it as online.
InverterViewsAgree ==
    \A sn \in DOMAIN records :
       LET list   == deviceItem(sn)
           page   == detailPage(sn)
           bundle == buildDeviceViewModel(sn)
       IN  /\ list.onlineInverterCount = bundle.onlineInverters /\ list.sub1g = bundle.sub1g
           /\ \/ list.onlineInverterCount = page.onlineInverters /\ list.sub1g = page.sub1g
              \/ records[sn].channel = "power" /\ page.sub1g = "ok"

\* What the pages show twice they show alike: the cards and the filters, and
\* the inverters of a device in the list, on its page and in the export.
FleetViewsAgree ==
    /\ KpiCountsItsFilter
    /\ InverterViewsAgree

\* An export that ends well has the page of each of its devices, of each
\* device of its index unless the list moved between its two readings, and of
\* each inverter a page links to unless making that page failed: what is
\* linked still has its binding when its page is made.  An export that fails
\* without an error of the database or the disk leaves the archive of the last
\* run, and fails because its list had a device that has never reported.
ExportBundleComplete ==
    /\ export.phase = "done" =>
          /\ \A sn \in export.sns : <<"device", sn>> \in export.files
          /\ ~ export.moved => export.index \subseteq export.sns
          /\ export.links \subseteq export.files \cup export.errors
    /\ export.phase = "failed" /\ <<"run", 0>> \notin export.errors =>
          /\ export.zip = "earlier"
          /\ export.sns # {} => \E sn \in export.sns : sn \notin DOMAIN records
=============================================================================
