--------------------------- MODULE DeviceRegistry ---------------------------
(***************************************************************************)
(* The registry file config/devices.json and the scripts that rewrite it:  *)
(* the IoT list sync (by hand, by the launcher, every night and by POST    *)
(* /api/cron/sync-iot), the SN map of an Excel sheet and the ids found in  *)
(* Mongo.  Each reads the file, merges and writes the whole file again,    *)
(* with no lock between them; writeFileSync truncates before it writes.    *)
(*                                                                         *)
(* An entry keeps where its serial number came from and whether it has the *)
(* label of a manual entry; nickname, online and collection are left out.  *)
(* DEVICES_REGISTRY_PATH is unset.                                         *)
(***************************************************************************)
EXTENDS Naturals, Sequences

CONSTANTS
    Ids,           \* device ids
    Named,         \* ids the IoT platform knows a serial number of
    InSheet,       \* ids of the SN map
    Example,       \* ids of devices.example.json
    RegistryWriters,
    Attempts,      \* attempts of withRetry
    MaxSafePages,
    MaxListed,     \* bound on the pages of the platform's list
    MaxEvents,     \* bound on runs started and changes of the platform's list
    Unreadable, Missing  \* contents that are no registry

Entry == [sn : {"none", "placeholder", "iot", "manual"}, label : BOOLEAN]

Registries == UNION {[S -> Entry] : S \in SUBSET Ids}

ASSUME RegistryAssumption ==
    /\ Named \subseteq Ids /\ InSheet \subseteq Ids /\ Example \subseteq Ids
    /\ Attempts \in Nat \ {0}
    /\ MaxSafePages \in Nat \ {0}
    /\ MaxListed \in Nat
    /\ MaxEvents \in Nat
    /\ Missing # Unreadable /\ {Missing, Unreadable} \cap Registries = {}

VARIABLES
    registryFile,  \* a registry, Missing, or Unreadable while it is truncated
    iotList,       \* the device list of the IoT platform
    writer,        \* what each writer is at
    mapped,        \* ids whose manual entry is in the file
    events         \* runs started and changes of the list so far

registryVars == <<registryFile, iotList, writer, mapped, events>>

\* base with the entries of add under the ids it does not have.
Extended(base, add) ==
    [i \in DOMAIN base \cup DOMAIN add |-> IF i \in DOMAIN base THEN base[i] ELSE add[i]]

exampleRegistry == [i \in Example |-> [sn |-> "manual", label |-> TRUE]]

sheetRegistry == [i \in InSheet |-> [sn |-> "manual", label |-> TRUE]]

emptyRegistry == [i \in {} |-> 0]

\* What a script reads: the example file if there is no local one, nothing at
\* all if the file does not parse.
loadedByScript ==
    CASE registryFile = Missing    -> exampleRegistry
      [] registryFile = Unreadable -> emptyRegistry
      [] OTHER                     -> registryFile

mergeDeviceIdsIntoRegistry(base, ids) ==
    Extended(base, [i \in ids |-> [sn |-> "none", label |-> FALSE]])

\* A slip the properties must notice: the sheet only fills gaps.
MergeMapUnder(base, sheet) == Extended(base, sheet)

mergeManualSnMapIntoRegistry(base, sheet) == Extended(sheet, base)

\* A known entry keeps its serial number; prune drops what is neither listed
\* nor labelled.
mergeIotListIntoRegistry(base, listed, prune) ==
    LET kept == {i \in DOMAIN base : prune => i \in listed \/ base[i].label}
    IN  Extended([i \in kept |-> base[i]],
                 [i \in listed |-> [sn |-> IF i \in Named THEN "iot" ELSE "placeholder",
                                    label |-> FALSE]])

merged(r) ==
    CASE r.kind = "map" -> mergeManualSnMapIntoRegistry(r.base, sheetRegistry)
      [] r.kind = "ids" -> mergeDeviceIdsIntoRegistry(r.base, r.listed)
      [] OTHER          -> mergeIotListIntoRegistry(r.base, r.listed, r.kind = "prune")

-----------------------------------------------------------------------------
(* A run of a writer: list (IoT only), merge, write.                       *)

NoRun == [kind |-> "none", phase |-> "idle", base |-> emptyRegistry, page |-> 0,
          try |-> 0, totalPages |-> 0, listed |-> {}, incomplete |-> FALSE,
          stale |-> FALSE]

Start(w, kind, ids) ==
    /\ writer[w] = NoRun
    /\ events < MaxEvents
    /\ events' = events + 1
    /\ writer' = [writer EXCEPT ![w] =
          [kind |-> kind, phase |-> IF kind \in {"iot", "prune"} THEN "list" ELSE "merge",
           base |-> loadedByScript, page |-> 1, try |-> 1, totalPages |-> 0, listed |-> ids,
           incomplete |-> FALSE, stale |-> registryFile = Unreadable]]
    /\ UNCHANGED <<registryFile, iotList, mapped>>

StartIot(w, prune) == Start(w, IF prune THEN "prune" ELSE "iot", {})

StartMap(w) == Start(w, "map", {})

StartDiscovery(w, ids) == Start(w, "ids", ids)

\* A slip the properties must notice: the last page is not asked for.
morePagesShort(r) ==
    /\ r.totalPages = 0 \/ r.page < r.totalPages
    /\ r.page <= MaxSafePages

\* totalPages 0 stands for Infinity: not learned yet.
morePages(r) ==
    /\ r.totalPages = 0 \/ r.page <= r.totalPages
    /\ r.page <= MaxSafePages

\* A slip the properties must notice: a failed page is asked for again.
PageFailsAgain(w) ==
    LET r == writer[w]
    IN  /\ r.phase = "list" /\ morePages(r)
        /\ writer' = [writer EXCEPT ![w].try = 1, ![w].incomplete = TRUE]
        /\ UNCHANGED <<registryFile, iotList, mapped, events>>

\* A page that cannot be had, at once or after the last attempt, is skipped.
PageFails(w) ==
    LET r == writer[w]
    IN  /\ r.phase = "list" /\ morePages(r)
        /\ writer' = [writer EXCEPT ![w].try = 1, ![w].page = @ + 1,
                                    ![w].incomplete = TRUE]
        /\ UNCHANGED <<registryFile, iotList, mapped, events>>

\* A server or network error is tried again, unless it was the last attempt.
PageRetried(w) ==
    LET r == writer[w]
    IN  /\ r.phase = "list" /\ morePages(r)
        /\ r.try < Attempts
        /\ writer' = [writer EXCEPT ![w].try = @ + 1]
        /\ UNCHANGED <<registryFile, iotList, mapped, events>>

\* A page of one device.  An item that fails the schema or has no id is
\* skipped, and the page counts as read.  The number of pages is taken from
\* the first answer that tells it; an empty page ends the list.
PageRead(w, toldPages, valid) ==
    LET r == writer[w]
        onPage == {iotList[p] : p \in {r.page} \cap DOMAIN iotList}
        read == IF valid THEN onPage ELSE {}
    IN  /\ r.phase = "list" /\ morePages(r)
        /\ writer' = [writer EXCEPT ![w].try = 1,
              ![w].listed = @ \cup read,
              ![w].incomplete = @ \/ read # onPage,
              ![w].totalPages = IF @ = 0 /\ toldPages THEN Len(iotList) ELSE @,
              ![w].page = IF onPage = {} THEN @ ELSE @ + 1,
              ![w].phase = IF onPage = {} THEN "merge" ELSE @]
        /\ UNCHANGED <<registryFile, iotList, mapped, events>>

ListEnds(w) ==
    /\ writer[w].phase = "list" /\ ~ morePages(writer[w])
    /\ writer' = [writer EXCEPT ![w].phase = "merge"]
    /\ UNCHANGED <<registryFile, iotList, mapped, events>>

\* w goes on as next; what the others have read is not what the file holds.
Rewrites(w, next) ==
    writer' = [v \in RegistryWriters |->
        IF v = w THEN next ELSE [writer[v] EXCEPT !.stale = writer[v] # NoRun]]

TruncateFile(w) ==
    /\ writer[w].phase = "merge"
    /\ registryFile' = Unreadable
    /\ Rewrites(w, [writer[w] EXCEPT !.phase = "write"])
    /\ UNCHANGED <<iotList, mapped, events>>

manualIn(registry) ==
    {i \in DOMAIN registry : registry[i] = [sn |-> "manual", label |-> TRUE]}

\* A file that another run has written since the truncation may end in the
\* tail of the longer text.
WriteFile(w) ==
    LET r == writer[w]
    IN  /\ r.phase = "write"
        /\ \/ /\ registryFile' = merged(r)
              /\ mapped' = (IF r.kind = "map" THEN mapped \cup InSheet ELSE mapped)
                              \cap (IF r.stale THEN manualIn(merged(r)) ELSE Ids)
           \/ /\ registryFile # Unreadable
              /\ registryFile' = Unreadable
              /\ mapped' = {}
        /\ Rewrites(w, NoRun)
        /\ UNCHANGED <<iotList, events>>

\* The cron route kills its script after SYNC_TIMEOUT_MS; a dry run ends by
\* itself before the write.  A file that was truncated stays so.
Killed(w) ==
    /\ writer[w] # NoRun
    /\ writer' = [writer EXCEPT ![w] = NoRun]
    /\ mapped' = IF writer[w].phase = "write" THEN {} ELSE mapped
    /\ UNCHANGED <<registryFile, iotList, events>>

\* Devices come to and leave the platform, also while a run lists them: the
\* pages shift under the run.
IotChanges(list) ==
    /\ events < MaxEvents
    /\ events' = events + 1
    /\ iotList' = list
    /\ writer' = [w \in RegistryWriters |->
          [writer[w] EXCEPT !.incomplete = writer[w] # NoRun]]
    /\ UNCHANGED <<registryFile, mapped>>

-----------------------------------------------------------------------------

\* One device on a page, each device on one page.
IotLists == {list \in UNION {[1..n -> Ids] : n \in 0..MaxListed} :
                \A p, q \in DOMAIN list : list[p] = list[q] => p = q}

\* A fresh checkout, or one in which the SN map was applied before.
RegistryInit ==
    /\ \/ registryFile = Missing /\ mapped = {}
       \/ /\ registryFile = mergeManualSnMapIntoRegistry(exampleRegistry, sheetRegistry)
          /\ mapped = InSheet
    /\ iotList \in IotLists
    /\ writer = [w \in RegistryWriters |-> NoRun]
    /\ events = 0

RegistryNext ==
    \/ \E w \in RegistryWriters :
          \/ \E prune \in BOOLEAN : StartIot(w, prune)
          \/ StartMap(w)
          \/ \E ids \in SUBSET Ids : StartDiscovery(w, ids)
          \/ PageFails(w)
          \/ PageRetried(w)
          \/ \E toldPages, valid \in BOOLEAN : PageRead(w, toldPages, valid)
          \/ ListEnds(w)
          \/ TruncateFile(w)
          \/ WriteFile(w)
          \/ Killed(w)
    \/ \E list \in IotLists : IotChanges(list)

\* A run that is not killed goes on; each request gets an answer or fails.
ListStep(w) ==
    \/ PageFails(w)
    \/ PageRetried(w)
    \/ \E toldPages, valid \in BOOLEAN : PageRead(w, toldPages, valid)
    \/ ListEnds(w)

RegistrySpec == RegistryInit /\ [][RegistryNext]_registryVars

RegistryFairness == \A w \in RegistryWriters : WF_registryVars(ListStep(w))

-----------------------------------------------------------------------------
(* Properties.                                                             *)

Runs ==
    [kind : {"none", "iot", "prune", "map", "ids"},
     phase : {"idle", "list", "merge", "write"},
     base : Registries, page : 0..(MaxSafePages + 1), try : 0..Attempts,
     totalPages : 0..MaxListed, listed : SUBSET Ids, incomplete : BOOLEAN,
     stale : BOOLEAN]

\* Types of the registry file, the platform's list and the writers.
RegistryTypeOK ==
    /\ registryFile \in Registries \cup {Missing, Unreadable}
    /\ iotList \in IotLists
    /\ writer \in [RegistryWriters -> Runs]
    /\ mapped \subseteq Ids
    /\ events \in 0..MaxEvents

\* The SN map is an override layer that no later run undoes: a manual entry
\* keeps its serial number and label through IoT syncs, prunes, discoveries
\* and whatever else overlaps with them; it is lost only by a run that had
\* read the file before another run rewrote it, or while it was truncated.
ManualMapKept ==
    registryFile \notin {Missing, Unreadable} => mapped \subseteq manualIn(registryFile)

\* What a write drops from the registry its run had read: only under prune,
\* never a labelled entry, and no device the platform lists unless a page
\* failed, an item was skipped, the pages moved while the run read them, or
\* there are more pages than it may ask for.
DropsOnlyUnlisted ==
    \A w \in RegistryWriters :
        LET r == writer[w]
        IN  r.phase = "merge" =>
              \A i \in DOMAIN r.base \ DOMAIN merged(r) :
                  /\ r.kind = "prune"
                  /\ ~ r.base[i].label
                  /\ ~ r.incomplete /\ Len(iotList) <= MaxSafePages =>
                        \A p \in DOMAIN iotList : iotList[p] # i

\* The list of the platform ends, however many of its pages fail.
ListingEnds ==
    \A w \in RegistryWriters : writer[w].phase = "list" ~> writer[w].phase # "list"
=============================================================================
