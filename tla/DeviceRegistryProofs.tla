------------------------ MODULE DeviceRegistryProofs -------------------------
(* Proofs about DeviceRegistry, for any number of writers, devices, pages    *)
(* and attempts: the SN map stays an override layer, and a prune drops no    *)
(* device that a complete list names.                                        *)
EXTENDS DeviceRegistry, TLAPS

-----------------------------------------------------------------------------
(* The helpers on registries.                                                *)

\* What a registry is.
LEMMA RegistryIs ==
    \A f : f \in Registries <=> /\ DOMAIN f \subseteq Ids
                                /\ f = [i \in DOMAIN f |-> f[i]]
                                /\ \A i \in DOMAIN f : f[i] \in Entry
<1> TAKE f
<1>1. ASSUME f \in Registries
      PROVE  /\ DOMAIN f \subseteq Ids
             /\ f = [i \in DOMAIN f |-> f[i]]
             /\ \A i \in DOMAIN f : f[i] \in Entry
  <2>1. PICK S \in SUBSET Ids : f \in [S -> Entry]
    BY <1>1 DEF Registries
  <2> QED
    BY <2>1
<1>2. ASSUME DOMAIN f \subseteq Ids, f = [i \in DOMAIN f |-> f[i]],
             \A i \in DOMAIN f : f[i] \in Entry
      PROVE  f \in Registries
  <2>1. f \in [DOMAIN f -> Entry]
    BY <1>2
  <2> QED
    BY <1>2, <2>1 DEF Registries
<1> QED
  BY <1>1, <1>2

\* A registry that another one extends has both their ids, its own entries
\* where it has some.
LEMMA ExtendedIs ==
    ASSUME NEW base \in Registries, NEW add \in Registries
    PROVE  /\ Extended(base, add) \in Registries
           /\ DOMAIN Extended(base, add) = DOMAIN base \cup DOMAIN add
           /\ \A i \in DOMAIN base : Extended(base, add)[i] = base[i]
           /\ \A i \in DOMAIN add \ DOMAIN base : Extended(base, add)[i] = add[i]
<1> DEFINE f == Extended(base, add)
<1>1. f = [i \in DOMAIN base \cup DOMAIN add |->
             IF i \in DOMAIN base THEN base[i] ELSE add[i]]
  BY DEF Extended
<1>2. /\ DOMAIN base \cup DOMAIN add \subseteq Ids
      /\ \A i \in DOMAIN base : base[i] \in Entry
      /\ \A i \in DOMAIN add : add[i] \in Entry
  BY RegistryIs
<1>3. f \in [DOMAIN base \cup DOMAIN add -> Entry]
  BY <1>1, <1>2
<1>4. f \in Registries
  BY <1>2, <1>3 DEF Registries
<1> QED
  BY <1>1, <1>4

\* A set of ids with one entry for all.
LEMMA ConstantRegistry ==
    ASSUME NEW S \in SUBSET Ids, NEW e \in Entry
    PROVE  [i \in S |-> e] \in Registries
<1>1. [i \in S |-> e] \in [S -> Entry]
  OBVIOUS
<1> QED
  BY <1>1 DEF Registries

\* The fixed registries.
LEMMA FixedRegistries ==
    /\ exampleRegistry \in Registries
    /\ sheetRegistry \in Registries
    /\ emptyRegistry \in Registries
<1>1. [sn |-> "manual", label |-> TRUE] \in Entry
  BY DEF Entry
<1>2. exampleRegistry \in Registries /\ sheetRegistry \in Registries
  BY <1>1, ConstantRegistry, RegistryAssumption DEF exampleRegistry, sheetRegistry
<1>3. emptyRegistry \in [{} -> Entry]
  BY DEF emptyRegistry
<1>4. emptyRegistry \in Registries
  BY <1>3 DEF Registries
<1> QED
  BY <1>2, <1>4

\* What a script reads is a registry; the file itself if that is one.
LEMMA LoadedIs ==
    ASSUME registryFile \in Registries \cup {Missing, Unreadable}
    PROVE  /\ loadedByScript \in Registries
           /\ registryFile \notin {Missing, Unreadable} => loadedByScript = registryFile
BY FixedRegistries, RegistryAssumption DEF loadedByScript

\* What a listing makes of the registry it is merged into.
LEMMA IotMergeIs ==
    ASSUME NEW base \in Registries, NEW listed \in SUBSET Ids, NEW prune \in BOOLEAN
    PROVE  LET next == mergeIotListIntoRegistry(base, listed, prune)
           IN  /\ next \in Registries
               /\ \A i \in DOMAIN base :
                     ~ prune \/ i \in listed \/ base[i].label => i \in DOMAIN next
               /\ \A i \in DOMAIN base :
                     ~ prune \/ base[i].label => next[i] = base[i]
<1> DEFINE kept  == {i \in DOMAIN base : prune => i \in listed \/ base[i].label}
           old   == [i \in kept |-> base[i]]
           fresh == [i \in listed |-> [sn |-> IF i \in Named THEN "iot" ELSE "placeholder",
                                       label |-> FALSE]]
<1>1. DOMAIN base \subseteq Ids /\ \A i \in DOMAIN base : base[i] \in Entry
  BY RegistryIs
<1>2. old \in [kept -> Entry] /\ kept \in SUBSET Ids
  BY <1>1
<1>3. fresh \in [listed -> Entry]
  BY DEF Entry
<1>4. old \in Registries /\ fresh \in Registries
  BY <1>2, <1>3 DEF Registries
<1>5. mergeIotListIntoRegistry(base, listed, prune) = Extended(old, fresh)
  BY DEF mergeIotListIntoRegistry
<1>6. /\ Extended(old, fresh) \in Registries
      /\ DOMAIN Extended(old, fresh) = DOMAIN old \cup DOMAIN fresh
      /\ \A i \in DOMAIN old : Extended(old, fresh)[i] = old[i]
  <2> HIDE DEF old, fresh
  <2> QED BY <1>4, ExtendedIs
<1>7. DOMAIN old = kept /\ DOMAIN fresh = listed /\ \A i \in kept : old[i] = base[i]
  OBVIOUS
<1>8. \A i \in DOMAIN base : ~ prune \/ base[i].label => i \in kept
  OBVIOUS
<1> QED
  <2> HIDE DEF old, fresh
  <2>1. \A i \in DOMAIN base : i \in listed => i \in DOMAIN Extended(old, fresh)
    BY <1>6, <1>7
  <2>2. \A i \in kept : /\ i \in DOMAIN Extended(old, fresh)
                        /\ Extended(old, fresh)[i] = base[i]
    BY <1>6, <1>7
  <2> HIDE DEF kept
  <2> QED BY <1>5, <1>6, <1>8, <2>1, <2>2

\* What a run of any kind makes of the registry it has read: a registry that
\* keeps its manual entries, and has those of the sheet if the run applies it.
LEMMA MergedIs ==
    ASSUME NEW r \in Runs
    PROVE  /\ merged(r) \in Registries
           /\ manualIn(r.base) \subseteq manualIn(merged(r))
           /\ r.kind = "map" => InSheet \subseteq manualIn(merged(r))
           /\ \A i \in DOMAIN r.base \ DOMAIN merged(r) :
                 r.kind = "prune" /\ ~ r.base[i].label /\ i \notin r.listed
<1>1. r.base \in Registries /\ r.listed \in SUBSET Ids
  BY DEF Runs
<1>2. CASE r.kind = "map"
  <2> DEFINE next == Extended(sheetRegistry, r.base)
  <2>1. merged(r) = next
    BY <1>2 DEF merged, mergeManualSnMapIntoRegistry
  <2>2. /\ next \in Registries
        /\ DOMAIN next = DOMAIN sheetRegistry \cup DOMAIN r.base
        /\ \A i \in DOMAIN sheetRegistry : next[i] = sheetRegistry[i]
        /\ \A i \in DOMAIN r.base \ DOMAIN sheetRegistry : next[i] = r.base[i]
    BY <1>1, ExtendedIs, FixedRegistries
  <2>3. /\ DOMAIN sheetRegistry = InSheet
        /\ \A i \in InSheet : sheetRegistry[i] = [sn |-> "manual", label |-> TRUE]
    BY DEF sheetRegistry
  <2> HIDE DEF next
  <2> QED
    BY <1>2, <2>1, <2>2, <2>3 DEF manualIn
<1>3. CASE r.kind = "ids"
  <2> DEFINE fresh == [i \in r.listed |-> [sn |-> "none", label |-> FALSE]]
  <2>1. [sn |-> "none", label |-> FALSE] \in Entry
    BY DEF Entry
  <2>2. fresh \in Registries
    BY <1>1, <2>1, ConstantRegistry
  <2> DEFINE next == Extended(r.base, fresh)
  <2>3. merged(r) = next
    BY <1>3 DEF merged, mergeDeviceIdsIntoRegistry
  <2>4. /\ next \in Registries
        /\ DOMAIN next = DOMAIN r.base \cup DOMAIN fresh
        /\ \A i \in DOMAIN r.base : next[i] = r.base[i]
    <3> HIDE DEF fresh
    <3> QED BY <1>1, <2>2, ExtendedIs
  <2> HIDE DEF next
  <2> QED
    BY <1>3, <2>3, <2>4 DEF manualIn
<1>4. CASE r.kind \notin {"map", "ids"}
  <2> DEFINE prune == r.kind = "prune"
  <2> DEFINE next == mergeIotListIntoRegistry(r.base, r.listed, prune)
  <2>1. merged(r) = next
    BY <1>4 DEF merged
  <2>2. prune \in BOOLEAN
    OBVIOUS
  <2>3. /\ next \in Registries
        /\ \A i \in DOMAIN r.base :
              ~ prune \/ i \in r.listed \/ r.base[i].label => i \in DOMAIN next
        /\ \A i \in DOMAIN r.base : ~ prune \/ r.base[i].label => next[i] = r.base[i]
    <3> HIDE DEF prune
    <3> QED BY <1>1, <2>2, IotMergeIs
  <2> HIDE DEF next
  <2>4. \A i \in manualIn(r.base) : r.base[i].label
    BY DEF manualIn
  <2>5. manualIn(r.base) \subseteq manualIn(merged(r))
    BY <2>1, <2>3, <2>4 DEF manualIn
  <2> QED
    BY <1>4, <2>1, <2>3, <2>5
<1> QED
  BY <1>2, <1>3, <1>4

-----------------------------------------------------------------------------
(* The invariant.                                                            *)

\* The SN map: a run that is not stale has read what the file held, and with
\* it the manual entries that are still counted.
MapInv ==
    /\ registryFile = Missing => mapped = {}
    /\ ManualMapKept
    /\ \A w \in RegistryWriters :
          writer[w] # NoRun /\ ~ writer[w].stale => mapped \subseteq manualIn(writer[w].base)

\* The pages: what a run that missed none has listed so far, and in the end.
Listing(r) ==
    /\ r.page >= 1
    /\ ~ r.incomplete =>
          /\ r.totalPages \in {0, Len(iotList)}
          /\ \A p \in DOMAIN iotList : p < r.page => iotList[p] \in r.listed

Listed(r) ==
    r.kind = "prune" /\ ~ r.incomplete /\ Len(iotList) <= MaxSafePages =>
        \A p \in DOMAIN iotList : iotList[p] \in r.listed

PagesInv ==
    \A w \in RegistryWriters :
        /\ writer[w].phase = "list" => Listing(writer[w])
        /\ writer[w].phase = "merge" => Listed(writer[w])

RegistryInv == RegistryTypeOK /\ MapInv /\ PagesInv

\* The initial states satisfy it.
LEMMA NoRunIs == NoRun \in Runs /\ NoRun.phase = "idle" /\ ~ NoRun.incomplete
BY FixedRegistries, RegistryAssumption DEF NoRun, Runs

\* Marks that say of no run what they said before.
LEMMA NoRunStays ==
    [NoRun EXCEPT !.stale = FALSE] = NoRun /\ [NoRun EXCEPT !.incomplete = FALSE] = NoRun
<1>1. \A r \in Runs : /\ [r EXCEPT !.stale = r.stale] = r
                      /\ [r EXCEPT !.incomplete = r.incomplete] = r
  BY DEF Runs
<1>2. NoRun.stale = FALSE /\ NoRun.incomplete = FALSE
  BY DEF NoRun
<1> QED
  BY <1>1, <1>2, NoRunIs

LEMMA IotListIs ==
    ASSUME NEW list \in IotLists
    PROVE  /\ Len(list) \in 0..MaxListed
           /\ DOMAIN list = 1..Len(list)
           /\ \A p \in DOMAIN list : list[p] \in Ids
<1>1. PICK n \in 0..MaxListed : list \in [1..n -> Ids]
  BY DEF IotLists
<1>2. n \in Nat
  BY RegistryAssumption
<1>3. list \in Seq(Ids) /\ Len(list) = n
  BY <1>1, <1>2
<1> QED
  BY <1>1, <1>3

LEMMA RegistryInitInv == RegistryInit => RegistryInv
<1> SUFFICES ASSUME RegistryInit PROVE RegistryInv
  OBVIOUS
<1> DEFINE applied == mergeManualSnMapIntoRegistry(exampleRegistry, sheetRegistry)
<1>1. /\ applied \in Registries
      /\ InSheet \subseteq manualIn(applied)
  <2>1. applied = Extended(sheetRegistry, exampleRegistry)
    BY DEF mergeManualSnMapIntoRegistry
  <2>2. /\ Extended(sheetRegistry, exampleRegistry) \in Registries
        /\ DOMAIN Extended(sheetRegistry, exampleRegistry)
              = DOMAIN sheetRegistry \cup DOMAIN exampleRegistry
        /\ \A i \in DOMAIN sheetRegistry :
              Extended(sheetRegistry, exampleRegistry)[i] = sheetRegistry[i]
    BY FixedRegistries, ExtendedIs
  <2>3. /\ DOMAIN sheetRegistry = InSheet
        /\ \A i \in InSheet : sheetRegistry[i] = [sn |-> "manual", label |-> TRUE]
    BY DEF sheetRegistry
  <2> QED
    BY <2>1, <2>2, <2>3 DEF manualIn
<1> HIDE DEF applied
<1>2. \/ registryFile = Missing /\ mapped = {}
      \/ registryFile = applied /\ mapped = InSheet
  BY DEF RegistryInit, applied
<1>3. writer = [w \in RegistryWriters |-> NoRun]
  BY DEF RegistryInit
<1>4. RegistryTypeOK
  BY <1>1, <1>2, <1>3, NoRunIs, RegistryAssumption DEF RegistryInit, RegistryTypeOK
<1>5. MapInv
  BY <1>1, <1>2, <1>3, RegistryAssumption DEF MapInv, ManualMapKept
<1>6. PagesInv
  BY <1>3, NoRunIs DEF PagesInv
<1> QED
  BY <1>4, <1>5, <1>6 DEF RegistryInv

-----------------------------------------------------------------------------
(* The steps.                                                                *)

\* A step of one run that leaves the file alone.
LEMMA OneRunMoves ==
    ASSUME RegistryInv, NEW w \in RegistryWriters, NEW next \in Runs,
           writer' = [writer EXCEPT ![w] = next],
           UNCHANGED <<registryFile, iotList>>,
           mapped' \subseteq mapped, events' \in 0..MaxEvents,
           next # NoRun /\ ~ next.stale => mapped \subseteq manualIn(next.base),
           next.phase = "list" => Listing(next),
           next.phase = "merge" => Listed(next)
    PROVE  RegistryInv'
<1>1. writer \in [RegistryWriters -> Runs]
  BY DEF RegistryInv, RegistryTypeOK
<1>2. \A v \in RegistryWriters : writer'[v] = IF v = w THEN next ELSE writer[v]
  BY <1>1
<1>3. RegistryTypeOK'
  BY <1>1 DEF RegistryInv, RegistryTypeOK
<1>4. MapInv'
  BY <1>2 DEF RegistryInv, MapInv, ManualMapKept
<1>5. PagesInv'
  BY <1>2 DEF RegistryInv, PagesInv, Listing, Listed
<1> QED
  BY <1>3, <1>4, <1>5 DEF RegistryInv

\* A run starts with what the file holds, unless that is being rewritten.
LEMMA StartInv ==
    ASSUME RegistryInv, NEW w \in RegistryWriters,
           NEW kind \in {"iot", "prune", "map", "ids"}, NEW ids \in SUBSET Ids,
           Start(w, kind, ids)
    PROVE  RegistryInv'
<1> DEFINE next == [kind |-> kind,
                    phase |-> IF kind \in {"iot", "prune"} THEN "list" ELSE "merge",
                    base |-> loadedByScript, page |-> 1, try |-> 1, totalPages |-> 0,
                    listed |-> ids, incomplete |-> FALSE,
                    stale |-> registryFile = Unreadable]
<1>1. registryFile \in Registries \cup {Missing, Unreadable}
  BY DEF RegistryInv, RegistryTypeOK
<1>2. next \in Runs
  <2>1. 1 \in 0..(MaxSafePages + 1) /\ 1 \in 0..Attempts /\ 0 \in 0..MaxListed
    BY RegistryAssumption
  <2>2. (registryFile = Unreadable) \in BOOLEAN
    OBVIOUS
  <2>3. (IF kind \in {"iot", "prune"} THEN "list" ELSE "merge") \in {"idle", "list", "merge", "write"}
    OBVIOUS
  <2>4. loadedByScript \in Registries
    BY <1>1, LoadedIs
  <2> QED
    BY <2>1, <2>2, <2>3, <2>4 DEF Runs
<1>3. ~ next.stale => mapped \subseteq manualIn(next.base)
  <2> SUFFICES ASSUME registryFile # Unreadable PROVE mapped \subseteq manualIn(loadedByScript)
    OBVIOUS
  <2>1. CASE registryFile = Missing
    BY <2>1 DEF RegistryInv, MapInv
  <2>2. CASE registryFile # Missing
    BY <1>1, <2>2, LoadedIs DEF RegistryInv, MapInv, ManualMapKept
  <2> QED
    BY <2>1, <2>2
<1>4. next.phase = "list" => Listing(next)
  <2>1. \A p \in DOMAIN iotList : ~ (p < 1)
    BY IotListIs DEF RegistryInv, RegistryTypeOK
  <2>2. next.page = 1 /\ next.totalPages = 0
    OBVIOUS
  <2> HIDE DEF next
  <2> QED
    BY <2>1, <2>2 DEF Listing
<1>5. next.phase = "merge" => Listed(next)
  BY DEF Listed
<1>6. /\ writer' = [writer EXCEPT ![w] = next]
      /\ UNCHANGED <<registryFile, iotList, mapped>>
      /\ events' \in 0..MaxEvents
  BY RegistryAssumption DEF Start, RegistryInv, RegistryTypeOK
<1> QED
  <2> HIDE DEF next
  <2> QED BY <1>2, <1>3, <1>4, <1>5, <1>6, OneRunMoves

\* A step of the listing: the registry that was read stays.
LEMMA ListStepInv ==
    ASSUME RegistryInv, NEW w \in RegistryWriters, NEW next \in Runs,
           writer[w].phase = "list",
           writer' = [writer EXCEPT ![w] = next],
           next.base = writer[w].base, next.stale = writer[w].stale,
           next.phase = "list" => Listing(next),
           next.phase = "merge" => Listed(next),
           UNCHANGED <<registryFile, iotList, mapped, events>>
    PROVE  RegistryInv'
<1>1. writer[w] # NoRun
  BY NoRunIs
<1>2. ~ next.stale => mapped \subseteq manualIn(next.base)
  BY <1>1 DEF RegistryInv, MapInv
<1>3. events' \in 0..MaxEvents
  BY DEF RegistryInv, RegistryTypeOK
<1> QED
  BY <1>2, <1>3, OneRunMoves

\* The run w while it lists.
LEMMA ListingRun ==
    ASSUME RegistryInv, NEW w \in RegistryWriters, writer[w].phase = "list"
    PROVE  /\ writer \in [RegistryWriters -> Runs]
           /\ writer[w] \in Runs
           /\ Listing(writer[w])
           /\ iotList \in IotLists
BY DEF RegistryInv, RegistryTypeOK, PagesInv

\* A page that fails is missing from the list from then on.
LEMMA PageFailsInv ==
    ASSUME RegistryInv, NEW w \in RegistryWriters, PageFails(w)
    PROVE  RegistryInv'
<1> DEFINE r == writer[w]
           next == [r EXCEPT !.try = 1, !.page = @ + 1, !.incomplete = TRUE]
<1>1. r.phase = "list" /\ morePages(r)
  BY DEF PageFails
<1>2. writer \in [RegistryWriters -> Runs] /\ r \in Runs /\ Listing(r)
  BY <1>1, ListingRun
<1>3. /\ writer' = [writer EXCEPT ![w] = next]
      /\ UNCHANGED <<registryFile, iotList, mapped, events>>
  BY <1>2 DEF PageFails
<1>4. next \in Runs /\ next.page = r.page + 1 /\ next.incomplete
  <2>1. 1 \in 0..Attempts /\ r.page + 1 \in 0..(MaxSafePages + 1)
    BY <1>1, <1>2, RegistryAssumption DEF Runs, morePages
  <2> QED
    BY <1>2, <2>1 DEF Runs
<1>5. Listing(next)
  BY <1>2, <1>4 DEF Listing, Runs
<1>6. next.base = r.base /\ next.stale = r.stale /\ next.phase = "list"
  BY <1>1, <1>2 DEF Runs
<1> QED
  <2> HIDE DEF next
  <2> QED BY <1>1, <1>3, <1>4, <1>5, <1>6, ListStepInv

\* An attempt more changes nothing but their number.
LEMMA PageRetriedInv ==
    ASSUME RegistryInv, NEW w \in RegistryWriters, PageRetried(w)
    PROVE  RegistryInv'
<1> DEFINE r == writer[w]
           next == [r EXCEPT !.try = @ + 1]
<1>1. r.phase = "list" /\ r.try < Attempts
  BY DEF PageRetried
<1>2. writer \in [RegistryWriters -> Runs] /\ r \in Runs /\ Listing(r)
  BY <1>1, ListingRun
<1>3. /\ writer' = [writer EXCEPT ![w] = next]
      /\ UNCHANGED <<registryFile, iotList, mapped, events>>
  BY <1>2 DEF PageRetried
<1>4. next \in Runs
  BY <1>1, <1>2, RegistryAssumption DEF Runs
<1>5. Listing(next)
  BY <1>2 DEF Listing, Runs
<1>6. next.base = r.base /\ next.stale = r.stale /\ next.phase = "list"
  BY <1>1, <1>2 DEF Runs
<1> QED
  <2> HIDE DEF next
  <2> QED BY <1>1, <1>3, <1>4, <1>5, <1>6, ListStepInv

\* A page adds its device or, if that was skipped, the mark that the list has a
\* gap.  An empty one is behind the last, so that a list without gaps is whole.
LEMMA PageReadInv ==
    ASSUME RegistryInv, NEW w \in RegistryWriters,
           NEW toldPages \in BOOLEAN, NEW valid \in BOOLEAN,
           PageRead(w, toldPages, valid)
    PROVE  RegistryInv'
<1> DEFINE r == writer[w]
           onPage == {iotList[p] : p \in {r.page} \cap DOMAIN iotList}
           read == IF valid THEN onPage ELSE {}
           next == [r EXCEPT !.try = 1, !.listed = @ \cup read,
                             !.incomplete = @ \/ read # onPage,
                             !.totalPages = IF @ = 0 /\ toldPages THEN Len(iotList) ELSE @,
                             !.page = IF onPage = {} THEN @ ELSE @ + 1,
                             !.phase = IF onPage = {} THEN "merge" ELSE @]
<1>1. r.phase = "list" /\ morePages(r)
  BY DEF PageRead
<1>2. writer \in [RegistryWriters -> Runs] /\ r \in Runs /\ Listing(r) /\ iotList \in IotLists
  BY <1>1, ListingRun
<1>3. /\ writer' = [writer EXCEPT ![w] = next]
      /\ UNCHANGED <<registryFile, iotList, mapped, events>>
  BY <1>2 DEF PageRead
<1>4. /\ onPage \in SUBSET Ids /\ read \in SUBSET Ids /\ (read # onPage) \in BOOLEAN
      /\ Len(iotList) \in 0..MaxListed /\ DOMAIN iotList = 1..Len(iotList)
  BY <1>2, IotListIs
<1>5. /\ next.listed = r.listed \cup read
      /\ next.incomplete = (r.incomplete \/ read # onPage)
      /\ next.totalPages = IF r.totalPages = 0 /\ toldPages THEN Len(iotList) ELSE r.totalPages
      /\ next.page = IF onPage = {} THEN r.page ELSE r.page + 1
      /\ next.phase = IF onPage = {} THEN "merge" ELSE "list"
      /\ next.base = r.base /\ next.stale = r.stale /\ next.kind = r.kind
  BY <1>1, <1>2 DEF Runs
<1>6. next \in Runs
  <2>1. 1 \in 0..Attempts
    BY RegistryAssumption
  <2>2. r.page \in 0..(MaxSafePages + 1) /\ r.page + 1 \in 0..(MaxSafePages + 1)
    BY <1>1, <1>2, RegistryAssumption DEF Runs, morePages
  <2>3. /\ r.listed \cup read \in SUBSET Ids
        /\ (r.incomplete \/ read # onPage) \in BOOLEAN
    BY <1>2, <1>4 DEF Runs
  <2> HIDE DEF onPage, read
  <2> QED
    BY <1>2, <1>4, <2>1, <2>2, <2>3 DEF Runs
<1> HIDE DEF next
<1>7. ASSUME onPage # {} PROVE Listing(next)
  <2>1. next.page = r.page + 1 /\ r.page \in Nat /\ r.page >= 1
    BY <1>2, <1>5, <1>7 DEF Listing, Runs
  <2>2. ASSUME ~ r.incomplete, read = onPage, NEW p \in DOMAIN iotList, p < r.page + 1
        PROVE  iotList[p] \in r.listed \cup read
    <3>1. p < r.page \/ p = r.page
      BY <1>4, <2>1, <2>2
    <3> QED
      BY <1>2, <2>2, <3>1 DEF Listing
  <2>3. ~ next.incomplete => ~ r.incomplete /\ read = onPage
    BY <1>5
  <2>4. ~ r.incomplete => next.totalPages \in {0, Len(iotList)}
    BY <1>2, <1>5 DEF Listing
  <2> HIDE DEF read, onPage
  <2> QED
    BY <1>5, <2>1, <2>2, <2>3, <2>4 DEF Listing
<1>8. ASSUME onPage = {} PROVE Listed(next)
  <2>1. r.page \notin DOMAIN iotList
    BY <1>8
  <2>2. r.page \in Nat /\ r.page >= 1
    BY <1>2 DEF Listing, Runs
  <2>3. \A p \in DOMAIN iotList : p < r.page
    BY <1>4, <2>1, <2>2
  <2> QED
    BY <1>2, <1>5, <2>3 DEF Listing, Listed
<1>9. /\ next.phase = "list" => Listing(next)
      /\ next.phase = "merge" => Listed(next)
  <2> HIDE DEF onPage
  <2> QED BY <1>5, <1>7, <1>8
<1> QED
  BY <1>1, <1>3, <1>5, <1>6, <1>9, ListStepInv

\* A list that ends with the number of its pages is complete.
LEMMA ListEndsInv ==
    ASSUME RegistryInv, NEW w \in RegistryWriters, ListEnds(w)
    PROVE  RegistryInv'
<1> DEFINE r == writer[w]
           next == [r EXCEPT !.phase = "merge"]
<1>1. r.phase = "list" /\ ~ morePages(r)
  BY DEF ListEnds
<1>2. writer \in [RegistryWriters -> Runs] /\ r \in Runs /\ Listing(r) /\ iotList \in IotLists
  BY <1>1, ListingRun
<1>3. /\ writer' = [writer EXCEPT ![w] = next]
      /\ UNCHANGED <<registryFile, iotList, mapped, events>>
  BY <1>2 DEF ListEnds
<1>4. Len(iotList) \in 0..MaxListed /\ DOMAIN iotList = 1..Len(iotList)
  BY <1>2, IotListIs
<1>5. /\ next \in Runs /\ next.base = r.base /\ next.stale = r.stale /\ next.phase = "merge"
      /\ next.listed = r.listed /\ next.incomplete = r.incomplete
  BY <1>2 DEF Runs
<1>6. ASSUME ~ r.incomplete, Len(iotList) <= MaxSafePages, NEW p \in DOMAIN iotList
      PROVE  iotList[p] \in r.listed
  <2>1. r.page \in Nat /\ r.totalPages \in {0, Len(iotList)}
    BY <1>2, <1>6 DEF Listing, Runs
  <2>2. r.page > Len(iotList)
    BY <1>1, <1>4, <1>6, <2>1, RegistryAssumption DEF morePages
  <2>3. p < r.page
    BY <1>4, <2>1, <2>2
  <2> QED
    BY <1>2, <1>6, <2>3 DEF Listing
<1>7. Listed(next)
  BY <1>5, <1>6 DEF Listed
<1> QED
  <2> HIDE DEF next
  <2> QED BY <1>1, <1>3, <1>5, <1>7, ListStepInv

\* A run that ends without a write takes no entry with it, but what it had
\* truncated.
LEMMA KilledInv ==
    ASSUME RegistryInv, NEW w \in RegistryWriters, Killed(w)
    PROVE  RegistryInv'
<1>1. /\ writer' = [writer EXCEPT ![w] = NoRun]
      /\ UNCHANGED <<registryFile, iotList>>
      /\ mapped' \subseteq mapped
      /\ events' \in 0..MaxEvents
  BY DEF Killed, RegistryInv, RegistryTypeOK
<1> QED
  BY <1>1, NoRunIs, OneRunMoves

\* The file is rewritten: every other run has read another one.
LEMMA RewritesIs ==
    ASSUME RegistryInv, NEW w \in RegistryWriters, NEW next \in Runs, Rewrites(w, next)
    PROVE  /\ writer' \in [RegistryWriters -> Runs]
           /\ writer'[w] = next
           /\ \A v \in RegistryWriters \ {w} :
                 /\ writer'[v] # NoRun => writer'[v].stale
                 /\ \A field \in {"kind", "phase", "page", "totalPages", "listed", "incomplete"} :
                       writer'[v][field] = writer[v][field]
<1>1. writer \in [RegistryWriters -> Runs]
  BY DEF RegistryInv, RegistryTypeOK
<1>2. \A v \in RegistryWriters :
         /\ [writer[v] EXCEPT !.stale = writer[v] # NoRun] \in Runs
         /\ [writer[v] EXCEPT !.stale = writer[v] # NoRun].stale = (writer[v] # NoRun)
         /\ \A field \in {"kind", "phase", "page", "totalPages", "listed", "incomplete"} :
               [writer[v] EXCEPT !.stale = writer[v] # NoRun][field] = writer[v][field]
  BY <1>1 DEF Runs
<1>3. [NoRun EXCEPT !.stale = FALSE] = NoRun
  BY NoRunStays
<1>4. \A v \in RegistryWriters \ {w} :
         writer'[v] = [writer[v] EXCEPT !.stale = writer[v] # NoRun]
  BY DEF Rewrites
<1>5. writer'[w] = next /\ writer' \in [RegistryWriters -> Runs]
  BY <1>2 DEF Rewrites
<1>6. \A v \in RegistryWriters \ {w} : writer[v] = NoRun => writer'[v] = NoRun
  BY <1>3, <1>4
<1> QED
  BY <1>2, <1>4, <1>5, <1>6

\* So nothing is asked of them; of the run that rewrites it, what it has read.
LEMMA RewriteInv ==
    ASSUME RegistryInv, NEW w \in RegistryWriters, NEW next \in Runs, Rewrites(w, next),
           next.phase \notin {"list", "merge"},
           next # NoRun /\ ~ next.stale => mapped' \subseteq manualIn(next.base),
           registryFile' \in Registries \cup {Unreadable},
           mapped' \subseteq Ids,
           registryFile' # Unreadable => mapped' \subseteq manualIn(registryFile'),
           UNCHANGED <<iotList, events>>
    PROVE  RegistryInv'
<1>1. /\ writer' \in [RegistryWriters -> Runs]
      /\ writer'[w] = next
      /\ \A v \in RegistryWriters \ {w} :
            /\ writer'[v] # NoRun => writer'[v].stale
            /\ \A field \in {"kind", "phase", "page", "totalPages", "listed", "incomplete"} :
                  writer'[v][field] = writer[v][field]
  BY RewritesIs
<1>2. RegistryTypeOK'
  BY <1>1 DEF RegistryInv, RegistryTypeOK
<1>3. MapInv'
  BY <1>1, RegistryAssumption DEF MapInv, ManualMapKept
<1>4. PagesInv'
  <2> SUFFICES ASSUME NEW v \in RegistryWriters
               PROVE  /\ writer'[v].phase = "list" => Listing(writer[v])'
                      /\ writer'[v].phase = "merge" => Listed(writer[v])'
    BY DEF PagesInv
  <2>1. CASE v = w
    BY <1>1, <2>1
  <2>2. CASE v # w
    <3>1. /\ writer'[v].phase = writer[v].phase /\ writer'[v].kind = writer[v].kind
          /\ writer'[v].page = writer[v].page
          /\ writer'[v].totalPages = writer[v].totalPages
          /\ writer'[v].listed = writer[v].listed
          /\ writer'[v].incomplete = writer[v].incomplete
      BY <1>1, <2>2
    <3> QED
      BY <3>1 DEF RegistryInv, PagesInv, Listing, Listed
  <2> QED
    BY <2>1, <2>2
<1> QED
  BY <1>2, <1>3, <1>4 DEF RegistryInv

\* While the file is truncated nobody sees its entries.
LEMMA TruncateInv ==
    ASSUME RegistryInv, NEW w \in RegistryWriters, TruncateFile(w)
    PROVE  RegistryInv'
<1> DEFINE r == writer[w]
           next == [r EXCEPT !.phase = "write"]
<1>1. /\ r \in Runs /\ r.phase = "merge" /\ r # NoRun
      /\ ~ r.stale => mapped \subseteq manualIn(r.base)
      /\ mapped \subseteq Ids
  BY NoRunIs DEF TruncateFile, RegistryInv, RegistryTypeOK, MapInv
<1>2. /\ next \in Runs /\ next.phase = "write"
      /\ next.base = r.base /\ next.stale = r.stale
  BY <1>1 DEF Runs
<1>3. /\ Rewrites(w, next) /\ registryFile' = Unreadable
      /\ UNCHANGED <<iotList, mapped, events>>
  BY DEF TruncateFile
<1> QED
  <2> HIDE DEF next
  <2> QED BY <1>1, <1>2, <1>3, RewriteInv

\* A run that is not stale writes the manual entries it has read; one that
\* is, at least nothing that is then counted and not there.
LEMMA WriteInv ==
    ASSUME RegistryInv, NEW w \in RegistryWriters, WriteFile(w)
    PROVE  RegistryInv'
<1> DEFINE r == writer[w]
           next == merged(r)
<1>1. /\ r \in Runs /\ r.phase = "write" /\ r # NoRun
      /\ ~ r.stale => mapped \subseteq manualIn(r.base)
      /\ mapped \subseteq Ids
  BY NoRunIs DEF WriteFile, RegistryInv, RegistryTypeOK, MapInv
<1>2. /\ next \in Registries
      /\ manualIn(r.base) \subseteq manualIn(next)
      /\ r.kind = "map" => InSheet \subseteq manualIn(next)
  BY <1>1, MergedIs
<1>3. Rewrites(w, NoRun) /\ UNCHANGED <<iotList, events>>
  BY DEF WriteFile
<1>4. \/ /\ registryFile' = next
         /\ mapped' = (IF r.kind = "map" THEN mapped \cup InSheet ELSE mapped)
                          \cap (IF r.stale THEN manualIn(next) ELSE Ids)
      \/ registryFile' = Unreadable /\ mapped' = {}
  BY DEF WriteFile
<1> HIDE DEF next
<1>5. CASE registryFile' = Unreadable /\ mapped' = {}
  BY <1>3, <1>5, NoRunIs, RewriteInv
<1>6. CASE /\ registryFile' = next
           /\ mapped' = (IF r.kind = "map" THEN mapped \cup InSheet ELSE mapped)
                            \cap (IF r.stale THEN manualIn(next) ELSE Ids)
  <2>1. mapped' \subseteq Ids
    BY <1>1, <1>6, RegistryAssumption
  <2>2. mapped' \subseteq manualIn(next)
    <3>1. CASE r.stale
      BY <1>6, <3>1
    <3>2. CASE ~ r.stale
      BY <1>1, <1>2, <1>6, <3>2
    <3> QED
      BY <3>1, <3>2
  <2> QED
    BY <1>2, <1>3, <1>6, <2>1, <2>2, NoRunIs, RewriteInv
<1> QED
  BY <1>4, <1>5, <1>6

\* The platform's list moves under every run.
LEMMA IotChangesInv ==
    ASSUME RegistryInv, NEW list \in IotLists, IotChanges(list)
    PROVE  RegistryInv'
<1>1. writer \in [RegistryWriters -> Runs]
  BY DEF RegistryInv, RegistryTypeOK
<1>2. writer' = [w \in RegistryWriters |-> [writer[w] EXCEPT !.incomplete = writer[w] # NoRun]]
  BY DEF IotChanges
<1>3. \A w \in RegistryWriters :
         /\ writer'[w] \in Runs
         /\ writer'[w].incomplete = (writer[w] # NoRun)
         /\ \A field \in {"kind", "phase", "base", "page", "stale"} :
               writer'[w][field] = writer[w][field]
  BY <1>1, <1>2 DEF Runs
<1>4. \A w \in RegistryWriters : writer[w] = NoRun => writer'[w] = NoRun
  <2>1. [NoRun EXCEPT !.incomplete = FALSE] = NoRun
    BY NoRunStays
  <2> QED
    BY <1>2, <2>1
<1>5. RegistryTypeOK'
  <2>1. writer' \in [RegistryWriters -> Runs]
    BY <1>2, <1>3
  <2>2. events' \in 0..MaxEvents
    BY RegistryAssumption DEF IotChanges, RegistryInv, RegistryTypeOK
  <2> QED
    BY <2>1, <2>2 DEF IotChanges, RegistryInv, RegistryTypeOK
<1>6. MapInv'
  <2>1. \A w \in RegistryWriters : /\ writer'[w] # NoRun => writer[w] # NoRun
                                    /\ writer'[w].base = writer[w].base
                                    /\ writer'[w].stale = writer[w].stale
    BY <1>3, <1>4
  <2> QED
    BY <2>1 DEF IotChanges, RegistryInv, MapInv, ManualMapKept
<1>7. PagesInv'
  <2> SUFFICES ASSUME NEW w \in RegistryWriters
               PROVE  /\ writer'[w].phase = "list" => Listing(writer[w])'
                      /\ writer'[w].phase = "merge" => Listed(writer[w])'
    BY DEF PagesInv
  <2>1. writer'[w].phase = writer[w].phase /\ writer'[w].page = writer[w].page
    BY <1>3
  <2>2. CASE writer[w] = NoRun
    BY <2>1, <2>2, NoRunIs
  <2>3. CASE writer[w] # NoRun
    <3>1. writer'[w].incomplete
      BY <1>3, <2>3
    <3> QED
      BY <2>1, <3>1 DEF RegistryInv, PagesInv, Listing, Listed
  <2> QED
    BY <2>2, <2>3
<1> QED
  BY <1>5, <1>6, <1>7 DEF RegistryInv

-----------------------------------------------------------------------------
(* The theorems.                                                             *)

\* Every step keeps the invariant.
LEMMA RegistryStep == RegistryInv /\ [RegistryNext]_registryVars => RegistryInv'
<1> SUFFICES ASSUME RegistryInv, [RegistryNext]_registryVars PROVE RegistryInv'
  OBVIOUS
<1>1. ASSUME NEW w \in RegistryWriters,
             \/ \E prune \in BOOLEAN : StartIot(w, prune)
             \/ StartMap(w)
             \/ \E ids \in SUBSET Ids : StartDiscovery(w, ids)
      PROVE  RegistryInv'
  BY <1>1, StartInv DEF StartIot, StartMap, StartDiscovery
<1>2. ASSUME NEW w \in RegistryWriters,
             \/ PageFails(w) \/ PageRetried(w) \/ ListEnds(w) \/ Killed(w)
             \/ \E toldPages, valid \in BOOLEAN : PageRead(w, toldPages, valid)
      PROVE  RegistryInv'
  BY <1>2, PageFailsInv, PageRetriedInv, ListEndsInv, KilledInv, PageReadInv
<1>3. ASSUME NEW w \in RegistryWriters, TruncateFile(w) \/ WriteFile(w)
      PROVE  RegistryInv'
  BY <1>3, TruncateInv, WriteInv
<1>4. ASSUME NEW list \in IotLists, IotChanges(list)
      PROVE  RegistryInv'
  BY <1>4, IotChangesInv
<1>5. CASE UNCHANGED registryVars
  BY <1>5 DEF registryVars, RegistryInv, RegistryTypeOK, MapInv, ManualMapKept,
              PagesInv, Listing, Listed
<1> QED
  BY <1>1, <1>2, <1>3, <1>4, <1>5 DEF RegistryNext

\* The invariant of the registry holds in every behaviour.
THEOREM RegistryCorrect == RegistrySpec => []RegistryInv
BY RegistryInitInv, RegistryStep, PTL DEF RegistrySpec

\* The registry file, the list and the runs keep their types.
THEOREM RegistryTypes == RegistrySpec => []RegistryTypeOK
<1>1. RegistryInv => RegistryTypeOK
  BY DEF RegistryInv
<1> QED
  BY <1>1, RegistryCorrect, PTL

\* No run of any script undoes a manual entry, unless it had read the file
\* before another run rewrote it or while that was truncated.
THEOREM MapIsKept == RegistrySpec => []ManualMapKept
<1>1. RegistryInv => ManualMapKept
  BY DEF RegistryInv, MapInv
<1> QED
  BY <1>1, RegistryCorrect, PTL

\* A write drops a device under prune only, never a labelled one, and none
\* that the platform lists if the run has read every page and item of the list.
THEOREM PruneIsSafe == RegistrySpec => []DropsOnlyUnlisted
<1>1. RegistryInv => DropsOnlyUnlisted
  <2> SUFFICES ASSUME RegistryInv, NEW w \in RegistryWriters, writer[w].phase = "merge",
                      NEW i \in DOMAIN writer[w].base \ DOMAIN merged(writer[w])
               PROVE  /\ writer[w].kind = "prune"
                      /\ ~ writer[w].base[i].label
                      /\ ~ writer[w].incomplete /\ Len(iotList) <= MaxSafePages =>
                            \A p \in DOMAIN iotList : iotList[p] # i
    BY DEF DropsOnlyUnlisted
  <2>1. writer[w] \in Runs /\ Listed(writer[w])
    BY DEF RegistryInv, RegistryTypeOK, PagesInv
  <2>2. /\ writer[w].kind = "prune" /\ ~ writer[w].base[i].label
        /\ i \notin writer[w].listed
    BY <2>1, MergedIs
  <2> QED
    BY <2>1, <2>2 DEF Listed
<1> QED
  BY <1>1, RegistryCorrect, PTL

-----------------------------------------------------------------------------
(* How long a listing takes.                                                 *)

\* The steps a listing may still take: an attempt each for the pages left, and
\* the last one that ends it.
stepsLeft(r) ==
    IF r.phase # "list" THEN 0
    ELSE 1 + (MaxSafePages + 1 - r.page) * Attempts + (Attempts - r.try)

LEMMA PageOfAttempts ==
    ASSUME NEW page \in 0..MaxSafePages
    PROVE  /\ (MaxSafePages + 1 - page) * Attempts
              = (MaxSafePages + 1 - (page + 1)) * Attempts + Attempts
           /\ (MaxSafePages + 1 - (page + 1)) * Attempts \in Nat
<1> DEFINE n == MaxSafePages + 1 - (page + 1)
<1>1. n \in Nat /\ MaxSafePages + 1 - page = n + 1 /\ Attempts \in Nat
  BY RegistryAssumption
<1> HIDE DEF n
<1>2. (n + 1) * Attempts = n * Attempts + Attempts /\ n * Attempts \in Nat
  BY <1>1
<1> QED
  BY <1>1, <1>2 DEF n

LEMMA StepsAreCounted ==
    ASSUME NEW r \in Runs
    PROVE  /\ stepsLeft(r) \in Nat
           /\ r.phase = "list" => stepsLeft(r) > 0
<1> DEFINE n == MaxSafePages + 1 - r.page
<1>1. n \in Nat /\ Attempts \in Nat /\ Attempts - r.try \in Nat
  BY RegistryAssumption DEF Runs
<1> HIDE DEF n
<1>2. n * Attempts \in Nat
  BY <1>1
<1>3. 1 + n * Attempts + (Attempts - r.try) \in Nat \ {0}
  BY <1>1, <1>2
<1> QED
  BY <1>3 DEF stepsLeft, n

\* A run that goes on to the next page, or to the next attempt, has fewer left.
LEMMA FewerSteps ==
    ASSUME NEW r \in Runs, NEW next \in Runs, r.phase = "list",
           \/ next.phase # "list"
           \/ next.phase = "list" /\ next.page = r.page /\ next.try = r.try + 1
           \/ next.phase = "list" /\ next.page = r.page + 1 /\ next.try = 1
    PROVE  stepsLeft(next) < stepsLeft(r)
<1>0. /\ Attempts \in Nat /\ MaxSafePages \in Nat
      /\ r.page \in 0..(MaxSafePages + 1) /\ next.page \in 0..(MaxSafePages + 1)
      /\ r.try \in 0..Attempts /\ next.try \in 0..Attempts
  BY RegistryAssumption DEF Runs
<1> DEFINE all == (MaxSafePages + 1 - r.page) * Attempts
           rest == (MaxSafePages + 1 - next.page) * Attempts
<1>1. stepsLeft(r) = 1 + all + (Attempts - r.try)
  BY DEF stepsLeft
<1>2. CASE next.phase # "list"
  BY <1>2, StepsAreCounted DEF stepsLeft
<1>3. CASE next.phase = "list" /\ next.page = r.page /\ next.try = r.try + 1
  <2>1. stepsLeft(next) = 1 + all + (Attempts - (r.try + 1))
    BY <1>3 DEF stepsLeft
  <2>2. all \in Nat
    <3> DEFINE n == MaxSafePages + 1 - r.page
    <3>1. n \in Nat
      BY <1>0
    <3> HIDE DEF n
    <3>2. n * Attempts \in Nat
      BY <1>0, <3>1
    <3> QED
      BY <3>2 DEF n
  <2> HIDE DEF all
  <2> QED
    BY <1>0, <1>1, <2>1, <2>2
<1>4. CASE next.phase = "list" /\ next.page = r.page + 1 /\ next.try = 1
  <2>1. stepsLeft(next) = 1 + rest + (Attempts - 1)
    BY <1>4 DEF stepsLeft
  <2>2. r.page \in 0..MaxSafePages
    BY <1>0, <1>4
  <2>3. all = rest + Attempts /\ rest \in Nat
    BY <1>4, <2>2, PageOfAttempts
  <2> HIDE DEF all, rest
  <2> QED
    BY <1>0, <1>1, <2>1, <2>3
<1> QED
  BY <1>2, <1>3, <1>4

\* What a step of the run w makes of it.
LEMMA ListStepMoves ==
    ASSUME RegistryTypeOK, RegistryTypeOK', NEW w \in RegistryWriters, ListStep(w)
    PROVE  stepsLeft(writer'[w]) < stepsLeft(writer[w])
<1> DEFINE r == writer[w]
           next == writer'[w]
<1>1. r \in Runs /\ next \in Runs /\ writer \in [RegistryWriters -> Runs]
  BY DEF RegistryTypeOK
<1>2. r.phase = "list"
  BY DEF ListStep, PageFails, PageRetried, PageRead, ListEnds
<1>3. ASSUME PageFails(w)
      PROVE  stepsLeft(next) < stepsLeft(r)
  <2>1. next.phase = "list" /\ next.page = r.page + 1 /\ next.try = 1
    BY <1>1, <1>2, <1>3 DEF PageFails, Runs
  <2> HIDE DEF r, next
  <2> QED
    BY <1>1, <1>2, <2>1, FewerSteps
<1>4. ASSUME PageRetried(w)
      PROVE  stepsLeft(next) < stepsLeft(r)
  <2>1. next.phase = "list" /\ next.page = r.page /\ next.try = r.try + 1
    BY <1>1, <1>2, <1>4 DEF PageRetried, Runs
  <2> HIDE DEF r, next
  <2> QED
    BY <1>1, <1>2, <2>1, FewerSteps
<1>5. ASSUME NEW toldPages, NEW valid, PageRead(w, toldPages, valid)
      PROVE  stepsLeft(next) < stepsLeft(r)
  <2> DEFINE onPage == {iotList[p] : p \in {r.page} \cap DOMAIN iotList}
             read == IF valid THEN onPage ELSE {}
             after == [r EXCEPT !.try = 1, !.listed = @ \cup read,
                                !.incomplete = @ \/ read # onPage,
                                !.totalPages = IF @ = 0 /\ toldPages THEN Len(iotList) ELSE @,
                                !.page = IF onPage = {} THEN @ ELSE @ + 1,
                                !.phase = IF onPage = {} THEN "merge" ELSE @]
  <2>0. next = after
    BY <1>1, <1>5 DEF PageRead
  <2>1. /\ next.phase = IF onPage = {} THEN "merge" ELSE r.phase
        /\ next.page = IF onPage = {} THEN r.page ELSE r.page + 1
        /\ next.try = 1
    <3> HIDE DEF next, onPage, read
    <3> QED
      BY <1>1, <2>0 DEF Runs
  <2> HIDE DEF r, next, onPage
  <2>2. next.phase # "list" \/ (next.phase = "list" /\ next.page = r.page + 1 /\ next.try = 1)
    BY <1>2, <2>1
  <2> QED
    BY <1>1, <1>2, <2>2, FewerSteps
<1>6. ASSUME ListEnds(w)
      PROVE  stepsLeft(next) < stepsLeft(r)
  <2>1. next.phase # "list"
    BY <1>1, <1>6 DEF ListEnds, Runs
  <2> HIDE DEF r, next
  <2> QED
    BY <1>1, <1>2, <2>1, FewerSteps
<1> QED
  BY <1>3, <1>4, <1>5, <1>6 DEF ListStep, r, next

\* No other step makes the listing of w longer.
LEMMA OthersKeepSteps ==
    ASSUME RegistryTypeOK, RegistryTypeOK', [RegistryNext]_registryVars,
           NEW w \in RegistryWriters, ~ ListStep(w), writer[w].phase = "list"
    PROVE  stepsLeft(writer'[w]) <= stepsLeft(writer[w])
<1> DEFINE r == writer[w]
           next == writer'[w]
<1>1. r \in Runs /\ next \in Runs /\ writer \in [RegistryWriters -> Runs] /\ r.phase = "list"
      /\ r # NoRun
  BY NoRunIs DEF RegistryTypeOK
<1>2. \/ next = r
      \/ next = NoRun
      \/ next.phase = r.phase /\ next.page = r.page /\ next.try = r.try
  <2>1. ASSUME NEW v \in RegistryWriters, NEW kind, NEW ids, Start(v, kind, ids)
        PROVE  next = r
    BY <1>1, <2>1 DEF Start
  <2>2. ASSUME NEW v \in RegistryWriters, ListStep(v)
        PROVE  next = r
    <3>1. v # w
      BY <2>2
    <3>2. CASE PageFails(v)
      BY <1>1, <3>1, <3>2 DEF PageFails
    <3>3. CASE PageRetried(v)
      BY <1>1, <3>1, <3>3 DEF PageRetried
    <3>4. ASSUME NEW toldPages, NEW valid, PageRead(v, toldPages, valid)
          PROVE  next = r
      BY <1>1, <3>1, <3>4 DEF PageRead
    <3>5. CASE ListEnds(v)
      BY <1>1, <3>1, <3>5 DEF ListEnds
    <3> QED
      BY <2>2, <3>2, <3>3, <3>4, <3>5 DEF ListStep
  <2>3. ASSUME NEW v \in RegistryWriters, TruncateFile(v) \/ WriteFile(v)
        PROVE  next.phase = r.phase /\ next.page = r.page /\ next.try = r.try
    <3>1. v # w
      BY <1>1, <2>3 DEF TruncateFile, WriteFile
    <3>2. next = [r EXCEPT !.stale = r # NoRun]
      BY <2>3, <3>1 DEF TruncateFile, WriteFile, Rewrites
    <3> QED
      BY <1>1, <3>2 DEF Runs
  <2>4. ASSUME NEW v \in RegistryWriters, Killed(v)
        PROVE  next = r \/ next = NoRun
    BY <1>1, <2>4 DEF Killed
  <2>5. ASSUME NEW list, IotChanges(list)
        PROVE  next.phase = r.phase /\ next.page = r.page /\ next.try = r.try
    <3>1. next = [r EXCEPT !.incomplete = r # NoRun]
      BY <2>5 DEF IotChanges
    <3> QED
      BY <1>1, <3>1 DEF Runs
  <2>6. CASE UNCHANGED registryVars
    BY <2>6 DEF registryVars
  <2> HIDE DEF r, next
  <2> QED
    BY <2>1, <2>2, <2>3, <2>4, <2>5, <2>6
    DEF RegistryNext, StartIot, StartMap, StartDiscovery, ListStep
<1> HIDE DEF r, next
<1>3. stepsLeft(r) \in Nat
  BY <1>1, StepsAreCounted
<1>4. next = NoRun => stepsLeft(next) = 0
  BY NoRunIs DEF stepsLeft
<1>5. next.phase = r.phase /\ next.page = r.page /\ next.try = r.try =>
         stepsLeft(next) = stepsLeft(r)
  BY DEF stepsLeft
<1> QED
  BY <1>2, <1>3, <1>4, <1>5 DEF r, next

\* A listing comes to its end after at most stepsLeft steps of its own, whatever
\* fails and whatever the other scripts and the platform do: ListingEnds but for
\* the fairness that it takes them.
THEOREM ListingIsBounded ==
    RegistrySpec =>
        /\ [](\A w \in RegistryWriters : stepsLeft(writer[w]) \in Nat)
        /\ [][\A w \in RegistryWriters :
                 /\ ListStep(w) => stepsLeft(writer'[w]) < stepsLeft(writer[w])
                 /\ writer[w].phase = "list" => stepsLeft(writer'[w]) <= stepsLeft(writer[w])
             ]_registryVars
<1>1. RegistryTypeOK => \A w \in RegistryWriters : stepsLeft(writer[w]) \in Nat
  BY StepsAreCounted DEF RegistryTypeOK
<1>2. RegistryTypeOK /\ RegistryTypeOK' /\ [RegistryNext]_registryVars =>
         [\A w \in RegistryWriters :
             /\ ListStep(w) => stepsLeft(writer'[w]) < stepsLeft(writer[w])
             /\ writer[w].phase = "list" => stepsLeft(writer'[w]) <= stepsLeft(writer[w])
         ]_registryVars
  <2> SUFFICES ASSUME RegistryTypeOK, RegistryTypeOK', [RegistryNext]_registryVars,
                      NEW w \in RegistryWriters
               PROVE  /\ ListStep(w) => stepsLeft(writer'[w]) < stepsLeft(writer[w])
                      /\ writer[w].phase = "list" => stepsLeft(writer'[w]) <= stepsLeft(writer[w])
    OBVIOUS
  <2>1. ListStep(w) => stepsLeft(writer'[w]) < stepsLeft(writer[w])
    BY ListStepMoves
  <2>2. writer[w].phase = "list" /\ ~ ListStep(w) => stepsLeft(writer'[w]) <= stepsLeft(writer[w])
    BY OthersKeepSteps
  <2>3. stepsLeft(writer'[w]) \in Nat /\ stepsLeft(writer[w]) \in Nat
    BY StepsAreCounted DEF RegistryTypeOK
  <2> QED
    BY <2>1, <2>2, <2>3
<1> QED
  BY <1>1, <1>2, RegistryTypes, PTL DEF RegistrySpec
=============================================================================
