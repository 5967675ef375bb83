-------------------------- MODULE SourceSyncProofs --------------------------
(***************************************************************************)
(* Proofs about SourceSync, for any set of processes, options, devices and *)
(* rows, any number of faults and any registry changes: type correctness,  *)
(* that syncing only ever does what the store allows, and, when no         *)
(* source-wide run is narrowed by --sn or --from, that the checkpoint      *)
(* keeps its promise.                                                      *)
(***************************************************************************)
EXTENDS SourceSync, TelemetryStoreProofs

BaseInv ==
    /\ StoreInv
    /\ TypeOK
    /\ ClockInv
    /\ \A p \in Syncs : RunOK(p, run[p], devices)

-----------------------------------------------------------------------------

\* A nonempty page has a last row, and LastOf finds it.
LEMMA LastOfSpec ==
  ASSUME NEW S \in SUBSET Rows, S # {}
  PROVE  /\ LastOf(S) \in S
         /\ \A q \in S : q = LastOf(S) \/ After(LastOf(S), q)
<1>1. /\ S \subseteq Rows
      /\ NumRows \in Nat
      /\ \A r \in Rows : r \in Nat /\ r <= NumRows
      /\ \A r \in Rows : At[r] \in Nat
  BY StoreAssumption DEF StoreAssumption, Rows
<1>2. PICK t \in S : \A q \in S : At[t] <= At[q]
  <2> DEFINE T == {At[r] : r \in S}
  <2>1. T \subseteq Nat /\ T # {}
    BY <1>1
  <2> HIDE DEF T
  <2>2. PICK x \in T : \A y \in T : x <= y
    BY <2>1, MinExists
  <2> QED BY <2>2 DEF T
<1>3. PICK m \in S : At[m] = At[t] /\ \A q \in S : At[q] = At[t] => q <= m
  <2> DEFINE T == {NumRows - r : r \in {r \in S : At[r] = At[t]}}
  <2>1. T \subseteq Nat /\ T # {}
    BY <1>1
  <2> HIDE DEF T
  <2>2. PICK x \in T : \A y \in T : x <= y
    BY <2>1, MinExists
  <2>3. PICK m \in S : At[m] = At[t] /\ x = NumRows - m
    BY DEF T
  <2>4. ASSUME NEW q \in S, At[q] = At[t] PROVE q <= m
    <3>1. NumRows - q \in T
      BY <2>4 DEF T
    <3>2. NumRows - m <= NumRows - q
      BY <2>2, <2>3, <3>1
    <3> QED BY <1>1, <3>2
  <2> QED BY <2>3, <2>4
<1>4. \A q \in S : q = m \/ After(m, q)
  BY <1>1, <1>2, <1>3 DEF After
<1> QED BY <1>4 DEF LastOf

\* A page and a chunk hold rows of the window and of the page in hand.
LEMMA PrefixRows ==
  ASSUME NEW S \in SUBSET Rows, NEW P \in Prefixes(S)
  PROVE  P \in SUBSET Rows /\ P \subseteq S /\ P # {}
BY DEF Prefixes

LEMMA IdleType == Idle \in RunType
<1>1. Plain \in OptionType
  BY DEF Plain, OptionType
<1>2. 0 \in Times
  BY StoreAssumption DEF StoreAssumption, Times
<1>3. "idle" \in PCs
  BY DEF PCs
<1> QED BY <1>1, <1>2, <1>3, SyncAssumption DEF SyncAssumption, Idle, RunType

\* A run that is not in the middle of a page has nothing to check.
LEMMA IdleOK ==
  ASSUME NEW p \in Syncs, NEW devs
  PROVE  RunOK(p, Idle, devs)
BY DEF RunOK, Idle

-----------------------------------------------------------------------------

\* What a run writes, and under which serial numbers.
LEMMA ChunkType ==
  ASSUME BaseInv, NEW p \in Syncs, run[p].pc = "write", NEW chunk \in Prefixes(run[p].pending)
  PROVE  /\ chunk \in SUBSET Rows /\ chunk # {} /\ chunk \subseteq run[p].pending
         /\ SnOf(run[p], chunk) \in [chunk -> Sns]
         /\ \A r \in chunk : SnOf(run[p], chunk)[r] \in devices
<1>1. run[p].pending \in SUBSET Rows
  BY DEF BaseInv, TypeOK, RunType
<1>2. chunk \in SUBSET Rows /\ chunk # {} /\ chunk \subseteq run[p].pending
  BY <1>1, PrefixRows
<1>3. \A r \in run[p].pending : run[p].snOf[Dev[r]] \in Sns /\ run[p].snOf[Dev[r]] \in devices
  BY DEF BaseInv, RunOK
<1> QED BY <1>2, <1>3 DEF SnOf

\* Every step of the sync is a step of the store's writers or leaves the
\* store alone.
LEMMA StoreStep ==
  ASSUME BaseInv, [Next]_vars
  PROVE  [StoreNext]_storeVars
<1>1. ASSUME NEW p \in Syncs, UpsertDevice(p)
      PROVE  StoreNext
  <2>1. PICK sn \in {run[p].snOf[Dev[r]] : r \in run[p].pending} : RegisterDevices({sn})
    BY <1>1 DEF UpsertDevice
  <2>2. {sn} \in SUBSET Sns
    BY <2>1 DEF BaseInv, RunOK
  <2> QED BY <2>1, <2>2 DEF StoreNext
<1>2. ASSUME NEW p \in Syncs, WriteChunk(p) \/ ConflictUnreported(p)
      PROVE  StoreNext
  <2>1. PICK chunk \in Prefixes(run[p].pending) : WriteBatch(chunk, SnOf(run[p], chunk))
    BY <1>2 DEF WriteChunk, ConflictUnreported
  <2>2. run[p].pc = "write"
    BY <1>2 DEF WriteChunk, ConflictUnreported
  <2>3. chunk \in SUBSET Rows /\ SnOf(run[p], chunk) \in [chunk -> Sns]
    BY <2>2, ChunkType
  <2> QED BY <2>1, <2>3 DEF StoreNext
<1>3. ASSUME NEW p \in Syncs,
             \/ Begin(p) \/ Open(p) \/ FetchNothing(p) \/ Fetch(p)
             \/ Advance(p) \/ Finish(p) \/ ChunkFails(p) \/ Fail(p) \/ Crash(p)
      PROVE  UNCHANGED storeVars
  BY <1>3 DEF Begin, Open, FetchNothing, Fetch, Advance, Finish, ChunkFails, Fail, Crash
<1>4. ASSUME NEW r \in Rows, Publish(r) PROVE UNCHANGED storeVars
  BY <1>4 DEF Publish
<1>5. ASSUME NEW c \in RegistryChanges, ChangeRegistry(c[1], c[2]) PROVE UNCHANGED storeVars
  BY <1>5 DEF ChangeRegistry
<1>6. TimePasses \/ Sweep => StoreNext
  BY DEF TimePasses, Sweep, StoreNext
<1>7. UNCHANGED vars => UNCHANGED storeVars
  BY DEF vars
<1> QED BY <1>1, <1>2, <1>3, <1>4, <1>5, <1>6, <1>7 DEF Next, Step

-----------------------------------------------------------------------------

\* A step of one run, reduced to what it must leave behind.
LEMMA RunStepBase ==
  ASSUME BaseInv, StoreInv', NEW p \in Syncs,
         run' \in [Syncs -> RunType],
         \A q \in Syncs : q # p => run'[q] = run[q],
         devices \subseteq devices', clock' = clock,
         UNCHANGED <<source, registry, exempt>>,
         checkpoint' \in Times, checkpoint' <= clock, horizon' \in Times,
         cpStatus' \in {"none", "ok", "failed"},
         reported' \subseteq Rows, skipped' \subseteq Rows, faults' \in 0..MaxFaults,
         run'[p].to <= clock, run'[p].newest <= clock,
         RunOK(p, run'[p], devices')
  PROVE  BaseInv'
<1>1. TypeOK'
  BY DEF BaseInv, StoreInv, TypeOK
<1>2. ClockInv'
  <2>1. cutoff' <= clock'
    BY StoreAssumption DEF StoreInv, StoreTypeOK, CutoffInv, StoreAssumption, Times
  <2> QED BY <2>1 DEF BaseInv, ClockInv
<1>3. ASSUME NEW q \in Syncs PROVE RunOK(q, run'[q], devices')
  <2>1. CASE q = p
    BY <2>1
  <2>2. CASE q # p
    BY <2>2 DEF BaseInv, RunOK
  <2> QED BY <2>1, <2>2
<1> QED BY <1>1, <1>2, <1>3 DEF BaseInv

\* Facts about the fields of a run that every step of it uses.
LEMMA RunFields ==
  ASSUME BaseInv, NEW p \in Syncs
  PROVE  /\ run \in [Syncs -> RunType] /\ run[p] \in RunType
         /\ run[p].pc \in PCs /\ run[p].opt \in OptionType
         /\ run[p].to \in Times /\ run[p].from \in Times /\ run[p].saved \in Times
         /\ run[p].horizon \in Times /\ run[p].newest \in Times
         /\ run[p].cursor \in Rows \cup {NoRow} /\ run[p].more \in BOOLEAN
         /\ run[p].pending \in SUBSET Rows
         /\ run[p].snOf \in [Devices -> Sns \cup {NoSn}]
         /\ checkpoint \in Times /\ horizon \in Times /\ clock \in Times
         /\ checkpoint <= clock /\ run[p].to <= clock /\ run[p].newest <= clock
         /\ Times \subseteq Int
BY StoreAssumption DEF StoreAssumption, BaseInv, StoreInv, StoreTypeOK, TypeOK, RunType,
                       ClockInv, Times

LEMMA BeginBase ==
  ASSUME BaseInv, StoreInv', NEW p \in Syncs, Begin(p)
  PROVE  BaseInv'
<1> DEFINE s == run[p]
<1>1. PICK opt \in Options[p] :
        run' = [run EXCEPT ![p].pc = "open", ![p].opt = opt, ![p].to = clock]
  BY DEF Begin
<1>2. run' = [run EXCEPT ![p] = [s EXCEPT !.pc = "open", !.opt = opt, !.to = clock]]
  BY <1>1, RunFields
<1>3. opt \in OptionType
  BY SyncAssumption DEF SyncAssumption
<1>4. run'[p] = [s EXCEPT !.pc = "open", !.opt = opt, !.to = clock]
  BY <1>2, RunFields
<1>5. run'[p] \in RunType
  BY <1>3, <1>4, RunFields DEF RunType, PCs
<1>6. RunOK(p, run'[p], devices')
  BY <1>4, RunFields DEF Begin, BaseInv, RunOK, RunType, PCs
<1> QED
  <2>1. run' \in [Syncs -> RunType] /\ \A q \in Syncs : q # p => run'[q] = run[q]
    BY <1>2, <1>4, <1>5, RunFields
  <2>2. run'[p].to <= clock /\ run'[p].newest <= clock
    BY <1>4, RunFields DEF RunType
  <2>3. UNCHANGED <<devices, clock, source, registry, exempt, checkpoint, horizon,
                    cpStatus, reported, skipped, faults>>
    BY DEF Begin, storeVars, tables
  <2> QED BY <1>6, <2>1, <2>2, <2>3, RunFields, RunStepBase DEF BaseInv, TypeOK

LEMMA OpenBase ==
  ASSUME BaseInv, StoreInv', NEW p \in Syncs, Open(p)
  PROVE  BaseInv'
<1> DEFINE s     == run[p]
           saved == IF Shared(s.opt) THEN checkpoint ELSE 0
           back  == IF s.to > Lookback THEN s.to - Lookback ELSE 0
           from  == IF s.opt.from # NoFrom THEN s.opt.from
                    ELSE IF saved # 0 THEN saved ELSE back
           hor   == IF saved # 0 THEN horizon ELSE from
           X     == [s EXCEPT !.pc = "fetch", !.from = from, !.saved = saved,
                              !.newest = saved, !.horizon = hor]
<1>1. run' = [run EXCEPT ![p] = X] /\ s.pc = "open"
  BY RunFields DEF Open
<1>2. 0 \in Times /\ saved \in Times
  BY RunFields, StoreAssumption DEF StoreAssumption, Times
<1>3. back \in Times
  BY RunFields, StoreAssumption, SyncAssumption DEF StoreAssumption, SyncAssumption, Times
<1>4. from \in Times
  BY <1>2, <1>3, RunFields DEF OptionType
<1>5. saved <= clock
  BY RunFields DEF Times
<1> HIDE DEF saved, back, from
<1>6. run'[p] = X
  BY <1>1, RunFields
<1>7. hor \in Times
  BY <1>4, RunFields
<1> HIDE DEF hor
<1>8. X \in RunType
  BY <1>2, <1>4, <1>7, RunFields DEF RunType, PCs
<1>9. RunOK(p, X, devices')
  BY <1>1, RunFields DEF BaseInv, RunOK, RunType
<1>10. X.to <= clock /\ X.newest <= clock
  BY <1>5, RunFields DEF RunType
<1> HIDE DEF X
<1> QED
  <2>1. run' \in [Syncs -> RunType] /\ \A q \in Syncs : q # p => run'[q] = run[q]
    BY <1>1, <1>8, RunFields
  <2>2. UNCHANGED <<devices, clock, source, registry, exempt, checkpoint, horizon,
                    cpStatus, reported, skipped, faults>>
    BY DEF Open, storeVars, tables
  <2> QED BY <1>6, <1>9, <1>10, <2>1, <2>2, RunFields, RunStepBase DEF BaseInv, TypeOK

LEMMA FetchNothingBase ==
  ASSUME BaseInv, StoreInv', NEW p \in Syncs, FetchNothing(p)
  PROVE  BaseInv'
<1> DEFINE s == run[p]
           X == [s EXCEPT !.pc = "advance", !.more = FALSE]
<1>1. run' = [run EXCEPT ![p] = X] /\ s.pc = "fetch"
  BY RunFields DEF FetchNothing
<1>2. X \in RunType /\ run'[p] = X
  BY <1>1, RunFields DEF RunType, PCs
<1>3. RunOK(p, X, devices')
  BY <1>1, RunFields DEF BaseInv, RunOK, RunType
<1>4. X.to <= clock /\ X.newest <= clock
  BY RunFields DEF RunType
<1>5. skipped' \subseteq Rows
  BY DEF FetchNothing, Window, BaseInv, TypeOK
<1> HIDE DEF X
<1> QED
  <2>1. run' \in [Syncs -> RunType] /\ \A q \in Syncs : q # p => run'[q] = run[q]
    BY <1>1, <1>2, RunFields
  <2>2. UNCHANGED <<devices, clock, source, registry, exempt, checkpoint, horizon,
                    cpStatus, reported, faults>>
    BY DEF FetchNothing, storeVars, tables
  <2> QED BY <1>2, <1>3, <1>4, <1>5, <2>1, <2>2, RunFields, RunStepBase DEF BaseInv, TypeOK

\* What a page does to the run that fetched it.
LEMMA FetchFacts ==
  ASSUME BaseInv, NEW p \in Syncs, Fetch(p)
  PROVE  \E page \in SUBSET Rows, rows \in SUBSET Rows, top \in Times :
           /\ page # {} /\ page \subseteq Window(run[p])
           /\ \A r \in page, q \in Window(run[p]) \ page : After(q, r)
           /\ rows = Accepted(run[p], page)
           /\ \A r \in rows : At[r] <= top
           /\ top = 0 \/ \E r \in rows : At[r] = top
           /\ run[p].pc = "fetch"
           /\ run' \in [Syncs -> RunType]
           /\ \A q \in Syncs : q # p => run'[q] = run[q]
           /\ run'[p].pending = IF run[p].opt.dryRun THEN {} ELSE rows
           /\ page # Window(run[p]) => run'[p].more
           /\ run'[p].pc = IF run'[p].pending # {} THEN "devices"
                           ELSE IF run'[p].more THEN "fetch" ELSE "advance"
           /\ run'[p].newest = IF top > run[p].newest THEN top ELSE run[p].newest
           /\ run'[p].cursor = LastOf(page)
           /\ run'[p].snOf = registry
           /\ run'[p].opt = run[p].opt /\ run'[p].to = run[p].to
           /\ run'[p].from = run[p].from /\ run'[p].saved = run[p].saved
           /\ run'[p].horizon = run[p].horizon
           /\ reported' = reported \cup (page \cap Malformed)
<1> DEFINE s == run[p]
<1>1. PICK page \in Prefixes(Window(s)), more \in BOOLEAN :
        /\ page # Window(s) => more
        /\ LET rows == Accepted(s, page)
               top  == IF rows = {} THEN 0 ELSE At[NewestOf(rows)]
               pend == IF s.opt.dryRun THEN {} ELSE rows
           IN  /\ run' = [run EXCEPT ![p] =
                    [s EXCEPT !.pc = IF pend # {} THEN "devices"
                                     ELSE IF more THEN "fetch" ELSE "advance",
                              !.newest = IF top > s.newest THEN top ELSE s.newest,
                              !.cursor = LastOf(page),
                              !.more = more,
                              !.pending = pend,
                              !.snOf = registry]]
               /\ reported' = reported \cup (page \cap Malformed)
  BY DEF Fetch
<1> DEFINE rows == Accepted(s, page)
           top  == IF rows = {} THEN 0 ELSE At[NewestOf(rows)]
           pend == IF s.opt.dryRun THEN {} ELSE rows
           pc   == IF pend # {} THEN "devices" ELSE IF more THEN "fetch" ELSE "advance"
           new  == IF top > s.newest THEN top ELSE s.newest
           X    == [s EXCEPT !.pc = pc, !.newest = new, !.cursor = LastOf(page),
                             !.more = more, !.pending = pend, !.snOf = registry]
<1>2. Window(s) \in SUBSET Rows
  BY DEF Window, BaseInv, TypeOK
<1>3. page \in SUBSET Rows /\ page \subseteq Window(s) /\ page # {}
  BY <1>2, PrefixRows
<1>4. \A r \in page, q \in Window(s) \ page : After(q, r)
  BY DEF Prefixes
<1>5. rows \in SUBSET Rows
  BY <1>3 DEF Accepted
<1>6. LastOf(page) \in Rows
  BY <1>3, LastOfSpec
<1>7. run' = [run EXCEPT ![p] = X] /\ reported' = reported \cup (page \cap Malformed)
  BY <1>1
<1> HIDE DEF rows
<1>8. /\ top \in Times
      /\ \A r \in rows : At[r] <= top
      /\ top = 0 \/ \E r \in rows : At[r] = top
  <2>1. \A r \in Rows : At[r] \in Times /\ At[r] \in Int
    BY StoreAssumption DEF StoreAssumption, Times
  <2>2. CASE rows = {}
    BY <2>2, StoreAssumption DEF StoreAssumption, Times
  <2>3. CASE rows # {}
    <3>1. NewestOf(rows) \in rows /\ \A q \in rows : q = NewestOf(rows) \/ Newer(NewestOf(rows), q)
      BY <1>5, <2>3, NewestOfSpec
    <3>2. \A q \in rows : At[q] <= At[NewestOf(rows)]
      BY <1>5, <2>1, <3>1 DEF Newer
    <3> QED BY <1>5, <2>1, <2>3, <3>1, <3>2
  <2> QED BY <2>2, <2>3
<1> HIDE DEF top
<1>9. pend \in SUBSET Rows /\ new \in Times /\ more \in BOOLEAN /\ pc \in PCs
  BY <1>5, <1>8, RunFields DEF PCs
<1>10. registry \in [Devices -> Sns \cup {NoSn}]
  BY DEF BaseInv, TypeOK
<1>11. run[p].pc = "fetch"
  BY DEF Fetch
<1>12. /\ run'[p] = X
       /\ \A q \in Syncs : q # p => run'[q] = run[q]
  BY <1>7, RunFields
<1>13. /\ X.pc = pc /\ X.newest = new /\ X.cursor = LastOf(page) /\ X.more = more
       /\ X.pending = pend /\ X.snOf = registry /\ X.opt = s.opt /\ X.to = s.to
       /\ X.from = s.from /\ X.saved = s.saved /\ X.horizon = s.horizon
  <2> HIDE DEF pend, new, pc
  <2> QED BY RunFields DEF RunType
<1>14. X \in RunType
  <2> HIDE DEF pend, new, pc
  <2> QED BY <1>6, <1>9, <1>10, RunFields DEF RunType
<1> HIDE DEF X
<1>15. run' \in [Syncs -> RunType]
  BY <1>7, <1>14, RunFields
<1>16. rows = Accepted(run[p], page)
  BY DEF rows
<1>17. page \in SUBSET Rows /\ rows \in SUBSET Rows /\ top \in Times
  BY <1>3, <1>5, <1>8
<1>18. page # Window(run[p]) => X.more
  BY <1>1, <1>13
<1> USE <1>17
<1> WITNESS page \in SUBSET Rows, rows \in SUBSET Rows, top \in Times
<1> QED BY <1>3, <1>4, <1>7, <1>8, <1>11, <1>12, <1>13, <1>15, <1>16, <1>18

LEMMA FetchBase ==
  ASSUME BaseInv, StoreInv', NEW p \in Syncs, Fetch(p)
  PROVE  BaseInv'
<1>1. PICK page \in SUBSET Rows, rows \in SUBSET Rows, top \in Times :
           /\ page \subseteq Window(run[p])
           /\ rows = Accepted(run[p], page)
           /\ top = 0 \/ \E r \in rows : At[r] = top
           /\ run' \in [Syncs -> RunType]
           /\ \A q \in Syncs : q # p => run'[q] = run[q]
           /\ run'[p].pending = IF run[p].opt.dryRun THEN {} ELSE rows
           /\ run'[p].pc = IF run'[p].pending # {} THEN "devices"
                           ELSE IF run'[p].more THEN "fetch" ELSE "advance"
           /\ run'[p].newest = IF top > run[p].newest THEN top ELSE run[p].newest
           /\ run'[p].snOf = registry
           /\ run'[p].opt = run[p].opt /\ run'[p].to = run[p].to
           /\ reported' = reported \cup (page \cap Malformed)
           /\ run[p].pc = "fetch"
  BY FetchFacts
<1>2. \A r \in rows : r \in page /\ r \in Window(run[p])
  BY <1>1 DEF Accepted
<1>3. \A r \in rows : registry[Dev[r]] \in Sns /\ At[r] <= run[p].to
  BY <1>1, <1>2, SyncAssumption DEF SyncAssumption, Window, BaseInv, TypeOK
<1>4. run'[p].newest <= clock /\ run'[p].to <= clock
  <2>1. \A r \in rows : At[r] \in Int
    BY StoreAssumption DEF StoreAssumption
  <2>2. top <= run[p].to
    BY <1>1, <1>3, RunFields DEF Times
  <2>3. run[p].to <= clock /\ run[p].newest <= clock
        /\ run[p].to \in Int /\ run[p].newest \in Int /\ clock \in Int /\ top \in Int
    BY RunFields DEF Times
  <2> QED BY <1>1, <2>2, <2>3
<1>5. RunOK(p, run'[p], devices')
  <2>1. run[p].opt \in Options[p]
    BY <1>1 DEF BaseInv, RunOK
  <2>2. run'[p].pc \notin {"devices", "write"} => run'[p].pending = {}
    BY <1>1
  <2>3. \A r \in run'[p].pending : run'[p].snOf[Dev[r]] \in Sns
    BY <1>1, <1>3
  <2>4. run'[p].pc \notin {"write", "idle", "open"}
    BY <1>1
  <2> QED BY <1>1, <2>1, <2>2, <2>3, <2>4 DEF RunOK
<1>6. reported' \subseteq Rows
  BY <1>1 DEF BaseInv, TypeOK
<1>7. UNCHANGED <<devices, clock, source, registry, exempt, checkpoint, horizon,
                  cpStatus, skipped, faults>>
  BY DEF Fetch, storeVars, tables
<1> QED BY <1>1, <1>4, <1>5, <1>6, <1>7, RunFields, RunStepBase DEF BaseInv, TypeOK

LEMMA UpsertDeviceBase ==
  ASSUME BaseInv, StoreInv', NEW p \in Syncs, UpsertDevice(p)
  PROVE  BaseInv'
<1> DEFINE s      == run[p]
           needed == {s.snOf[Dev[r]] : r \in s.pending}
           pc     == IF needed \subseteq devices' THEN "write" ELSE "devices"
           X      == [s EXCEPT !.pc = pc]
<1>1. run' = [run EXCEPT ![p] = X] /\ s.pc = "devices"
  BY RunFields DEF UpsertDevice
<1>2. pc \in PCs
  BY DEF PCs
<1>3. devices \subseteq devices'
  BY DEF UpsertDevice, RegisterDevices
<1>4. pc = "write" => \A r \in s.pending : s.snOf[Dev[r]] \in devices'
  OBVIOUS
<1>5. pc \in {"write", "devices"}
  OBVIOUS
<1> HIDE DEF pc, needed
<1>6. X \in RunType /\ run'[p] = X
  BY <1>1, <1>2, RunFields DEF RunType
<1>7. RunOK(p, X, devices')
  <2>1. X.pc = pc /\ X.pending = s.pending /\ X.snOf = s.snOf /\ X.opt = s.opt
    BY RunFields DEF RunType
  <2>2. RunOK(p, s, devices)
    BY DEF BaseInv
  <2> HIDE DEF X
  <2> QED BY <1>1, <1>4, <1>5, <2>1, <2>2 DEF RunOK
<1>8. X.to <= clock /\ X.newest <= clock
  BY RunFields DEF RunType
<1> HIDE DEF X
<1> QED
  <2>1. run' \in [Syncs -> RunType] /\ \A q \in Syncs : q # p => run'[q] = run[q]
    BY <1>1, <1>6, RunFields
  <2>2. UNCHANGED <<clock, source, registry, exempt, checkpoint, horizon,
                    cpStatus, reported, skipped, faults>>
    BY DEF UpsertDevice, RegisterDevices
  <2> QED BY <1>3, <1>6, <1>7, <1>8, <2>1, <2>2, RunFields, RunStepBase DEF BaseInv, TypeOK

\* What finishing a chunk does to its run.
LEMMA ChunkFacts ==
  ASSUME BaseInv, NEW p \in Syncs, run[p].pc = "write",
         NEW chunk \in Prefixes(run[p].pending), AfterChunk(p, chunk)
  PROVE  /\ run' \in [Syncs -> RunType]
         /\ \A q \in Syncs : q # p => run'[q] = run[q]
         /\ run'[p].pending = run[p].pending \ chunk
         /\ run'[p].pc = IF run[p].pending = chunk
                         THEN (IF run[p].more THEN "fetch" ELSE "advance") ELSE "write"
         /\ run'[p].opt = run[p].opt /\ run'[p].to = run[p].to
         /\ run'[p].from = run[p].from /\ run'[p].saved = run[p].saved
         /\ run'[p].horizon = run[p].horizon /\ run'[p].newest = run[p].newest
         /\ run'[p].cursor = run[p].cursor /\ run'[p].more = run[p].more
         /\ run'[p].snOf = run[p].snOf
         /\ RunOK(p, run'[p], devices)
<1> DEFINE s    == run[p]
           pend == s.pending \ chunk
           pc   == IF s.pending = chunk THEN NextPage(s) ELSE "write"
           X    == [s EXCEPT !.pending = pend, !.pc = pc]
<1>1. run' = [run EXCEPT ![p] = X]
  BY RunFields DEF AfterChunk
<1>2. pc \in PCs /\ pc = IF s.pending = chunk
                         THEN (IF s.more THEN "fetch" ELSE "advance") ELSE "write"
  BY DEF PCs, NextPage
<1>3. pend \in SUBSET Rows /\ (pc # "write" => pend = {})
      /\ pc \notin {"idle", "open", "devices"}
  BY RunFields DEF NextPage
<1> HIDE DEF pc
<1>4. X \in RunType /\ run'[p] = X /\ \A q \in Syncs : q # p => run'[q] = run[q]
  BY <1>1, <1>2, <1>3, RunFields DEF RunType
<1>5. /\ X.pending = pend /\ X.pc = pc /\ X.opt = s.opt /\ X.to = s.to
      /\ X.from = s.from /\ X.saved = s.saved /\ X.horizon = s.horizon
      /\ X.newest = s.newest /\ X.cursor = s.cursor /\ X.more = s.more
      /\ X.snOf = s.snOf
  BY RunFields DEF RunType
<1> HIDE DEF X
<1>6. run' \in [Syncs -> RunType]
  BY <1>1, <1>4, RunFields
<1>7. RunOK(p, X, devices)
  <2>1. RunOK(p, s, devices)
    BY DEF BaseInv
  <2> QED BY <1>3, <1>5, <2>1 DEF RunOK
<1> QED BY <1>2, <1>4, <1>5, <1>6, <1>7

LEMMA ChunkBase ==
  ASSUME BaseInv, StoreInv', NEW p \in Syncs,
         WriteChunk(p) \/ ChunkFails(p) \/ ConflictUnreported(p)
  PROVE  BaseInv'
<1>1. run[p].pc = "write"
  BY DEF WriteChunk, ChunkFails, ConflictUnreported
<1>2. PICK chunk \in Prefixes(run[p].pending) :
         /\ AfterChunk(p, chunk)
         /\ \/ reported' = reported \cup Conflicts(chunk, SnOf(run[p], chunk))
            \/ reported' = reported \cup chunk
  BY DEF WriteChunk, ChunkFails, ConflictUnreported
<1>3. reported' \subseteq Rows
  <2>1. chunk \in SUBSET Rows
    BY <1>1, ChunkType
  <2> QED BY <1>2, <2>1 DEF Conflicts, BaseInv, TypeOK
<1>4. faults' \in 0..MaxFaults
  BY SyncAssumption DEF SyncAssumption, WriteChunk, ChunkFails, ConflictUnreported,
                        BaseInv, TypeOK
<1>5. UNCHANGED <<clock, devices, source, registry, exempt, checkpoint, horizon,
                  cpStatus, skipped>>
  BY DEF WriteChunk, ChunkFails, ConflictUnreported, WriteBatch, storeVars, tables
<1>6. /\ run' \in [Syncs -> RunType]
      /\ \A q \in Syncs : q # p => run'[q] = run[q]
      /\ run'[p].to = run[p].to /\ run'[p].newest = run[p].newest
      /\ RunOK(p, run'[p], devices)
  BY <1>1, <1>2, ChunkFacts
<1> QED BY <1>3, <1>4, <1>5, <1>6, RunFields, RunStepBase DEF BaseInv, TypeOK

LEMMA AdvanceBase ==
  ASSUME BaseInv, StoreInv', NEW p \in Syncs, Advance(p)
  PROVE  BaseInv'
<1> DEFINE s == run[p]
           X == [s EXCEPT !.pc = "finish"]
<1>1. run' = [run EXCEPT ![p] = X] /\ s.pc = "advance"
  BY RunFields DEF Advance
<1>2. X \in RunType /\ run'[p] = X
  BY <1>1, RunFields DEF RunType, PCs
<1>3. RunOK(p, X, devices')
  BY <1>1, RunFields DEF BaseInv, RunOK, RunType
<1>4. X.to <= clock /\ X.newest <= clock
  BY RunFields DEF RunType
<1>5. checkpoint' \in Times /\ checkpoint' <= clock /\ horizon' \in Times
  BY RunFields DEF Advance
<1>6. cpStatus' \in {"none", "ok", "failed"}
  BY DEF Advance, BaseInv, TypeOK
<1> HIDE DEF X
<1> QED
  <2>1. run' \in [Syncs -> RunType] /\ \A q \in Syncs : q # p => run'[q] = run[q]
    BY <1>1, <1>2, RunFields
  <2>2. UNCHANGED <<devices, clock, source, registry, exempt, reported, skipped, faults>>
    BY DEF Advance, storeVars, tables
  <2> QED BY <1>2, <1>3, <1>4, <1>5, <1>6, <2>1, <2>2, RunFields, RunStepBase DEF BaseInv, TypeOK

LEMMA EndBase ==
  ASSUME BaseInv, StoreInv', NEW p \in Syncs, Finish(p) \/ Fail(p) \/ Crash(p)
  PROVE  BaseInv'
<1>1. run' = [run EXCEPT ![p] = Idle]
  BY DEF Finish, Fail, Crash
<1>2. /\ run' \in [Syncs -> RunType] /\ run'[p] = Idle
      /\ \A q \in Syncs : q # p => run'[q] = run[q]
  BY <1>1, IdleType, RunFields
<1>3. Idle.to <= clock /\ Idle.newest <= clock
  BY RunFields DEF Idle, Times
<1>4. cpStatus' \in {"none", "ok", "failed"}
  BY DEF Finish, Fail, Crash, BaseInv, TypeOK
<1>5. faults' \in 0..MaxFaults
  BY SyncAssumption DEF SyncAssumption, Finish, Fail, Crash, BaseInv, TypeOK
<1>6. UNCHANGED <<devices, clock, source, registry, exempt, checkpoint, horizon,
                  reported, skipped>>
  BY DEF Finish, Fail, Crash, storeVars, tables
<1>7. RunOK(p, Idle, devices')
  BY IdleOK
<1> QED BY <1>2, <1>3, <1>4, <1>5, <1>6, <1>7, RunFields, RunStepBase DEF BaseInv, TypeOK

\* No sweep reaches past the clock.
LEMMA CutoffPast ==
  ASSUME NEW c, NEW k, c \in Times, k \in 1..MaxTime, c = 0 \/ c + Retention <= k
  PROVE  k \in Int /\ k >= 0 /\ c <= k
BY StoreAssumption DEF StoreAssumption, Times

LEMMA ClockAhead ==
  ASSUME StoreInv'
  PROVE  clock' \in Int /\ clock' >= 0 /\ cutoff' <= clock'
<1>1. PICK c, k : c = cutoff' /\ k = clock'
  OBVIOUS
<1>2. /\ c \in Times /\ k \in 1..MaxTime
      /\ c = 0 \/ c + Retention <= k
  BY <1>1 DEF StoreInv, StoreTypeOK, CutoffInv
<1> QED BY <1>1, <1>2, CutoffPast

\* A step of the world around the runs.
World ==
    \/ \E r \in Rows : Publish(r)
    \/ \E c \in RegistryChanges : ChangeRegistry(c[1], c[2])
    \/ TimePasses
    \/ Sweep
    \/ UNCHANGED vars

LEMMA WorldBase ==
  ASSUME BaseInv, StoreInv', World
  PROVE  BaseInv'
<1>0. clock \in Int /\ clock' \in Int /\ cutoff' <= clock'
  BY ClockAhead, RunFields DEF BaseInv, StoreInv, StoreTypeOK
<1>1. /\ run' = run /\ devices' = devices /\ clock <= clock'
      /\ UNCHANGED <<checkpoint, horizon, cpStatus, reported, skipped, faults>>
  <2>1. CASE \E r \in Rows : Publish(r)
    BY <1>0, <2>1 DEF Publish, storeVars, tables
  <2>2. CASE \E c \in RegistryChanges : ChangeRegistry(c[1], c[2])
    BY <1>0, <2>2 DEF ChangeRegistry, storeVars, tables
  <2>3. CASE TimePasses \/ Sweep \/ UNCHANGED vars
    BY <1>0, <2>3 DEF TimePasses, Sweep, Tick, Cleanup, vars, storeVars, tables, syncVars
  <2> QED BY <2>1, <2>2, <2>3 DEF World
<1>2. /\ source' \subseteq Rows /\ exempt' \subseteq Rows
      /\ registry' \in [Devices -> Sns \cup {NoSn}]
      /\ \A r \in source' \ exempt' : registry'[Dev[r]] # NoSn
  <2>1. CASE \E r \in Rows : Publish(r)
    BY <2>1 DEF Publish, BaseInv, TypeOK, ClockInv
  <2>2. CASE \E c \in RegistryChanges : ChangeRegistry(c[1], c[2])
    <3>1. PICK c \in RegistryChanges : ChangeRegistry(c[1], c[2])
      BY <2>2
    <3>2. c[1] \in Devices /\ c[2] \in Sns \cup {NoSn}
      BY SyncAssumption DEF SyncAssumption
    <3>3. /\ source' = source /\ registry' = [registry EXCEPT ![c[1]] = c[2]]
          /\ exempt' = IF c[2] = NoSn THEN exempt \cup {r \in source : Dev[r] = c[1]}
                       ELSE exempt
      BY <3>1 DEF ChangeRegistry
    <3>4. /\ source \subseteq Rows /\ exempt \subseteq Rows
          /\ registry \in [Devices -> Sns \cup {NoSn}]
          /\ \A r \in source \ exempt : registry[Dev[r]] # NoSn
          /\ \A r \in Rows : Dev[r] \in Devices
      BY SyncAssumption DEF SyncAssumption, BaseInv, TypeOK, ClockInv
    <3> QED BY <3>2, <3>3, <3>4
  <2>3. CASE TimePasses \/ Sweep \/ UNCHANGED vars
    BY <2>3 DEF TimePasses, Sweep, vars, syncVars, BaseInv, TypeOK, ClockInv
  <2> QED BY <2>1, <2>2, <2>3 DEF World
<1>3. TypeOK'
  BY <1>1, <1>2 DEF BaseInv, StoreInv, TypeOK
<1>4. ClockInv'
  <2>1. cutoff' <= clock'
    BY <1>0
  <2>2. \A p \in Syncs : run[p].to <= clock' /\ run[p].newest <= clock'
    <3> TAKE p \in Syncs
    <3>1. /\ run[p].to \in Int /\ run[p].newest \in Int
          /\ run[p].to <= clock /\ run[p].newest <= clock
      BY RunFields
    <3> QED BY <1>0, <1>1, <3>1
  <2>3. checkpoint' <= clock'
    BY <1>0, <1>1, RunFields DEF BaseInv, ClockInv, TypeOK, Times
  <2> QED BY <1>1, <1>2, <2>1, <2>2, <2>3 DEF ClockInv
<1>5. \A p \in Syncs : RunOK(p, run'[p], devices')
  BY <1>1 DEF BaseInv
<1> QED BY <1>3, <1>4, <1>5 DEF BaseInv

-----------------------------------------------------------------------------

LEMMA BaseInit ==
  Init => BaseInv
<1> SUFFICES ASSUME Init PROVE BaseInv
  OBVIOUS
<1>1. StoreInv
  BY StoreInitInv DEF Init
<1>2. 0 \in Times /\ 0 \in 0..MaxFaults
  BY StoreAssumption, SyncAssumption DEF StoreAssumption, SyncAssumption, Times
<1>3. TypeOK
  BY <1>1, <1>2, IdleType, SyncAssumption DEF SyncAssumption, Init, TypeOK, StoreInv
<1>4. ClockInv
  BY <1>2 DEF Init, StoreInit, ClockInv, Idle
<1>5. \A p \in Syncs : RunOK(p, run[p], devices)
  BY IdleOK DEF Init
<1> QED BY <1>1, <1>3, <1>4, <1>5 DEF BaseInv

LEMMA BaseNext ==
  ASSUME BaseInv, [Next]_vars
  PROVE  BaseInv'
<1>1. StoreInv'
  BY StoreStep, StoreNextInv DEF BaseInv
<1>2. ASSUME NEW p \in Syncs,
             Step(p) \/ ChunkFails(p) \/ ConflictUnreported(p) \/ Fail(p) \/ Crash(p)
      PROVE  BaseInv'
  BY <1>1, <1>2, BeginBase, OpenBase, FetchNothingBase, FetchBase, UpsertDeviceBase,
     ChunkBase, AdvanceBase, EndBase DEF Step
<1> QED BY <1>1, <1>2, WorldBase DEF Next, World

\* Type correctness and the facts the runs rely on.
LEMMA BaseCorrect == Spec => []BaseInv
<1>1. Init => BaseInv
  BY BaseInit
<1>2. BaseInv /\ [Next]_vars => BaseInv'
  BY BaseNext
<1> QED BY <1>1, <1>2, PTL DEF Spec

\* Type correctness of the sync.
THEOREM SyncTypes == Spec => []TypeOK
<1>1. BaseInv => TypeOK
  BY DEF BaseInv
<1> QED BY <1>1, BaseCorrect, PTL

\* Whatever runs, crashes and registry changes do, the sync reaches the store
\* only through its operations: it implements the store's specification, so
\* every theorem about the store holds of it.
THEOREM SyncImplementsStore == Spec => StoreSpec
<1>1. Init => StoreInit
  BY DEF Init
<1>2. BaseInv /\ [Next]_vars => [StoreNext]_storeVars
  BY StoreStep
<1> QED BY <1>1, <1>2, BaseCorrect, PTL DEF Spec, StoreSpec

-----------------------------------------------------------------------------

CoverInv ==
    /\ BaseInv
    /\ \A p \in Syncs : WindowOK(run[p]) /\ RunCovers(p)
    /\ Coverage

\* The store never forgets a row except to retention.
LEMMA StoreStable ==
  ASSUME StoreInv, [StoreNext]_storeVars, NEW r \in Rows,
         telemetry[r] # NoSn \/ At[r] < cutoff
  PROVE  telemetry'[r] # NoSn \/ At[r] < cutoff'
<1>1. ASSUME NEW batch \in SUBSET Rows, NEW snOf \in [batch -> Sns], WriteBatch(batch, snOf)
      PROVE  telemetry'[r] # NoSn \/ At[r] < cutoff'
  <2>1. UpsertBatch(batch, snOf) /\ cutoff' = cutoff
    BY <1>1 DEF WriteBatch
  <2>2. \A q \in Created(batch, snOf) : snOf[q] \in Sns
    BY <2>1, UpsertFacts DEF StoreInv
  <2>3. telemetry'[r] = IF r \in Created(batch, snOf) THEN snOf[r] ELSE telemetry[r]
    BY <2>1, UpsertFacts DEF StoreInv
  <2> QED BY <2>1, <2>2, <2>3, StoreAssumption DEF StoreAssumption
<1>2. CASE Cleanup
  <2>1. telemetry'[r] = IF At[r] < cutoff' THEN NoSn ELSE telemetry[r]
    BY <1>2 DEF Cleanup
  <2>2. At[r] < cutoff => At[r] < cutoff'
    <3>1. cutoff <= clock - Retention \/ cutoff = 0
      BY StoreAssumption DEF StoreAssumption, StoreInv, StoreTypeOK, CutoffInv, Times
    <3>2. cutoff' = clock - Retention
      BY <1>2 DEF Cleanup
    <3>3. At[r] >= 1 /\ At[r] \in Int /\ cutoff \in Int /\ clock - Retention \in Int
      BY StoreAssumption DEF StoreAssumption, StoreInv, StoreTypeOK, Times
    <3> QED BY <3>1, <3>2, <3>3
  <2> QED BY <2>1, <2>2
<1>3. CASE UNCHANGED <<telemetry, cutoff>>
  BY <1>3
<1> QED BY <1>1, <1>2, <1>3 DEF StoreNext, Tick, RegisterDevices, storeVars, tables

LEMMA SettledStable ==
  ASSUME BaseInv, [Next]_vars, NEW r \in Rows, Settled(r)
  PROVE  Settled(r)'
<1>1. [StoreNext]_storeVars
  BY StoreStep
<1>2. reported \subseteq reported' /\ skipped \subseteq skipped'
  <2>1. ASSUME NEW p \in Syncs,
               Step(p) \/ ChunkFails(p) \/ ConflictUnreported(p) \/ Fail(p) \/ Crash(p)
        PROVE  reported \subseteq reported' /\ skipped \subseteq skipped'
    BY <2>1 DEF Step, Begin, Open, FetchNothing, Fetch, UpsertDevice, WriteChunk,
                ChunkFails, ConflictUnreported, Advance, Finish, Fail, Crash
  <2>2. World => reported \subseteq reported' /\ skipped \subseteq skipped'
    BY DEF World, Publish, ChangeRegistry, TimePasses, Sweep, vars, syncVars
  <2> QED BY <2>1, <2>2 DEF Next, World
<1>3. telemetry[r] # NoSn \/ At[r] < cutoff => telemetry'[r] # NoSn \/ At[r] < cutoff'
  BY <1>1, StoreStable DEF BaseInv
<1> QED BY <1>2, <1>3 DEF Settled, Done

\* A row that becomes promised is not older than the clock.
LEMMA PromisedStep ==
  ASSUME BaseInv, [Next]_vars, NEW r \in source' \ exempt'
  PROVE  r \in Rows /\ (r \in source \ exempt \/ At[r] >= clock)
<1>1. ASSUME NEW p \in Syncs,
             Step(p) \/ ChunkFails(p) \/ ConflictUnreported(p) \/ Fail(p) \/ Crash(p)
      PROVE  source' = source /\ exempt' = exempt
  BY <1>1 DEF Step, Begin, Open, FetchNothing, Fetch, UpsertDevice, WriteChunk,
              ChunkFails, ConflictUnreported, Advance, Finish, Fail, Crash
<1>2. ASSUME NEW q \in Rows, Publish(q)
      PROVE  (r = q /\ At[r] >= clock) \/ r \in source \ exempt
  <2>1. At[q] \in Int /\ clock \in Int
    BY RunFields, StoreAssumption DEF StoreAssumption, BaseInv, StoreInv, StoreTypeOK
  <2> QED BY <1>2, <2>1 DEF Publish
<1>3. ASSUME NEW c \in RegistryChanges, ChangeRegistry(c[1], c[2])
      PROVE  r \in source \ exempt
  BY <1>3 DEF ChangeRegistry
<1>4. TimePasses \/ Sweep \/ UNCHANGED vars => source' = source /\ exempt' = exempt
  BY DEF TimePasses, Sweep, vars, syncVars
<1> QED BY <1>1, <1>2, <1>3, <1>4 DEF Next, BaseInv, TypeOK

\* A promised row stays in a window whose bounds and cursor do not change.
LEMMA WindowStable ==
  ASSUME BaseInv', NEW p \in Syncs, NEW r \in source' \ exempt', r \in Window(run[p]),
         run'[p].opt = run[p].opt, run'[p].to = run[p].to,
         run'[p].from = run[p].from, run'[p].cursor = run[p].cursor
  PROVE  r \in Window(run[p])'
BY DEF BaseInv, ClockInv, Window

\* A run that does not move keeps its coverage.
LEMMA OtherCovers ==
  ASSUME CoverInv, BaseInv', [Next]_vars, NEW p \in Syncs, run'[p] = run[p]
  PROVE  WindowOK(run'[p]) /\ RunCovers(p)'
<1>1. WindowOK(run'[p])
  BY DEF CoverInv
<1>2. RunCovers(p)'
  <2> DEFINE s == run[p]
  <2> SUFFICES ASSUME s.pc \notin {"idle", "open"}, Advances(s.opt),
                      NEW r \in source' \ exempt', s.horizon <= At[r], At[r] < s.newest
               PROVE  Accounted(run[p], r)'
    BY DEF RunCovers
  <2>1. r \in Rows /\ (r \in source \ exempt \/ At[r] >= clock)
    BY PromisedStep DEF CoverInv
  <2>2. ~ (At[r] >= clock)
    <3>1. At[r] \in Int
      BY <2>1, StoreAssumption DEF StoreAssumption
    <3>2. s.newest <= clock /\ s.newest \in Int /\ clock \in Int
      BY RunFields DEF CoverInv
    <3> QED BY <3>1, <3>2
  <2>3. Accounted(s, r)
    BY <2>1, <2>2 DEF CoverInv, RunCovers
  <2>4. Settled(r) => Settled(r)'
    BY <2>1, SettledStable DEF CoverInv
  <2>5. r \in Window(s) => r \in Window(run[p])'
    BY WindowStable
  <2> QED BY <2>3, <2>4, <2>5 DEF Accounted
<1> QED BY <1>1, <1>2

\* The checkpoint's promise survives every step that does not move it.
LEMMA CoverageStable ==
  ASSUME CoverInv, [Next]_vars, checkpoint' = checkpoint, horizon' = horizon
  PROVE  Coverage'
<1> SUFFICES ASSUME NEW r \in source' \ exempt', horizon <= At[r], At[r] < checkpoint
             PROVE  Settled(r)'
  BY DEF Coverage
<1>1. r \in Rows /\ (r \in source \ exempt \/ At[r] >= clock)
  BY PromisedStep DEF CoverInv
<1>2. ~ (At[r] >= clock)
  <2>1. At[r] \in Int
    BY <1>1, StoreAssumption DEF StoreAssumption
  <2>2. checkpoint <= clock /\ checkpoint \in Int /\ clock \in Int
    BY StoreAssumption DEF StoreAssumption, CoverInv, BaseInv, ClockInv, TypeOK, StoreInv,
                           StoreTypeOK, Times
  <2> QED BY <2>1, <2>2
<1> QED BY <1>1, <1>2, SettledStable DEF CoverInv, Coverage

-----------------------------------------------------------------------------
(* The steps of a run, one lemma each, for source-wide runs that are not   *)
(* narrowed.                                                               *)

LEMMA OpenCovers ==
  ASSUME CoverInv, BaseInv', [Next]_vars, SourceWideOptions, NEW p \in Syncs, Open(p)
  PROVE  WindowOK(run'[p]) /\ RunCovers(p)'
<1> DEFINE s     == run[p]
           saved == IF Shared(s.opt) THEN checkpoint ELSE 0
           back  == IF s.to > Lookback THEN s.to - Lookback ELSE 0
           from  == IF s.opt.from # NoFrom THEN s.opt.from
                    ELSE IF saved # 0 THEN saved ELSE back
           hor   == IF saved # 0 THEN horizon ELSE from
           X     == [s EXCEPT !.pc = "fetch", !.from = from, !.saved = saved,
                              !.newest = saved, !.horizon = hor]
<1>0. BaseInv
  BY DEF CoverInv
<1>1. s.pc = "open" /\ run'[p] = X
  BY <1>0, RunFields DEF Open
<1> HIDE DEF saved, back, from, hor
<1>2. /\ X.pc = "fetch" /\ X.opt = s.opt /\ X.from = from /\ X.saved = saved
      /\ X.newest = saved /\ X.horizon = hor
  BY <1>0, RunFields DEF RunType
<1> HIDE DEF X
<1>3. s.opt \in Options[p]
  BY <1>0, <1>1 DEF BaseInv, RunOK
<1>4. Advances(s.opt) => /\ s.opt.from = NoFrom /\ saved = checkpoint
                         /\ from = IF saved # 0 THEN saved ELSE hor
                         /\ saved # 0 => hor = horizon
  BY <1>3 DEF SourceWideOptions, Advances, from, saved, hor
<1>5. saved \in Int
  BY <1>0, RunFields DEF saved
<1>6. WindowOK(run'[p])
  BY <1>1, <1>2, <1>4, <1>5 DEF WindowOK
<1>7. RunCovers(p)'
  <2> SUFFICES ASSUME Advances(s.opt), NEW r \in source' \ exempt',
                      hor <= At[r], At[r] < saved
               PROVE  Accounted(run[p], r)'
    BY <1>1, <1>2 DEF RunCovers
  <2>1. source' = source /\ exempt' = exempt /\ r \in Rows
    BY <1>0 DEF Open, BaseInv, TypeOK
  <2>2. At[r] >= 1 /\ At[r] \in Int
    BY <2>1, StoreAssumption DEF StoreAssumption
  <2>3. saved # 0
    BY <1>5, <2>2
  <2>4. Settled(r)
    BY <1>4, <2>1, <2>3 DEF CoverInv, Coverage
  <2>5. Settled(r)'
    BY <1>0, <2>1, <2>4, SettledStable
  <2> QED BY <2>5 DEF Accounted
<1> QED BY <1>6, <1>7

LEMMA FetchNothingCovers ==
  ASSUME CoverInv, BaseInv', [Next]_vars, NEW p \in Syncs, FetchNothing(p)
  PROVE  WindowOK(run'[p]) /\ RunCovers(p)'
<1> DEFINE s == run[p]
           X == [s EXCEPT !.pc = "advance", !.more = FALSE]
<1>0. BaseInv
  BY DEF CoverInv
<1>1. s.pc = "fetch" /\ run'[p] = X /\ (NoShards(s) \/ Window(s) = {})
  BY <1>0, RunFields DEF FetchNothing
<1>2. /\ X.pc = "advance" /\ X.opt = s.opt /\ X.from = s.from /\ X.saved = s.saved
      /\ X.newest = s.newest /\ X.horizon = s.horizon /\ X.cursor = s.cursor
      /\ X.pending = s.pending
  BY <1>0, RunFields DEF RunType
<1> HIDE DEF X
<1>3. WindowOK(s) /\ RunCovers(p)
  BY DEF CoverInv
<1>4. WindowOK(run'[p])
  BY <1>1, <1>2, <1>3 DEF WindowOK
<1>5. RunCovers(p)'
  <2> SUFFICES ASSUME Advances(s.opt), NEW r \in source' \ exempt',
                      s.horizon <= At[r], At[r] < s.newest
               PROVE  Accounted(run[p], r)'
    BY <1>1, <1>2 DEF RunCovers
  <2>1. source' = source /\ exempt' = exempt /\ r \in Rows
    BY <1>0 DEF FetchNothing, BaseInv, TypeOK
  <2>2. At[r] >= 1 /\ At[r] \in Int
    BY <2>1, StoreAssumption DEF StoreAssumption
  <2>3. s.pending = {}
    BY <1>0, <1>1 DEF BaseInv, RunOK
  <2>4. Settled(r) \/ r \in Window(s)
    BY <1>1, <1>3, <2>1, <2>3 DEF RunCovers, Accounted
  <2>5. CASE Settled(r)
    BY <1>0, <2>1, <2>5, SettledStable DEF Accounted
  <2>6. CASE r \in Window(s)
    <3>1. s.from <= At[r] /\ At[r] <= s.to /\ NoShards(s)
      BY <1>1, <2>6 DEF Window
    <3>2. CASE s.cursor # NoRow
      <4>1. r \in skipped'
        BY <2>6, <3>2 DEF FetchNothing
      <4> QED BY <4>1 DEF Accounted, Settled
    <3>3. CASE s.cursor = NoRow
      <4>1. s.newest = s.saved /\ s.from = IF s.saved # 0 THEN s.saved ELSE s.horizon
        BY <1>1, <1>3, <3>3 DEF WindowOK
      <4>2. s.saved \in Int /\ s.from \in Int
        BY <1>0, RunFields
      <4> QED BY <2>2, <3>1, <4>1, <4>2
    <3> QED BY <3>2, <3>3
  <2> QED BY <2>4, <2>5, <2>6
<1> QED BY <1>4, <1>5

LEMMA FetchCovers ==
  ASSUME CoverInv, BaseInv', [Next]_vars, SourceWideOptions, NEW p \in Syncs, Fetch(p)
  PROVE  WindowOK(run'[p]) /\ RunCovers(p)'
<1> DEFINE s == run[p]
           t == run'[p]
<1>0. BaseInv /\ WindowOK(s) /\ RunCovers(p)
  BY DEF CoverInv
<1>1. PICK page \in SUBSET Rows, rows \in SUBSET Rows, top \in Times :
           /\ page # {} /\ page \subseteq Window(s)
           /\ \A r \in page, q \in Window(s) \ page : After(q, r)
           /\ rows = Accepted(s, page)
           /\ \A r \in rows : At[r] <= top
           /\ top = 0 \/ \E r \in rows : At[r] = top
           /\ s.pc = "fetch"
           /\ t.pending = IF s.opt.dryRun THEN {} ELSE rows
           /\ page # Window(s) => t.more
           /\ t.pc = IF t.pending # {} THEN "devices"
                     ELSE IF t.more THEN "fetch" ELSE "advance"
           /\ t.newest = IF top > s.newest THEN top ELSE s.newest
           /\ t.cursor = LastOf(page)
           /\ t.opt = s.opt /\ t.to = s.to
           /\ t.from = s.from /\ t.saved = s.saved
           /\ t.horizon = s.horizon
           /\ reported' = reported \cup (page \cap Malformed)
  BY <1>0, FetchFacts
<1>2. s.opt \in Options[p]
  BY <1>0, <1>1 DEF BaseInv, RunOK
<1>3. /\ s.newest \in Int /\ s.saved \in Int /\ top \in Int /\ s.from \in Int /\ s.to \in Int
      /\ s.cursor \in Rows \cup {NoRow}
  BY <1>0, RunFields
<1>4. \A r \in Rows : At[r] \in Int /\ At[r] >= 1 /\ r \in Int
  BY StoreAssumption DEF StoreAssumption, Rows
<1>5. LastOf(page) \in page /\ \A q \in page : q = LastOf(page) \/ After(LastOf(page), q)
  BY <1>1, LastOfSpec
<1>6. WindowOK(t)
  <2> SUFFICES ASSUME Advances(s.opt)
               PROVE  /\ s.from = IF s.saved # 0 THEN s.saved ELSE s.horizon
                      /\ s.saved <= t.newest
                      /\ t.cursor = NoRow => t.newest = s.saved
    BY <1>1 DEF WindowOK
  <2>1. s.from = (IF s.saved # 0 THEN s.saved ELSE s.horizon) /\ s.saved <= s.newest
    BY <1>0, <1>1 DEF WindowOK
  <2>2. t.cursor # NoRow
    BY <1>1, <1>5 DEF Rows, NoRow
  <2> QED BY <1>1, <1>3, <2>1, <2>2
<1>7. RunCovers(p)'
  <2> SUFFICES ASSUME Advances(s.opt), NEW r \in source' \ exempt',
                      s.horizon <= At[r], At[r] < t.newest
               PROVE  Accounted(run[p], r)'
    BY <1>1 DEF RunCovers
  <2>1. source' = source /\ exempt' = exempt /\ registry' = registry /\ r \in Rows
    BY <1>0 DEF Fetch, BaseInv, TypeOK
  <2>2. /\ ~ s.opt.dryRun /\ s.opt.sn = NoSn /\ s.opt.device = AllDevices
    BY <1>2 DEF SourceWideOptions, Advances, Shared
  <2>3. s.pending = {}
    BY <1>0, <1>1 DEF BaseInv, RunOK
  <2>4. Settled(r) \/ r \in Window(s)
    <3>1. CASE At[r] < s.newest
      BY <1>0, <1>1, <2>1, <2>3, <3>1 DEF RunCovers, Accounted
    <3>2. CASE ~ (At[r] < s.newest)
      <4>1. At[r] < top
        BY <1>1, <3>2
      <4>2. PICK q \in rows : At[q] = top
        BY <1>1, <1>4, <2>1, <4>1
      <4>3. q \in Window(s) /\ q \in Rows
        BY <1>1 DEF Accepted
      <4>4. s.from <= At[r]
        BY <1>0, <1>1, <1>3, <1>4, <2>1, <3>2 DEF WindowOK
      <4>5. At[r] <= s.to
        BY <1>3, <1>4, <2>1, <4>1, <4>2, <4>3 DEF Window
      <4>6. s.cursor # NoRow => After(r, s.cursor)
        <5> SUFFICES ASSUME s.cursor # NoRow PROVE After(r, s.cursor)
          OBVIOUS
        <5>1. After(q, s.cursor) /\ s.cursor \in Rows
          BY <1>3, <4>3 DEF Window
        <5>2. At[q] <= At[s.cursor]
          BY <1>4, <4>3, <5>1 DEF After
        <5> QED BY <1>4, <2>1, <4>1, <4>2, <4>3, <5>1, <5>2 DEF After
      <4>7. r \in source /\ registry[Dev[r]] # NoSn
        BY <1>0, <2>1 DEF BaseInv, ClockInv
      <4> QED BY <2>2, <4>4, <4>5, <4>6, <4>7 DEF Window
    <3> QED BY <3>1, <3>2
  <2>5. CASE Settled(r)
    BY <1>0, <2>1, <2>5, SettledStable DEF Accounted
  <2>6. CASE r \in page
    <3>1. CASE r \in Malformed
      BY <1>1, <2>6, <3>1 DEF Accounted, Settled, Done
    <3>2. CASE r \notin Malformed
      BY <1>1, <2>2, <2>6, <3>2 DEF Accepted, Accounted
    <3> QED BY <3>1, <3>2
  <2>7. CASE r \in Window(s) \ page
    <3>1. After(r, LastOf(page))
      BY <1>1, <1>5, <2>7
    <3>2. r \in Window(run[p])'
      BY <1>1, <2>1, <2>7, <3>1 DEF Window
    <3>3. t.more /\ t.pc \in {"devices", "fetch"}
      BY <1>1, <2>7
    <3> QED BY <3>2, <3>3 DEF Accounted
  <2> QED BY <2>4, <2>5, <2>6, <2>7
<1> QED BY <1>6, <1>7

LEMMA UpsertDeviceCovers ==
  ASSUME CoverInv, BaseInv', [Next]_vars, NEW p \in Syncs, UpsertDevice(p)
  PROVE  WindowOK(run'[p]) /\ RunCovers(p)'
<1> DEFINE s  == run[p]
           pc == IF {s.snOf[Dev[r]] : r \in s.pending} \subseteq devices'
                 THEN "write" ELSE "devices"
           X  == [s EXCEPT !.pc = pc]
<1>0. BaseInv /\ WindowOK(s) /\ RunCovers(p)
  BY DEF CoverInv
<1>1. s.pc = "devices" /\ run'[p] = X
  BY <1>0, RunFields DEF UpsertDevice
<1>2. pc \in {"devices", "write"}
  OBVIOUS
<1> HIDE DEF pc
<1>3. /\ X.pc = pc /\ X.opt = s.opt /\ X.from = s.from /\ X.saved = s.saved /\ X.to = s.to
      /\ X.newest = s.newest /\ X.horizon = s.horizon /\ X.cursor = s.cursor
      /\ X.pending = s.pending /\ X.more = s.more
  BY <1>0, RunFields DEF RunType
<1> HIDE DEF X
<1>4. WindowOK(run'[p])
  BY <1>0, <1>1, <1>2, <1>3 DEF WindowOK
<1>5. RunCovers(p)'
  <2> SUFFICES ASSUME Advances(s.opt), NEW r \in source' \ exempt',
                      s.horizon <= At[r], At[r] < s.newest
               PROVE  Accounted(run[p], r)'
    BY <1>1, <1>3 DEF RunCovers
  <2>1. source' = source /\ exempt' = exempt /\ r \in Rows
    BY <1>0 DEF UpsertDevice, BaseInv, TypeOK
  <2>2. Accounted(s, r)
    BY <1>0, <1>1, <2>1 DEF RunCovers
  <2>3. Settled(r) => Settled(r)'
    BY <1>0, <2>1, SettledStable
  <2>4. r \in Window(s) => r \in Window(run[p])'
    BY <1>1, <1>3, WindowStable
  <2> QED BY <1>1, <1>2, <1>3, <2>2, <2>3, <2>4 DEF Accounted
<1> QED BY <1>4, <1>5

\* A chunk of rows whose devices exist leaves none of them behind.
LEMMA ChunkStored ==
  ASSUME StoreInv, NEW batch \in SUBSET Rows, NEW snOf \in [batch -> Sns],
         \A q \in batch : snOf[q] \in devices,
         WriteBatch(batch, snOf), NEW r \in batch
  PROVE  telemetry'[r] # NoSn
<1>1. UpsertBatch(batch, snOf)
  BY DEF WriteBatch
<1>2. telemetry'[r] = IF r \in Created(batch, snOf) THEN snOf[r] ELSE telemetry[r]
  BY <1>1, UpsertFacts DEF StoreInv
<1>3. r \notin Created(batch, snOf) => telemetry[r] # NoSn
  BY DEF Created
<1> QED BY <1>2, <1>3, StoreAssumption DEF StoreAssumption

LEMMA ChunkCovers ==
  ASSUME CoverInv, BaseInv', [Next]_vars, NEW p \in Syncs,
         WriteChunk(p) \/ ChunkFails(p) \/ ConflictUnreported(p)
  PROVE  WindowOK(run'[p]) /\ RunCovers(p)'
<1> DEFINE s == run[p]
           t == run'[p]
<1>0. BaseInv /\ WindowOK(s) /\ RunCovers(p)
  BY DEF CoverInv
<1>1. s.pc = "write"
  BY DEF WriteChunk, ChunkFails, ConflictUnreported
<1>2. PICK chunk \in Prefixes(s.pending) :
         /\ AfterChunk(p, chunk)
         /\ \/ WriteBatch(chunk, SnOf(s, chunk))
            \/ reported' = reported \cup chunk
  BY DEF WriteChunk, ChunkFails, ConflictUnreported
<1>3. /\ t.pending = s.pending \ chunk
      /\ t.pc = IF s.pending = chunk
                THEN (IF s.more THEN "fetch" ELSE "advance") ELSE "write"
      /\ t.opt = s.opt /\ t.to = s.to /\ t.from = s.from /\ t.saved = s.saved
      /\ t.horizon = s.horizon /\ t.newest = s.newest
      /\ t.cursor = s.cursor /\ t.more = s.more
  BY <1>0, <1>1, <1>2, ChunkFacts
<1>4. /\ chunk \in SUBSET Rows
      /\ SnOf(s, chunk) \in [chunk -> Sns]
      /\ \A r \in chunk : SnOf(s, chunk)[r] \in devices
  BY <1>0, <1>1, ChunkType
<1>5. \A r \in chunk : Settled(r)'
  BY <1>0, <1>2, <1>4, ChunkStored DEF Settled, Done, BaseInv
<1>6. WindowOK(t)
  BY <1>0, <1>1, <1>3 DEF WindowOK
<1>7. RunCovers(p)'
  <2> SUFFICES ASSUME Advances(s.opt), NEW r \in source' \ exempt',
                      s.horizon <= At[r], At[r] < s.newest
               PROVE  Accounted(run[p], r)'
    BY <1>3 DEF RunCovers
  <2>1. source' = source /\ exempt' = exempt /\ r \in Rows
    BY <1>0 DEF WriteChunk, ChunkFails, ConflictUnreported, BaseInv, TypeOK
  <2>2. Accounted(s, r)
    BY <1>0, <1>1, <2>1 DEF RunCovers
  <2>3. Settled(r) => Settled(r)'
    BY <1>0, <2>1, SettledStable
  <2>4. r \in Window(s) => r \in Window(run[p])'
    BY <1>3, WindowStable
  <2>5. CASE Settled(r)
    BY <2>3, <2>5 DEF Accounted
  <2>6. CASE r \in s.pending
    BY <1>3, <1>5, <2>6 DEF Accounted
  <2>7. CASE s.more /\ r \in Window(s)
    BY <1>3, <2>4, <2>7 DEF Accounted
  <2> QED BY <1>1, <2>2, <2>5, <2>6, <2>7 DEF Accounted
<1> QED BY <1>6, <1>7

\* Moving the checkpoint keeps the promise: everything below the new mark is
\* settled.
LEMMA AdvanceCovers ==
  ASSUME CoverInv, BaseInv', [Next]_vars, NEW p \in Syncs, Advance(p)
  PROVE  WindowOK(run'[p]) /\ RunCovers(p)' /\ Coverage'
<1> DEFINE s == run[p]
           X == [s EXCEPT !.pc = "finish"]
<1>0. BaseInv /\ WindowOK(s) /\ RunCovers(p)
  BY DEF CoverInv
<1>1. s.pc = "advance" /\ run'[p] = X
  BY <1>0, RunFields DEF Advance
<1>2. /\ X.pc = "finish" /\ X.opt = s.opt /\ X.from = s.from /\ X.saved = s.saved
      /\ X.newest = s.newest /\ X.horizon = s.horizon /\ X.cursor = s.cursor
  BY <1>0, RunFields DEF RunType
<1> HIDE DEF X
<1>3. s.pending = {}
  BY <1>0, <1>1 DEF BaseInv, RunOK
<1>4. source' = source /\ exempt' = exempt /\ source \subseteq Rows
  BY <1>0 DEF Advance, BaseInv, TypeOK
<1>5. Advances(s.opt) => \A r \in source \ exempt :
         s.horizon <= At[r] /\ At[r] < s.newest => Settled(r)
  BY <1>0, <1>1, <1>3 DEF RunCovers, Accounted
<1>6. \A r \in source : Settled(r) => Settled(r)'
  BY <1>0, <1>4, SettledStable
<1>7. WindowOK(run'[p])
  BY <1>0, <1>1, <1>2 DEF WindowOK
<1>8. RunCovers(p)'
  BY <1>1, <1>2, <1>4, <1>5, <1>6 DEF RunCovers, Accounted
<1>9. Coverage'
  <2>1. CASE Advances(s.opt)
    <3>1. checkpoint' = s.newest /\ horizon' = s.horizon
      BY <2>1 DEF Advance
    <3> QED BY <1>4, <1>5, <1>6, <2>1, <3>1 DEF Coverage
  <2>2. CASE ~ Advances(s.opt)
    BY <2>2, CoverageStable DEF Advance
  <2> QED BY <2>1, <2>2
<1> QED BY <1>7, <1>8, <1>9

-----------------------------------------------------------------------------

LEMMA CoverInit == Init => CoverInv
<1> SUFFICES ASSUME Init PROVE CoverInv
  OBVIOUS
<1>1. BaseInv
  BY BaseInit
<1>2. \A p \in Syncs : WindowOK(run[p]) /\ RunCovers(p)
  BY DEF Init, WindowOK, RunCovers, Idle
<1>3. Coverage
  BY DEF Init, Coverage
<1> QED BY <1>1, <1>2, <1>3 DEF CoverInv

LEMMA CoverNext ==
  ASSUME CoverInv, [Next]_vars, SourceWideOptions
  PROVE  CoverInv'
<1>1. BaseInv /\ BaseInv'
  BY BaseNext DEF CoverInv
<1>2. ASSUME NEW p \in Syncs,
             Step(p) \/ ChunkFails(p) \/ ConflictUnreported(p) \/ Fail(p) \/ Crash(p)
      PROVE  CoverInv'
  <2>1. \A q \in Syncs : q # p => run'[q] = run[q]
    BY <1>1, <1>2, RunFields
       DEF Step, Begin, Open, FetchNothing, Fetch, UpsertDevice, WriteChunk, AfterChunk,
           ChunkFails, ConflictUnreported, Advance, Finish, Fail, Crash
  <2>2. \A q \in Syncs : q # p => WindowOK(run'[q]) /\ RunCovers(q)'
    BY <1>1, <2>1, OtherCovers
  <2>3. WindowOK(run'[p]) /\ RunCovers(p)'
    <3>1. CASE Begin(p)
      <4>1. run'[p].pc = "open"
        BY <1>1, <3>1, RunFields DEF Begin, RunType
      <4> QED BY <4>1 DEF WindowOK, RunCovers
    <3>2. CASE Finish(p) \/ Fail(p) \/ Crash(p)
      <4>1. run'[p] = Idle
        BY <1>1, <3>2, RunFields DEF Finish, Fail, Crash
      <4>2. run'[p].pc = "idle"
        BY <4>1 DEF Idle
      <4> QED BY <4>2 DEF WindowOK, RunCovers
    <3> QED BY <1>1, <1>2, <3>1, <3>2, OpenCovers, FetchNothingCovers, FetchCovers,
               UpsertDeviceCovers, ChunkCovers, AdvanceCovers DEF Step
  <2>4. Coverage'
    <3>1. CASE Advance(p)
      BY <1>1, <3>1, AdvanceCovers
    <3>2. CASE ~ Advance(p)
      <4>1. checkpoint' = checkpoint /\ horizon' = horizon
        BY <1>2, <3>2 DEF Step, Begin, Open, FetchNothing, Fetch, UpsertDevice, WriteChunk,
                          ChunkFails, ConflictUnreported, Finish, Fail, Crash
      <4> QED BY <4>1, CoverageStable
    <3> QED BY <3>1, <3>2
  <2> QED BY <1>1, <2>2, <2>3, <2>4 DEF CoverInv
<1>3. CASE World
  <2>1. run' = run /\ checkpoint' = checkpoint /\ horizon' = horizon
    BY <1>3 DEF World, Publish, ChangeRegistry, TimePasses, Sweep, vars, syncVars
  <2>2. Coverage'
    BY <2>1, CoverageStable
  <2>3. \A p \in Syncs : WindowOK(run'[p]) /\ RunCovers(p)'
    BY <1>1, <2>1, OtherCovers
  <2> QED BY <1>1, <2>2, <2>3 DEF CoverInv
<1> QED BY <1>2, <1>3 DEF Next, World

\* The inductive invariant holds when no source-wide run is narrowed.
THEOREM SyncInvariant ==
  ASSUME SourceWideOptions
  PROVE  Spec => []SyncInv
<1>1. Init => CoverInv
  BY CoverInit
<1>2. CoverInv /\ [Next]_vars => CoverInv'
  BY CoverNext
<1>3. CoverInv => SyncInv
  BY DEF CoverInv, BaseInv, SyncInv
<1> QED BY <1>1, <1>2, <1>3, PTL DEF Spec

\* The high-water mark keeps its promise: through crashes, failed and
\* concurrent runs, dry runs, registry changes and sweeps, every row that
\* reached the source in order from the horizon up to the checkpoint is
\* settled.
THEOREM CheckpointCovers ==
  ASSUME SourceWideOptions
  PROVE  Spec => []Coverage
<1>1. SyncInv => Coverage
  BY DEF SyncInv
<1> QED BY <1>1, SyncInvariant, PTL

-----------------------------------------------------------------------------
(* The sync implements the abstract high-water mark.                       *)

promised == source \ exempt
settled == {r \in Rows : Settled(r)}

\* Rows in order show up at or after the mark, rows of a device that left
\* the registry are released, and nothing else changes the promised rows.
LEMMA WorldRefines ==
  ASSUME CoverInv, CoverInv', [Next]_vars, World
  PROVE  [WM!Next]_(WM!wmVars)
<1>0. BaseInv
  BY DEF CoverInv
<1>1. checkpoint' = checkpoint /\ horizon' = horizon
  BY DEF World, Publish, ChangeRegistry, TimePasses, Sweep, vars, syncVars
<1>2. settled \subseteq settled'
  BY <1>0, SettledStable DEF settled
<1>3. ASSUME NEW r \in Rows, Publish(r)
      PROVE  [WM!Next]_(WM!wmVars)
  <2>1. settled' = settled
    BY <1>3 DEF Publish, settled, Settled, Done, storeVars, tables
  <2>2. CASE At[r] < clock \/ registry[Dev[r]] = NoSn \/ r \in exempt
    <3>1. promised' = promised
      BY <1>3, <2>2 DEF Publish, promised
    <3> QED BY <1>1, <2>1, <3>1 DEF WM!wmVars, promised, settled
  <2>3. CASE ~ (At[r] < clock \/ registry[Dev[r]] = NoSn \/ r \in exempt)
    <3>1. promised' = promised \cup {r}
      BY <1>3, <2>3 DEF Publish, promised
    <3>2. At[r] >= checkpoint
      <4>1. At[r] \in Int
        BY StoreAssumption DEF StoreAssumption
      <4>2. checkpoint <= clock /\ checkpoint \in Int /\ clock \in Int
        BY <1>0, StoreAssumption DEF StoreAssumption, BaseInv, ClockInv, TypeOK,
                                     StoreInv, StoreTypeOK, Times
      <4> QED BY <2>3, <4>1, <4>2
    <3> QED BY <1>1, <2>1, <3>1, <3>2 DEF WM!Next, WM!Appear, promised, settled
  <2> QED BY <2>2, <2>3
<1>4. ASSUME NEW c \in RegistryChanges, ChangeRegistry(c[1], c[2])
      PROVE  [WM!Next]_(WM!wmVars)
  <2>1. settled' = settled
    BY <1>4 DEF ChangeRegistry, settled, Settled, Done, storeVars, tables
  <2> DEFINE S == IF c[2] = NoSn THEN {r \in source : Dev[r] = c[1]} ELSE {}
  <2>2. promised' = promised \ S
    BY <1>4 DEF ChangeRegistry, promised
  <2>3. S \in SUBSET Rows
    BY <1>0 DEF BaseInv, TypeOK
  <2> HIDE DEF S
  <2> QED BY <1>1, <2>1, <2>2, <2>3 DEF WM!Next, WM!Release, promised, settled
<1>5. CASE TimePasses \/ Sweep \/ UNCHANGED vars
  <2>1. promised' = promised
    BY <1>5 DEF TimePasses, Sweep, vars, syncVars, promised
  <2>2. settled' = settled \cup settled' /\ settled' \in SUBSET Rows
    BY <1>2 DEF settled
  <2> QED BY <1>1, <2>1, <2>2 DEF WM!Next, WM!Settle, promised, settled
<1> QED BY <1>3, <1>4, <1>5 DEF World

\* A run settles rows, and moves the mark only where the promise is kept.
LEMMA RunRefines ==
  ASSUME CoverInv, CoverInv', [Next]_vars, NEW p \in Syncs,
         Step(p) \/ ChunkFails(p) \/ ConflictUnreported(p) \/ Fail(p) \/ Crash(p)
  PROVE  [WM!Next]_(WM!wmVars)
<1>0. BaseInv
  BY DEF CoverInv
<1>1. promised' = promised
  BY DEF Step, Begin, Open, FetchNothing, Fetch, UpsertDevice, WriteChunk, ChunkFails,
         ConflictUnreported, Advance, Finish, Fail, Crash, promised
<1>2. settled \subseteq settled' /\ settled' \in SUBSET Rows
  BY <1>0, SettledStable DEF settled
<1>3. CASE checkpoint' = checkpoint /\ horizon' = horizon
  <2>1. settled' = settled \cup settled'
    BY <1>2
  <2> QED BY <1>1, <1>2, <1>3, <2>1 DEF WM!Next, WM!Settle, promised, settled
<1>4. CASE Advance(p)
  <2>1. settled' = settled
    BY <1>4 DEF Advance, settled, Settled, Done, storeVars, tables
  <2>2. checkpoint' \in Times /\ horizon' \in Times
    BY DEF CoverInv, BaseInv, TypeOK
  <2>3. \A r \in promised : horizon' <= At[r] /\ At[r] < checkpoint' => r \in settled
    <3>1. \A r \in promised' : horizon' <= At[r] /\ At[r] < checkpoint' => r \in settled'
      BY <1>0 DEF CoverInv, BaseInv, TypeOK, Coverage, promised, settled
    <3> QED BY <1>1, <2>1, <3>1
  <2> QED BY <1>1, <2>1, <2>2, <2>3 DEF WM!Next, WM!Move, WM!Kept, promised, settled
<1>5. ~ Advance(p) => checkpoint' = checkpoint /\ horizon' = horizon
  BY DEF Step, Begin, Open, FetchNothing, Fetch, UpsertDevice, WriteChunk, ChunkFails,
         ConflictUnreported, Finish, Fail, Crash
<1> QED BY <1>3, <1>4, <1>5

\* The sync implements Watermark: rows in order only show up at or after the
\* checkpoint, settled rows stay settled, and the checkpoint moves, forwards
\* or (with concurrent runs) backwards, only to where the promise holds.
THEOREM SyncImplementsWatermark ==
  ASSUME SourceWideOptions
  PROVE  Spec => WatermarkSpec
<1>1. Init => CoverInv
  BY CoverInit
<1>2. CoverInv /\ [Next]_vars => CoverInv'
  BY CoverNext
<1>3. Init => WM!Init
  <2> SUFFICES ASSUME Init PROVE WM!Init
    OBVIOUS
  <2>1. \A r \in Rows : ~ (At[r] < 0)
    BY StoreAssumption DEF StoreAssumption
  <2>2. \A r \in Rows : ~ Settled(r)
    BY <2>1 DEF Init, StoreInit, Settled, Done
  <2> QED BY <2>2 DEF Init, WM!Init
<1>4. CoverInv /\ CoverInv' /\ [Next]_vars => [WM!Next]_(WM!wmVars)
  BY RunRefines, WorldRefines DEF Next, World
<1> QED BY <1>1, <1>2, <1>3, <1>4, PTL DEF Spec, WatermarkSpec, WM!Spec

-----------------------------------------------------------------------------

\* With one process, a run that may move the checkpoint never holds a
\* newestCursor behind it.
AheadInv ==
    \A p \in Syncs :
        run[p].pc \in {"fetch", "devices", "write", "advance"} /\ Shared(run[p].opt)
          => checkpoint <= run[p].newest

LEMMA AheadNext ==
  ASSUME NEW w, Syncs = {w}, BaseInv, AheadInv, [Next]_vars
  PROVE  AheadInv' /\ checkpoint' >= checkpoint
<1>1. /\ w \in Syncs /\ run[w] \in RunType /\ run \in [Syncs -> RunType]
      /\ checkpoint \in Int /\ run[w].newest \in Int
  BY RunFields
<1>2. CASE Begin(w)
  <2>1. run'[w].pc = "open" /\ checkpoint' = checkpoint
    BY <1>1, <1>2 DEF Begin, RunType
  <2> QED BY <1>1, <2>1 DEF AheadInv
<1>3. CASE Open(w)
  <2> DEFINE saved == IF Shared(run[w].opt) THEN checkpoint ELSE 0
  <2>1. /\ run'[w].opt = run[w].opt /\ run'[w].newest = saved
        /\ checkpoint' = checkpoint
    BY <1>1, <1>3 DEF Open, RunType
  <2> QED BY <1>1, <2>1 DEF AheadInv
<1>4. CASE FetchNothing(w)
  <2>1. /\ run[w].pc = "fetch" /\ run'[w].opt = run[w].opt
        /\ run'[w].newest = run[w].newest /\ checkpoint' = checkpoint
    BY <1>1, <1>4 DEF FetchNothing, RunType
  <2> QED BY <1>1, <2>1 DEF AheadInv
<1>5. CASE Fetch(w)
  <2>1. PICK top \in Times :
          /\ run[w].pc = "fetch" /\ run'[w].opt = run[w].opt
          /\ run'[w].newest = IF top > run[w].newest THEN top ELSE run[w].newest
    BY <1>1, <1>5, FetchFacts
  <2>2. checkpoint' = checkpoint /\ top \in Int
    BY <1>5 DEF Fetch, Times
  <2>3. run'[w].newest >= run[w].newest /\ run'[w].newest \in Int
    BY <1>1, <2>1, <2>2
  <2>4. Shared(run[w].opt) => checkpoint <= run[w].newest
    BY <1>1, <2>1 DEF AheadInv
  <2> QED BY <1>1, <2>1, <2>2, <2>3, <2>4 DEF AheadInv
<1>6. CASE UpsertDevice(w)
  <2>1. /\ run[w].pc = "devices" /\ run'[w].opt = run[w].opt
        /\ run'[w].newest = run[w].newest /\ checkpoint' = checkpoint
    BY <1>1, <1>6 DEF UpsertDevice, RunType
  <2> QED BY <1>1, <2>1 DEF AheadInv
<1>7. CASE WriteChunk(w) \/ ChunkFails(w) \/ ConflictUnreported(w)
  <2>1. run[w].pc = "write" /\ checkpoint' = checkpoint
    BY <1>7 DEF WriteChunk, ChunkFails, ConflictUnreported
  <2>2. PICK chunk \in Prefixes(run[w].pending) : AfterChunk(w, chunk)
    BY <1>7 DEF WriteChunk, ChunkFails, ConflictUnreported
  <2>3. run'[w].opt = run[w].opt /\ run'[w].newest = run[w].newest
    BY <1>1, <2>1, <2>2, ChunkFacts
  <2> QED BY <1>1, <2>1, <2>3 DEF AheadInv
<1>8. CASE Advance(w)
  <2>1. /\ run[w].pc = "advance" /\ run'[w].pc = "finish"
        /\ Advances(run[w].opt) => checkpoint' = run[w].newest
        /\ ~ Advances(run[w].opt) => checkpoint' = checkpoint
    BY <1>1, <1>8 DEF Advance, RunType
  <2>2. Advances(run[w].opt) => checkpoint <= run[w].newest
    BY <1>1, <2>1 DEF AheadInv, Advances
  <2> QED BY <1>1, <2>1, <2>2 DEF AheadInv
<1>9. CASE Finish(w) \/ Fail(w) \/ Crash(w)
  <2>1. run'[w] = Idle /\ checkpoint' = checkpoint
    BY <1>1, <1>9 DEF Finish, Fail, Crash
  <2>2. run'[w].pc = "idle"
    BY <2>1 DEF Idle
  <2> QED BY <1>1, <2>1, <2>2 DEF AheadInv
<1>10. CASE World
  <2>1. run' = run /\ checkpoint' = checkpoint
    BY <1>10 DEF World, Publish, ChangeRegistry, TimePasses, Sweep, vars, syncVars
  <2> QED BY <1>1, <2>1 DEF AheadInv
<1> QED BY <1>2, <1>3, <1>4, <1>5, <1>6, <1>7, <1>8, <1>9, <1>10 DEF Next, Step, World

\* When one process does all the syncing, the checkpoint never moves back.
THEOREM SingleRunnerMonotone ==
  ASSUME NEW w, Syncs = {w}
  PROVE  Spec => CheckpointNeverMovesBack
<1>1. Init => BaseInv /\ AheadInv
  <2>1. Init => AheadInv
    BY DEF Init, AheadInv, Idle
  <2> QED BY <2>1, BaseInit
<1>2. BaseInv /\ AheadInv /\ [Next]_vars
        => BaseInv' /\ AheadInv' /\ [checkpoint' >= checkpoint]_vars
  BY BaseNext, AheadNext
<1> QED BY <1>1, <1>2, PTL DEF Spec, CheckpointNeverMovesBack

-----------------------------------------------------------------------------
(* A row that is delivered again is a duplicate.                             *)

\* The serial number of d never changes.
KeepsName(d) == \A c \in RegistryChanges : c[1] # d

\* Such a device has one name: in the registry, in the page a run has in hand,
\* and in the rows stored so far.
NamesInv ==
    /\ \A d \in Devices : KeepsName(d) => registry[d] = RegistryInit[d]
    /\ \A p \in Syncs, d \in Devices : KeepsName(d) => run[p].snOf[d] = RegistryInit[d]
    /\ \A r \in Rows :
          KeepsName(Dev[r]) /\ telemetry[r] # NoSn => telemetry[r] = RegistryInit[Dev[r]]
    /\ OnlyRealFailures

\* A chunk of a run, whether it is written or fails.
LEMMA ChunkNames ==
  ASSUME BaseInv, NamesInv, NEW p \in Syncs,
         WriteChunk(p) \/ ChunkFails(p) \/ ConflictUnreported(p)
  PROVE  NamesInv'
<1>1. run[p].pc = "write" /\ UNCHANGED registry
  BY DEF WriteChunk, ChunkFails, ConflictUnreported
<1>2. PICK chunk \in Prefixes(run[p].pending) : AfterChunk(p, chunk)
  BY DEF WriteChunk, ChunkFails, ConflictUnreported
<1>3. \A q \in Syncs : run'[q].snOf = run[q].snOf
  BY <1>1, <1>2, RunFields DEF AfterChunk, RunType
<1>4. Dev \in [Rows -> Devices] /\ faults \in Nat /\ MaxFaults \in Nat
      /\ telemetry \in [Rows -> Sns \cup {NoSn}]
  BY SyncAssumption DEF SyncAssumption, BaseInv, TypeOK, StoreTypeOK
<1>5. CASE WriteChunk(p) \/ ConflictUnreported(p)
  <2>1. PICK batch \in Prefixes(run[p].pending) :
          /\ WriteBatch(batch, SnOf(run[p], batch))
          /\ \/ reported' = reported \cup Conflicts(batch, SnOf(run[p], batch))
                /\ faults' = faults
             \/ faults' = faults + 1
    BY <1>5 DEF WriteChunk, ConflictUnreported
  <2>2. /\ batch \in SUBSET Rows
        /\ \A r \in batch : SnOf(run[p], batch)[r] = run[p].snOf[Dev[r]]
    BY <1>1, ChunkType DEF SnOf
  <2>3. \A r \in Rows : \/ telemetry'[r] = telemetry[r]
                        \/ r \in batch /\ telemetry'[r] = run[p].snOf[Dev[r]]
    BY <1>4, <2>1, <2>2 DEF WriteBatch, UpsertBatch, Created
  <2>4. \A r \in Rows : KeepsName(Dev[r]) /\ telemetry'[r] # NoSn
                           => telemetry'[r] = RegistryInit[Dev[r]]
    BY <1>4, <2>3 DEF NamesInv
  <2>5. \A r \in Conflicts(batch, SnOf(run[p], batch)) : ~ KeepsName(Dev[r])
    BY <1>4, <2>2 DEF NamesInv, Conflicts
  <2>6. OnlyRealFailures'
    BY <1>4, <2>1, <2>5 DEF NamesInv, OnlyRealFailures, KeepsName
  <2> QED BY <1>1, <1>3, <2>4, <2>6 DEF NamesInv
<1>6. CASE ChunkFails(p)
  <2>1. faults' = faults + 1 /\ UNCHANGED telemetry
    BY <1>6 DEF ChunkFails, storeVars, tables
  <2>2. OnlyRealFailures'
    BY <1>4, <2>1 DEF OnlyRealFailures
  <2> QED BY <1>1, <1>3, <2>1, <2>2 DEF NamesInv
<1> QED BY <1>5, <1>6

\* Every step.
LEMMA NamesNext ==
  ASSUME BaseInv, NamesInv, [Next]_vars
  PROVE  NamesInv'
<1>1. run \in [Syncs -> RunType] /\ Dev \in [Rows -> Devices] /\ faults \in Nat
      /\ registry \in [Devices -> Sns \cup {NoSn}]
      /\ telemetry \in [Rows -> Sns \cup {NoSn}]
  BY SyncAssumption DEF SyncAssumption, BaseInv, TypeOK, StoreTypeOK
<1>2. ASSUME NEW p \in Syncs, WriteChunk(p) \/ ChunkFails(p) \/ ConflictUnreported(p)
      PROVE  NamesInv'
  BY <1>2, ChunkNames
<1>3. ASSUME NEW p \in Syncs,
             Begin(p) \/ Open(p) \/ FetchNothing(p) \/ UpsertDevice(p) \/ Advance(p)
      PROVE  NamesInv'
  <2>1. \A q \in Syncs : run'[q].snOf = run[q].snOf
    <3>1. CASE Begin(p)
      BY <1>1, <3>1 DEF Begin, RunType
    <3>2. CASE Open(p)
      BY <1>1, <3>2 DEF Open, RunType
    <3>3. CASE FetchNothing(p)
      BY <1>1, <3>3 DEF FetchNothing, RunType
    <3>4. CASE UpsertDevice(p)
      BY <1>1, <3>4 DEF UpsertDevice, RunType
    <3>5. CASE Advance(p)
      BY <1>1, <3>5 DEF Advance, RunType
    <3> QED BY <1>3, <3>1, <3>2, <3>3, <3>4, <3>5
  <2>2. UNCHANGED <<registry, telemetry, reported, faults>>
    BY <1>3 DEF Begin, Open, FetchNothing, UpsertDevice, RegisterDevices, Advance,
                storeVars, tables
  <2> QED BY <2>1, <2>2 DEF NamesInv, OnlyRealFailures
<1>4. ASSUME NEW p \in Syncs, Fetch(p)
      PROVE  NamesInv'
  <2>1. /\ \A q \in Syncs : q # p => run'[q] = run[q]
        /\ run'[p].snOf = registry
    BY <1>4, FetchFacts
  <2>2. PICK page \in SUBSET Rows : reported' = reported \cup (page \cap Malformed)
    BY <1>4, FetchFacts
  <2>3. UNCHANGED <<registry, telemetry, faults>>
    BY <1>4 DEF Fetch, storeVars, tables
  <2>4. \A q \in Syncs, d \in Devices : KeepsName(d) => run'[q].snOf[d] = RegistryInit[d]
    BY <2>1 DEF NamesInv
  <2> QED BY <2>2, <2>3, <2>4 DEF NamesInv, OnlyRealFailures
<1>5. ASSUME NEW p \in Syncs, Finish(p) \/ Fail(p) \/ Crash(p)
      PROVE  NamesInv'
  <2>1. \A q \in Syncs : run'[q].snOf = run[q].snOf \/ run'[q].snOf = RegistryInit
    BY <1>1, <1>5 DEF Finish, Fail, Crash, Idle
  <2>2. UNCHANGED <<registry, telemetry, reported>> /\ faults' \in {faults, faults + 1}
    BY <1>5 DEF Finish, Fail, Crash, storeVars, tables
  <2> QED BY <1>1, <2>1, <2>2 DEF NamesInv, OnlyRealFailures
<1>6. CASE World
  <2>1. run' = run /\ UNCHANGED <<reported, faults>>
    BY <1>6 DEF World, Publish, ChangeRegistry, TimePasses, Sweep, vars, syncVars
  <2>2. \A d \in Devices : KeepsName(d) => registry'[d] = registry[d]
    BY <1>1, <1>6 DEF World, Publish, ChangeRegistry, TimePasses, Sweep, vars, syncVars, KeepsName
  <2>3. \A r \in Rows : telemetry'[r] \in {telemetry[r], NoSn}
    BY <1>6 DEF World, Publish, ChangeRegistry, TimePasses, Sweep, vars, storeVars, tables,
                Tick, Cleanup
  <2> QED BY <1>1, <2>1, <2>2, <2>3 DEF NamesInv, OnlyRealFailures
<1> QED BY <1>2, <1>3, <1>4, <1>5, <1>6 DEF Next, Step, World

\* However often and by however many runs a row is delivered, it is counted as
\* failed only if it is malformed, if a failure came before, or if its device
\* may change its serial number.
THEOREM RereadsAreDuplicates == Spec => []OnlyRealFailures
<1>1. Init => NamesInv
  BY SyncAssumption DEF Init, StoreInit, NamesInv, OnlyRealFailures, Idle
<1>2. NamesInv => OnlyRealFailures
  BY DEF NamesInv
<1> QED BY <1>1, <1>2, NamesNext, BaseCorrect, PTL DEF Spec
=============================================================================
