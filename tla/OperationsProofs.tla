-------------------------- MODULE OperationsProofs ---------------------------
(* Proofs about SyncWorker, for any number of delays, attempts and devices:  *)
(* stop() is obeyed within the back-off of the cycle it meets, and the       *)
(* summary of the resync script tells what became of each device; about      *)
(* MongoPaging, for any source, shards, limits and budgets: pages advance    *)
(* and are complete; and about MCOperations, which composes both with the    *)
(* registry scripts and the migrations.                                      *)
EXTENDS MCOperations, DeviceRegistryProofs, MigrationsProofs, FiniteSetTheorems,
        WellFoundedInduction, TLAPS

-----------------------------------------------------------------------------
(* The worker's loop.  The script leaves it alone.                           *)

\* The part of the types that the loop changes.
LoopTypeOK ==
    /\ phase \in {"syncing", "backoff", "waiting", "ended", "exited", "killed"}
    /\ attempt \in 0..Delays
    /\ stopped \in BOOLEAN
    /\ timer \in BOOLEAN
    /\ startsSinceStop \in 0..(Delays + 1)

\* A back-off has a retry left, and nobody waits for a next cycle after stop().
LoopInv ==
    /\ phase = "backoff" => attempt < Delays
    /\ stopped => phase # "waiting"

\* LoopInv says why StopEndsWithTheCycle is kept: a start after stop() is a
\* retry, which raises attempt too, and never the first call of a cycle.
WorkerLoopInv == LoopTypeOK /\ LoopInv /\ StopEndsWithTheCycle

\* Where the counters begin.
LEMMA ZeroCounts == 0 \in 0..Delays /\ 0 \in 0..(Delays + 1)
BY WorkerAssumption

LEMMA LoopInit == WorkerInit => WorkerLoopInv
BY ZeroCounts
   DEF WorkerInit, WorkerLoopInv, LoopTypeOK, LoopInv, StopEndsWithTheCycle

\* A start of sync() counts one at most, and up to Delays + 1.
LEMMA BeginSyncCounts ==
    ASSUME LoopTypeOK, BeginSync
    PROVE  /\ phase' = "syncing"
           /\ startsSinceStop' \in 0..(Delays + 1)
           /\ startsSinceStop' <= startsSinceStop + 1
BY WorkerAssumption DEF LoopTypeOK, BeginSync

\* A call of sync() that found SQLite busy has a retry left.
LEMMA SyncBusyKeepsLoop ==
    ASSUME WorkerLoopInv, NEW o \in Outcomes, SyncBusy(o)
    PROVE  WorkerLoopInv'
BY DEF WorkerLoopInv, LoopTypeOK, LoopInv, StopEndsWithTheCycle, SyncBusy, Retried

\* A retry raises the attempts and, after stop(), the starts.
LEMMA BackoffOverKeepsLoop ==
    ASSUME WorkerLoopInv, BackoffOver
    PROVE  WorkerLoopInv'
<1>1. LoopTypeOK /\ BeginSync
  BY DEF WorkerLoopInv, BackoffOver
<1>2. attempt < Delays /\ attempt' = attempt + 1
  BY DEF WorkerLoopInv, LoopInv, BackoffOver
<1>3. LoopTypeOK'
  BY <1>1, <1>2, BeginSyncCounts, WorkerAssumption DEF LoopTypeOK, BackoffOver
<1>4. LoopInv'
  BY <1>1, BeginSyncCounts DEF LoopInv
<1>5. StopEndsWithTheCycle'
  BY <1>1, <1>2, BeginSyncCounts, WorkerAssumption
     DEF WorkerLoopInv, LoopTypeOK, StopEndsWithTheCycle, BackoffOver
<1> QED
  BY <1>3, <1>4, <1>5 DEF WorkerLoopInv

\* A timer begins a cycle only for a loop that waits, so never after stop().
LEMMA TimerFiresKeepsLoop ==
    ASSUME WorkerLoopInv, TimerFires
    PROVE  WorkerLoopInv'
<1>1. CASE phase = "waiting"
  <2>1. LoopTypeOK /\ BeginSync /\ attempt' = 0 /\ ~ stopped /\ ~ stopped'
    BY <1>1 DEF WorkerLoopInv, LoopTypeOK, LoopInv, TimerFires
  <2>2. LoopTypeOK'
    BY <2>1, BeginSyncCounts, ZeroCounts DEF LoopTypeOK, TimerFires
  <2> QED
    BY <2>1, <2>2, BeginSyncCounts DEF WorkerLoopInv, LoopInv, StopEndsWithTheCycle
<1>2. CASE phase # "waiting"
  BY <1>2 DEF WorkerLoopInv, LoopTypeOK, LoopInv, StopEndsWithTheCycle, TimerFires
<1> QED
  BY <1>1, <1>2

\* The other steps of the worker.
LEMMA QuietStepsKeepLoop ==
    ASSUME WorkerLoopInv,
           \/ \E o \in Outcomes : CycleEnds(o)
           \/ Stop \/ Die \/ Exit \/ Restart
           \/ UNCHANGED workerVars
    PROVE  WorkerLoopInv'
<1> USE DEF WorkerLoopInv, LoopTypeOK, LoopInv, StopEndsWithTheCycle
<1>1. ASSUME NEW o \in Outcomes, CycleEnds(o) PROVE WorkerLoopInv'
  BY <1>1 DEF CycleEnds
<1>2. ASSUME Stop PROVE WorkerLoopInv'
  BY <1>2, ZeroCounts DEF Stop
<1>3. ASSUME Die PROVE WorkerLoopInv'
  BY <1>3 DEF Die
<1>4. ASSUME Exit PROVE WorkerLoopInv'
  BY <1>4 DEF Exit
<1>5. ASSUME Restart PROVE WorkerLoopInv'
  BY <1>5, ZeroCounts DEF Restart
<1>6. ASSUME UNCHANGED workerVars PROVE WorkerLoopInv'
  BY <1>6 DEF workerVars
<1> QED
  BY <1>1, <1>2, <1>3, <1>4, <1>5, <1>6

\* Every step keeps the loop's invariant.
LEMMA LoopStep == WorkerLoopInv /\ [WorkerNext]_loopVars => WorkerLoopInv'
<1> SUFFICES ASSUME WorkerLoopInv, [WorkerNext]_loopVars PROVE WorkerLoopInv'
  OBVIOUS
<1>1. CASE \E o \in Outcomes : SyncBusy(o)
  BY <1>1, SyncBusyKeepsLoop
<1>2. CASE BackoffOver
  BY <1>2, BackoffOverKeepsLoop
<1>3. CASE TimerFires
  BY <1>3, TimerFiresKeepsLoop
<1>4. CASE \E ok, retryable \in BOOLEAN : ResyncAttempt(ok, retryable)
  BY <1>4, QuietStepsKeepLoop DEF ResyncAttempt
<1>5. CASE (\E o \in Outcomes : CycleEnds(o)) \/ Stop \/ Die \/ Exit \/ Restart
  BY <1>5, QuietStepsKeepLoop
<1>6. CASE UNCHANGED loopVars
  BY <1>6, QuietStepsKeepLoop DEF loopVars
<1> QED
  BY <1>1, <1>2, <1>3, <1>4, <1>5, <1>6 DEF WorkerNext

\* After stop() the worker calls sync() for the retries of its current cycle
\* at most, wherever the signal meets the loop.
THEOREM StopIsBounded == WorkerSpec => []StopEndsWithTheCycle
<1>1. WorkerSpec => []WorkerLoopInv
  BY LoopInit, LoopStep, PTL DEF WorkerSpec
<1>2. WorkerLoopInv => StopEndsWithTheCycle
  BY DEF WorkerLoopInv
<1> QED
  BY <1>1, <1>2, PTL

-----------------------------------------------------------------------------
(* The resync script.  The worker leaves it alone.                           *)

ResyncTypeOK ==
    resync \in [device : 1..(ResyncCount + 1), attempt : 1..MaxAttempts,
                settled : SUBSET (1..ResyncCount), failed : SUBSET (1..ResyncCount)]

\* The script has no outcome of a device it has not left behind.
ResyncInv == resync.settled \cup resync.failed \subseteq 1..(resync.device - 1)

\* ResyncInv says why ResyncTellsFailures is kept: the device in hand has no
\* outcome yet, so the one it gets is its only one.
ScriptInv == ResyncTypeOK /\ ResyncInv /\ ResyncTellsFailures

LEMMA ScriptInit == WorkerInit => ScriptInv
BY WorkerAssumption DEF WorkerInit, ScriptInv, ResyncTypeOK, ResyncInv, ResyncTellsFailures

\* An attempt is the last one of its device, or leaves all as it was but the
\* number of the attempt.
LEMMA AttemptKeepsScript ==
    ASSUME ScriptInv, NEW ok \in BOOLEAN, NEW retryable \in BOOLEAN,
           ResyncAttempt(ok, retryable)
    PROVE  ScriptInv'
<1> DEFINE again == ~ ok /\ resync.attempt < MaxAttempts /\ retryable
<1>1. /\ resync.device \in 1..ResyncCount
      /\ resync.attempt \in 1..MaxAttempts
      /\ resync.settled \subseteq 1..(resync.device - 1)
      /\ resync.failed \subseteq 1..(resync.device - 1)
  BY WorkerAssumption DEF ScriptInv, ResyncTypeOK, ResyncInv, ResyncAttempt
<1>2. CASE again
  <2>1. resync' = [device |-> resync.device, attempt |-> resync.attempt + 1,
                   settled |-> resync.settled, failed |-> resync.failed]
    BY <1>2 DEF ResyncAttempt
  <2>2. resync.attempt + 1 \in 1..MaxAttempts
    BY <1>1, <1>2, WorkerAssumption
  <2> QED
    BY <1>1, <2>1, <2>2, WorkerAssumption
       DEF ScriptInv, ResyncTypeOK, ResyncInv, ResyncTellsFailures
<1>3. CASE ~ again
  <2>1. /\ resync'.device = resync.device + 1 /\ resync'.attempt = 1
        /\ resync'.settled = IF ok THEN resync.settled \cup {resync.device}
                                   ELSE resync.settled
        /\ resync'.failed = IF ok THEN resync.failed
                                  ELSE resync.failed \cup {resync.device}
    BY <1>3 DEF ResyncAttempt
  <2>2. ResyncTypeOK'
    BY <1>1, <1>3, WorkerAssumption DEF ResyncAttempt, ResyncTypeOK, ScriptInv
  <2>3. ResyncInv'
    BY <1>1, <2>1 DEF ResyncInv
  <2>4. ResyncTellsFailures'
    <3> SUFFICES ASSUME NEW d \in 1..(resync'.device - 1)
                 PROVE  d \in resync'.failed <=> d \notin resync'.settled
      BY DEF ResyncTellsFailures
    <3>1. CASE d = resync.device
      BY <1>1, <2>1, <3>1
    <3>2. CASE d # resync.device
      <4>1. d \in 1..(resync.device - 1)
        BY <1>1, <2>1, <3>2
      <4> QED
        BY <2>1, <3>2, <4>1 DEF ScriptInv, ResyncTellsFailures
    <3> QED
      BY <3>1, <3>2
  <2> QED
    BY <2>2, <2>3, <2>4 DEF ScriptInv
<1> QED
  BY <1>2, <1>3

\* Every step keeps the script's invariant.
LEMMA ScriptStep == ScriptInv /\ [WorkerNext]_loopVars => ScriptInv'
<1> SUFFICES ASSUME ScriptInv, [WorkerNext]_loopVars PROVE ScriptInv'
  OBVIOUS
<1>1. CASE \E ok, retryable \in BOOLEAN : ResyncAttempt(ok, retryable)
  BY <1>1, AttemptKeepsScript
<1>2. CASE UNCHANGED resync
  BY <1>2 DEF ScriptInv, ResyncTypeOK, ResyncInv, ResyncTellsFailures
<1> QED
  BY <1>1, <1>2 DEF WorkerNext, loopVars, SyncBusy, CycleEnds, BackoffOver, TimerFires,
                    Stop, Die, Exit, Restart

\* The script counts a device as failed exactly if none of its attempts
\* succeeded, for any number of devices and attempts.
THEOREM ResyncSummary == WorkerSpec => []ResyncTellsFailures
<1>1. WorkerSpec => []ScriptInv
  BY ScriptInit, ScriptStep, PTL DEF WorkerSpec
<1>2. ScriptInv => ResyncTellsFailures
  BY DEF ScriptInv
<1> QED
  BY <1>1, <1>2, PTL

\* The types of both.
THEOREM WorkerTypes == WorkerSpec => []WorkerTypeOK
<1>1. WorkerLoopInv /\ ScriptInv => WorkerTypeOK
  BY DEF WorkerLoopInv, LoopTypeOK, ScriptInv, ResyncTypeOK, WorkerTypeOK
<1> QED
  BY <1>1, LoopInit, LoopStep, ScriptInit, ScriptStep, PTL DEF WorkerSpec

-----------------------------------------------------------------------------
(* The paging.  The order of reads.                                          *)

\* The order of the naturals, and the least number of a set of them.
NatLess == OpToRel(<, Nat)

LEMMA LeastOfNaturals ==
    ASSUME NEW S, S \subseteq Nat, S # {}
    PROVE  \E x \in S : \A y \in S : x <= y
<1>1. PICK x \in S : \A y \in S : ~ (<<y, x>> \in NatLess)
  BY NatLessThanWellFounded, WFMin DEF NatLess
<1>2. ASSUME NEW y \in S PROVE x <= y
  <2>1. ~ (<<y, x>> \in NatLess)
    BY <1>1
  <2>2. y < x => <<y, x>> \in NatLess
    BY DEF NatLess, OpToRel
  <2> QED
    BY <2>1, <2>2
<1> QED
  BY <1>2

\* Finite sets of reads in which the order of a page is total.
Ordered(S) ==
    /\ IsFiniteSet(S)
    /\ \A p \in S : ~ ahead(p, p)
    /\ \A p, q \in S : p = q \/ ahead(p, q) \/ ahead(q, p)
    /\ \A p, q, r \in S : ahead(p, q) /\ ahead(q, r) => ahead(p, r)

\* A part of an ordered set is ordered, and its size is a number.
LEMMA OrderedPart ==
    ASSUME NEW S, Ordered(S), NEW T, T \subseteq S
    PROVE  /\ Ordered(T)
           /\ IsFiniteSet(T) /\ Cardinality(T) \in Nat
           /\ Cardinality(T) <= Cardinality(S)
           /\ Cardinality(T) = Cardinality(S) => T = S
<1>1. IsFiniteSet(S)
  BY DEF Ordered
<1>2. /\ IsFiniteSet(T) /\ Cardinality(T) <= Cardinality(S)
      /\ Cardinality(T) = Cardinality(S) => T = S
  BY <1>1, FS_Subset
<1>3. Cardinality(T) \in Nat
  BY <1>2, FS_CardinalityType
<1>4. Ordered(T)
  BY <1>2 DEF Ordered
<1> QED
  BY <1>2, <1>3, <1>4

\* It has a last read ...
LEMMA LastOfReads ==
    ASSUME NEW S, Ordered(S), S # {}
    PROVE  lastOf(S) \in S /\ \A q \in S : q = lastOf(S) \/ ahead(q, lastOf(S))
<1> DEFINE behind(r) == {q \in S : ahead(r, q)}
           sizes == {Cardinality(behind(r)) : r \in S}
<1>1. \A r \in S : /\ IsFiniteSet(behind(r)) /\ Cardinality(behind(r)) \in Nat
  BY OrderedPart
<1>2. PICK r \in S : \A q \in S : Cardinality(behind(r)) <= Cardinality(behind(q))
  <2>1. sizes \subseteq Nat /\ sizes # {}
    BY <1>1
  <2>2. PICK n \in sizes : \A m \in sizes : n <= m
    BY <2>1, LeastOfNaturals
  <2> QED
    BY <2>2
<1>3. ASSUME NEW q \in S, q # r, ~ ahead(q, r) PROVE FALSE
  <2>1. ahead(r, q)
    BY <1>3 DEF Ordered
  <2>2. behind(q) \subseteq behind(r) /\ q \in behind(r) /\ q \notin behind(q)
    BY <2>1 DEF Ordered
  <2>3. Cardinality(behind(q)) <= Cardinality(behind(r)) /\ behind(q) # behind(r)
    BY <1>1, <2>2, FS_Subset
  <2>4. Cardinality(behind(q)) # Cardinality(behind(r))
    BY <1>1, <2>2, <2>3, FS_Subset
  <2> QED
    BY <1>1, <1>2, <2>3, <2>4
<1>4. \E x \in S : \A q \in S : q = x \/ ahead(q, x)
  BY <1>3
<1> QED
  BY <1>4 DEF lastOf

\* ... and a first one.
LEMMA FirstOfReads ==
    ASSUME NEW S, Ordered(S), S # {}
    PROVE  \E r \in S : \A q \in S : q = r \/ ahead(r, q)
<1> DEFINE before(r) == {q \in S : ahead(q, r)}
           sizes == {Cardinality(before(r)) : r \in S}
<1>1. \A r \in S : /\ IsFiniteSet(before(r)) /\ Cardinality(before(r)) \in Nat
  BY OrderedPart
<1>2. PICK r \in S : \A q \in S : Cardinality(before(r)) <= Cardinality(before(q))
  <2>1. sizes \subseteq Nat /\ sizes # {}
    BY <1>1
  <2>2. PICK n \in sizes : \A m \in sizes : n <= m
    BY <2>1, LeastOfNaturals
  <2> QED
    BY <2>2
<1>3. ASSUME NEW q \in S, q # r, ~ ahead(r, q) PROVE FALSE
  <2>1. ahead(q, r)
    BY <1>3 DEF Ordered
  <2>2. before(q) \subseteq before(r) /\ q \in before(r) /\ q \notin before(q)
    BY <2>1 DEF Ordered
  <2>3. Cardinality(before(q)) <= Cardinality(before(r)) /\ before(q) # before(r)
    BY <1>1, <2>2, FS_Subset
  <2>4. Cardinality(before(q)) # Cardinality(before(r))
    BY <1>1, <2>2, <2>3, FS_Subset
  <2> QED
    BY <1>1, <1>2, <2>3, <2>4
<1> QED
  BY <1>3

\* The first reads: no more than the limit, and all if there are no more.
LEMMA FirstReads ==
    ASSUME NEW S, Ordered(S), NEW k \in Int
    PROVE  /\ firstOf(S, k) \subseteq S
           /\ k >= 0 => Cardinality(firstOf(S, k)) <= k
           /\ Cardinality(S) <= k => firstOf(S, k) = S
<1> DEFINE before(r) == {q \in S : ahead(q, r)}
           T == firstOf(S, k)
<1>1. T \subseteq S /\ \A r \in S : r \in T <=> Cardinality(before(r)) < k
  BY DEF firstOf
<1>2. \A r \in S : /\ IsFiniteSet(before(r)) /\ Cardinality(before(r)) \in Nat
                   /\ r \notin before(r) /\ before(r) \subseteq S
                   /\ Cardinality(before(r)) <= Cardinality(S)
                   /\ Cardinality(before(r)) = Cardinality(S) => before(r) = S
  BY OrderedPart DEF Ordered
<1>3. Cardinality(S) \in Nat
  BY OrderedPart
<1>4. ASSUME k >= 0 PROVE Cardinality(T) <= k
  <2>1. CASE T = {}
    BY <1>4, <2>1, FS_EmptySet
  <2>2. CASE T # {}
    <3>1. Ordered(T)
      BY <1>1, OrderedPart
    <3>2. PICK l \in T : \A q \in T : q = l \/ ahead(q, l)
      BY <2>2, <3>1, LastOfReads
    <3>3. T \subseteq before(l) \cup {l}
      BY <1>1, <3>2
    <3>4. /\ IsFiniteSet(before(l) \cup {l})
          /\ Cardinality(before(l) \cup {l}) = Cardinality(before(l)) + 1
      BY <1>1, <1>2, <3>2, FS_AddElement
    <3>5. Cardinality(T) <= Cardinality(before(l)) + 1
      BY <3>3, <3>4, FS_Subset
    <3>6. Cardinality(before(l)) < k /\ Cardinality(before(l)) \in Nat
      BY <1>1, <1>2, <3>2
    <3>7. Cardinality(T) \in Nat
      BY <1>1, OrderedPart
    <3> QED
      BY <3>5, <3>6, <3>7
  <2> QED
    BY <2>1, <2>2
<1>5. ASSUME Cardinality(S) <= k PROVE T = S
  <2>1. ASSUME NEW r \in S PROVE r \in T
    <3>1. /\ Cardinality(before(r)) # Cardinality(S) /\ Cardinality(before(r)) \in Nat
          /\ Cardinality(before(r)) <= Cardinality(S)
      BY <1>2, <2>1
    <3> HIDE DEF before
    <3>2. Cardinality(before(r)) < k
      BY <1>3, <1>5, <3>1
    <3> QED
      BY <1>1, <3>2
  <2> QED
    BY <1>1, <2>1
<1> QED
  BY <1>1, <1>4, <1>5

\* A read that is not among the first is behind all of them, and they are as
\* many as the limit allows.
LEMMA BehindFirstReads ==
    ASSUME NEW S, Ordered(S), NEW k \in Int, NEW r \in S, r \notin firstOf(S, k)
    PROVE  /\ \A q \in firstOf(S, k) : ahead(q, r)
           /\ Cardinality(firstOf(S, k)) >= k
           /\ Cardinality(S) > k
<1> DEFINE before(p) == {q \in S : ahead(q, p)}
           T == firstOf(S, k)
<1>1. T \subseteq S /\ \A p \in S : p \in T <=> Cardinality(before(p)) < k
  BY DEF firstOf
<1>2. \A p \in S : IsFiniteSet(before(p)) /\ Cardinality(before(p)) \in Nat
  BY OrderedPart
<1>3. Cardinality(T) \in Nat /\ Cardinality(S) \in Nat /\ IsFiniteSet(T)
  BY <1>1, OrderedPart
<1>4. ASSUME NEW q \in T, NEW p \in S \ T PROVE ahead(q, p)
  <2>1. SUFFICES ASSUME ahead(p, q) PROVE FALSE
    BY <1>1 DEF Ordered
  <2>2. before(p) \subseteq before(q)
    BY <1>1, <2>1 DEF Ordered
  <2>3. Cardinality(before(p)) <= Cardinality(before(q))
    BY <1>1, <1>2, <2>2, FS_Subset
  <2>4. Cardinality(before(q)) < k /\ ~ (Cardinality(before(p)) < k)
    BY <1>1
  <2>5. Cardinality(before(q)) \in Nat /\ Cardinality(before(p)) \in Nat
    BY <1>1, <1>2
  <2> HIDE DEF before
  <2> QED
    BY <2>3, <2>4, <2>5
<1>5. PICK p \in S \ T : \A q \in S \ T : q = p \/ ahead(p, q)
  <2>1. Ordered(S \ T) /\ S \ T # {}
    BY OrderedPart
  <2> QED
    BY <2>1, FirstOfReads
<1>6. before(p) \subseteq T
  BY <1>5 DEF Ordered
<1>7. Cardinality(before(p)) <= Cardinality(T)
  BY <1>3, <1>6, FS_Subset
<1>8. Cardinality(before(p)) >= k
  BY <1>1, <1>2, <1>5
<1>9. Cardinality(T) >= k
  BY <1>2, <1>3, <1>7, <1>8
<1>10. Cardinality(S) > k
  <2>1. T # S
    BY <1>1
  <2> QED
    BY <1>3, <2>1, FirstReads
<1> QED
  BY <1>4, <1>9, <1>10

\* The source as the window finds it.
SourceOK ==
    /\ docs \in Sources
    /\ wifiLog \in EventLogs
    /\ collection \in [LogDevices -> {1, 2}]

AllRows == Rows \cup WifiRows

\* What a row of the device log is ...
LEMMA RowIs ==
    ASSUME SourceOK, NEW r \in Rows
    PROVE  /\ r[1] \in Docs /\ r[1] \in Nat
           /\ r[2] \in 1..MaxFields /\ r[2] \in Nat \ {0}
           /\ r = <<r[1], r[2]>> /\ r \in rowsOf(r[1])
           /\ timeOf(r) \in 1..To /\ timeOf(r) = docs[r[1]].time
           /\ docs[r[1]].device \in LogDevices
           /\ r # NoCursor
<1>1. PICK d \in Docs : r \in rowsOf(d)
  BY DEF Rows
<1>2. PICK k \in 1..docs[d].fields : r = <<d, k>>
  BY <1>1 DEF rowsOf
<1>3. docs[d].fields \in 0..MaxFields /\ docs[d].time \in 1..To /\ docs[d].device \in LogDevices
  BY <1>1 DEF SourceOK, Sources
<1>4. MaxFields \in Nat /\ d \in Nat
  BY PagingAssumption
<1>5. k \in 1..MaxFields /\ k \in Nat \ {0}
  BY <1>2, <1>3, <1>4
<1>6. r[1] = d /\ r[2] = k
  BY <1>2
<1>7. r # NoCursor
  BY <1>5, <1>6 DEF NoCursor
<1> QED
  BY <1>1, <1>2, <1>3, <1>4, <1>5, <1>6, <1>7 DEF timeOf

\* ... and of the event log.
LEMMA WifiRowIs ==
    ASSUME SourceOK, NEW r \in WifiRows
    PROVE  /\ r[1] \in WifiEvents /\ r[1] \in Nat /\ r[1] \notin Docs
           /\ r[2] = 1 /\ r = <<r[1], r[2]>>
           /\ timeOf(r) \in 1..To /\ timeOf(r) = wifiLog[r[1]].time
<1>1. PICK e \in WifiEvents : r = <<e, 1>>
  BY DEF WifiRows
<1>2. e \in Nat /\ e \notin Docs
  BY PagingAssumption
<1>3. wifiLog[e].time \in 1..To
  BY <1>1 DEF SourceOK, EventLogs
<1> QED
  BY <1>1, <1>2, <1>3 DEF timeOf

LEMMA RowsApart == SourceOK => Rows \cap WifiRows = {}
BY RowIs, WifiRowIs

LEMMA RowsFinite == SourceOK => IsFiniteSet(Rows) /\ IsFiniteSet(AllRows)
<1> SUFFICES ASSUME SourceOK PROVE IsFiniteSet(Rows) /\ IsFiniteSet(AllRows)
  OBVIOUS
<1>1. IsFiniteSet(Docs \X (1..MaxFields))
  <2>1. IsFiniteSet(1..MaxFields) /\ IsFiniteSet(Docs)
    BY FS_Interval, PagingAssumption
  <2> QED
    BY <2>1, FS_Product
<1>2. Rows \subseteq Docs \X (1..MaxFields)
  BY RowIs
<1>3. IsFiniteSet(WifiEvents \X {1})
  BY FS_Product, FS_Singleton, PagingAssumption
<1>4. WifiRows \subseteq WifiEvents \X {1}
  BY WifiRowIs
<1>5. IsFiniteSet(Rows) /\ IsFiniteSet(WifiRows)
  BY <1>1, <1>2, <1>3, <1>4, FS_Subset
<1> QED
  BY <1>5, FS_Union DEF AllRows

\* The order of rows is strict and total.
LEMMA NewestOrder ==
    ASSUME SourceOK
    PROVE  /\ \A a \in AllRows : ~ newestFirst(a, a)
           /\ \A a, b \in AllRows : a = b \/ newestFirst(a, b) \/ newestFirst(b, a)
           /\ \A a, b, c \in AllRows : newestFirst(a, b) /\ newestFirst(b, c) => newestFirst(a, c)
<1>1. \A r \in AllRows : /\ r[1] \in Nat /\ r[2] \in Nat /\ timeOf(r) \in Nat
                         /\ r = <<r[1], r[2]>>
  <2> TAKE r \in AllRows
  <2>1. To \in Nat
    BY PagingAssumption
  <2>2. CASE r \in Rows
    BY <2>1, <2>2, RowIs
  <2>3. CASE r \in WifiRows
    <3>1. timeOf(r) \in 1..To /\ r[1] \in Nat /\ r[2] = 1 /\ r = <<r[1], r[2]>>
      BY <2>3, WifiRowIs
    <3> QED
      BY <2>1, <3>1
  <2> QED
    BY <2>2, <2>3 DEF AllRows
<1>2. ASSUME NEW a \in AllRows PROVE ~ newestFirst(a, a)
  BY <1>1 DEF newestFirst
<1>3. ASSUME NEW a \in AllRows, NEW b \in AllRows
      PROVE  a = b \/ newestFirst(a, b) \/ newestFirst(b, a)
  <2>1. a[1] = b[1] /\ a[2] = b[2] => a = b
    BY <1>1
  <2>2. /\ a[1] \in Nat /\ a[2] \in Nat /\ timeOf(a) \in Nat
        /\ b[1] \in Nat /\ b[2] \in Nat /\ timeOf(b) \in Nat
    BY <1>1
  <2> QED
    BY <2>1, <2>2 DEF newestFirst
<1>4. ASSUME NEW a \in AllRows, NEW b \in AllRows, NEW c \in AllRows,
             newestFirst(a, b), newestFirst(b, c)
      PROVE  newestFirst(a, c)
  <2>1. /\ a[1] \in Nat /\ a[2] \in Nat /\ timeOf(a) \in Nat
        /\ b[1] \in Nat /\ b[2] \in Nat /\ timeOf(b) \in Nat
        /\ c[1] \in Nat /\ c[2] \in Nat /\ timeOf(c) \in Nat
    BY <1>1
  <2> QED
    BY <1>4, <2>1 DEF newestFirst
<1> QED
  BY <1>2, <1>3, <1>4

Reads == (0..(2 * To)) \X AllRows

\* So is that of reads, in any set of them.
LEMMA ReadsOrdered ==
    ASSUME SourceOK, NEW S, S \subseteq Reads
    PROVE  Ordered(S)
<1>1. IsFiniteSet(0..(2 * To)) /\ \A r \in Reads : r[1] \in Nat
  BY FS_Interval, PagingAssumption DEF Reads
<1>2. IsFiniteSet(Reads)
  BY <1>1, RowsFinite, FS_Product DEF Reads
<1>3. IsFiniteSet(S)
  BY <1>2, FS_Subset
<1>4. \A r \in S : r[1] \in Nat /\ r[2] \in AllRows /\ r = <<r[1], r[2]>>
  BY <1>1 DEF Reads
<1>5. ASSUME NEW p \in S PROVE ~ ahead(p, p)
  BY <1>4, NewestOrder DEF ahead
<1>6. ASSUME NEW p \in S, NEW q \in S PROVE p = q \/ ahead(p, q) \/ ahead(q, p)
  <2>1. p[2] = q[2] \/ newestFirst(p[2], q[2]) \/ newestFirst(q[2], p[2])
    BY <1>4, NewestOrder
  <2>2. p[1] \in Nat /\ q[1] \in Nat /\ (p[1] = q[1] /\ p[2] = q[2] => p = q)
    BY <1>4
  <2> QED
    BY <2>1, <2>2 DEF ahead
<1>7. ASSUME NEW p \in S, NEW q \in S, NEW r \in S, ahead(p, q), ahead(q, r)
      PROVE  ahead(p, r)
  <2>1. newestFirst(p[2], q[2]) /\ newestFirst(q[2], r[2]) => newestFirst(p[2], r[2])
    BY <1>4, NewestOrder
  <2>2. p[1] \in Nat /\ q[1] \in Nat /\ r[1] \in Nat
    BY <1>4
  <2> QED
    BY <1>7, <2>1, <2>2 DEF ahead
<1> QED
  BY <1>3, <1>5, <1>6, <1>7 DEF Ordered

-----------------------------------------------------------------------------
(* The queries of a page.                                                    *)

\* logAfter is the function its definition says: each value is built from the
\* one before.
LEMMA LogAfterIs ==
    logAfter = [n \in 0..(2 * To) |->
                   IF n = 0 THEN [reads |-> {}, more |-> FALSE] ELSE afterQuery(n, logAfter[n - 1])]
<1> DEFINE Recursive(g, m) ==
               g = [n \in 0..m |-> IF n = 0 THEN [reads |-> {}, more |-> FALSE]
                                   ELSE afterQuery(n, g[n - 1])]
           Bad == {m \in Nat : ~ \E g : Recursive(g, m)}
<1>1. Bad = {}
  <2> SUFFICES ASSUME Bad # {} PROVE FALSE
    OBVIOUS
  <2>1. PICK m \in Bad : \A y \in Bad : m <= y
    BY LeastOfNaturals
  <2>2. m # 0
    <3>1. Recursive([n \in 0..0 |-> [reads |-> {}, more |-> FALSE]], 0)
      OBVIOUS
    <3> QED
      BY <3>1
  <2>3. m - 1 \in Nat /\ m - 1 \notin Bad
    <3>1. m \in Nat /\ \A y \in Bad : m <= y
      BY <2>1
    <3> HIDE DEF Bad
    <3> QED
      BY <2>2, <3>1
  <2>4. PICK g : Recursive(g, m - 1)
    BY <2>3
  <2> DEFINE h == [n \in 0..m |-> IF n = m THEN afterQuery(m, g[m - 1]) ELSE g[n]]
  <2>5. Recursive(h, m)
    <3> SUFFICES ASSUME NEW n \in 0..m
                 PROVE  h[n] = IF n = 0 THEN [reads |-> {}, more |-> FALSE]
                               ELSE afterQuery(n, h[n - 1])
      OBVIOUS
    <3>1. CASE n = 0
      <4>1. h[n] = g[n] /\ 0 \in 0..(m - 1)
        BY <2>2, <2>3, <3>1
      <4> QED
        BY <2>4, <3>1, <4>1
    <3>2. CASE n = m
      <4>1. h[n] = afterQuery(m, g[m - 1]) /\ h[n - 1] = g[m - 1]
        BY <2>2, <3>2
      <4> QED
        BY <2>2, <3>2, <4>1
    <3>3. CASE n # 0 /\ n # m
      <4>1. h[n] = g[n] /\ h[n - 1] = g[n - 1] /\ n \in 0..(m - 1)
        BY <3>3
      <4> QED
        BY <2>4, <3>3, <4>1
    <3> QED
      BY <3>1, <3>2, <3>3
  <2> QED
    BY <2>1, <2>5
<1>2. 2 * To \in Nat
  BY PagingAssumption
<1>3. \E g : Recursive(g, 2 * To)
  BY <1>1, <1>2
<1> QED
  BY <1>3 DEF logAfter

\* The rows a page with this cursor may bring.
LeftRows == {r \in Rows : isAfterSourceCursor(r)}

\* What a page holds after its first n queries.
PageOK(n, log) ==
    /\ log \in [reads : SUBSET ((1..n) \X LeftRows), more : BOOLEAN]
    /\ Cardinality(log.reads) <= LogBudget

LEMMA ReadsInOrder ==
    ASSUME SourceOK, NEW n \in 0..(2 * To), NEW S, S \subseteq (1..n) \X LeftRows
    PROVE  Ordered(S) /\ S \subseteq Reads
<1>1. S \subseteq Reads
  BY PagingAssumption DEF Reads, LeftRows, AllRows
<1> QED
  BY <1>1, ReadsOrdered

\* The rows of the documents of a device, below its limit.
LEMMA LatestIs ==
    ASSUME NEW D, NEW log
    PROVE  latestPerDevice(D, log) \subseteq D
BY DEF latestPerDevice

\* A query brings rows that are left, each once, no more than it may.
LEMMA QueryBrings ==
    ASSUME SourceOK, NEW n \in 1..(2 * To), NEW c, NEW from, NEW to, NEW limit \in Int,
           NEW found, found = queryWindow(n, c, from, to, limit)
    PROVE  /\ found.reads \subseteq {n} \X LeftRows
           /\ found.more \in BOOLEAN
           /\ limit >= 0 => Cardinality(found.reads) <= limit
           /\ Cardinality(found.reads) \in Nat
<1> DEFINE matched == deviceLogFilter(c, from, to)
           latest == latestPerDevice(matched, docs)
           left == {r \in UNION {rowsOf(d) : d \in latest} : isAfterSourceCursor(r)}
           S == {n} \X left
<1>1. found = [reads |-> firstOf(S, limit), more |-> latest # matched \/ Cardinality(S) > limit]
  BY DEF queryWindow
<1>2. latest \subseteq Docs
  BY LatestIs DEF deviceLogFilter
<1>3. left \subseteq LeftRows
  BY <1>2 DEF LeftRows, Rows
<1>4. S \subseteq {n} \X LeftRows /\ Ordered(S)
  <2>1. S \subseteq {n} \X LeftRows
    BY <1>3
  <2>2. S \subseteq (1..(2 * To)) \X LeftRows /\ 2 * To \in 0..(2 * To)
    BY <2>1, PagingAssumption
  <2> QED
    BY <2>1, <2>2, ReadsInOrder
<1> HIDE DEF S, matched, latest, left
<1>5. /\ firstOf(S, limit) \subseteq S
      /\ limit >= 0 => Cardinality(firstOf(S, limit)) <= limit
      /\ Cardinality(firstOf(S, limit)) \in Nat
  BY <1>4, FirstReads, OrderedPart
<1>6. (latest # matched \/ Cardinality(S) > limit) \in BOOLEAN
  OBVIOUS
<1>7. found.reads = firstOf(S, limit) /\ found.more \in BOOLEAN
  BY <1>1, <1>6
<1> QED
  BY <1>4, <1>5, <1>7

\* So the page grows query by query, never above its budget.
LEMMA QueryKeepsPage ==
    ASSUME SourceOK, NEW n \in 1..(2 * To), NEW log, PageOK(n - 1, log)
    PROVE  PageOK(n, afterQuery(n, log))
<1> DEFINE c == IF n <= To THEN 1 ELSE 2
           w == IF n <= To THEN n ELSE n - To
           limit == LogBudget - Cardinality(log.reads)
           found == queryWindow(n, c, lowerEnd(w), upperEnd(w), limit)
           known == \E x \in LogDevices : collection[x] = c
           after == afterQuery(n, log)
<1>1. /\ log \in [reads : SUBSET ((1..(n - 1)) \X LeftRows), more : BOOLEAN]
      /\ log = [reads |-> log.reads, more |-> log.more]
      /\ log.reads \subseteq (1..(n - 1)) \X LeftRows /\ log.more \in BOOLEAN
      /\ Cardinality(log.reads) <= LogBudget
  BY DEF PageOK
<1>2. Ordered(log.reads) /\ n - 1 \in 0..(2 * To)
  <2>1. n - 1 \in 0..(2 * To)
    BY PagingAssumption
  <2> QED
    BY <1>1, <2>1, ReadsInOrder
<1>3. IsFiniteSet(log.reads) /\ Cardinality(log.reads) \in Nat /\ LogBudget \in Nat
  BY <1>2, OrderedPart, PagingAssumption
<1>4. limit \in Int /\ limit >= 0
  BY <1>1, <1>3
<1>5. /\ found.reads \subseteq {n} \X LeftRows
      /\ found.more \in BOOLEAN
      /\ Cardinality(found.reads) <= limit
      /\ Cardinality(found.reads) \in Nat
  BY <1>4, QueryBrings
<1>6. \/ after = log
      \/ after = [log EXCEPT !.more = @ \/ known]
      \/ after = [reads |-> log.reads \cup found.reads, more |-> log.more \/ found.more]
  BY Zenon DEF afterQuery
<1> SUFFICES PageOK(n, after)
  OBVIOUS
<1> HIDE DEF found, limit, known, after
<1>7. log.reads \subseteq (1..n) \X LeftRows
  BY <1>1
<1>8. CASE after = log
  BY <1>1, <1>7, <1>8 DEF PageOK
<1>9. CASE after = [log EXCEPT !.more = @ \/ known]
  <2>1. after = [reads |-> log.reads, more |-> log.more \/ known]
    BY <1>1, <1>9
  <2>2. (log.more \/ known) \in BOOLEAN
    OBVIOUS
  <2> QED
    BY <1>1, <1>7, <2>1, <2>2 DEF PageOK
<1>10. CASE after = [reads |-> log.reads \cup found.reads, more |-> log.more \/ found.more]
  <2>1. log.reads \cup found.reads \subseteq (1..n) \X LeftRows
    BY <1>5, <1>7
  <2>2. (log.more \/ found.more) \in BOOLEAN
    OBVIOUS
  <2>3. IsFiniteSet(found.reads)
    <3>1. found.reads \subseteq (1..(2 * To)) \X LeftRows /\ 2 * To \in 0..(2 * To)
      BY <1>5, PagingAssumption
    <3> QED
      BY <3>1, ReadsInOrder DEF Ordered
  <2>4. log.reads \cap found.reads = {}
    BY <1>1, <1>5
  <2>5. Cardinality(log.reads \cup found.reads) = Cardinality(log.reads) + Cardinality(found.reads)
    <3>1. Cardinality(log.reads \cap found.reads) = 0
      BY <2>4, FS_EmptySet
    <3>2. Cardinality(log.reads \cup found.reads)
             = Cardinality(log.reads) + Cardinality(found.reads) - Cardinality(log.reads \cap found.reads)
      BY <1>3, <2>3, FS_Union
    <3> QED
      BY <1>3, <1>5, <3>1, <3>2
  <2>6. Cardinality(log.reads \cup found.reads) <= LogBudget
    BY <1>3, <1>5, <2>5 DEF limit
  <2> QED
    BY <1>10, <2>1, <2>2, <2>6 DEF PageOK
<1> QED
  BY <1>6, <1>8, <1>9, <1>10

LEMMA PageGrows ==
    ASSUME SourceOK
    PROVE  \A n \in 0..(2 * To) : PageOK(n, logAfter[n])
<1> DEFINE Bad == {n \in 0..(2 * To) : ~ PageOK(n, logAfter[n])}
<1> SUFFICES ASSUME Bad # {} PROVE FALSE
  OBVIOUS
<1>1. PICK n \in Bad : \A y \in Bad : n <= y
  <2>1. Bad \subseteq Nat
    OBVIOUS
  <2> HIDE DEF Bad
  <2> QED
    BY <2>1, LeastOfNaturals
<1>2. n \in 0..(2 * To) /\ 2 * To \in Nat /\ ~ PageOK(n, logAfter[n])
  BY PagingAssumption
<1>3. CASE n = 0
  <2>1. logAfter[0] = [reads |-> {}, more |-> FALSE]
    BY <1>2, <1>3, LogAfterIs
  <2>2. Cardinality({}) <= LogBudget
    BY FS_EmptySet, PagingAssumption
  <2> QED
    BY <1>2, <1>3, <2>1, <2>2 DEF PageOK
<1>4. CASE n # 0
  <2>1. n \in 1..(2 * To) /\ n - 1 \in 0..(2 * To) /\ n - 1 \notin Bad
    <3>1. n \in 1..(2 * To) /\ n - 1 \in 0..(2 * To) /\ ~ (n <= n - 1)
      BY <1>2, <1>4
    <3> QED
      BY <1>1, <3>1
  <2>2. PageOK(n - 1, logAfter[n - 1])
    BY <2>1
  <2>3. logAfter[n] = afterQuery(n, logAfter[n - 1])
    BY <1>2, <1>4, LogAfterIs
  <2> QED
    BY <1>2, <2>1, <2>2, <2>3, QueryKeepsPage
<1> QED
  BY <1>3, <1>4

\* WiFi brings rows of the event log.
LEMMA WifiBrings ==
    ASSUME SourceOK, NEW log
    PROVE  wifiPage(log) \subseteq {1, 2} \X WifiRows
<1>1. \A c, from, to, limit :
         queryIotWifiWindow(c, from, to, limit) \subseteq {c} \X WifiRows
  BY LatestIs DEF queryIotWifiWindow, expandIotEventLogDocument, firstOf, WifiRows
<1> QED
  BY <1>1 DEF wifiPage

LEMMA WifiInOrder ==
    ASSUME SourceOK, NEW W, W \subseteq {1, 2} \X WifiRows
    PROVE  Ordered(W)
<1>1. 1 \in 0..(2 * To) /\ 2 \in 0..(2 * To)
  BY PagingAssumption
<1>2. W \subseteq Reads
  BY <1>1 DEF Reads, AllRows
<1> QED
  BY <1>2, ReadsOrdered

\* A page holds all that its queries of the device log brought, and goes on
\* behind the last row of it.
LEMMA ComposeIs ==
    ASSUME SourceOK, NEW log, PageOK(2 * To, log),
           NEW W, W \subseteq {1, 2} \X WifiRows,
           NEW page, page = composeDeviceLogDrivenPage(log.reads, log.more, W)
    PROVE  /\ page.records \subseteq LeftRows \cup WifiRows
           /\ \A q \in log.reads : q[2] \in page.records
           /\ \A r \in page.records : r \in WifiRows \/ \E q \in log.reads : q[2] = r
           /\ page.hasMore = log.more
           /\ log.reads = {} => page.nextCursor = NoCursor
           /\ log.reads # {} =>
                 /\ \E q \in log.reads : q[2] = page.nextCursor
                 /\ \A q \in log.reads : q[2] = page.nextCursor \/ newestFirst(q[2], page.nextCursor)
<1> DEFINE wifiRows == firstOf(W, WifiBudget)
           budget == LogBudget + WifiBudget - Cardinality(wifiRows)
           logRows == firstOf(log.reads, budget)
<1>1. /\ log.reads \subseteq (1..(2 * To)) \X LeftRows /\ log.more \in BOOLEAN
      /\ Cardinality(log.reads) <= LogBudget
  BY DEF PageOK
<1>2. Ordered(log.reads) /\ Ordered(W)
  <2>1. 2 * To \in 0..(2 * To)
    BY PagingAssumption
  <2> QED
    BY <1>1, <2>1, ReadsInOrder, WifiInOrder
<1>3. LogBudget \in Nat /\ WifiBudget \in Nat
  BY PagingAssumption
<1>4. wifiRows \subseteq W /\ Cardinality(wifiRows) <= WifiBudget /\ Cardinality(wifiRows) \in Nat
  BY <1>2, <1>3, FirstReads, OrderedPart
<1>5. Cardinality(log.reads) \in Nat
  BY <1>2, OrderedPart
<1> HIDE DEF wifiRows
<1>6. budget \in Int /\ Cardinality(log.reads) <= budget
  BY <1>1, <1>3, <1>4, <1>5
<1>7. logRows = log.reads
  BY <1>2, <1>6, FirstReads
<1>8. page = [records    |-> {r[2] : r \in wifiRows \cup log.reads},
              hasMore    |-> log.more \/ Cardinality(log.reads) > budget,
              nextCursor |-> IF log.reads = {} THEN NoCursor ELSE lastOf(log.reads)[2]]
  BY <1>7 DEF composeDeviceLogDrivenPage, wifiRows
<1>9. ~ (Cardinality(log.reads) > budget)
  BY <1>5, <1>6
<1> HIDE DEF budget, logRows
<1>10. page.hasMore = log.more
  BY <1>1, <1>8, <1>9
<1>11. page.records = {r[2] : r \in wifiRows \cup log.reads}
  BY <1>8
<1>12. (\A r \in wifiRows : r[2] \in WifiRows) /\ (\A q \in log.reads : q[2] \in LeftRows)
  BY <1>1, <1>4
<1>13. ASSUME log.reads # {}
       PROVE  /\ \E q \in log.reads : q[2] = page.nextCursor
              /\ \A q \in log.reads : q[2] = page.nextCursor \/ newestFirst(q[2], page.nextCursor)
  <2>1. page.nextCursor = lastOf(log.reads)[2]
    BY <1>8, <1>13
  <2>2. /\ lastOf(log.reads) \in log.reads
        /\ \A q \in log.reads : q = lastOf(log.reads) \/ ahead(q, lastOf(log.reads))
    BY <1>2, <1>13, LastOfReads
  <2> QED
    BY <2>1, <2>2 DEF ahead
<1> QED
  BY <1>8, <1>10, <1>11, <1>12, <1>13

-----------------------------------------------------------------------------
(* Pages advance.                                                            *)

\* What a page is made of: the rows of the log, and WiFi beside them.
PageOf(log, page) ==
    /\ page.records \subseteq LeftRows \cup WifiRows
    /\ \A q \in log.reads : q[2] \in page.records
    /\ \A r \in page.records : r \in WifiRows \/ \E q \in log.reads : q[2] = r
    /\ page.hasMore = log.more
    /\ log.reads = {} => page.nextCursor = NoCursor
    /\ log.reads # {} =>
          /\ \E q \in log.reads : q[2] = page.nextCursor
          /\ \A q \in log.reads : q[2] = page.nextCursor \/ newestFirst(q[2], page.nextCursor)

\* The step, as the proofs use it.
LEMMA FetchIs ==
    ASSUME SourceOK, FetchPage, NEW log, log = logAfter[2 * To]
    PROVE  /\ PageOK(2 * To, log)
           /\ \E page : /\ PageOf(log, page)
                        /\ paging
                        /\ rowsRead' = rowsRead \cup page.records
                        /\ pages' = pages + 1
                        /\ paging' = (page.hasMore /\ page.nextCursor # NoCursor)
                        /\ paging' => cursor' = page.nextCursor
                        /\ ~ paging' => cursor' = cursor
                        /\ docs' = docs /\ wifiLog' = wifiLog /\ collection' = collection
<1>1. PageOK(2 * To, log)
  BY PageGrows, PagingAssumption
<1>2. PICK page : page = composeDeviceLogDrivenPage(log.reads, log.more, wifiPage(log.reads))
  OBVIOUS
<1>3. PageOf(log, page)
  <2>1. wifiPage(log.reads) \subseteq {1, 2} \X WifiRows
    BY WifiBrings
  <2>2. /\ page.records \subseteq LeftRows \cup WifiRows
        /\ \A q \in log.reads : q[2] \in page.records
        /\ \A r \in page.records : r \in WifiRows \/ \E q \in log.reads : q[2] = r
        /\ page.hasMore = log.more
        /\ log.reads = {} => page.nextCursor = NoCursor
        /\ log.reads # {} =>
              /\ \E q \in log.reads : q[2] = page.nextCursor
              /\ \A q \in log.reads : q[2] = page.nextCursor \/ newestFirst(q[2], page.nextCursor)
    BY <1>1, <1>2, <2>1, ComposeIs
  <2> QED
    BY <2>2 DEF PageOf
<1>4. /\ paging
      /\ rowsRead' = rowsRead \cup page.records
      /\ pages' = pages + 1
      /\ paging' = (page.hasMore /\ page.nextCursor # NoCursor)
      /\ paging' => cursor' = page.nextCursor
      /\ ~ paging' => cursor' = cursor
      /\ docs' = docs /\ wifiLog' = wifiLog /\ collection' = collection
  BY <1>2, Zenon DEF FetchPage
<1> QED
  BY <1>1, <1>3, <1>4

\* While the run goes on, each page brought a row of the device log, and the
\* cursor is the last of all such rows so far: what comes is behind it, so new.
AdvanceInv ==
    paging =>
       /\ pages <= Cardinality(rowsRead \cap Rows)
       /\ \A r \in rowsRead \cap Rows :
             cursor # NoCursor /\ (r = cursor \/ newestFirst(r, cursor))

\* AdvanceInv says why PagesAdvance is kept.
PagingInv == PagingTypeOK /\ AdvanceInv /\ PagesAdvance

LEMMA PagingInitInv == PagingInit => PagingInv
<1> SUFFICES ASSUME PagingInit PROVE PagingInv
  OBVIOUS
<1>1. PagingTypeOK
  BY DEF PagingInit, PagingTypeOK
<1>2. rowsRead \cap Rows = {} /\ pages = 0
  BY DEF PagingInit
<1>3. Cardinality(rowsRead \cap Rows) = 0
  BY <1>2, FS_EmptySet
<1> QED
  BY <1>1, <1>2, <1>3 DEF PagingInv, AdvanceInv, PagesAdvance

\* The rows and their order stay as the source is.
LEMMA SourceStays ==
    ASSUME docs' = docs, wifiLog' = wifiLog
    PROVE  Rows' = Rows /\ \A a, b : newestFirst(a, b)' <=> newestFirst(a, b)
<1>1. Rows' = Rows
  BY DEF Rows, rowsOf
<1>2. \A a, b : newestFirst(a, b)' <=> newestFirst(a, b)
  BY DEF newestFirst, timeOf
<1> QED
  BY <1>1, <1>2

LEMMA FetchKeepsTypes ==
    ASSUME PagingTypeOK, FetchPage
    PROVE  PagingTypeOK'
<1>1. SourceOK
  BY DEF PagingTypeOK, SourceOK
<1>2. PICK log, page : /\ PageOK(2 * To, log) /\ PageOf(log, page)
                       /\ rowsRead' = rowsRead \cup page.records
                       /\ pages' = pages + 1
                       /\ paging' = (page.hasMore /\ page.nextCursor # NoCursor)
                       /\ paging' => cursor' = page.nextCursor
                       /\ ~ paging' => cursor' = cursor
                       /\ docs' = docs /\ wifiLog' = wifiLog /\ collection' = collection
  BY <1>1, FetchIs
<1>3. Rows' = Rows
  BY <1>2, SourceStays
<1>4. LeftRows \subseteq Rows
  BY DEF LeftRows
<1>5. page.nextCursor \in Rows \cup {NoCursor}
  BY <1>2, <1>4 DEF PageOf, PageOK
<1>6. page.records \subseteq Rows \cup WifiRows
  BY <1>2, <1>4 DEF PageOf
<1>7. cursor' \in Rows \cup {NoCursor}
  BY <1>2, <1>5 DEF PagingTypeOK
<1>8. rowsRead' \subseteq Rows \cup WifiRows
  BY <1>2, <1>6 DEF PagingTypeOK
<1>9. paging' \in BOOLEAN
  BY <1>2
<1> QED
  BY <1>2, <1>3, <1>7, <1>8, <1>9 DEF PagingTypeOK, WifiRows

LEMMA FetchAdvances ==
    ASSUME PagingInv, FetchPage
    PROVE  AdvanceInv' /\ PagesAdvance'
<1>1. SourceOK /\ PagingTypeOK /\ AdvanceInv
  BY DEF PagingInv, PagingTypeOK, SourceOK
<1>2. PICK log, page : /\ PageOK(2 * To, log) /\ PageOf(log, page)
                       /\ paging
                       /\ rowsRead' = rowsRead \cup page.records
                       /\ pages' = pages + 1
                       /\ paging' = (page.hasMore /\ page.nextCursor # NoCursor)
                       /\ paging' => cursor' = page.nextCursor
                       /\ docs' = docs /\ wifiLog' = wifiLog
  BY <1>1, FetchIs
<1>3. Rows' = Rows /\ \A a, b : newestFirst(a, b)' <=> newestFirst(a, b)
  BY <1>2, SourceStays
<1> DEFINE earlier == rowsRead \cap Rows
           byNow == rowsRead' \cap Rows
<1>4. earlier \subseteq byNow /\ IsFiniteSet(byNow)
  BY <1>1, <1>2, RowsFinite, FS_Intersection
<1>5. /\ IsFiniteSet(earlier) /\ Cardinality(earlier) \in Nat /\ Cardinality(byNow) \in Nat
      /\ Cardinality(earlier) <= Cardinality(byNow)
      /\ Cardinality(earlier) = Cardinality(byNow) => earlier = byNow
  BY <1>4, FS_Subset, FS_CardinalityType
<1>6. pages \in Nat /\ pages <= Cardinality(earlier)
  BY <1>1, <1>2 DEF PagingTypeOK, AdvanceInv
<1>7. ASSUME paging'
      PROVE  /\ page.nextCursor \in byNow /\ page.nextCursor \notin earlier
             /\ page.nextCursor # NoCursor
             /\ \A r \in byNow : r = page.nextCursor \/ newestFirst(r, page.nextCursor)
  <2> DEFINE next == page.nextCursor
  <2>1. log.reads # {} /\ next # NoCursor
    BY <1>2, <1>7 DEF PageOf
  <2>2. /\ \E q \in log.reads : q[2] = next
        /\ \A q \in log.reads : q[2] = next \/ newestFirst(q[2], next)
    BY <1>2, <2>1 DEF PageOf
  <2>3. \A q \in log.reads : q[2] \in LeftRows
    BY <1>2 DEF PageOK
  <2>4. next \in LeftRows /\ next \in Rows /\ next \in rowsRead'
    BY <1>2, <2>2, <2>3 DEF PageOf, LeftRows
  <2>5. \A r \in earlier : cursor # NoCursor /\ (r = cursor \/ newestFirst(r, cursor))
    BY <1>1, <1>2 DEF AdvanceInv
  <2>6. ASSUME NEW r \in earlier PROVE newestFirst(r, next) /\ r # next
    <3>1. newestFirst(cursor, next) /\ cursor \in AllRows
      BY <1>1, <2>4, <2>5, <2>6 DEF LeftRows, isAfterSourceCursor, PagingTypeOK, AllRows
    <3>2. newestFirst(r, next)
      BY <1>1, <2>4, <2>5, <2>6, <3>1, NewestOrder DEF AllRows
    <3>3. ~ newestFirst(next, next)
      BY <1>1, <2>4, NewestOrder DEF AllRows
    <3> QED
      BY <3>2, <3>3
  <2>7. ASSUME NEW r \in byNow, r \notin earlier PROVE r = next \/ newestFirst(r, next)
    <3>1. r \in page.records /\ r \notin WifiRows
      BY <1>1, <1>2, <2>7, RowsApart
    <3> QED
      BY <1>2, <2>2, <3>1 DEF PageOf
  <2> QED
    BY <2>1, <2>4, <2>6, <2>7
<1>8. ASSUME paging' PROVE pages' <= Cardinality(byNow)
  <2>1. Cardinality(earlier) # Cardinality(byNow)
    BY <1>5, <1>7, <1>8
  <2> HIDE DEF earlier, byNow
  <2> QED
    BY <1>2, <1>5, <1>6, <2>1
<1>9. AdvanceInv'
  <2>1. (rowsRead \cap Rows)' = byNow
    BY <1>3
  <2>2. ASSUME paging' PROVE \A r \in byNow : cursor' # NoCursor /\ (r = cursor' \/ newestFirst(r, cursor'))
    BY <1>2, <1>7, <2>2
  <2>3. NoCursor' = NoCursor
    BY DEF NoCursor
  <2> HIDE DEF byNow
  <2> SUFFICES ASSUME paging'
               PROVE  /\ pages' <= Cardinality(byNow)
                      /\ \A r \in byNow : cursor' # NoCursor /\ (r = cursor' \/ newestFirst(r, cursor)')
    BY <2>1, <2>3 DEF AdvanceInv
  <2>4. cursor' = page.nextCursor
    BY <1>2
  <2>5. \A r \in byNow : newestFirst(r, cursor') => newestFirst(r, cursor)'
    BY <1>2 DEF newestFirst, timeOf
  <2> QED
    BY <1>8, <2>2, <2>5
<1>10. PagesAdvance'
  <2>1. (rowsRead \cap Rows)' = byNow
    BY <1>3
  <2>2. pages' <= Cardinality(byNow) + 1
    <3> HIDE DEF earlier, byNow
    <3> QED
      BY <1>2, <1>5, <1>6
  <2> HIDE DEF byNow
  <2> QED
    BY <2>1, <2>2 DEF PagesAdvance
<1> QED
  BY <1>9, <1>10

LEMMA PagingStep == PagingInv /\ [PagingNext]_pagingVars => PagingInv'
<1> SUFFICES ASSUME PagingInv, [PagingNext]_pagingVars PROVE PagingInv'
  OBVIOUS
<1>1. CASE FetchPage
  BY <1>1, FetchKeepsTypes, FetchAdvances DEF PagingInv
<1>2. CASE UNCHANGED pagingVars
  BY <1>2 DEF PagingInv, AdvanceInv, PagesAdvance, PagingTypeOK, pagingVars, Rows, rowsOf,
              WifiRows, newestFirst, timeOf, NoCursor
<1> QED
  BY <1>1, <1>2 DEF PagingNext

\* Every page but the last brings a row of the device log that no page before
\* had, for any source, any shards and any budgets.
THEOREM PagingAdvances == PagingSpec => []PagesAdvance
<1>1. PagingInv => PagesAdvance
  BY DEF PagingInv
<1> QED
  BY <1>1, PagingInitInv, PagingStep, PTL DEF PagingSpec

\* The types of the paging.
THEOREM PagingTypes == PagingSpec => []PagingTypeOK
<1>1. PagingInv => PagingTypeOK
  BY DEF PagingInv
<1> QED
  BY <1>1, PagingInitInv, PagingStep, PTL DEF PagingSpec

-----------------------------------------------------------------------------
(* Pages are complete.                                                       *)

CursorOK == cursor \in Rows \cup {NoCursor}

\* Where the shards of a page begin.
LEMMA UpperEndOfPage ==
    ASSUME SourceOK, CursorOK
    PROVE  effectiveTo \in 1..To /\ \A r \in LeftRows : timeOf(r) <= effectiveTo
<1>1. CASE cursor = NoCursor
  BY <1>1, RowIs, PagingAssumption DEF effectiveTo, LeftRows
<1>2. CASE cursor # NoCursor
  <2>1. cursor \in Rows /\ timeOf(cursor) \in 1..To /\ effectiveTo = timeOf(cursor)
    BY <1>2, RowIs DEF CursorOK, effectiveTo
  <2>2. ASSUME NEW r \in LeftRows PROVE timeOf(r) <= effectiveTo
    <3>1. newestFirst(cursor, r) /\ timeOf(r) \in 1..To
      BY <1>2, RowIs DEF LeftRows, isAfterSourceCursor
    <3> QED
      BY <2>1, <3>1, PagingAssumption DEF newestFirst
  <2> QED
    BY <2>1, <2>2
<1> QED
  BY <1>1, <1>2

LEMMA LowerEndIs ==
    ASSUME SourceOK, CursorOK, NEW w \in 1..To
    PROVE  /\ lowerEnd(w) \in Nat /\ lowerEnd(w) <= effectiveTo
           /\ w = To => lowerEnd(w) = 1
           /\ lowerEnd(w) > 1 => lowerEnd(w) = upperEnd(w + 1)
<1>1. effectiveTo \in 1..To /\ To \in Nat /\ Shard \in Nat \ {0} /\ w \in Nat \ {0}
  BY UpperEndOfPage, PagingAssumption
<1>2. w * Shard \in Nat /\ w * Shard >= w
  BY <1>1
<1>3. (w + 1) - 1 = w
  BY <1>1
<1> HIDE DEF effectiveTo
<1> QED
  BY <1>1, <1>2, <1>3 DEF lowerEnd, upperEnd

\* Each row that is left, above the lower end of the window, is in a shard,
\* and the shards before it are above the row.
LEMMA ShardOfRow ==
    ASSUME SourceOK, CursorOK, NEW r \in LeftRows, timeOf(r) > 1
    PROVE  \E w \in shardTimeRange :
              /\ lowerEnd(w) <= timeOf(r) /\ timeOf(r) <= upperEnd(w)
              /\ \A v \in 1..(w - 1) : lowerEnd(v) > timeOf(r)
<1> DEFINE t == timeOf(r)
           reaching == {w \in 1..To : lowerEnd(w) <= t}
<1>1. /\ To \in 1..To /\ t \in 1..To /\ t > 1 /\ t <= effectiveTo /\ effectiveTo \in 1..To
  BY RowIs, UpperEndOfPage, PagingAssumption DEF LeftRows
<1>2. PICK w \in reaching : \A v \in reaching : w <= v
  <2>1. To \in reaching
    BY <1>1, LowerEndIs
  <2>2. reaching \subseteq Nat
    OBVIOUS
  <2> HIDE DEF reaching
  <2> QED
    BY <2>1, <2>2, LeastOfNaturals
<1>3. w \in 1..To /\ lowerEnd(w) <= t /\ To \in Nat
  BY <1>1, <1>2
<1>4. ASSUME NEW v \in 1..(w - 1) PROVE lowerEnd(v) > t
  <2>1. v \in 1..To /\ ~ (w <= v)
    BY <1>3
  <2>2. v \notin reaching
    BY <1>2, <2>1
  <2>3. ~ (lowerEnd(v) <= t) /\ lowerEnd(v) \in Nat
    BY <2>1, <2>2, LowerEndIs
  <2> QED
    BY <1>1, <2>3
<1>5. t <= upperEnd(w) /\ upperEnd(w) > 1
  <2>1. CASE w = 1
    <3>1. upperEnd(w) = effectiveTo
      <4>1. (1 - 1) * Shard = 0 /\ effectiveTo - 0 = effectiveTo
        BY <1>1, PagingAssumption
      <4> QED
        BY <2>1, <4>1 DEF upperEnd
    <3> QED
      BY <1>1, <3>1
  <2>2. CASE w # 1
    <3>1. w - 1 \in 1..To /\ (w - 1) + 1 = w /\ w - 1 \in 1..(w - 1)
      BY <1>3, <2>2
    <3>2. lowerEnd(w - 1) > t /\ lowerEnd(w - 1) \in Nat
      BY <1>4, <3>1, LowerEndIs
    <3>3. lowerEnd(w - 1) > 1
      BY <1>1, <3>2
    <3>4. lowerEnd(w - 1) = upperEnd(w)
      BY <3>1, <3>3, LowerEndIs
    <3> QED
      BY <1>1, <3>2, <3>3, <3>4
  <2> QED
    BY <2>1, <2>2
<1>6. w \in shardTimeRange
  BY <1>3, <1>5 DEF shardTimeRange, upperEnd
<1> QED
  BY <1>3, <1>4, <1>5, <1>6

\* A query brings nothing from below its shard.
LEMMA QueryIsAbove ==
    ASSUME SourceOK, CursorOK, NEW n, NEW c, NEW limit, NEW w \in 1..To,
           NEW q \in queryWindow(n, c, lowerEnd(w), upperEnd(w), limit).reads
    PROVE  q[2] \in Rows /\ timeOf(q[2]) >= lowerEnd(w)
<1> DEFINE matched == deviceLogFilter(c, lowerEnd(w), upperEnd(w))
           latest == latestPerDevice(matched, docs)
           left == {r \in UNION {rowsOf(d) : d \in latest} : isAfterSourceCursor(r)}
<1>1. q \in firstOf({n} \X left, limit)
  BY DEF queryWindow
<1>2. q[2] \in left
  BY <1>1 DEF firstOf
<1>3. PICK d \in latest : q[2] \in rowsOf(d)
  BY <1>2
<1>4. d \in Docs /\ d \in matched
  BY LatestIs, <1>3 DEF deviceLogFilter
<1>5. q[2] \in Rows /\ q[2][1] = d
  BY <1>3, <1>4 DEF Rows, rowsOf
<1>6. timeOf(q[2]) = docs[d].time /\ docs[d].time \in 1..To
  BY <1>4, <1>5, RowIs
<1>7. docs[d].time >= lowerEnd(w) \/ docs[d].time = effectiveTo
  BY <1>4, <1>6, LowerEndIs, PagingAssumption DEF deviceLogFilter, effectiveTo
<1> QED
  BY <1>5, <1>6, <1>7, LowerEndIs, UpperEndOfPage, PagingAssumption

\* The document of a row that is left matches in the row's shard, and stays
\* below the limit of its device: the query finds the row.
LEMMA QueryFindsRow ==
    ASSUME SourceOK, CursorOK, NEW r \in LeftRows, withinLimits(r[1]),
           NEW w \in 1..To, lowerEnd(w) <= timeOf(r), timeOf(r) <= upperEnd(w),
           NEW limit \in Int,
           NEW found, found = queryWindow(w, 1, lowerEnd(w), upperEnd(w), limit)
    PROVE  \/ <<w, r>> \in found.reads
           \/ /\ found.more
              /\ Cardinality(found.reads) >= limit
              /\ \A q \in found.reads : newestFirst(q[2], r)
<1> DEFINE d == r[1]
           matched == deviceLogFilter(1, lowerEnd(w), upperEnd(w))
           latest == latestPerDevice(matched, docs)
           left == {x \in UNION {rowsOf(e) : e \in latest} : isAfterSourceCursor(x)}
           S == {w} \X left
<1>1. /\ d \in Docs /\ d \in Nat /\ r[2] \in Nat /\ r \in rowsOf(d) /\ timeOf(r) = docs[d].time
      /\ docs[d].time \in 1..To /\ isAfterSourceCursor(r) /\ r \in Rows
  BY RowIs DEF LeftRows
<1>2. collection[docs[d].device] = 1
  BY DEF withinLimits
<1>3. d \in matched
  <2>1. CASE cursor = NoCursor
    BY <1>1, <1>2, <2>1 DEF deviceLogFilter
  <2>2. CASE cursor # NoCursor
    <3>1. newestFirst(cursor, r) /\ cursor[1] \in Nat /\ timeOf(cursor) \in 1..To
      BY <1>1, <2>2, RowIs DEF isAfterSourceCursor, CursorOK
    <3>2. \/ docs[d].time < timeOf(cursor)
          \/ docs[d].time = timeOf(cursor) /\ d >= cursor[1]
      BY <1>1, <3>1, PagingAssumption DEF newestFirst
    <3> QED
      BY <1>1, <1>2, <2>2, <3>2 DEF deviceLogFilter
  <2> QED
    BY <2>1, <2>2
<1>4. d \in latest
  <2> DEFINE newer == {e \in matched : /\ docs[e].device = docs[d].device
                                       /\ \/ docs[e].time > docs[d].time
                                          \/ docs[e].time = docs[d].time /\ e < d}
             own == {e \in Docs : docs[e].device = docs[d].device}
  <2>1. newer \subseteq own /\ d \in own /\ d \notin newer
    BY <1>1, PagingAssumption DEF deviceLogFilter
  <2>2. IsFiniteSet(own) /\ Cardinality(own) \in Nat
    BY FS_Subset, FS_CardinalityType, PagingAssumption
  <2>3. IsFiniteSet(newer) /\ Cardinality(newer) \in Nat /\ Cardinality(newer) <= Cardinality(own)
        /\ Cardinality(newer) # Cardinality(own)
    BY <2>1, <2>2, FS_Subset, FS_CardinalityType
  <2>4. Cardinality(own) <= DeviceLimit
    BY DEF withinLimits
  <2>5. Cardinality(newer) < DeviceLimit
    <3> HIDE DEF newer, own
    <3> QED
      BY <2>2, <2>3, <2>4, PagingAssumption
  <2> QED
    BY <1>3, <2>5 DEF latestPerDevice
<1>5. r \in left
  BY <1>1, <1>4
<1>6. found = [reads |-> firstOf(S, limit), more |-> latest # matched \/ Cardinality(S) > limit]
  BY DEF queryWindow
<1>7. Ordered(S)
  <2>1. left \subseteq LeftRows
    BY LatestIs DEF deviceLogFilter, LeftRows, Rows
  <2>2. S \subseteq (1..To) \X LeftRows /\ To \in 0..(2 * To)
    BY <2>1, PagingAssumption
  <2> QED
    BY <2>1, <2>2, ReadsInOrder
<1>8. <<w, r>> \in S /\ \A q \in S : q[1] = w
  BY <1>5
<1> HIDE DEF S, left, latest, matched
<1>9. CASE <<w, r>> \notin firstOf(S, limit)
  <2>1. /\ \A q \in firstOf(S, limit) : ahead(q, <<w, r>>)
        /\ Cardinality(firstOf(S, limit)) >= limit
        /\ Cardinality(S) > limit
    BY <1>7, <1>8, <1>9, BehindFirstReads
  <2>2. ASSUME NEW q \in firstOf(S, limit) PROVE newestFirst(q[2], r)
    <3>1. q[1] = w /\ ahead(q, <<w, r>>)
      BY <1>8, <2>1, <2>2 DEF firstOf
    <3> QED
      BY <3>1 DEF ahead
  <2>3. latest # matched \/ Cardinality(S) > limit
    BY <2>1
  <2>4. found.reads = firstOf(S, limit)
    BY <1>6
  <2>5. found.more
    <3>1. found.more = (latest # matched \/ Cardinality(S) > limit)
      BY <1>6
    <3>2. (latest # matched \/ Cardinality(S) > limit) = TRUE
      BY <2>3
    <3> QED
      BY <3>1, <3>2
  <2> QED
    BY <2>1, <2>2, <2>4, <2>5
<1> QED
  BY <1>6, <1>9

\* The row is on the page, or the page is full of rows before it and says so.
Fetched(log, r) == \E q \in log.reads : q[2] = r

Above(log, r) == \A q \in log.reads : newestFirst(q[2], r)

LeftBehind(log, r) ==
    log.more /\ Cardinality(log.reads) >= LogBudget /\ Above(log, r)

\* What is settled about a row stays so through the other queries.
LEMMA SettledStays ==
    ASSUME SourceOK, NEW n \in 1..(2 * To), NEW log, PageOK(n - 1, log), NEW r,
           Fetched(log, r) \/ LeftBehind(log, r)
    PROVE  Fetched(afterQuery(n, log), r) \/ LeftBehind(afterQuery(n, log), r)
<1> DEFINE w == IF n <= To THEN n ELSE n - To
           c == IF n <= To THEN 1 ELSE 2
           found == queryWindow(n, c, lowerEnd(w), upperEnd(w), LogBudget - Cardinality(log.reads))
           known == \E x \in LogDevices : collection[x] = c
           after == afterQuery(n, log)
<1>1. \/ after = log
      \/ after = [log EXCEPT !.more = @ \/ known]
      \/ /\ ~ (Cardinality(log.reads) >= LogBudget)
         /\ after = [reads |-> log.reads \cup found.reads, more |-> log.more \/ found.more]
  BY Zenon DEF afterQuery
<1> SUFFICES Fetched(after, r) \/ LeftBehind(after, r)
  OBVIOUS
<1> HIDE DEF found, known, after
<1>2. log = [reads |-> log.reads, more |-> log.more] /\ log.more \in BOOLEAN
  BY DEF PageOK
<1>3. CASE after = log
  BY <1>3
<1>4. CASE after = [log EXCEPT !.more = @ \/ known]
  <2>1. after = [reads |-> log.reads, more |-> log.more \/ known]
    BY <1>2, <1>4
  <2>2. after.reads = log.reads /\ (log.more => after.more)
    BY <2>1
  <2> QED
    BY <2>2 DEF Fetched, LeftBehind, Above
<1>5. CASE /\ ~ (Cardinality(log.reads) >= LogBudget)
           /\ after = [reads |-> log.reads \cup found.reads, more |-> log.more \/ found.more]
  <2>1. Fetched(log, r) /\ log.reads \subseteq after.reads
    BY <1>5 DEF LeftBehind
  <2> QED
    BY <2>1 DEF Fetched
<1> QED
  BY <1>1, <1>3, <1>4, <1>5

\* Queries of shards above the row bring rows above it.
LEMMA AboveStays ==
    ASSUME SourceOK, CursorOK, NEW r \in LeftRows, NEW n \in 1..To,
           lowerEnd(n) > timeOf(r), NEW log, PageOK(n - 1, log), Above(log, r)
    PROVE  Above(afterQuery(n, log), r)
<1> DEFINE found == queryWindow(n, 1, lowerEnd(n), upperEnd(n), LogBudget - Cardinality(log.reads))
           known == \E x \in LogDevices : collection[x] = 1
           after == afterQuery(n, log)
<1>1. n <= To
  OBVIOUS
<1>2. \/ after = log
      \/ after = [log EXCEPT !.more = @ \/ known]
      \/ after = [reads |-> log.reads \cup found.reads, more |-> log.more \/ found.more]
  BY <1>1, Zenon DEF afterQuery
<1>3. ASSUME NEW q \in found.reads PROVE newestFirst(q[2], r)
  <2>1. q[2] \in Rows /\ timeOf(q[2]) >= lowerEnd(n)
    BY <1>3, QueryIsAbove
  <2>2. timeOf(q[2]) \in 1..To /\ timeOf(r) \in 1..To /\ lowerEnd(n) \in Nat /\ To \in Nat
    BY <2>1, RowIs, LowerEndIs, PagingAssumption DEF LeftRows
  <2> QED
    BY <2>1, <2>2 DEF newestFirst
<1>4. log = [reads |-> log.reads, more |-> log.more]
  BY DEF PageOK
<1> SUFFICES Above(after, r)
  OBVIOUS
<1> HIDE DEF found, known, after
<1>5. after.reads \subseteq log.reads \cup found.reads
  BY <1>2, <1>4
<1> QED
  BY <1>3, <1>5 DEF Above

\* The query of its own shard settles it.
LEMMA ShardSettlesRow ==
    ASSUME SourceOK, CursorOK, NEW r \in LeftRows, withinLimits(r[1]),
           NEW n \in shardTimeRange, lowerEnd(n) <= timeOf(r), timeOf(r) <= upperEnd(n),
           NEW log, PageOK(n - 1, log), Above(log, r)
    PROVE  Fetched(afterQuery(n, log), r) \/ LeftBehind(afterQuery(n, log), r)
<1> DEFINE limit == LogBudget - Cardinality(log.reads)
           found == queryWindow(n, 1, lowerEnd(n), upperEnd(n), limit)
           known == \E x \in LogDevices : collection[x] = 1
           after == afterQuery(n, log)
<1>1. n \in 1..To /\ n <= To /\ n - 1 \in 0..(2 * To) /\ n \in 1..(2 * To)
      /\ 2 * To \in 0..(2 * To)
  BY PagingAssumption DEF shardTimeRange
<1>2. /\ Cardinality(log.reads) >= LogBudget => after = [log EXCEPT !.more = @ \/ known]
      /\ ~ (Cardinality(log.reads) >= LogBudget) =>
            after = [reads |-> log.reads \cup found.reads, more |-> log.more \/ found.more]
  BY <1>1, Zenon DEF afterQuery
<1>3. known
  <2>1. r[1] \in Docs /\ docs[r[1]].device \in LogDevices
    BY RowIs DEF LeftRows
  <2> QED
    BY <2>1 DEF withinLimits
<1>4. /\ log = [reads |-> log.reads, more |-> log.more]
      /\ log.reads \subseteq (1..(n - 1)) \X LeftRows /\ log.more \in BOOLEAN
  BY DEF PageOK
<1>5. /\ IsFiniteSet(log.reads) /\ Cardinality(log.reads) \in Nat
      /\ LogBudget \in Nat /\ limit \in Int
  <2>1. IsFiniteSet(log.reads) /\ Cardinality(log.reads) \in Nat
    BY <1>1, <1>4, ReadsInOrder, OrderedPart
  <2> QED
    BY <2>1, PagingAssumption
<1>6. \/ <<n, r>> \in found.reads
      \/ /\ found.more
         /\ Cardinality(found.reads) >= limit
         /\ \A q \in found.reads : newestFirst(q[2], r)
  BY <1>1, <1>5, QueryFindsRow
<1>7. found.reads \subseteq {n} \X LeftRows /\ Cardinality(found.reads) \in Nat
  BY <1>1, <1>5, QueryBrings
<1> SUFFICES Fetched(after, r) \/ LeftBehind(after, r)
  OBVIOUS
<1> HIDE DEF found, known, after
<1>8. CASE Cardinality(log.reads) >= LogBudget
  <2>1. after = [reads |-> log.reads, more |-> log.more \/ known]
    BY <1>2, <1>4, <1>8
  <2>2. after.reads = log.reads /\ after.more
    BY <1>3, <2>1
  <2> QED
    BY <1>8, <2>2 DEF LeftBehind, Above
<1>9. CASE ~ (Cardinality(log.reads) >= LogBudget)
  <2>1. after = [reads |-> log.reads \cup found.reads, more |-> log.more \/ found.more]
    BY <1>2, <1>9
  <2>2. CASE <<n, r>> \in found.reads
    BY <2>1, <2>2 DEF Fetched
  <2>3. CASE /\ found.more
             /\ Cardinality(found.reads) >= limit
             /\ \A q \in found.reads : newestFirst(q[2], r)
    <3>1. after.reads = log.reads \cup found.reads /\ after.more
      BY <2>1, <2>3
    <3>2. Above(after, r)
      BY <2>3, <3>1 DEF Above
    <3>3. IsFiniteSet(found.reads)
      <4>1. found.reads \subseteq (1..(2 * To)) \X LeftRows
        BY <1>1, <1>7
      <4> QED
        BY <1>1, <4>1, ReadsInOrder DEF Ordered
    <3>4. log.reads \cap found.reads = {}
      BY <1>1, <1>4, <1>7
    <3>5. Cardinality(log.reads \cap found.reads) = 0
      BY <3>4, FS_EmptySet
    <3>6. Cardinality(log.reads \cup found.reads)
             = Cardinality(log.reads) + Cardinality(found.reads) - Cardinality(log.reads \cap found.reads)
      BY <1>5, <3>3, FS_Union
    <3>7. Cardinality(after.reads) >= LogBudget
      BY <1>5, <1>7, <2>3, <3>1, <3>5, <3>6
    <3> QED
      BY <3>1, <3>2, <3>7 DEF LeftBehind
  <2> QED
    BY <1>6, <2>2, <2>3
<1> QED
  BY <1>8, <1>9

\* So the last query leaves every row that is left on the page or behind it.
LEMMA PageSettlesRow ==
    ASSUME SourceOK, CursorOK, NEW r \in LeftRows, withinLimits(r[1])
    PROVE  Fetched(logAfter[2 * To], r) \/ LeftBehind(logAfter[2 * To], r)
<1>1. timeOf(r) > 1
  BY RowIs DEF LeftRows, withinLimits
<1>2. PICK w \in shardTimeRange : /\ lowerEnd(w) <= timeOf(r) /\ timeOf(r) <= upperEnd(w)
                                  /\ \A v \in 1..(w - 1) : lowerEnd(v) > timeOf(r)
  BY <1>1, ShardOfRow
<1>3. w \in 1..To /\ w \in 1..(2 * To) /\ To \in Nat /\ 2 * To \in 0..(2 * To)
  BY PagingAssumption DEF shardTimeRange
<1> DEFINE Good(n) == IF n < w THEN Above(logAfter[n], r)
                      ELSE Fetched(logAfter[n], r) \/ LeftBehind(logAfter[n], r)
           Bad == {n \in 0..(2 * To) : ~ Good(n)}
<1>4. Bad = {}
  <2> SUFFICES ASSUME Bad # {} PROVE FALSE
    OBVIOUS
  <2>1. PICK n \in Bad : \A y \in Bad : n <= y
    <3>1. Bad \subseteq Nat
      OBVIOUS
    <3> HIDE DEF Bad
    <3> QED
      BY <3>1, LeastOfNaturals
  <2>2. n \in 0..(2 * To) /\ n \in Nat /\ ~ Good(n)
    OBVIOUS
  <2>3. n # 0
    <3>1. logAfter[0] = [reads |-> {}, more |-> FALSE]
      BY <1>3, LogAfterIs
    <3>2. Above(logAfter[0], r) /\ 0 < w
      BY <1>3, <3>1 DEF Above
    <3> QED
      BY <2>2, <3>2
  <2>4. n \in 1..(2 * To) /\ n - 1 \in 0..(2 * To) /\ Good(n - 1)
    <3>1. n \in 1..(2 * To) /\ n - 1 \in 0..(2 * To) /\ ~ (n <= n - 1)
      <4>1. n \in 0..(2 * To) /\ n \in Nat
        BY <2>2
      <4> HIDE DEF Good, Bad
      <4> QED
        BY <1>3, <2>3, <4>1
    <3>2. n - 1 \notin Bad
      BY <2>1, <3>1
    <3> QED
      BY <3>1, <3>2
  <2>5. PageOK(n - 1, logAfter[n - 1]) /\ logAfter[n] = afterQuery(n, logAfter[n - 1])
    BY <2>3, <2>4, PageGrows, LogAfterIs
  <2>6. CASE n < w
    <3>1. Above(logAfter[n - 1], r) /\ n \in 1..To /\ lowerEnd(n) > timeOf(r)
      BY <1>2, <1>3, <2>4, <2>6
    <3>2. Above(logAfter[n], r)
      BY <2>5, <3>1, AboveStays
    <3> QED
      BY <2>2, <2>6, <3>2
  <2>7. CASE n = w
    <3>1. Above(logAfter[n - 1], r)
      BY <1>3, <2>4, <2>7
    <3>2. Fetched(logAfter[n], r) \/ LeftBehind(logAfter[n], r)
      BY <1>2, <2>5, <2>7, <3>1, ShardSettlesRow
    <3> QED
      BY <1>3, <2>2, <2>7, <3>2
  <2>8. CASE n > w
    <3>1. Fetched(logAfter[n - 1], r) \/ LeftBehind(logAfter[n - 1], r)
      BY <1>3, <2>4, <2>8
    <3>2. Fetched(logAfter[n], r) \/ LeftBehind(logAfter[n], r)
      BY <2>4, <2>5, <3>1, SettledStays
    <3> QED
      BY <1>3, <2>2, <2>8, <3>2
  <2> QED
    BY <1>3, <2>2, <2>6, <2>7, <2>8
<1>5. Good(2 * To)
  BY <1>3, <1>4
<1>6. ~ (2 * To < w)
  BY <1>3
<1> QED
  BY <1>5, <1>6

\* A row of a device within its limit was read, or is left for the next page.
CompleteInv ==
    \A d \in Docs : withinLimits(d) =>
       \A r \in rowsOf(d) : r \in rowsRead \/ (paging /\ isAfterSourceCursor(r))

LEMMA FetchCompletes ==
    ASSUME PagingTypeOK, CompleteInv, FetchPage
    PROVE  CompleteInv'
<1>1. SourceOK /\ CursorOK
  BY DEF PagingTypeOK, SourceOK, CursorOK
<1> DEFINE log == logAfter[2 * To]
<1>2. PICK page : /\ PageOf(log, page)
                  /\ rowsRead' = rowsRead \cup page.records
                  /\ paging' = (page.hasMore /\ page.nextCursor # NoCursor)
                  /\ paging' => cursor' = page.nextCursor
                  /\ docs' = docs /\ wifiLog' = wifiLog /\ collection' = collection
  BY <1>1, FetchIs
<1>3. PageOK(2 * To, log)
  BY <1>1, PageGrows, PagingAssumption
<1> HIDE DEF log
<1>4. \A d : (withinLimits(d)' <=> withinLimits(d)) /\ rowsOf(d)' = rowsOf(d)
  BY <1>2 DEF withinLimits, rowsOf
<1>5. ASSUME NEW d \in Docs, withinLimits(d), NEW r \in rowsOf(d)
      PROVE  r \in rowsRead' \/ (paging' /\ (newestFirst(page.nextCursor, r)) /\ cursor' = page.nextCursor)
  <2>1. CASE r \in rowsRead
    BY <1>2, <2>1
  <2>2. CASE r \notin rowsRead
    <3>1. r \in LeftRows /\ r[1] = d
      BY <1>5, <2>2 DEF CompleteInv, LeftRows, Rows, rowsOf
    <3>2. Fetched(log, r) \/ LeftBehind(log, r)
      BY <1>1, <1>5, <3>1, PageSettlesRow DEF log
    <3>3. CASE Fetched(log, r)
      BY <1>2, <3>3 DEF PageOf, Fetched
    <3>4. CASE LeftBehind(log, r)
      <4>1. log.reads # {}
        BY <3>4, FS_EmptySet, PagingAssumption DEF LeftBehind
      <4>2. PICK q \in log.reads : q[2] = page.nextCursor
        BY <1>2, <4>1 DEF PageOf
      <4>3. newestFirst(page.nextCursor, r)
        BY <3>4, <4>2 DEF LeftBehind, Above
      <4>4. q[2] \in Rows
        BY <1>3 DEF PageOK, LeftRows
      <4>5. page.nextCursor # NoCursor
        BY <1>1, <4>2, <4>4, RowIs
      <4>6. page.hasMore
        BY <1>2, <3>4 DEF PageOf, LeftBehind
      <4> QED
        BY <1>2, <4>3, <4>5, <4>6
    <3> QED
      BY <3>2, <3>3, <3>4
  <2> QED
    BY <2>1, <2>2
<1>6. \A r : newestFirst(page.nextCursor, r) /\ cursor' = page.nextCursor => isAfterSourceCursor(r)'
  BY <1>2 DEF isAfterSourceCursor, newestFirst, timeOf
<1> QED
  BY <1>4, <1>5, <1>6 DEF CompleteInv

LEMMA CompleteInit == PagingInit => CompleteInv
BY DEF PagingInit, CompleteInv, isAfterSourceCursor

LEMMA CompleteStep ==
    PagingInv /\ CompleteInv /\ [PagingNext]_pagingVars => CompleteInv'
<1> SUFFICES ASSUME PagingTypeOK, CompleteInv, [PagingNext]_pagingVars PROVE CompleteInv'
  BY DEF PagingInv
<1>1. CASE FetchPage
  BY <1>1, FetchCompletes
<1>2. CASE UNCHANGED pagingVars
  BY <1>2 DEF CompleteInv, pagingVars, withinLimits, rowsOf, isAfterSourceCursor, newestFirst,
              timeOf, NoCursor
<1> QED
  BY <1>1, <1>2 DEF PagingNext

\* A run that is over has read every row of the devices within the limit,
\* however pages cut documents and shards overlap.
THEOREM PagingCompletes == PagingSpec => []PagesAreComplete
<1>1. CompleteInv => PagesAreComplete
  BY DEF CompleteInv, PagesAreComplete
<1> QED
  BY <1>1, PagingInitInv, PagingStep, CompleteInit, CompleteStep, PTL DEF PagingSpec

\* Between two pages the log of a device within its limit is cut in two: the rows
\* read are those up to the cursor, the rows to come those behind it.
CutAtCursor ==
    paging => \A d \in Docs : withinLimits(d) =>
                 \A r \in rowsOf(d) : r \in rowsRead <=> ~ isAfterSourceCursor(r)

\* Pages are prefixes of the window, as SourceSync takes them, at every page and
\* not only when the run is over.
THEOREM PagesArePrefixes == PagingSpec => []CutAtCursor
<1>1. PagingInv /\ CompleteInv => CutAtCursor
  <2> SUFFICES ASSUME PagingInv, CompleteInv, paging,
                      NEW d \in Docs, withinLimits(d), NEW r \in rowsOf(d)
               PROVE  r \in rowsRead <=> ~ isAfterSourceCursor(r)
    BY DEF CutAtCursor
  <2>1. SourceOK /\ CursorOK
    BY DEF PagingInv, PagingTypeOK, SourceOK, CursorOK
  <2>2. r \in Rows /\ r \in AllRows
    BY DEF Rows, AllRows
  <2>3. ASSUME ~ isAfterSourceCursor(r) PROVE r \in rowsRead
    BY <2>3 DEF CompleteInv
  <2>4. ASSUME r \in rowsRead PROVE ~ isAfterSourceCursor(r)
    <3>1. cursor # NoCursor /\ (r = cursor \/ newestFirst(r, cursor))
      BY <2>2, <2>4 DEF PagingInv, AdvanceInv
    <3>2. cursor \in AllRows
      BY <2>1, <3>1 DEF CursorOK, AllRows
    <3>3. ~ newestFirst(cursor, r)
      BY <2>1, <2>2, <3>1, <3>2, NewestOrder
    <3> QED
      BY <3>1, <3>3 DEF isAfterSourceCursor
  <2> QED
    BY <2>3, <2>4
<1> QED
  BY <1>1, PagingInitInv, PagingStep, CompleteInit, CompleteStep, PTL DEF PagingSpec

-----------------------------------------------------------------------------
(* The operations as a whole.                                                *)

\* A step of the whole is one of a part, and leaves the others alone.
LEMMA StepsOfOperations ==
    ASSUME [OperationsNext]_operationsVars
    PROVE  /\ [RegistryNext]_registryVars
           /\ [WorkerNext]_loopVars
           /\ [MigrationNext]_migrationVars
           /\ [PagingNext]_pagingVars
<1>1. CASE OperationsNext
  BY <1>1, Zenon DEF OperationsNext
<1>2. CASE UNCHANGED operationsVars
  <2>1. UNCHANGED <<registryVars, loopVars, migrationVars, pagingVars>>
    BY <1>2, Zenon DEF operationsVars
  <2> QED
    BY <2>1, Zenon
<1> QED
  BY <1>1, <1>2

\* A worker that does not run, and a source that is not read, are in order.
LEMMA NoWorkerInv == NoWorker => WorkerLoopInv /\ ScriptInv
<1> SUFFICES ASSUME NoWorker PROVE WorkerLoopInv /\ ScriptInv
  OBVIOUS
<1>1. WorkerLoopInv
  BY ZeroCounts DEF NoWorker, WorkerLoopInv, LoopTypeOK, LoopInv, StopEndsWithTheCycle
<1>2. resync = [device |-> 1, attempt |-> 1, settled |-> {}, failed |-> {}]
  BY DEF NoWorker
<1>3. ScriptInv
  BY <1>2, WorkerAssumption DEF ScriptInv, ResyncTypeOK, ResyncInv, ResyncTellsFailures
<1> QED
  BY <1>1, <1>3

LEMMA NoPagingInv == NoPaging => PagingInv
<1> SUFFICES ASSUME NoPaging PROVE PagingInv
  OBVIOUS
<1>1. 1 \in LogDevices /\ 1 \in 1..To /\ 0 \in 0..MaxFields
  BY PagingAssumption
<1>2. SourceOK
  BY <1>1 DEF NoPaging, SourceOK, Sources, EventLogs
<1>3. PagingTypeOK
  BY <1>2 DEF NoPaging, SourceOK, PagingTypeOK
<1>4. Cardinality(rowsRead \cap Rows) \in Nat
  BY <1>2, RowsFinite, FS_Intersection, FS_CardinalityType
<1> QED
  BY <1>3, <1>4 DEF NoPaging, PagingInv, AdvanceInv, PagesAdvance

LEMMA NoPagingComplete == NoPaging => CompleteInv
BY DEF NoPaging, CompleteInv, withinLimits

\* The registry scripts and the migrations begin as they do alone.
LEMMA PartsBegin ==
    OperationsInit => /\ RegistryInit /\ MigrationInit
                      /\ WorkerInit \/ NoWorker
                      /\ PagingInit \/ NoPaging
BY DEF OperationsInit, NoRegistryWork, NoMigration

LEMMA PartsOfOperations == OperationsSpec => RegistrySpec /\ MigrationSpec
BY PartsBegin, StepsOfOperations, PTL DEF OperationsSpec, RegistrySpec, MigrationSpec

\* The worker and the paging keep their invariants, whichever part runs.
OperationsInv ==
    WorkerLoopInv /\ ScriptInv /\ PagingInv /\ CompleteInv

THEOREM OperationsCorrect == OperationsSpec => []OperationsInv
<1>1. OperationsInit => OperationsInv
  BY PartsBegin, LoopInit, ScriptInit, NoWorkerInv, PagingInitInv, NoPagingInv,
     CompleteInit, NoPagingComplete DEF OperationsInv
<1>2. OperationsInv /\ [OperationsNext]_operationsVars => OperationsInv'
  BY StepsOfOperations, LoopStep, ScriptStep, PagingStep, CompleteStep DEF OperationsInv
<1> QED
  BY <1>1, <1>2, PTL DEF OperationsSpec

\* The types of the four parts, in any of their behaviours.
THEOREM OperationsTypes == OperationsSpec => []OperationsTypeOK
<1>1. OperationsInv => WorkerTypeOK /\ PagingTypeOK
  BY DEF OperationsInv, WorkerLoopInv, LoopTypeOK, ScriptInv, ResyncTypeOK, WorkerTypeOK,
         PagingInv
<1>2. RegistryTypeOK /\ WorkerTypeOK /\ MigrationTypeOK /\ PagingTypeOK => OperationsTypeOK
  BY DEF OperationsTypeOK
<1> QED
  BY <1>1, <1>2, OperationsCorrect, PartsOfOperations, RegistryTypes, MigrationTypes, PTL

\* What the run checks of the operations, for any of their parameters.
THEOREM OperationsSafe ==
    OperationsSpec => [](/\ ManualMapKept /\ DropsOnlyUnlisted
                         /\ StopEndsWithTheCycle /\ ResyncTellsFailures
                         /\ MigrationKeepsRows /\ MigrationEndsWell
                         /\ PagesAreComplete /\ PagesAdvance)
<1>1. OperationsInv => /\ StopEndsWithTheCycle /\ ResyncTellsFailures
                       /\ PagesAreComplete /\ PagesAdvance
  BY DEF OperationsInv, WorkerLoopInv, ScriptInv, PagingInv, CompleteInv, PagesAreComplete
<1> QED
  BY <1>1, OperationsCorrect, PartsOfOperations, MapIsKept, PruneIsSafe, RowsAreKept,
     ScriptEndsWell, PTL
=============================================================================
