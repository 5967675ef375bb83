-------------------------- MODULE MigrationsProofs ---------------------------
(* Proofs about Migrations, for any number of writes of a running worker:    *)
(* however often the script dies and is run again, no row gets lost but      *)
(* those written between a copy and a drop; a script that ends well leaves   *)
(* the current schema; and it ends badly only after a death.                 *)
EXTENDS Migrations, TLAPS

-----------------------------------------------------------------------------
(* The invariant.                                                            *)

\* Migrations are recorded in their order, and the one in hand is the next.
OrderInv ==
    \/ recorded = {} /\ script \in {"idle", "failed", "0001"}
    \/ recorded = {"0001"} /\ script \in {"idle", "failed", "0002"}
    \/ recorded = {"0001", "0002"} /\ script \in {"idle", "failed", "0003"}
    \/ recorded = {"0001", "0002", "0003"} /\ script \in {"idle", "failed", "0004"}
    \/ /\ recorded = {"0001", "0002", "0003", "0004"}
       /\ script \in {"idle", "failed", "0005"}
    \/ /\ recorded = {"0001", "0002", "0003", "0004", "0005"}
       /\ script \in {"idle", "failed", "0006"}
    \/ /\ recorded = {"0001", "0002", "0003", "0004", "0005", "0006"}
       /\ script = "done"

\* An index of the new identity is created last: where it is, the rebuild of
\* its table is complete.
IndexInv ==
    /\ "identityIndex" \in schema =>
          /\ {"Telemetry", "sourceNameIndex"} \subseteq schema
          /\ "oldTelemetryUnique" \notin schema /\ "new_Telemetry" \notin schema
    /\ "latestIndex" \in schema =>
          "DeviceLatest" \in schema /\ "oldLatestUnique" \notin schema

\* What a recorded migration has left, and no later one takes away for good.
RecordedInv ==
    /\ "0001" \in recorded => "tables" \in schema
    /\ "0002" \in recorded => "phaseNum" \in schema
    /\ "0003" \in recorded => {"sourceName", "checkpointColumns", "SyncTables"} \subseteq schema
    /\ "0004" \in recorded => "identityIndex" \in schema
    /\ "0005" \in recorded => "latestIndex" \in schema

\* How far the migration in hand has come.  0006 finds what 0004 has done.
StageInv ==
    /\ script = "0001" => step = 0 \/ (step = 1 /\ "tables" \in schema)
    /\ script = "0002" => step = 0 \/ (step = 1 /\ "phaseNum" \in schema)
    /\ script = "0003" =>
          /\ step >= 1 => "sourceName" \in schema
          /\ step >= 2 => "checkpointColumns" \in schema
          /\ step >= 4 => "SyncTables" \in schema
    /\ script = "0004" =>
          /\ step \in 1..4 => "identityIndex" \notin schema
          /\ step = 3 => "Telemetry" \notin schema
          /\ step \in 3..4 => "oldTelemetryUnique" \notin schema
          /\ step = 4 => "Telemetry" \in schema /\ "new_Telemetry" \notin schema
          /\ step = 5 => "identityIndex" \in schema
    /\ script = "0005" =>
          /\ step \in 1..4 => "latestIndex" \notin schema
          /\ step \in 3..4 => "oldLatestUnique" \notin schema
          /\ step = 4 => "DeviceLatest" \in schema
          /\ step = 5 => "latestIndex" \in schema
    /\ script = "0006" => step = 0

audit == auditSchema \cup {"syncErrorIndex"}

\* Before the first death the schema is that of an age, or of the migration in
\* hand on its way to the next one: each statement finds what it needs.
CleanInv ==
    ~ died =>
      /\ script # "failed"
      /\ \/ script \in {"0004", "0005"} /\ step \in 1..4
         \/ schema = {}
         \/ {"tables", "Telemetry", "DeviceLatest"} \subseteq schema
      /\ \/ script = "0003" /\ step \in 1..4
         \/ script = "0004" /\ step \in 3..4
         \/ audit \subseteq schema
         \/ audit \cap schema = {}
      /\ "new_Telemetry" \in schema => script = "0004" /\ step \in 1..3
      /\ "new_DeviceLatest" \in schema => script = "0005" /\ step \in 1..3
      /\ script = "0003" /\ step \in 1..4 =>
            /\ step = 1 => "checkpointColumns" \notin schema
            /\ "sourceNameIndex" \in schema <=> step >= 3
            /\ step <= 3 => "SyncTables" \notin schema
            /\ "syncErrorIndex" \notin schema
      /\ script = "0004" /\ step \in 1..4 =>
            /\ {"tables", "DeviceLatest"} \cup (audit \ {"sourceNameIndex"}) \subseteq schema
            /\ step \in 1..2 => "Telemetry" \in schema
            /\ step \in 1..3 => "new_Telemetry" \in schema
            /\ step \in 3..4 => "sourceNameIndex" \notin schema
      /\ script = "0005" /\ step \in 1..4 =>
            /\ {"tables", "Telemetry"} \subseteq schema
            /\ step \in 1..2 => "DeviceLatest" \in schema
            /\ step \in 1..3 => "new_DeviceLatest" \in schema
            /\ step = 3 => "DeviceLatest" \notin schema

\* The copy has every row, but those written after it.
RowsInv ==
    /\ MigrationKeepsRows
    /\ "new_Telemetry" \notin schema => new = {}
    /\ script = "0004" /\ step = 1 => new = {}
    /\ script = "0004" /\ step \in 2..3 => written \ late \subseteq new

MigrationInv ==
    /\ MigrationTypeOK
    /\ OrderInv
    /\ IndexInv
    /\ RecordedInv
    /\ StageInv
    /\ CleanInv
    /\ RowsInv

-----------------------------------------------------------------------------
(* The statements of the migrations, one by one.                             *)

\* The text of the four migrations that are not a rebuild of Telemetry.
LEMMA Statements ==
    /\ statements("0001") = << Creates({}, initialSchema) >>
    /\ statements("0002") = << Creates({"tables"}, {"phaseNum"}) >>
    /\ statements("0003") = << Creates({"Telemetry"}, {"sourceName"}),
                               Creates({"tables"}, {"checkpointColumns"}),
                               Creates({"sourceName"}, {"sourceNameIndex"}),
                               Creates({}, {"SyncTables"}),
                               Creates({"SyncTables"}, {"syncErrorIndex"}) >>
    /\ statements("0004") = Rebuild("Telemetry", "new_Telemetry",
                    {"oldTelemetryUnique", "identityIndex", "sourceNameIndex"},
                    {"identityIndex", "sourceNameIndex"})
    /\ statements("0005") = Rebuild("DeviceLatest", "new_DeviceLatest",
                                  {"oldLatestUnique", "latestIndex"}, {"latestIndex"})
BY DEF statements

\* How many statements a migration has.
LEMMA Lengths ==
    /\ Len(statements("0001")) = 1
    /\ Len(statements("0002")) = 1
    /\ Len(statements("0003")) = 5
    /\ Len(statements("0004")) = 5
    /\ Len(statements("0005")) = 5
BY Statements DEF Rebuild

\* The statements of 0004 and 0005 one by one.
LEMMA RebuildSteps ==
    /\ LET s == statements("0004")
       IN  /\ s[1] = Creates({}, {"new_Telemetry"})
           /\ s[2] = [op |-> "copy", need |-> {"Telemetry", "new_Telemetry"},
                      add |-> {}, drop |-> {}]
           /\ s[3] = [op |-> "drop", need |-> {"Telemetry"}, add |-> {},
                      drop |-> {"Telemetry", "oldTelemetryUnique", "identityIndex",
                                "sourceNameIndex"}]
           /\ s[4] = [op |-> "rename", need |-> {"new_Telemetry"}, add |-> {"Telemetry"},
                      drop |-> {"new_Telemetry"}]
           /\ s[5] = Creates({"Telemetry"}, {"identityIndex", "sourceNameIndex"})
    /\ LET s == statements("0005")
       IN  /\ s[1] = Creates({}, {"new_DeviceLatest"})
           /\ s[2] = [op |-> "ddl", need |-> {"DeviceLatest", "new_DeviceLatest"},
                      add |-> {}, drop |-> {}]
           /\ s[3] = [op |-> "ddl", need |-> {"DeviceLatest"}, add |-> {},
                      drop |-> {"DeviceLatest", "oldLatestUnique", "latestIndex"}]
           /\ s[4] = [op |-> "ddl", need |-> {"new_DeviceLatest"},
                      add |-> {"DeviceLatest"}, drop |-> {"new_DeviceLatest"}]
           /\ s[5] = Creates({"DeviceLatest"}, {"latestIndex"})
<1> DEFINE identity == {"oldTelemetryUnique", "identityIndex", "sourceNameIndex"}
           latest == {"oldLatestUnique", "latestIndex"}
           r == Rebuild("Telemetry", "new_Telemetry", identity,
                        {"identityIndex", "sourceNameIndex"})
           l == Rebuild("DeviceLatest", "new_DeviceLatest", latest, {"latestIndex"})
<1>1. /\ r[1] = Creates({}, {"new_Telemetry"})
      /\ r[2] = [op |-> "copy", need |-> {"Telemetry", "new_Telemetry"},
                 add |-> {}, drop |-> {}]
      /\ r[3] = [op |-> "drop", need |-> {"Telemetry"}, add |-> {},
                 drop |-> {"Telemetry"} \cup identity]
      /\ r[4] = [op |-> "rename", need |-> {"new_Telemetry"}, add |-> {"Telemetry"},
                 drop |-> {"new_Telemetry"}]
      /\ r[5] = Creates({"Telemetry"}, {"identityIndex", "sourceNameIndex"})
  <2> HIDE DEF identity
  <2> QED
    BY DEF Rebuild
<1>2. /\ l[1] = Creates({}, {"new_DeviceLatest"})
      /\ l[2] = [op |-> "ddl", need |-> {"DeviceLatest", "new_DeviceLatest"},
                 add |-> {}, drop |-> {}]
      /\ l[3] = [op |-> "ddl", need |-> {"DeviceLatest"}, add |-> {},
                 drop |-> {"DeviceLatest"} \cup latest]
      /\ l[4] = [op |-> "ddl", need |-> {"new_DeviceLatest"}, add |-> {"DeviceLatest"},
                 drop |-> {"new_DeviceLatest"}]
      /\ l[5] = Creates({"DeviceLatest"}, {"latestIndex"})
  <2> HIDE DEF latest
  <2> QED
    BY DEF Rebuild
<1>3. /\ {"Telemetry"} \cup identity
            = {"Telemetry", "oldTelemetryUnique", "identityIndex", "sourceNameIndex"}
      /\ {"DeviceLatest"} \cup latest = {"DeviceLatest", "oldLatestUnique", "latestIndex"}
  OBVIOUS
<1>4. statements("0004") = r /\ statements("0005") = l
  BY Statements
<1> HIDE DEF r, l, identity, latest
<1> QED
  BY <1>1, <1>2, <1>3, <1>4

-----------------------------------------------------------------------------
(* The order of the migrations.                                              *)

\* The least of a set of numbers is what CHOOSE finds.
LEMMA LeastChosen ==
    ASSUME NEW S \in SUBSET Nat, NEW k \in S, \A m \in S : k <= m
    PROVE  (CHOOSE n \in S : \A m \in S : n <= m) = k
<1> DEFINE least == CHOOSE n \in S : \A m \in S : n <= m
<1>1. least \in S /\ \A m \in S : least <= m
  OBVIOUS
<1> HIDE DEF least
<1>2. least = k
  BY <1>1
<1> QED
  BY <1>2 DEF least

LEMMA MigrationNames ==
    /\ DOMAIN migrations = 1..6
    /\ migrations[1] = "0001" /\ migrations[2] = "0002" /\ migrations[3] = "0003"
    /\ migrations[4] = "0004" /\ migrations[5] = "0005" /\ migrations[6] = "0006"
BY DEF migrations

LEMMA PendingMigrations ==
    ASSUME OrderInv
    PROVE  /\ recorded = {} => Pending = 1..6
           /\ recorded = {"0001"} => Pending = 2..6
           /\ recorded = {"0001", "0002"} => Pending = 3..6
           /\ recorded = {"0001", "0002", "0003"} => Pending = 4..6
           /\ recorded = {"0001", "0002", "0003", "0004"} => Pending = 5..6
           /\ recorded = {"0001", "0002", "0003", "0004", "0005"} => Pending = 6..6
           /\ recorded = {"0001", "0002", "0003", "0004", "0005", "0006"} => Pending = {}
<1>1. \A n : n \in 1..6 <=> n = 1 \/ n = 2 \/ n = 3 \/ n = 4 \/ n = 5 \/ n = 6
  OBVIOUS
<1> QED
  BY <1>1, MigrationNames DEF Pending

\* The migration that a run takes up first.
LEMMA FirstMigration ==
    ASSUME OrderInv, Pending # {}
    PROVE  /\ recorded = {} => First = "0001"
           /\ recorded = {"0001"} => First = "0002"
           /\ recorded = {"0001", "0002"} => First = "0003"
           /\ recorded = {"0001", "0002", "0003"} => First = "0004"
           /\ recorded = {"0001", "0002", "0003", "0004"} => First = "0005"
           /\ recorded = {"0001", "0002", "0003", "0004", "0005"} => First = "0006"
<1> DEFINE least(S) == CHOOSE n \in S : \A m \in S : n <= m
<1>1. \A k \in 1..6 : least(k..6) = k
  <2> SUFFICES ASSUME NEW k \in 1..6 PROVE least(k..6) = k
    OBVIOUS
  <2>1. k..6 \in SUBSET Nat /\ k \in k..6 /\ \A m \in k..6 : k <= m
    OBVIOUS
  <2> QED
    BY <2>1, LeastChosen
<1>2. First = migrations[least(Pending)]
  BY DEF First
<1> HIDE DEF least
<1> QED
  BY <1>1, <1>2, PendingMigrations, MigrationNames

\* Which migration is in hand tells what is recorded.
LEMMA InHand ==
    ASSUME OrderInv
    PROVE  /\ script = "0001" => recorded = {}
           /\ script = "0002" => recorded = {"0001"}
           /\ script = "0003" => recorded = {"0001", "0002"}
           /\ script = "0004" => recorded = {"0001", "0002", "0003"}
           /\ script = "0005" => recorded = {"0001", "0002", "0003", "0004"}
           /\ script = "0006" => recorded = {"0001", "0002", "0003", "0004", "0005"}
           /\ script \notin {"idle", "failed", "done"} =>
                 script \in {"0001", "0002", "0003", "0004", "0005", "0006"}
BY DEF OrderInv

\* Recording a migration takes up the next one, and after the last one the
\* script is over.
LEMMA RecordStep ==
    ASSUME OrderInv, Record, script \notin {"idle", "failed", "done"}
    PROVE  /\ recorded' = recorded \cup {script}
           /\ step' = 0
           /\ script = "0001" => script' = "0002"
           /\ script = "0002" => script' = "0003"
           /\ script = "0003" => script' = "0004"
           /\ script = "0004" => script' = "0005"
           /\ script = "0005" => script' = "0006"
           /\ script = "0006" =>
                 script' = IF "oldTelemetryUnique" \in schema THEN "failed" ELSE "done"
           /\ UNCHANGED <<schema, old, new, written, late, died>>
<1> DEFINE least(S) == CHOOSE n \in S : \A m \in S : n <= m
           rest == Pending \ {n \in DOMAIN migrations : migrations[n] = script}
<1>1. \A k \in 1..6 : least(k..6) = k
  <2> SUFFICES ASSUME NEW k \in 1..6 PROVE least(k..6) = k
    OBVIOUS
  <2>1. k..6 \in SUBSET Nat /\ k \in k..6 /\ \A m \in k..6 : k <= m
    OBVIOUS
  <2> QED
    BY <2>1, LeastChosen
<1>2. /\ script' = IF rest # {} THEN migrations[least(rest)]
                   ELSE IF "oldTelemetryUnique" \in schema THEN "failed" ELSE "done"
      /\ recorded' = recorded \cup {script} /\ step' = 0
      /\ UNCHANGED <<schema, old, new, written, late, died>>
  BY DEF Record
<1>3. \A k \in 1..6 : script = migrations[k] => rest = (k + 1)..6
  <2> SUFFICES ASSUME NEW k \in 1..6, script = migrations[k]
               PROVE  rest = (k + 1)..6
    OBVIOUS
  <2>1. {n \in DOMAIN migrations : migrations[n] = script} = {k}
    BY MigrationNames
  <2>2. Pending = k..6
    <3>1. k = 1 \/ k = 2 \/ k = 3 \/ k = 4 \/ k = 5 \/ k = 6
      OBVIOUS
    <3>2. script = "0001" => Pending = 1..6
      BY PendingMigrations, InHand
    <3>3. script = "0002" => Pending = 2..6
      BY PendingMigrations, InHand
    <3>4. script = "0003" => Pending = 3..6
      BY PendingMigrations, InHand
    <3>5. script = "0004" => Pending = 4..6
      BY PendingMigrations, InHand
    <3>6. script = "0005" => Pending = 5..6
      BY PendingMigrations, InHand
    <3>7. script = "0006" => Pending = 6..6
      BY PendingMigrations, InHand
    <3> QED
      BY <3>1, <3>2, <3>3, <3>4, <3>5, <3>6, <3>7, MigrationNames
  <2> QED
    BY <2>1, <2>2
<1> HIDE DEF least, rest
<1>4. \A k \in 1..5 : script = migrations[k] => script' = migrations[k + 1]
  <2> SUFFICES ASSUME NEW k \in 1..5, script = migrations[k]
               PROVE  script' = migrations[k + 1]
    OBVIOUS
  <2>1. k \in 1..6 /\ k + 1 \in 1..6 /\ k + 1 \in (k + 1)..6
    OBVIOUS
  <2>2. rest = (k + 1)..6
    BY <1>3, <2>1
  <2> QED
    BY <2>1, <2>2, <1>1, <1>2
<1>5. script = migrations[6] => rest = {}
  BY <1>3
<1> QED
  BY <1>2, <1>4, <1>5, MigrationNames

-----------------------------------------------------------------------------
(* The start.                                                                *)

LEMMA MigrationStarts == MigrationInit => MigrationInv
<1> SUFFICES ASSUME MigrationInit
             PROVE  MigrationInv
  OBVIOUS
<1>1. /\ recorded = {} /\ new = {} /\ script = "idle" /\ step = 0 /\ late = {}
      /\ died = FALSE /\ written = old
      /\ old = {} \/ old = {"before"}
  BY DEF MigrationInit
<1>2. \/ schema = {} \/ schema = initialSchema
      \/ schema = initialSchema \cup {"phaseNum"}
      \/ schema = initialSchema \cup {"phaseNum", "syncErrorIndex"} \cup auditSchema
      \/ schema = fullSchema \cup {"syncErrorIndex"}
  BY DEF MigrationInit, Ages
<1>3. MigrationTypeOK
  <2>1. schema \subseteq initialSchema \cup fullSchema
          \cup {"syncErrorIndex", "new_Telemetry", "new_DeviceLatest"}
    BY <1>2 DEF initialSchema, fullSchema, auditSchema
  <2>2. died \in BOOLEAN
    BY <1>1
  <2>3. /\ old \cup new \cup late \subseteq written
        /\ written \subseteq Batches \cup {"before"}
    BY <1>1
  <2>4. /\ recorded \subseteq {migrations[n] : n \in DOMAIN migrations}
        /\ script \in {"idle", "failed", "done"} \cup {migrations[n] : n \in DOMAIN migrations}
        /\ step \in 0..5
    BY <1>1
  <2> QED
    BY <2>1, <2>2, <2>3, <2>4 DEF MigrationTypeOK
<1>4. OrderInv /\ RecordedInv /\ StageInv
  BY <1>1 DEF OrderInv, RecordedInv, StageInv
<1>5. IndexInv
  BY <1>2 DEF IndexInv, initialSchema, fullSchema, auditSchema
<1>6. CleanInv
  BY <1>1, <1>2 DEF CleanInv, audit, initialSchema, fullSchema, auditSchema
<1>7. RowsInv
  BY <1>1 DEF RowsInv, MigrationKeepsRows
<1> QED
  BY <1>3, <1>4, <1>5, <1>6, <1>7 DEF MigrationInv

-----------------------------------------------------------------------------
(* One statement.                                                            *)

LEMMA StepType == MigrationTypeOK => step \in 0..5
BY DEF MigrationTypeOK

\* What any statement leaves alone, and how it gets on.
LEMMA ExecuteFrame ==
    ASSUME Execute
    PROVE  /\ UNCHANGED <<recorded, written, script, late, died>>
           /\ script \notin {"idle", "failed", "done"}
           /\ step = 0 => ~ matchesMigrationSchema(script)
BY DEF Execute

\* Which statements there are to come.
LEMMA StepsToCome ==
    ASSUME MigrationTypeOK, step < Len(statements(script))
    PROVE  /\ script \in {"0001", "0002"} => step = 0
           /\ script \in {"0003", "0004", "0005"} => step \in 0..4
<1> DEFINE len == Len(statements(script))
<1>1. step \in 0..5
  BY StepType
<1>2. script \in {"0001", "0002"} => len = 1
  BY Lengths
<1>3. script \in {"0003", "0004", "0005"} => len = 5
  BY Lengths
<1>4. step < len
  OBVIOUS
<1> HIDE DEF len
<1> QED
  BY <1>1, <1>2, <1>3, <1>4

LEMMA ExecuteCounts ==
    ASSUME MigrationTypeOK, Execute
    PROVE  /\ step' = step + 1
           /\ script \in {"0001", "0002"} => step = 0
           /\ script \in {"0003", "0004", "0005"} => step \in 0..4
<1>1. step' = step + 1 /\ step < Len(statements(script))
  BY DEF Execute
<1> QED
  BY <1>1, StepsToCome

\* A statement that only creates.
LEMMA ExecuteCreates ==
    ASSUME Execute, NEW need, NEW add, statements(script)[step + 1] = Creates(need, add)
    PROVE  /\ need \subseteq schema /\ add \cap schema = {}
           /\ schema' = schema \cup add
           /\ old' = old /\ new' = new
BY DEF Execute, Creates

\* Any other statement.
LEMMA ExecuteOther ==
    ASSUME Execute, NEW op \in {"ddl", "copy", "drop", "rename"}, NEW need, NEW add, NEW drop,
           statements(script)[step + 1]
              = [op |-> op, need |-> need, add |-> add, drop |-> drop]
    PROVE  /\ need \subseteq schema /\ add \cap schema = {}
           /\ schema' = (schema \ drop) \cup add
           /\ op = "ddl" => old' = old /\ new' = new
           /\ op = "copy" => old' = old /\ new' = old
           /\ op = "drop" => old' = {} /\ new' = new
           /\ op = "rename" => old' = new /\ new' = {}
BY DEF Execute

\* 0001 and 0002 are one statement each.
LEMMA ExecuteFirst ==
    ASSUME MigrationTypeOK, Execute, script \in {"0001", "0002"}
    PROVE  /\ step = 0 /\ step' = 1 /\ old' = old /\ new' = new
           /\ script = "0001" =>
                 initialSchema \cap schema = {} /\ schema' = schema \cup initialSchema
           /\ script = "0002" => "tables" \in schema /\ schema' = schema \cup {"phaseNum"}
<1>1. step = 0 /\ step' = 1
  BY ExecuteCounts
<1>2. CASE script = "0001"
  <2>1. statements(script)[step + 1] = Creates({}, initialSchema)
    BY <1>1, <1>2, Statements
  <2> QED
    BY <1>1, <1>2, <2>1, ExecuteCreates
<1>3. CASE script = "0002"
  <2>1. statements(script)[step + 1] = Creates({"tables"}, {"phaseNum"})
    BY <1>1, <1>3, Statements
  <2> QED
    BY <1>1, <1>3, <2>1, ExecuteCreates
<1> QED
  BY <1>2, <1>3

\* 0003 adds five things one after the other.
LEMMA ExecuteAudit ==
    ASSUME MigrationTypeOK, Execute, script = "0003"
    PROVE  /\ step \in 0..4 /\ step' = step + 1 /\ old' = old /\ new' = new
           /\ step = 0 => /\ "Telemetry" \in schema /\ "sourceName" \notin schema
                          /\ schema' = schema \cup {"sourceName"}
           /\ step = 1 => /\ "tables" \in schema /\ "checkpointColumns" \notin schema
                          /\ schema' = schema \cup {"checkpointColumns"}
           /\ step = 2 => /\ "sourceName" \in schema /\ "sourceNameIndex" \notin schema
                          /\ schema' = schema \cup {"sourceNameIndex"}
           /\ step = 3 => "SyncTables" \notin schema /\ schema' = schema \cup {"SyncTables"}
           /\ step = 4 => /\ "SyncTables" \in schema /\ "syncErrorIndex" \notin schema
                          /\ schema' = schema \cup {"syncErrorIndex"}
<1>1. step \in 0..4 /\ step' = step + 1
  BY ExecuteCounts
<1> DEFINE s == statements(script)[step + 1]
<1>2. /\ step = 0 => s = Creates({"Telemetry"}, {"sourceName"})
      /\ step = 1 => s = Creates({"tables"}, {"checkpointColumns"})
      /\ step = 2 => s = Creates({"sourceName"}, {"sourceNameIndex"})
      /\ step = 3 => s = Creates({}, {"SyncTables"})
      /\ step = 4 => s = Creates({"SyncTables"}, {"syncErrorIndex"})
  BY <1>1, Statements
<1>3. CASE step = 0
  BY <1>1, <1>2, <1>3, ExecuteCreates
<1>4. CASE step = 1
  BY <1>1, <1>2, <1>4, ExecuteCreates
<1>5. CASE step = 2
  BY <1>1, <1>2, <1>5, ExecuteCreates
<1>6. CASE step = 3
  BY <1>1, <1>2, <1>6, ExecuteCreates
<1>7. CASE step = 4
  BY <1>1, <1>2, <1>7, ExecuteCreates
<1> QED
  BY <1>1, <1>3, <1>4, <1>5, <1>6, <1>7

\* 0004 rebuilds Telemetry: a new table, the copy, the drop, the new name, the
\* indexes.
LEMMA ExecuteTelemetry ==
    ASSUME MigrationTypeOK, Execute, script = "0004"
    PROVE  /\ step \in 0..4 /\ step' = step + 1
           /\ step = 0 => /\ "new_Telemetry" \notin schema
                          /\ schema' = schema \cup {"new_Telemetry"}
                          /\ old' = old /\ new' = new
           /\ step = 1 => /\ {"Telemetry", "new_Telemetry"} \subseteq schema
                          /\ schema' = schema /\ old' = old /\ new' = old
           /\ step = 2 => /\ "Telemetry" \in schema
                          /\ schema' = schema \ {"Telemetry", "oldTelemetryUnique",
                                                 "identityIndex", "sourceNameIndex"}
                          /\ old' = {} /\ new' = new
           /\ step = 3 => /\ "new_Telemetry" \in schema /\ "Telemetry" \notin schema
                          /\ schema' = (schema \ {"new_Telemetry"}) \cup {"Telemetry"}
                          /\ old' = new /\ new' = {}
           /\ step = 4 => /\ "Telemetry" \in schema
                          /\ schema' = schema \cup {"identityIndex", "sourceNameIndex"}
                          /\ old' = old /\ new' = new
<1>1. step \in 0..4 /\ step' = step + 1
  BY ExecuteCounts
<1> DEFINE s == statements(script)[step + 1]
<1>2. /\ step = 0 => s = Creates({}, {"new_Telemetry"})
      /\ step = 1 => s = [op |-> "copy", need |-> {"Telemetry", "new_Telemetry"},
                          add |-> {}, drop |-> {}]
      /\ step = 2 => s = [op |-> "drop", need |-> {"Telemetry"}, add |-> {},
                          drop |-> {"Telemetry", "oldTelemetryUnique", "identityIndex",
                                   "sourceNameIndex"}]
      /\ step = 3 => s = [op |-> "rename", need |-> {"new_Telemetry"}, add |-> {"Telemetry"},
                          drop |-> {"new_Telemetry"}]
      /\ step = 4 => s = Creates({"Telemetry"}, {"identityIndex", "sourceNameIndex"})
  BY <1>1, RebuildSteps
<1>3. CASE step = 0
  BY <1>1, <1>2, <1>3, ExecuteCreates
<1>4. CASE step = 1
  BY <1>1, <1>2, <1>4, ExecuteOther
<1>5. CASE step = 2
  BY <1>1, <1>2, <1>5, ExecuteOther
<1>6. CASE step = 3
  BY <1>1, <1>2, <1>6, ExecuteOther
<1>7. CASE step = 4
  BY <1>1, <1>2, <1>7, ExecuteCreates
<1> QED
  BY <1>1, <1>3, <1>4, <1>5, <1>6, <1>7

\* 0005 does the same to DeviceLatest, and to no row of Telemetry.
LEMMA ExecuteLatest ==
    ASSUME MigrationTypeOK, Execute, script = "0005"
    PROVE  /\ step \in 0..4 /\ step' = step + 1 /\ old' = old /\ new' = new
           /\ step = 0 => /\ "new_DeviceLatest" \notin schema
                          /\ schema' = schema \cup {"new_DeviceLatest"}
           /\ step = 1 => /\ {"DeviceLatest", "new_DeviceLatest"} \subseteq schema
                          /\ schema' = schema
           /\ step = 2 => /\ "DeviceLatest" \in schema
                          /\ schema' = schema \ {"DeviceLatest", "oldLatestUnique",
                                                 "latestIndex"}
           /\ step = 3 => /\ "new_DeviceLatest" \in schema /\ "DeviceLatest" \notin schema
                          /\ schema' = (schema \ {"new_DeviceLatest"}) \cup {"DeviceLatest"}
           /\ step = 4 => /\ "DeviceLatest" \in schema /\ "latestIndex" \notin schema
                          /\ schema' = schema \cup {"latestIndex"}
<1>1. step \in 0..4 /\ step' = step + 1
  BY ExecuteCounts
<1> DEFINE s == statements(script)[step + 1]
<1>2. /\ step = 0 => s = Creates({}, {"new_DeviceLatest"})
      /\ step = 1 => s = [op |-> "ddl", need |-> {"DeviceLatest", "new_DeviceLatest"},
                          add |-> {}, drop |-> {}]
      /\ step = 2 => s = [op |-> "ddl", need |-> {"DeviceLatest"}, add |-> {},
                          drop |-> {"DeviceLatest", "oldLatestUnique", "latestIndex"}]
      /\ step = 3 => s = [op |-> "ddl", need |-> {"new_DeviceLatest"},
                          add |-> {"DeviceLatest"}, drop |-> {"new_DeviceLatest"}]
      /\ step = 4 => s = Creates({"DeviceLatest"}, {"latestIndex"})
  BY <1>1, RebuildSteps
<1>3. CASE step = 0
  BY <1>1, <1>2, <1>3, ExecuteCreates
<1>4. CASE step = 1
  BY <1>1, <1>2, <1>4, ExecuteOther
<1>5. CASE step = 2
  BY <1>1, <1>2, <1>5, ExecuteOther
<1>6. CASE step = 3
  BY <1>1, <1>2, <1>6, ExecuteOther
<1>7. CASE step = 4
  BY <1>1, <1>2, <1>7, ExecuteCreates
<1> QED
  BY <1>1, <1>3, <1>4, <1>5, <1>6, <1>7

-----------------------------------------------------------------------------
(* The invariant holds after a statement.                                    *)

\* Everything the schema may have.
SchemaOK == schema \subseteq initialSchema \cup fullSchema
                \cup {"syncErrorIndex", "new_Telemetry", "new_DeviceLatest"}

\* 0001: the file has no tables, or it has them and the statement fails.
LEMMA FirstPreserves ==
    ASSUME MigrationInv, Execute, script \in {"0001", "0002"}
    PROVE  SchemaOK' /\ IndexInv' /\ RecordedInv' /\ StageInv' /\ CleanInv' /\ RowsInv'
<1> USE DEF MigrationInv
<1>1. SchemaOK
  BY DEF MigrationTypeOK, SchemaOK
<1>2. /\ step = 0 /\ step' = 1 /\ old' = old /\ new' = new
      /\ \/ script = "0001" /\ initialSchema \cap schema = {}
            /\ schema' = schema \cup initialSchema
         \/ script = "0002" /\ "tables" \in schema /\ schema' = schema \cup {"phaseNum"}
  BY ExecuteFirst
<1>3. UNCHANGED <<recorded, written, script, late>> /\ died' = died
  BY ExecuteFrame
<1>4. /\ script = "0001" => recorded = {}
      /\ script = "0002" => recorded = {"0001"}
  BY InHand
<1>5. SchemaOK'
  BY <1>1, <1>2 DEF SchemaOK, fullSchema
<1>6. IndexInv'
  BY <1>2 DEF IndexInv, initialSchema
<1>7. RecordedInv'
  BY <1>2, <1>3, <1>4 DEF RecordedInv
<1>8. StageInv'
  BY <1>2, <1>3 DEF StageInv, initialSchema
<1>9. CleanInv'
  BY <1>2, <1>3 DEF CleanInv, initialSchema, audit, auditSchema
<1>10. RowsInv'
  BY <1>2, <1>3 DEF RowsInv, MigrationKeepsRows, initialSchema
<1> QED
  BY <1>5, <1>6, <1>7, <1>8, <1>9, <1>10

\* 0003: the audit columns, tables and indexes one after the other.
LEMMA AuditPreserves ==
    ASSUME MigrationInv, Execute, script = "0003"
    PROVE  SchemaOK' /\ IndexInv' /\ RecordedInv' /\ StageInv' /\ CleanInv' /\ RowsInv'
<1> USE DEF MigrationInv
<1>1. SchemaOK
  BY DEF MigrationTypeOK, SchemaOK
<1>2. /\ step' = step + 1 /\ old' = old /\ new' = new
      /\ \/ step = 0 /\ "Telemetry" \in schema /\ "sourceName" \notin schema
                     /\ schema' = schema \cup {"sourceName"}
         \/ step = 1 /\ "tables" \in schema /\ "checkpointColumns" \notin schema
                     /\ schema' = schema \cup {"checkpointColumns"}
         \/ step = 2 /\ "sourceName" \in schema /\ "sourceNameIndex" \notin schema
                     /\ schema' = schema \cup {"sourceNameIndex"}
         \/ step = 3 /\ "SyncTables" \notin schema /\ schema' = schema \cup {"SyncTables"}
         \/ step = 4 /\ "SyncTables" \in schema /\ "syncErrorIndex" \notin schema
                     /\ schema' = schema \cup {"syncErrorIndex"}
  BY ExecuteAudit
<1>3. UNCHANGED <<recorded, written, script, late>> /\ died' = died
  BY ExecuteFrame
<1>4. recorded = {"0001", "0002"}
  BY InHand
<1>5. SchemaOK'
  BY <1>1, <1>2 DEF SchemaOK, fullSchema, auditSchema
<1>6. IndexInv'
  BY <1>2 DEF IndexInv
<1>7. RecordedInv'
  BY <1>2, <1>3, <1>4 DEF RecordedInv
<1>8. StageInv'
  BY <1>2, <1>3 DEF StageInv
<1>9. CleanInv'
  <2>1. step = 0 => ~ auditSchema \subseteq schema
    BY ExecuteFrame DEF matchesMigrationSchema
  <2> QED
    BY <1>2, <1>3, <2>1 DEF CleanInv, StageInv, audit, auditSchema
<1>10. RowsInv'
  BY <1>2, <1>3 DEF RowsInv, MigrationKeepsRows
<1> QED
  BY <1>5, <1>6, <1>7, <1>8, <1>9, <1>10

\* 0004: Telemetry is made anew, and its rows follow.
LEMMA TelemetryPreserves ==
    ASSUME MigrationInv, Execute, script = "0004"
    PROVE  SchemaOK' /\ IndexInv' /\ RecordedInv' /\ StageInv' /\ CleanInv' /\ RowsInv'
<1> USE DEF MigrationInv
<1>1. SchemaOK
  BY DEF MigrationTypeOK, SchemaOK
<1>2. /\ step' = step + 1
      /\ \/ /\ step = 0 /\ "new_Telemetry" \notin schema
            /\ schema' = schema \cup {"new_Telemetry"} /\ old' = old /\ new' = new
         \/ /\ step = 1 /\ {"Telemetry", "new_Telemetry"} \subseteq schema
            /\ schema' = schema /\ old' = old /\ new' = old
         \/ /\ step = 2 /\ "Telemetry" \in schema
            /\ schema' = schema \ {"Telemetry", "oldTelemetryUnique",
                                   "identityIndex", "sourceNameIndex"}
            /\ old' = {} /\ new' = new
         \/ /\ step = 3 /\ "new_Telemetry" \in schema /\ "Telemetry" \notin schema
            /\ schema' = (schema \ {"new_Telemetry"}) \cup {"Telemetry"}
            /\ old' = new /\ new' = {}
         \/ /\ step = 4 /\ "Telemetry" \in schema
            /\ schema' = schema \cup {"identityIndex", "sourceNameIndex"}
            /\ old' = old /\ new' = new
  BY ExecuteTelemetry
<1>3. UNCHANGED <<recorded, written, script, late>> /\ died' = died
  BY ExecuteFrame
<1>4. recorded = {"0001", "0002", "0003"}
  BY InHand
<1>5. SchemaOK'
  BY <1>1, <1>2 DEF SchemaOK, initialSchema, fullSchema, auditSchema
\* The indexes of the identity, had they been there, were those of a full one.
<1>6. step = 0 => "identityIndex" \notin schema
  <2>1. step = 0 => ~ ("identityIndex" \in schema /\ "oldTelemetryUnique" \notin schema)
    BY ExecuteFrame DEF matchesMigrationSchema
  <2> QED
    BY <2>1 DEF IndexInv
<1>7. IndexInv'
  BY <1>2, <1>6 DEF IndexInv, StageInv
<1>8. RecordedInv'
  BY <1>2, <1>3, <1>4 DEF RecordedInv
<1>9. StageInv'
  BY <1>2, <1>3, <1>6 DEF StageInv
<1>10. CleanInv'
  BY <1>2, <1>3, <1>4 DEF CleanInv, RecordedInv, StageInv, audit, auditSchema
<1>11. RowsInv'
  <2>1. CASE step = 0
    BY <1>2, <1>3, <2>1 DEF RowsInv, MigrationKeepsRows
  <2>2. CASE step = 1
    BY <1>2, <1>3, <2>2 DEF RowsInv, MigrationKeepsRows
  <2>3. CASE step = 2
    BY <1>2, <1>3, <2>3 DEF RowsInv, MigrationKeepsRows
  <2>4. CASE step = 3
    BY <1>2, <1>3, <2>4 DEF RowsInv, MigrationKeepsRows
  <2>5. CASE step = 4
    BY <1>2, <1>3, <2>5 DEF RowsInv, MigrationKeepsRows
  <2> QED
    BY <1>2, <2>1, <2>2, <2>3, <2>4, <2>5
<1> QED
  BY <1>5, <1>7, <1>8, <1>9, <1>10, <1>11

\* 0005: DeviceLatest is made anew.
LEMMA LatestPreserves ==
    ASSUME MigrationInv, Execute, script = "0005"
    PROVE  SchemaOK' /\ IndexInv' /\ RecordedInv' /\ StageInv' /\ CleanInv' /\ RowsInv'
<1> USE DEF MigrationInv
<1>1. SchemaOK
  BY DEF MigrationTypeOK, SchemaOK
<1>2. /\ step' = step + 1 /\ old' = old /\ new' = new
      /\ \/ step = 0 /\ "new_DeviceLatest" \notin schema
                     /\ schema' = schema \cup {"new_DeviceLatest"}
         \/ step = 1 /\ {"DeviceLatest", "new_DeviceLatest"} \subseteq schema
                     /\ schema' = schema
         \/ step = 2 /\ "DeviceLatest" \in schema
                     /\ schema' = schema \ {"DeviceLatest", "oldLatestUnique", "latestIndex"}
         \/ step = 3 /\ "new_DeviceLatest" \in schema /\ "DeviceLatest" \notin schema
                     /\ schema' = (schema \ {"new_DeviceLatest"}) \cup {"DeviceLatest"}
         \/ step = 4 /\ "DeviceLatest" \in schema /\ "latestIndex" \notin schema
                     /\ schema' = schema \cup {"latestIndex"}
  BY ExecuteLatest
<1>3. UNCHANGED <<recorded, written, script, late>> /\ died' = died
  BY ExecuteFrame
<1>4. recorded = {"0001", "0002", "0003", "0004"}
  BY InHand
<1>5. SchemaOK'
  BY <1>1, <1>2 DEF SchemaOK, initialSchema, fullSchema, auditSchema
<1>6. step = 0 => "latestIndex" \notin schema
  <2>1. step = 0 => ~ ("latestIndex" \in schema /\ "oldLatestUnique" \notin schema)
    BY ExecuteFrame DEF matchesMigrationSchema
  <2> QED
    BY <2>1 DEF IndexInv
<1>7. IndexInv'
  BY <1>2, <1>6 DEF IndexInv, StageInv
<1>8. RecordedInv'
  BY <1>2, <1>3, <1>4 DEF RecordedInv
<1>9. StageInv'
  BY <1>2, <1>3, <1>6 DEF StageInv
<1>10. CleanInv'
  BY <1>2, <1>3, <1>4 DEF CleanInv, RecordedInv, IndexInv, StageInv, audit, auditSchema
<1>11. RowsInv'
  BY <1>2, <1>3 DEF RowsInv, MigrationKeepsRows
<1> QED
  BY <1>5, <1>7, <1>8, <1>9, <1>10, <1>11

\* 0006 is never executed: 0004 has left what it looks for.
LEMMA LastIsMarked ==
    ASSUME MigrationInv, script = "0006"
    PROVE  step = 0 /\ matchesMigrationSchema(script)
<1>1. step = 0 /\ recorded = {"0001", "0002", "0003", "0004", "0005"}
  BY InHand DEF MigrationInv, StageInv
<1> QED
  BY <1>1 DEF MigrationInv, RecordedInv, IndexInv, matchesMigrationSchema

LEMMA ExecutePreserves ==
    ASSUME MigrationInv, Execute
    PROVE  MigrationInv'
<1> USE DEF MigrationInv
<1>1. UNCHANGED <<recorded, written, script, late>> /\ died' = died
  BY ExecuteFrame
<1>2. script \in {"0001", "0002", "0003", "0004", "0005"}
  <2>1. script \in {"0001", "0002", "0003", "0004", "0005", "0006"}
    BY ExecuteFrame, InHand
  <2>2. script # "0006"
    BY ExecuteFrame, LastIsMarked
  <2> QED
    BY <2>1, <2>2
<1>3. SchemaOK' /\ IndexInv' /\ RecordedInv' /\ StageInv' /\ CleanInv' /\ RowsInv'
  BY <1>2, FirstPreserves, AuditPreserves, TelemetryPreserves, LatestPreserves
<1>4. OrderInv'
  BY <1>1 DEF OrderInv
<1>5. MigrationTypeOK'
  <2>1. step' \in 0..5
    BY <1>2, ExecuteCounts
  <2>2. (old \cup new)' \subseteq old \cup new
    BY DEF Execute
  <2>3. died' \in BOOLEAN
    BY <1>1 DEF MigrationTypeOK
  <2>4. /\ schema' \subseteq initialSchema \cup fullSchema
             \cup {"syncErrorIndex", "new_Telemetry", "new_DeviceLatest"}
        /\ recorded' \subseteq {migrations[n] : n \in DOMAIN migrations}
        /\ old' \cup new' \cup late' \subseteq written'
        /\ written' \subseteq Batches \cup {"before"}
        /\ script' \in {"idle", "failed", "done"}
                       \cup {migrations[n] : n \in DOMAIN migrations}
    BY <1>1, <1>3, <2>2 DEF SchemaOK, MigrationTypeOK
  <2> QED
    BY <2>1, <2>3, <2>4 DEF MigrationTypeOK
<1> QED
  BY <1>3, <1>4, <1>5

-----------------------------------------------------------------------------
(* The invariant holds after a record.                                       *)

\* A migration that is complete, or that the schema already has, is recorded
\* with what it stands for present.
LEMMA CompleteIsThere ==
    ASSUME MigrationInv, script \notin {"idle", "failed", "done"},
           \/ step = 0 /\ matchesMigrationSchema(script)
           \/ step = Len(statements(script))
    PROVE  /\ script = "0001" => "tables" \in schema
           /\ script = "0002" => "phaseNum" \in schema
           /\ script = "0003" => {"sourceName", "checkpointColumns", "SyncTables"} \subseteq schema
           /\ script = "0004" => "identityIndex" \in schema
           /\ script = "0005" => "latestIndex" \in schema
           /\ script = "0006" => "identityIndex" \in schema
           /\ step \notin 1..4 \/ script \in {"0001", "0002"}
<1> USE DEF MigrationInv
<1>1. CASE step = 0 /\ matchesMigrationSchema(script)
  <2>1. script \in {"0001", "0002", "0003", "0004", "0005", "0006"}
    BY InHand
  <2>2. /\ matchesMigrationSchema("0001") => "tables" \in schema
        /\ matchesMigrationSchema("0002") => "phaseNum" \in schema
        /\ matchesMigrationSchema("0003") => auditSchema \subseteq schema
        /\ matchesMigrationSchema("0004") => "identityIndex" \in schema
        /\ matchesMigrationSchema("0005") => "latestIndex" \in schema
        /\ matchesMigrationSchema("0006") => "identityIndex" \in schema
    BY DEF matchesMigrationSchema
  <2> QED
    BY <1>1, <2>1, <2>2 DEF auditSchema
<1>2. CASE step = Len(statements(script))
  <2>1. CASE script = "0001"
    <3>1. step = 1
      BY <1>2, <2>1, Lengths
    <3> QED
      BY <2>1, <3>1 DEF StageInv
  <2>2. CASE script = "0002"
    <3>1. step = 1
      BY <1>2, <2>2, Lengths
    <3> QED
      BY <2>2, <3>1 DEF StageInv
  <2>3. CASE script = "0003"
    <3>1. step = 5
      BY <1>2, <2>3, Lengths
    <3> QED
      BY <2>3, <3>1 DEF StageInv
  <2>4. CASE script = "0004"
    <3>1. step = 5
      BY <1>2, <2>4, Lengths
    <3> QED
      BY <2>4, <3>1 DEF StageInv
  <2>5. CASE script = "0005"
    <3>1. step = 5
      BY <1>2, <2>5, Lengths
    <3> QED
      BY <2>5, <3>1 DEF StageInv
  <2>6. CASE script = "0006"
    BY <2>6, LastIsMarked DEF RecordedInv, OrderInv
  <2> QED
    BY InHand, <2>1, <2>2, <2>3, <2>4, <2>5, <2>6
<1> QED
  BY <1>1, <1>2

LEMMA RecordPreserves ==
    ASSUME MigrationInv, Record, script \notin {"idle", "failed", "done"},
           \/ step = 0 /\ matchesMigrationSchema(script)
           \/ step = Len(statements(script))
    PROVE  MigrationInv'
<1> USE DEF MigrationInv
<1>1. /\ recorded' = recorded \cup {script} /\ step' = 0
      /\ UNCHANGED <<schema, old, new, written, late>> /\ died' = died
  BY RecordStep
<1>2. \/ script = "0001" /\ recorded = {} /\ script' = "0002"
      \/ script = "0002" /\ recorded = {"0001"} /\ script' = "0003"
      \/ script = "0003" /\ recorded = {"0001", "0002"} /\ script' = "0004"
      \/ script = "0004" /\ recorded = {"0001", "0002", "0003"} /\ script' = "0005"
      \/ script = "0005" /\ recorded = {"0001", "0002", "0003", "0004"} /\ script' = "0006"
      \/ /\ script = "0006" /\ recorded = {"0001", "0002", "0003", "0004", "0005"}
         /\ script' = "done"
  <2>1. script = "0006" => "oldTelemetryUnique" \notin schema
    BY CompleteIsThere DEF IndexInv
  <2> QED
    BY <2>1, InHand, RecordStep
<1>3. OrderInv'
  BY <1>1, <1>2 DEF OrderInv
<1>4. IndexInv'
  BY <1>1 DEF IndexInv
<1>5. RecordedInv'
  BY <1>1, <1>2, CompleteIsThere DEF RecordedInv
<1>6. StageInv'
  BY <1>1 DEF StageInv
<1>7. CleanInv'
  BY <1>1, <1>2, CompleteIsThere DEF CleanInv
<1>8. RowsInv'
  BY <1>1, <1>2 DEF RowsInv, MigrationKeepsRows
<1>9. MigrationTypeOK'
  <2>1. died' \in BOOLEAN
    BY <1>1 DEF MigrationTypeOK
  <2>2. {migrations[n] : n \in DOMAIN migrations}
           = {"0001", "0002", "0003", "0004", "0005", "0006"}
    BY MigrationNames
  <2>3. /\ schema' \subseteq initialSchema \cup fullSchema
             \cup {"syncErrorIndex", "new_Telemetry", "new_DeviceLatest"}
        /\ recorded' \subseteq {migrations[n] : n \in DOMAIN migrations}
        /\ old' \cup new' \cup late' \subseteq written'
        /\ written' \subseteq Batches \cup {"before"}
        /\ script' \in {"idle", "failed", "done"}
                       \cup {migrations[n] : n \in DOMAIN migrations}
        /\ step' \in 0..5
    BY <1>1, <1>2, <2>2 DEF MigrationTypeOK
  <2> QED
    BY <2>1, <2>3 DEF MigrationTypeOK
<1> QED
  BY <1>3, <1>4, <1>5, <1>6, <1>7, <1>8, <1>9

-----------------------------------------------------------------------------
(* The invariant holds after the other actions.                              *)

\* The schema has what a statement needs and nothing that it creates.
Fits(s) == s.need \subseteq schema /\ s.add \cap schema = {}

\* Before the first death every statement fits.
LEMMA StatementsFit ==
    ASSUME MigrationInv, ~ died, script \notin {"idle", "failed", "done"},
           step < Len(statements(script)), step = 0 => ~ matchesMigrationSchema(script)
    PROVE  Fits(statements(script)[step + 1])
<1> USE DEF MigrationInv
<1> DEFINE s == statements(script)[step + 1]
<1>2. CASE script = "0001"
  <2>1. step = 0
    BY <1>2, StepsToCome
  <2>2. s = Creates({}, initialSchema)
    BY <1>2, <2>1, Statements
  <2>3. ~ {"tables", "Telemetry", "DeviceLatest"} \subseteq schema
    BY <1>2, <2>1 DEF matchesMigrationSchema
  <2>4. schema = {}
    BY <1>2, <2>3 DEF CleanInv
  <2> QED
    BY <2>2, <2>4 DEF Fits, Creates
<1>3. CASE script = "0002"
  <2>1. step = 0
    BY <1>3, StepsToCome
  <2>2. s = Creates({"tables"}, {"phaseNum"})
    BY <1>3, <2>1, Statements
  <2>3. "phaseNum" \notin schema
    BY <1>3, <2>1 DEF matchesMigrationSchema
  <2>4. "tables" \in schema
    BY <1>3, InHand DEF RecordedInv
  <2> QED
    BY <2>2, <2>3, <2>4 DEF Fits, Creates
<1>4. CASE script = "0003"
  <2>1. step \in 0..4
    BY <1>4, StepsToCome
  <2>2. "tables" \in schema /\ "Telemetry" \in schema
    BY <1>4, InHand DEF RecordedInv, CleanInv
  <2>3. CASE step = 0
    <3>1. ~ auditSchema \subseteq schema
      BY <1>4, <2>3 DEF matchesMigrationSchema
    <3>2. "sourceName" \notin schema
      BY <1>4, <2>3, <3>1 DEF CleanInv, audit, auditSchema
    <3>3. s = Creates({"Telemetry"}, {"sourceName"})
      BY <1>4, <2>3, Statements
    <3> QED
      BY <2>2, <3>2, <3>3 DEF Fits, Creates
  <2>4. CASE step = 1
    <3>1. s = Creates({"tables"}, {"checkpointColumns"})
      BY <1>4, <2>4, Statements
    <3> QED
      BY <1>4, <2>2, <2>4, <3>1 DEF Fits, Creates, CleanInv
  <2>5. CASE step = 2
    <3>1. s = Creates({"sourceName"}, {"sourceNameIndex"})
      BY <1>4, <2>5, Statements
    <3> QED
      BY <1>4, <2>5, <3>1 DEF Fits, Creates, CleanInv, StageInv
  <2>6. CASE step = 3
    <3>1. s = Creates({}, {"SyncTables"})
      BY <1>4, <2>6, Statements
    <3> QED
      BY <1>4, <2>6, <3>1 DEF Fits, Creates, CleanInv
  <2>7. CASE step = 4
    <3>1. s = Creates({"SyncTables"}, {"syncErrorIndex"})
      BY <1>4, <2>7, Statements
    <3> QED
      BY <1>4, <2>7, <3>1 DEF Fits, Creates, CleanInv, StageInv
  <2> QED
    BY <2>1, <2>3, <2>4, <2>5, <2>6, <2>7
<1>5. CASE script = "0004"
  <2>1. step \in 0..4
    BY <1>5, StepsToCome
  <2>2. CASE step = 0
    <3>1. s = Creates({}, {"new_Telemetry"})
      BY <2>2, <1>5, RebuildSteps
    <3> QED
      BY <1>5, <2>2, <3>1 DEF Fits, Creates, CleanInv
  <2>3. CASE step = 1
    <3>1. s.need = {"Telemetry", "new_Telemetry"} /\ s.add = {}
      BY <2>3, <1>5, RebuildSteps
    <3> QED
      BY <1>5, <2>3, <3>1 DEF Fits, CleanInv
  <2>4. CASE step = 2
    <3>1. s.need = {"Telemetry"} /\ s.add = {}
      BY <2>4, <1>5, RebuildSteps
    <3> QED
      BY <1>5, <2>4, <3>1 DEF Fits, CleanInv
  <2>5. CASE step = 3
    <3>1. s.need = {"new_Telemetry"} /\ s.add = {"Telemetry"}
      BY <2>5, <1>5, RebuildSteps
    <3> QED
      BY <1>5, <2>5, <3>1 DEF Fits, CleanInv, StageInv
  <2>6. CASE step = 4
    <3>1. s = Creates({"Telemetry"}, {"identityIndex", "sourceNameIndex"})
      BY <2>6, <1>5, RebuildSteps
    <3> QED
      BY <1>5, <2>6, <3>1 DEF Fits, Creates, CleanInv, StageInv
  <2> QED
    BY <2>1, <2>2, <2>3, <2>4, <2>5, <2>6
<1>6. CASE script = "0005"
  <2>1. step \in 0..4
    BY <1>6, StepsToCome
  <2>2. CASE step = 0
    <3>1. s = Creates({}, {"new_DeviceLatest"})
      BY <2>2, <1>6, RebuildSteps
    <3> QED
      BY <1>6, <2>2, <3>1 DEF Fits, Creates, CleanInv
  <2>3. CASE step = 1
    <3>1. s.need = {"DeviceLatest", "new_DeviceLatest"} /\ s.add = {}
      BY <2>3, <1>6, RebuildSteps
    <3> QED
      BY <1>6, <2>3, <3>1 DEF Fits, CleanInv
  <2>4. CASE step = 2
    <3>1. s.need = {"DeviceLatest"} /\ s.add = {}
      BY <2>4, <1>6, RebuildSteps
    <3> QED
      BY <1>6, <2>4, <3>1 DEF Fits, CleanInv
  <2>5. CASE step = 3
    <3>1. s.need = {"new_DeviceLatest"} /\ s.add = {"DeviceLatest"}
      BY <2>5, <1>6, RebuildSteps
    <3> QED
      BY <1>6, <2>5, <3>1 DEF Fits, CleanInv
  <2>6. CASE step = 4
    <3>1. s = Creates({"DeviceLatest"}, {"latestIndex"})
      BY <2>6, <1>6, RebuildSteps
    <3> QED
      BY <1>6, <2>6, <3>1 DEF Fits, Creates, StageInv
  <2> QED
    BY <2>1, <2>2, <2>3, <2>4, <2>5, <2>6
<1>7. script # "0006"
  BY LastIsMarked
<1> QED
  BY InHand, <1>2, <1>3, <1>4, <1>5, <1>6, <1>7

\* Only a schema that a death has left makes a statement fail.
LEMMA FailurePreserves ==
    ASSUME MigrationInv, StatementFails
    PROVE  MigrationInv'
<1> USE DEF MigrationInv
<1>1. /\ script' = "failed"
      /\ UNCHANGED <<schema, recorded, old, new, written, step, late>> /\ died' = died
      /\ script \notin {"idle", "failed", "done"}
  BY DEF StatementFails
<1>2. died
  <2>1. /\ step < Len(statements(script)) /\ (step = 0 => ~ matchesMigrationSchema(script))
        /\ ~ Fits(statements(script)[step + 1])
    BY DEF StatementFails, Fits
  <2> QED
    BY <1>1, <2>1, StatementsFit
<1>3. MigrationTypeOK'
  <2>1. died' \in BOOLEAN
    BY <1>1 DEF MigrationTypeOK
  <2>2. step' \in 0..5
    BY <1>1, StepType
  <2>3. /\ schema' \subseteq initialSchema \cup fullSchema
             \cup {"syncErrorIndex", "new_Telemetry", "new_DeviceLatest"}
        /\ recorded' \subseteq {migrations[n] : n \in DOMAIN migrations}
        /\ old' \cup new' \cup late' \subseteq written'
        /\ written' \subseteq Batches \cup {"before"}
        /\ script' \in {"idle", "failed", "done"}
                       \cup {migrations[n] : n \in DOMAIN migrations}
    BY <1>1 DEF MigrationTypeOK
  <2> QED
    BY <2>1, <2>2, <2>3 DEF MigrationTypeOK
<1>4. OrderInv'
  BY <1>1, InHand DEF OrderInv
<1>5. IndexInv' /\ RecordedInv' /\ StageInv'
  BY <1>1 DEF IndexInv, RecordedInv, StageInv
<1>6. CleanInv'
  BY <1>1, <1>2 DEF CleanInv
<1>7. RowsInv'
  BY <1>1 DEF RowsInv, MigrationKeepsRows
<1> QED
  BY <1>3, <1>4, <1>5, <1>6, <1>7

\* A death leaves the schema as it is, at whatever statement.
LEMMA DeathPreserves ==
    ASSUME MigrationInv, ScriptDies
    PROVE  MigrationInv'
<1> USE DEF MigrationInv
<1>1. /\ script' = "idle" /\ step' = 0
      /\ UNCHANGED <<schema, recorded, old, new, written, late>>
      /\ script \notin {"idle", "failed", "done"}
  BY DEF ScriptDies
<1>2. died'
  BY DEF ScriptDies
<1>3. MigrationTypeOK'
  <2>1. died' \in BOOLEAN
    BY DEF ScriptDies
  <2>2. /\ schema' \subseteq initialSchema \cup fullSchema
             \cup {"syncErrorIndex", "new_Telemetry", "new_DeviceLatest"}
        /\ recorded' \subseteq {migrations[n] : n \in DOMAIN migrations}
        /\ old' \cup new' \cup late' \subseteq written'
        /\ written' \subseteq Batches \cup {"before"}
        /\ script' \in {"idle", "failed", "done"}
                       \cup {migrations[n] : n \in DOMAIN migrations}
        /\ step' \in 0..5
    BY <1>1 DEF MigrationTypeOK
  <2> QED
    BY <2>1, <2>2 DEF MigrationTypeOK
<1>4. OrderInv'
  BY <1>1, InHand DEF OrderInv
<1>5. IndexInv' /\ RecordedInv' /\ StageInv'
  BY <1>1 DEF IndexInv, RecordedInv, StageInv
<1>6. CleanInv'
  BY <1>2 DEF CleanInv
<1>7. RowsInv'
  BY <1>1 DEF RowsInv, MigrationKeepsRows
<1> QED
  BY <1>3, <1>4, <1>5, <1>6, <1>7

\* A run takes up the first migration that is not recorded.
LEMMA RunPreserves ==
    ASSUME MigrationInv, Run
    PROVE  MigrationInv'
<1> USE DEF MigrationInv
<1>1. /\ step' = 0 /\ script' = First /\ Pending # {}
      /\ UNCHANGED <<schema, recorded, old, new, written, late>> /\ died' = died
      /\ script \in {"idle", "failed", "done"}
  BY DEF Run
<1>2. \/ recorded = {} /\ script' = "0001"
      \/ recorded = {"0001"} /\ script' = "0002"
      \/ recorded = {"0001", "0002"} /\ script' = "0003"
      \/ recorded = {"0001", "0002", "0003"} /\ script' = "0004"
      \/ recorded = {"0001", "0002", "0003", "0004"} /\ script' = "0005"
      \/ recorded = {"0001", "0002", "0003", "0004", "0005"} /\ script' = "0006"
  BY <1>1, FirstMigration, PendingMigrations DEF OrderInv
<1>3. OrderInv'
  BY <1>1, <1>2 DEF OrderInv
<1>4. MigrationTypeOK'
  <2>1. died' \in BOOLEAN
    BY <1>1 DEF MigrationTypeOK
  <2>2. {migrations[n] : n \in DOMAIN migrations}
           = {"0001", "0002", "0003", "0004", "0005", "0006"}
    BY MigrationNames
  <2>3. /\ schema' \subseteq initialSchema \cup fullSchema
             \cup {"syncErrorIndex", "new_Telemetry", "new_DeviceLatest"}
        /\ recorded' \subseteq {migrations[n] : n \in DOMAIN migrations}
        /\ old' \cup new' \cup late' \subseteq written'
        /\ written' \subseteq Batches \cup {"before"}
        /\ script' \in {"idle", "failed", "done"}
                       \cup {migrations[n] : n \in DOMAIN migrations}
        /\ step' \in 0..5
    BY <1>1, <1>2, <2>2 DEF MigrationTypeOK
  <2> QED
    BY <2>1, <2>3 DEF MigrationTypeOK
<1>5. IndexInv' /\ RecordedInv' /\ StageInv'
  BY <1>1 DEF IndexInv, RecordedInv, StageInv
<1>6. CleanInv'
  BY <1>1, <1>2 DEF CleanInv
<1>7. RowsInv'
  BY <1>1 DEF RowsInv, MigrationKeepsRows
<1> QED
  BY <1>3, <1>4, <1>5, <1>6, <1>7

\* What a worker writes is in "Telemetry"; after the copy it is late.
LEMMA WritePreserves ==
    ASSUME MigrationInv, NEW b \in Batches, WorkerWrites(b)
    PROVE  MigrationInv'
<1> USE DEF MigrationInv
<1>1. /\ UNCHANGED <<schema, recorded, new, script, step>> /\ died' = died
      /\ old' = old \cup {b} /\ written' = written \cup {b}
      /\ late' = IF script \in {"0004", "0006"} /\ step = 2 THEN late \cup {b} ELSE late
      /\ "Telemetry" \in schema
  BY DEF WorkerWrites
<1>2. MigrationTypeOK'
  <2>1. died' \in BOOLEAN
    BY <1>1 DEF MigrationTypeOK
  <2>2. /\ schema' \subseteq initialSchema \cup fullSchema
             \cup {"syncErrorIndex", "new_Telemetry", "new_DeviceLatest"}
        /\ recorded' \subseteq {migrations[n] : n \in DOMAIN migrations}
        /\ old' \cup new' \cup late' \subseteq written'
        /\ written' \subseteq Batches \cup {"before"}
        /\ script' \in {"idle", "failed", "done"}
                       \cup {migrations[n] : n \in DOMAIN migrations}
        /\ step' \in 0..5
    BY <1>1 DEF MigrationTypeOK
  <2> QED
    BY <2>1, <2>2 DEF MigrationTypeOK
<1>3. OrderInv' /\ IndexInv' /\ RecordedInv' /\ StageInv'
  BY <1>1 DEF OrderInv, IndexInv, RecordedInv, StageInv
<1>4. CleanInv'
  BY <1>1 DEF CleanInv
<1>5. RowsInv'
  <2>1. ~ (script = "0004" /\ step = 3)
    BY <1>1 DEF StageInv
  <2> QED
    BY <1>1, <2>1 DEF RowsInv, MigrationKeepsRows
<1> QED
  BY <1>2, <1>3, <1>4, <1>5

-----------------------------------------------------------------------------
(* The theorems.                                                             *)

\* Every step keeps the invariant.
LEMMA MigrationStep == MigrationInv /\ [MigrationNext]_migrationVars => MigrationInv'
<1> SUFFICES ASSUME MigrationInv, [MigrationNext]_migrationVars PROVE MigrationInv'
  OBVIOUS
<1>1. CASE Run
  BY <1>1, RunPreserves
<1>2. CASE Mark
  BY <1>2, RecordPreserves DEF Mark
<1>3. CASE Execute
  BY <1>3, ExecutePreserves
<1>4. CASE StatementFails
  BY <1>4, FailurePreserves
<1>5. CASE Applied
  BY <1>5, RecordPreserves DEF Applied
<1>6. CASE ScriptDies
  BY <1>6, DeathPreserves
<1>7. CASE \E b \in Batches : WorkerWrites(b)
  BY <1>7, WritePreserves
<1>8. CASE UNCHANGED migrationVars
  BY <1>8 DEF migrationVars, MigrationInv, MigrationTypeOK, OrderInv, IndexInv,
                    RecordedInv, StageInv, CleanInv, RowsInv, MigrationKeepsRows,
                    Pending
<1> QED
  BY <1>1, <1>2, <1>3, <1>4, <1>5, <1>6, <1>7, <1>8 DEF MigrationNext

\* Every state of the script, of any file and with any number of deaths and
\* of runs, satisfies the invariant.
THEOREM MigrationsCorrect == MigrationSpec => []MigrationInv
BY MigrationStarts, MigrationStep, PTL DEF MigrationSpec

\* The script keeps the types of the schema, of the records and of its place.
THEOREM MigrationTypes == MigrationSpec => []MigrationTypeOK
<1>1. MigrationInv => MigrationTypeOK
  BY DEF MigrationInv
<1> QED
  BY MigrationsCorrect, <1>1, PTL

\* No telemetry row gets lost by a rebuild, wherever it is cut off, but those
\* that a running worker writes between the copy and the drop.
THEOREM RowsAreKept == MigrationSpec => []MigrationKeepsRows
<1>1. MigrationInv => MigrationKeepsRows
  BY DEF MigrationInv, RowsInv
<1> QED
  BY MigrationsCorrect, <1>1, PTL

\* Where everything is recorded, the schema is the current one.
LEMMA RecordedIsCurrent == MigrationInv => DoneMeansCurrent
<1> SUFFICES ASSUME MigrationInv, script = "done"
             PROVE  /\ fullSchema \subseteq schema
                    /\ schema \cap {"oldTelemetryUnique", "oldLatestUnique",
                                    "new_Telemetry"} = {}
                    /\ Pending = {}
  BY DEF DoneMeansCurrent
<1>1. recorded = {"0001", "0002", "0003", "0004", "0005", "0006"}
  BY DEF MigrationInv, OrderInv
<1>2. Pending = {}
  BY <1>1, PendingMigrations DEF MigrationInv
<1>3. {"tables", "phaseNum", "sourceName", "checkpointColumns", "SyncTables",
       "identityIndex", "latestIndex"} \subseteq schema
  BY <1>1 DEF MigrationInv, RecordedInv
<1>4. /\ {"Telemetry", "DeviceLatest", "sourceNameIndex"} \subseteq schema
      /\ schema \cap {"oldTelemetryUnique", "oldLatestUnique", "new_Telemetry"} = {}
  BY <1>3 DEF MigrationInv, IndexInv
<1> QED
  BY <1>2, <1>3, <1>4 DEF fullSchema, auditSchema

\* On a file of any age the script ends with the current schema, or not at
\* all; only what a death has left makes it fail.
THEOREM ScriptEndsWell == MigrationSpec => []MigrationEndsWell
<1>1. MigrationInv => FailsOnlyAfterDeath
  BY DEF MigrationInv, CleanInv, FailsOnlyAfterDeath
<1>2. MigrationInv => MigrationEndsWell
  BY <1>1, RecordedIsCurrent DEF MigrationEndsWell
<1> QED
  BY MigrationsCorrect, <1>2, PTL
=============================================================================
