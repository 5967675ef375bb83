----------------------------- MODULE Migrations -----------------------------
(***************************************************************************)
(* scripts/ensure-db-migrations.mjs: bring a SQLite file of any age to the *)
(* current schema.  A migration that is neither recorded nor visible in    *)
(* the schema is applied statement by statement, outside a transaction     *)
(* (0001 brings its own); the script may die between any two of them, and  *)
(* a worker that is still running writes telemetry meanwhile.              *)
(*                                                                         *)
(* The schema is the set of the tables, columns and indexes the checks and *)
(* statements are about.  0004 and 0006 are the same text, and 0005 does   *)
(* to DeviceLatest what they do to Telemetry.                              *)
(***************************************************************************)
EXTENDS Naturals, Sequences

CONSTANT Batches \* telemetry the worker may write

VARIABLES
    schema,    \* what exists
    recorded,  \* migrations with a finished record
    old, new,  \* rows in "Telemetry" and in "new_Telemetry"
    written,   \* rows a running worker has ever written
    script,    \* "idle", "failed", "done", or the migration being applied
    step,      \* statements of it already executed
    late,      \* rows of it written after "Telemetry" had been copied
    died       \* the script has died in the middle of a migration

migrationVars == <<schema, recorded, old, new, written, script, step, late, died>>

migrations == <<"0001", "0002", "0003", "0004", "0005", "0006">>

initialSchema == {"tables", "Telemetry", "DeviceLatest", "oldTelemetryUnique",
                  "oldLatestUnique"}

auditSchema == {"sourceName", "checkpointColumns", "sourceNameIndex", "SyncTables"}

\* What the checks look at; the last index of 0003 is not among it.
fullSchema == {"tables", "Telemetry", "DeviceLatest", "phaseNum", "identityIndex",
               "latestIndex"} \cup auditSchema

matchesMigrationSchema(name) ==
    CASE name = "0001" -> {"tables", "Telemetry", "DeviceLatest"} \subseteq schema
      [] name = "0002" -> "phaseNum" \in schema
      [] name = "0003" -> auditSchema \subseteq schema
      [] name = "0005" -> "latestIndex" \in schema /\ "oldLatestUnique" \notin schema
      [] name \in {"0004", "0006"} ->
            "identityIndex" \in schema /\ "oldTelemetryUnique" \notin schema

\* A statement needs some things, creates others, which must not exist, and
\* drops some.
Creates(need, add) == [op |-> "ddl", need |-> need, add |-> add, drop |-> {}]

Drops(what) == [op |-> "ddl", need |-> what, add |-> {}, drop |-> what]

Rebuild(table, fresh, indexes, added) ==
    << Creates({}, {fresh}),
       [op |-> IF table = "Telemetry" THEN "copy" ELSE "ddl",
        need |-> {table, fresh}, add |-> {}, drop |-> {}],
       [op |-> IF table = "Telemetry" THEN "drop" ELSE "ddl",
        need |-> {table}, add |-> {}, drop |-> {table} \cup indexes],
       [op |-> IF table = "Telemetry" THEN "rename" ELSE "ddl",
        need |-> {fresh}, add |-> {table}, drop |-> {fresh}],
       Creates({table}, added) >>

statements(name) ==
    CASE name = "0001" -> << Creates({}, initialSchema) >>
      [] name = "0002" -> << Creates({"tables"}, {"phaseNum"}) >>
      [] name = "0003" -> << Creates({"Telemetry"}, {"sourceName"}),
                             Creates({"tables"}, {"checkpointColumns"}),
                             Creates({"sourceName"}, {"sourceNameIndex"}),
                             Creates({}, {"SyncTables"}),
                             Creates({"SyncTables"}, {"syncErrorIndex"}) >>
      [] name = "0005" -> Rebuild("DeviceLatest", "new_DeviceLatest",
                                  {"oldLatestUnique", "latestIndex"}, {"latestIndex"})
      [] name \in {"0004", "0006"} ->
            Rebuild("Telemetry", "new_Telemetry",
                    {"oldTelemetryUnique", "identityIndex", "sourceNameIndex"},
                    {"identityIndex", "sourceNameIndex"})

Pending == {n \in DOMAIN migrations : migrations[n] \notin recorded}

First == migrations[CHOOSE n \in Pending : \A m \in Pending : n <= m]

-----------------------------------------------------------------------------
(* The script.                                                             *)

Run ==
    /\ script \in {"idle", "failed", "done"}
    /\ Pending # {}
    /\ script' = First
    /\ step' = 0
    /\ UNCHANGED <<schema, recorded, old, new, written, late, died>>

\* Record the migration; the next one is due, or the final check.
Record ==
    LET rest == Pending \ {n \in DOMAIN migrations : migrations[n] = script}
    IN  /\ recorded' = recorded \cup {script}
        /\ script' = IF rest # {}
                     THEN migrations[CHOOSE n \in rest : \A m \in rest : n <= m]
                     ELSE IF "oldTelemetryUnique" \in schema THEN "failed" ELSE "done"
        /\ step' = 0
        /\ UNCHANGED <<schema, old, new, written, late, died>>

\* A slip the properties must notice: the table is known by its name alone.
MarkByName ==
    /\ script \notin {"idle", "failed", "done"}
    /\ step = 0
    /\ "Telemetry" \in schema
    /\ Record

\* The schema already has it.
Mark ==
    /\ script \notin {"idle", "failed", "done"}
    /\ step = 0
    /\ matchesMigrationSchema(script)
    /\ Record

\* A slip the properties must notice: no copy of the rows.
ExecuteNoCopy ==
    LET s == statements(script)[step + 1]
    IN  /\ script \notin {"idle", "failed", "done"}
        /\ step < Len(statements(script))
        /\ step = 0 => ~ matchesMigrationSchema(script)
        /\ s.need \subseteq schema /\ s.add \cap schema = {}
        /\ schema' = (schema \ s.drop) \cup s.add
        /\ new' = IF s.op = "rename" THEN {} ELSE new
        /\ old' = CASE s.op = "drop" -> {} [] s.op = "rename" -> new [] OTHER -> old
        /\ step' = step + 1
        /\ UNCHANGED <<recorded, written, script, late, died>>

\* One statement.
Execute ==
    LET s == statements(script)[step + 1]
    IN  /\ script \notin {"idle", "failed", "done"}
        /\ step < Len(statements(script))
        /\ step = 0 => ~ matchesMigrationSchema(script)
        /\ s.need \subseteq schema /\ s.add \cap schema = {}
        /\ schema' = (schema \ s.drop) \cup s.add
        /\ new' = CASE s.op = "copy" -> old [] s.op = "rename" -> {} [] OTHER -> new
        /\ old' = CASE s.op = "drop" -> {} [] s.op = "rename" -> new [] OTHER -> old
        /\ step' = step + 1
        /\ UNCHANGED <<recorded, written, script, late, died>>

\* A statement that does not fit the schema ends the script.
StatementFails ==
    LET s == statements(script)[step + 1]
    IN  /\ script \notin {"idle", "failed", "done"}
        /\ step < Len(statements(script))
        /\ step = 0 => ~ matchesMigrationSchema(script)
        /\ ~ (s.need \subseteq schema /\ s.add \cap schema = {})
        /\ script' = "failed"
        /\ UNCHANGED <<schema, recorded, old, new, written, step, late, died>>

Applied ==
    /\ script \notin {"idle", "failed", "done"}
    /\ step = Len(statements(script))
    /\ Record

ScriptDies ==
    /\ script \notin {"idle", "failed", "done"}
    /\ script' = "idle"
    /\ died' = TRUE
    /\ step' = 0
    /\ UNCHANGED <<schema, recorded, old, new, written, late>>

\* A worker that is still running.
WorkerWrites(b) ==
    /\ {"Telemetry", "sourceName"} \subseteq schema
    /\ b \notin written
    /\ old' = old \cup {b}
    /\ written' = written \cup {b}
    /\ late' = IF script \in {"0004", "0006"} /\ step = 2 THEN late \cup {b} ELSE late
    /\ UNCHANGED <<schema, recorded, new, script, step, died>>

-----------------------------------------------------------------------------

\* An empty file, or one that db push made at some age of schema.prisma.
Ages == { {}, initialSchema, initialSchema \cup {"phaseNum"},
          initialSchema \cup {"phaseNum", "syncErrorIndex"} \cup auditSchema,
          fullSchema \cup {"syncErrorIndex"} }

MigrationInit ==
    /\ schema \in Ages
    /\ recorded = {}
    /\ old = IF "Telemetry" \in schema THEN {"before"} ELSE {}
    /\ new = {}
    /\ written = old
    /\ script = "idle"
    /\ step = 0
    /\ late = {}
    /\ died = FALSE

MigrationNext ==
    \/ Run
    \/ Mark
    \/ Execute
    \/ StatementFails
    \/ Applied
    \/ ScriptDies
    \/ \E b \in Batches : WorkerWrites(b)

MigrationSpec == MigrationInit /\ [][MigrationNext]_migrationVars

-----------------------------------------------------------------------------
(* Properties.                                                             *)

\* Types of the schema, the records and the script.
MigrationTypeOK ==
    /\ schema \subseteq initialSchema \cup fullSchema
          \cup {"syncErrorIndex", "new_Telemetry", "new_DeviceLatest"}
    /\ recorded \subseteq {migrations[n] : n \in DOMAIN migrations}
    /\ old \cup new \cup late \subseteq written
    /\ written \subseteq Batches \cup {"before"}
    /\ script \in {"idle", "failed", "done"} \cup {migrations[n] : n \in DOMAIN migrations}
    /\ step \in 0..5
    /\ died \in BOOLEAN

\* Wherever the script dies and however often it is run again, every telemetry
\* row is in "Telemetry" or in the half-made "new_Telemetry".  Only what a
\* running worker writes between the copy and the drop is lost.
MigrationKeepsRows == written \ late \subseteq old \cup new

\* A script that ends well leaves a schema in which everything is recorded and
\* present, whatever age the file had and whatever earlier runs left behind.
DoneMeansCurrent ==
    script = "done" =>
        /\ fullSchema \subseteq schema
        /\ schema \cap {"oldTelemetryUnique", "oldLatestUnique", "new_Telemetry"} = {}
        /\ Pending = {}

\* On a file of any age the script succeeds, unless an earlier run of it died
\* in the middle of a migration: then it may never succeed again.
FailsOnlyAfterDeath == script = "failed" => died

\* The end of the script is one to rely on, on a file of any age.
MigrationEndsWell ==
    /\ DoneMeansCurrent
    /\ FailsOnlyAfterDeath
=============================================================================
