---------------------------- MODULE ExcelImport ----------------------------
(* The import of an Excel sheet, by POST /api/imports/excel or by the       *)
(* script, and the inverter bindings it shares with the source sync.  Row   *)
(* by row: the device, the binding of the inverter, then a batch of that    *)
(* row alone.  The binding is outside the try block of the row.             *)
(*                                                                          *)
(* A row is known by its place in the sheet, from which its sourceRecordId  *)
(* is made.  What upsertBatch does to Telemetry and DeviceLatest is the     *)
(* module TelemetryStore.                                                   *)
EXTENDS Integers, Sequences

CONSTANTS
    SheetRows,   \* number of rows of the sheet
    SheetDevice, Others, \* the device of the sheet, and targets for target_sn
    Indexes,     \* inverter indexes, from 1
    InverterSns,
    Null,        \* no SN, or no row
    MaxBatches, MaxPairings \* bounds on the imports and on the sync's bindings

ASSUME ImportAssumption ==
    /\ SheetRows \in Nat \ {0}
    /\ Indexes \subseteq Nat \ {0}
    /\ Null \notin InverterSns
    /\ \A d \in {SheetDevice} \cup Others, i \in {0} \cup Indexes : <<d, i>> # Null
    /\ MaxBatches \in Nat /\ MaxPairings \in Nat

VARIABLES
    sheet,     \* sheet[r]: inverter index or 0, inverter SN, device SN well formed
    bindings,  \* bindings[d]: inverterSn of each index that has a binding
    stored,    \* stored[r]: the device and index its telemetry is under, or Null
    batches,   \* the ImportBatch rows, each with the import that made it
    pairings   \* bindings of the source sync so far

importVars == <<sheet, bindings, stored, batches, pairings>>

Targets == {SheetDevice} \cup Others

noBindings == [i \in {} |-> Null]

\* findOrCreateInverterBinding, with its two unique indexes.
bindable(d, index, sn) ==
    \A i \in DOMAIN bindings[d] : i # index /\ bindings[d][i] = sn => sn = Null

bound(d, index, sn) ==
    [bindings EXCEPT ![d] = [i \in DOMAIN @ \cup {index} |->
        IF i = index THEN sn ELSE bindings[d][i]]]

newBatch(by, target) ==
    [by |-> by, target |-> target, alive |-> TRUE, row |-> 1, isBound |-> FALSE,
     inserted |-> 0, failures |-> 0, status |-> "running", recordCount |-> 0]

\* What an import that is over leaves: its batch row, whoever made it.
over == [newBatch("route", SheetDevice) EXCEPT !.alive = FALSE]

\* The batch row is created once the sheet has been read; imports may overlap.
StartImport(by, target) ==
    /\ Len(batches) < MaxBatches
    /\ by = "route" => target = SheetDevice
    /\ batches' = Append(batches, newBatch(by, target))
    /\ UNCHANGED <<sheet, bindings, stored, pairings>>

\* Import n has a row to bind, or to write.
atRow(n, isBound) ==
    batches[n].alive /\ batches[n].row <= SheetRows /\ batches[n].isBound = isBound

\* parseSn, by the script only; the target SN was checked before the batch.
accepted(b) ==
    b.by = "script" /\ b.target = SheetDevice => sheet[b.row].validSn

\* upsertDevice and, for a row of an inverter, its binding.  An inverter SN
\* that is missing from the sheet is null and not undefined: it erases the
\* one that the binding has.
BindRow(n) ==
    LET b   == batches[n]
        row == sheet[b.row]
    IN  /\ atRow(n, FALSE)
        /\ accepted(b)
        /\ row.index # 0 => bindable(b.target, row.index, row.sn)
        /\ bindings' = IF row.index = 0 THEN bindings ELSE bound(b.target, row.index, row.sn)
        /\ batches' = [batches EXCEPT ![n].isBound = TRUE]
        /\ UNCHANGED <<sheet, stored, pairings>>

\* An SN that is not one, or an inverter SN that another channel of the device
\* has: nothing catches the error, and the batch stays "running".
BindRowFails(n) ==
    LET b   == batches[n]
        row == sheet[b.row]
    IN  /\ atRow(n, FALSE)
        /\ ~ accepted(b) \/ (row.index # 0 /\ ~ bindable(b.target, row.index, row.sn))
        /\ batches' = [batches EXCEPT ![n] = over]
        /\ UNCHANGED <<sheet, bindings, stored, pairings>>

\* upsertBatch.  A row that is stored, with this content or another, is not
\* written and counts as inserted nevertheless.
WriteRow(n) ==
    LET b == batches[n]
    IN  /\ atRow(n, TRUE)
        /\ stored' = [stored EXCEPT ![b.row] =
              IF @ # Null THEN @ ELSE <<b.target, sheet[b.row].index>>]
        /\ batches' = [batches EXCEPT ![n] =
              [b EXCEPT !.row = @ + 1, !.isBound = FALSE, !.inserted = @ + 1]]
        /\ UNCHANGED <<sheet, bindings, pairings>>

\* A slip the properties must notice: every error counts as a duplicate.
WriteRowSkipped(n) ==
    /\ atRow(n, TRUE)
    /\ batches' = [batches EXCEPT ![n] = [batches[n] EXCEPT !.row = @ + 1, !.isBound = FALSE]]
    /\ UNCHANGED <<sheet, bindings, stored, pairings>>

\* A slip the properties must notice: the row is tried again, without an end.
WriteRowAgain(n) ==
    /\ atRow(n, TRUE)
    /\ batches' = [batches EXCEPT ![n].failures = @ + 1]
    /\ UNCHANGED <<sheet, bindings, stored, pairings>>

\* Another error than a duplicate: the route goes on, the script does not.
WriteRowFails(n) ==
    LET b == batches[n]
    IN  /\ atRow(n, TRUE)
        /\ batches' = [batches EXCEPT ![n] =
              IF b.by = "script" THEN over
              ELSE [b EXCEPT !.row = @ + 1, !.isBound = FALSE, !.failures = @ + 1]]
        /\ UNCHANGED <<sheet, bindings, stored, pairings>>

FinishImport(n) ==
    LET b == batches[n]
    IN  /\ b.alive /\ b.row > SheetRows
        /\ batches' = [batches EXCEPT ![n] =
              [over EXCEPT !.recordCount = b.inserted,
                              !.status = IF b.failures > 0 THEN "completed_with_errors"
                                                           ELSE "completed"]]
        /\ UNCHANGED <<sheet, bindings, stored, pairings>>

\* The process of the import ends between two statements.
ImportDies(n) ==
    /\ batches[n].alive
    /\ batches' = [batches EXCEPT ![n] = over]
    /\ UNCHANGED <<sheet, bindings, stored, pairings>>

\* The source sync binds the channels of a page; without an SN in the page it
\* leaves the one there is.  A re-paired inverter fails its run.
SyncBinds(index, sn) ==
    /\ pairings < MaxPairings
    /\ pairings' = pairings + 1
    /\ LET known == IF index \in DOMAIN bindings[SheetDevice]
                    THEN bindings[SheetDevice][index] ELSE Null
           next  == IF sn = Null THEN known ELSE sn
       IN  bindings' = IF bindable(SheetDevice, index, next)
                       THEN bound(SheetDevice, index, next) ELSE bindings
    /\ UNCHANGED <<sheet, stored, batches>>

-----------------------------------------------------------------------------

Sheets == [1..SheetRows -> [index : {0} \cup Indexes, sn : InverterSns \cup {Null},
                            validSn : BOOLEAN]]

ImportInit ==
    /\ sheet \in Sheets
    /\ bindings = [d \in Targets |-> noBindings]
    /\ stored = [r \in 1..SheetRows |-> Null]
    /\ batches = <<>>
    /\ pairings = 0

ImportNext ==
    \/ \E by \in {"route", "script"}, target \in Targets : StartImport(by, target)
    \/ \E n \in DOMAIN batches :
          \/ BindRow(n)
          \/ BindRowFails(n)
          \/ WriteRow(n)
          \/ WriteRowFails(n)
          \/ FinishImport(n)
          \/ ImportDies(n)
    \/ \E index \in Indexes, sn \in InverterSns \cup {Null} : SyncBinds(index, sn)

ImportSpec == ImportInit /\ [][ImportNext]_importVars

-----------------------------------------------------------------------------
(* Properties.                                                              *)

ImportBatch ==
    [by : {"route", "script"}, target : Targets, alive : BOOLEAN,
     row : 1..(SheetRows + 1), isBound : BOOLEAN, inserted : 0..SheetRows,
     failures : 0..SheetRows, recordCount : 0..SheetRows,
     status : {"running", "completed", "completed_with_errors"}]

\* Types of the batches, the bindings and the import.
ImportTypeOK ==
    /\ sheet \in Sheets
    /\ \A d \in Targets : /\ DOMAIN bindings[d] \subseteq Indexes
                          /\ \A i \in DOMAIN bindings[d] : bindings[d][i] \in InverterSns \cup {Null}
    /\ stored \in [1..SheetRows -> (Targets \X ({0} \cup Indexes)) \cup {Null}]
    /\ \A n \in DOMAIN batches : batches[n] \in ImportBatch
    /\ pairings \in 0..MaxPairings

\* A batch that says "completed" has counted every row of the sheet and left
\* none out of Telemetry, although imports die, rows fail and other imports
\* and the sync write at the same time; "completed_with_errors" has fewer.
\* Telemetry of an inverter is under a binding of its device that exists, and
\* no inverter SN is on two channels of a device.
ImportAccountsForRows ==
    /\ \A n \in DOMAIN batches :
          /\ batches[n].status = "completed" =>
                /\ batches[n].recordCount = SheetRows
                /\ \A r \in 1..SheetRows : stored[r] # Null
          /\ batches[n].status = "completed_with_errors" => batches[n].recordCount < SheetRows
    /\ \A r \in 1..SheetRows :
          stored[r] # Null /\ stored[r][2] # 0 => stored[r][2] \in DOMAIN bindings[stored[r][1]]
    /\ \A d \in Targets : \A i, j \in DOMAIN bindings[d] :
          bindings[d][i] = bindings[d][j] /\ i # j => bindings[d][i] = Null
=============================================================================
