-------------------------- MODULE ExcelImportProofs --------------------------
(* Proofs about ExcelImport, for any sheet, any number of overlapping        *)
(* imports and any bindings of the source sync between their statements: a   *)
(* batch that says it is complete has every row, telemetry is under a        *)
(* binding, and no inverter is on two channels of a device.                  *)
EXTENDS ExcelImport, SequenceTheorems, TLAPS

-----------------------------------------------------------------------------
(* The invariant.                                                            *)

Row == [index : {0} \cup Indexes, sn : InverterSns \cup {Null}, validSn : BOOLEAN]

\* Every target has its map of bindings.
BindingsOK ==
    /\ DOMAIN bindings = Targets
    /\ \A d \in Targets : /\ DOMAIN bindings[d] \subseteq Indexes
                          /\ \A i \in DOMAIN bindings[d] : bindings[d][i] \in InverterSns \cup {Null}

\* Types, with what the property need not say: batches is a sequence.
ShapeInv ==
    /\ sheet \in [1..SheetRows -> Row]
    /\ BindingsOK
    /\ stored \in [1..SheetRows -> (Targets \X ({0} \cup Indexes)) \cup {Null}]
    /\ batches \in Seq(ImportBatch)
    /\ pairings \in 0..MaxPairings

\* Every row before the one in hand is counted once, as inserted or as failed.
Counted(b) == b.alive => b.inserted + b.failures = b.row - 1

\* Without a failure every row before the one in hand is in the table.
Written(b, table) == b.alive /\ b.failures = 0 => \A r \in 1..(b.row - 1) : table[r] # Null

\* A row in hand that is bound has its binding.
Bound(b, rows, known) ==
    b.isBound =>
      /\ b.alive /\ b.row <= SheetRows
      /\ rows[b.row].index # 0 => rows[b.row].index \in DOMAIN known[b.target]

\* What the status of a batch says is so.
Told(b, table) ==
    /\ b.status = "completed" =>
          b.recordCount = SheetRows /\ \A r \in 1..SheetRows : table[r] # Null
    /\ b.status = "completed_with_errors" => b.recordCount < SheetRows

BatchOK(b, rows, table, known) ==
    /\ Counted(b)
    /\ Written(b, table)
    /\ Bound(b, rows, known)
    /\ Told(b, table)

BatchesInv == \A n \in 1..Len(batches) : BatchOK(batches[n], sheet, stored, bindings)

\* Stored telemetry of an inverter is under a binding of its device.
StoredInv == \A r \in 1..SheetRows :
    stored[r] # Null /\ stored[r][2] # 0 => stored[r][2] \in DOMAIN bindings[stored[r][1]]

\* An inverter SN is on one channel of a device.
UniqueInv == \A d \in Targets : \A i, j \in DOMAIN bindings[d] :
    bindings[d][i] = bindings[d][j] /\ i # j => bindings[d][i] = Null

ImportInv ==
    /\ ShapeInv
    /\ BatchesInv
    /\ StoredInv
    /\ UniqueInv

-----------------------------------------------------------------------------
(* Batches.                                                                  *)

\* The fields of a batch.
LEMMA BatchFields ==
    ASSUME NEW b \in ImportBatch
    PROVE  /\ b.by \in {"route", "script"} /\ b.target \in Targets
           /\ b.row \in 1..(SheetRows + 1)
           /\ b.inserted \in 0..SheetRows /\ b.failures \in 0..SheetRows
           /\ b.recordCount \in 0..SheetRows
           /\ b.status \in {"running", "completed", "completed_with_errors"}
BY DEF ImportBatch

\* A batch that starts, and one that is over, are as they should be, whatever
\* the tables have.
LEMMA FreshBatches ==
    ASSUME NEW rows, NEW table, NEW known
    PROVE  /\ \A by \in {"route", "script"}, target \in Targets :
                 /\ newBatch(by, target) \in ImportBatch
                 /\ BatchOK(newBatch(by, target), rows, table, known)
           /\ over \in ImportBatch /\ BatchOK(over, rows, table, known)
<1>1. \A by \in {"route", "script"}, target \in Targets : newBatch(by, target) \in ImportBatch
  BY ImportAssumption DEF newBatch, ImportBatch
<1>2. SheetDevice \in Targets
  BY DEF Targets
<1>3. over \in ImportBatch
  BY <1>1, <1>2 DEF over, newBatch, ImportBatch
<1>4. \A by \in {"route", "script"}, target \in Targets :
         BatchOK(newBatch(by, target), rows, table, known)
  BY DEF newBatch, BatchOK, Counted, Written, Bound, Told
<1>5. BatchOK(over, rows, table, known)
  BY DEF over, newBatch, BatchOK, Counted, Written, Bound, Told
<1> QED
  BY <1>1, <1>3, <1>4, <1>5

\* What the imports and the sync do to the tables: no row and no binding ever
\* goes away.
Grows ==
    /\ sheet' = sheet
    /\ \A r \in 1..SheetRows : stored[r] # Null => stored'[r] # Null
    /\ \A d \in Targets : DOMAIN bindings[d] \subseteq DOMAIN bindings'[d]

\* Then a batch that nobody touches stays as it should be.
LEMMA BatchStays ==
    ASSUME NEW b \in ImportBatch, BatchOK(b, sheet, stored, bindings), Grows
    PROVE  BatchOK(b, sheet', stored', bindings')
<1>1. Written(b, stored')
  <2>1. b.row - 1 \in 0..SheetRows
    BY BatchFields, ImportAssumption
  <2> QED
    BY <2>1, ImportAssumption DEF BatchOK, Written, Grows
<1>2. Bound(b, sheet', bindings')
  BY BatchFields DEF BatchOK, Bound, Grows
<1>3. Told(b, stored')
  BY DEF BatchOK, Told, Grows
<1> QED
  BY <1>1, <1>2, <1>3 DEF BatchOK

\* An import touches its own batch only.
LEMMA OneBatch ==
    ASSUME batches \in Seq(ImportBatch), BatchesInv, Grows,
           NEW n \in 1..Len(batches), NEW b \in ImportBatch,
           batches' = [batches EXCEPT ![n] = b], BatchOK(b, sheet', stored', bindings')
    PROVE  batches' \in Seq(ImportBatch) /\ BatchesInv'
<1>1. /\ batches' \in Seq(ImportBatch) /\ Len(batches') = Len(batches)
      /\ \A k \in 1..Len(batches) : batches'[k] = IF k = n THEN b ELSE batches[k]
  BY ExceptSeq
<1>2. \A k \in 1..Len(batches) : BatchOK(batches[k], sheet', stored', bindings')
  BY BatchStays DEF BatchesInv
<1>3. \A k \in 1..Len(batches') : BatchOK(batches'[k], sheet', stored', bindings')
  BY <1>1, <1>2
<1> QED
  BY <1>1, <1>3 DEF BatchesInv

\* The sync touches none.
LEMMA NoBatch ==
    ASSUME batches \in Seq(ImportBatch), BatchesInv, Grows, batches' = batches
    PROVE  batches' \in Seq(ImportBatch) /\ BatchesInv'
<1>1. \A k \in 1..Len(batches) : BatchOK(batches[k], sheet', stored', bindings')
  BY BatchStays DEF BatchesInv
<1> QED
  BY <1>1 DEF BatchesInv

-----------------------------------------------------------------------------
(* Bindings.                                                                 *)

\* A binding that can be made is added to those there are, and leaves no SN on
\* two channels.
LEMMA BindingAdded ==
    ASSUME BindingsOK, UniqueInv, NEW d \in Targets, NEW index \in Indexes,
           NEW sn \in InverterSns \cup {Null}, bindable(d, index, sn),
           bindings' = bound(d, index, sn)
    PROVE  /\ BindingsOK' /\ UniqueInv'
           /\ \A t \in Targets : DOMAIN bindings[t] \subseteq DOMAIN bindings'[t]
           /\ index \in DOMAIN bindings'[d]
<1> DEFINE one == [i \in DOMAIN bindings[d] \cup {index} |->
                      IF i = index THEN sn ELSE bindings[d][i]]
<1>1. bindings' = [bindings EXCEPT ![d] = one]
  BY DEF bound, BindingsOK
<1>2. /\ DOMAIN bindings' = Targets
      /\ \A t \in Targets : bindings'[t] = IF t = d THEN one ELSE bindings[t]
  BY <1>1 DEF BindingsOK
<1>3. /\ DOMAIN one = DOMAIN bindings[d] \cup {index}
      /\ \A i \in DOMAIN one : one[i] = IF i = index THEN sn ELSE bindings[d][i]
  OBVIOUS
<1>4. \A i \in DOMAIN bindings[d] : i # index /\ bindings[d][i] = sn => sn = Null
  BY DEF bindable
<1> HIDE DEF one
<1>5. BindingsOK'
  BY <1>2, <1>3 DEF BindingsOK
<1>6. \A i, j \in DOMAIN one : one[i] = one[j] /\ i # j => one[i] = Null
  BY <1>3, <1>4 DEF UniqueInv
<1>7. UniqueInv'
  BY <1>2, <1>6 DEF UniqueInv
<1> QED
  BY <1>2, <1>3, <1>5, <1>7
-----------------------------------------------------------------------------
(* The actions.                                                              *)

LEMMA ImportStarts == ImportInit => ImportInv
<1> SUFFICES ASSUME ImportInit
             PROVE  ImportInv
  OBVIOUS
<1>1. /\ sheet \in Sheets /\ bindings = [d \in Targets |-> noBindings]
      /\ stored = [r \in 1..SheetRows |-> Null] /\ batches = <<>> /\ pairings = 0
  BY DEF ImportInit
<1>2. DOMAIN noBindings = {}
  BY DEF noBindings
<1>3. ShapeInv
  BY <1>1, <1>2, ImportAssumption DEF ShapeInv, BindingsOK, Sheets, Row
<1>4. BatchesInv
  BY <1>1 DEF BatchesInv
<1>5. StoredInv /\ UniqueInv
  BY <1>1, <1>2 DEF StoredInv, UniqueInv
<1> QED
  BY <1>3, <1>4, <1>5 DEF ImportInv

\* The frame of a step that changes one batch and no table.
LEMMA BatchOnly ==
    ASSUME ImportInv, UNCHANGED <<sheet, bindings, stored, pairings>>,
           batches' \in Seq(ImportBatch), BatchesInv'
    PROVE  ImportInv'
BY DEF ImportInv, ShapeInv, BindingsOK, StoredInv, UniqueInv

LEMMA StartPreserves ==
    ASSUME ImportInv, NEW by \in {"route", "script"}, NEW target \in Targets,
           StartImport(by, target)
    PROVE  ImportInv'
<1> DEFINE b == newBatch(by, target)
<1>1. /\ batches' = Append(batches, b) /\ batches \in Seq(ImportBatch)
      /\ UNCHANGED <<sheet, bindings, stored, pairings>>
  BY DEF StartImport, ImportInv, ShapeInv
<1>2. b \in ImportBatch /\ BatchOK(b, sheet', stored', bindings')
  BY FreshBatches
<1> HIDE DEF b
<1>3. /\ batches' \in Seq(ImportBatch) /\ Len(batches') = Len(batches) + 1
      /\ \A k \in 1..Len(batches) : batches'[k] = batches[k]
      /\ batches'[Len(batches) + 1] = b
  BY <1>1, <1>2, AppendProperties
<1>4. \A k \in 1..Len(batches) : BatchOK(batches[k], sheet', stored', bindings')
  BY <1>1 DEF ImportInv, BatchesInv
<1>5. \A k \in 1..Len(batches') : BatchOK(batches'[k], sheet', stored', bindings')
  <2>1. \A k \in 1..Len(batches') : k \in 1..Len(batches) \/ k = Len(batches) + 1
    BY <1>1, <1>3
  <2> QED
    BY <1>2, <1>3, <1>4, <2>1
<1> QED
  BY <1>1, <1>3, <1>5, BatchOnly DEF BatchesInv

\* A batch that ends: with an error, with its process, or with the sheet.
LEMMA OverPreserves ==
    ASSUME ImportInv, NEW n \in 1..Len(batches), batches' = [batches EXCEPT ![n] = over],
           UNCHANGED <<sheet, bindings, stored, pairings>>
    PROVE  ImportInv'
<1>1. over \in ImportBatch /\ BatchOK(over, sheet', stored', bindings')
  BY FreshBatches
<1>2. batches \in Seq(ImportBatch) /\ BatchesInv /\ Grows
  BY DEF ImportInv, ShapeInv, Grows
<1> QED
  BY <1>1, <1>2, OneBatch, BatchOnly

LEMMA FinishPreserves ==
    ASSUME ImportInv, NEW n \in 1..Len(batches), FinishImport(n)
    PROVE  ImportInv'
<1> DEFINE b == batches[n]
           e == [over EXCEPT !.recordCount = b.inserted,
                             !.status = IF b.failures > 0 THEN "completed_with_errors"
                                                          ELSE "completed"]
<1>1. /\ b.row > SheetRows /\ batches' = [batches EXCEPT ![n] = e]
      /\ UNCHANGED <<sheet, bindings, stored, pairings>>
  BY DEF FinishImport
<1>2. b.alive
  BY DEF FinishImport
<1>3. batches \in Seq(ImportBatch) /\ BatchesInv /\ Grows
  BY <1>1 DEF ImportInv, ShapeInv, Grows
<1>4. b \in ImportBatch /\ BatchOK(b, sheet, stored, bindings)
  BY <1>3 DEF BatchesInv
<1>5. /\ b.row = SheetRows + 1 /\ b.inserted \in 0..SheetRows /\ b.failures \in 0..SheetRows
      /\ b.inserted + b.failures = b.row - 1
  BY <1>1, <1>2, <1>4, BatchFields, ImportAssumption DEF BatchOK, Counted
<1>6. b.failures = 0 => \A r \in 1..SheetRows : stored[r] # Null
  BY <1>2, <1>4, <1>5, ImportAssumption DEF BatchOK, Written
<1>7. e \in ImportBatch
  BY <1>5, FreshBatches DEF ImportBatch
<1>8. BatchOK(e, sheet', stored', bindings')
  <2>1. /\ e.alive = FALSE /\ e.isBound = FALSE
    BY DEF over, newBatch
  <2>2. /\ e.recordCount = b.inserted
        /\ e.status = IF b.failures > 0 THEN "completed_with_errors" ELSE "completed"
    BY DEF over, newBatch
  <2>3. Counted(e) /\ Written(e, stored') /\ Bound(e, sheet', bindings')
    BY <2>1 DEF Counted, Written, Bound
  <2>4. Told(e, stored')
    BY <1>1, <1>5, <1>6, <2>2, ImportAssumption DEF Told
  <2> QED
    BY <2>3, <2>4 DEF BatchOK
<1> HIDE DEF e
<1> QED
  BY <1>1, <1>3, <1>7, <1>8, OneBatch, BatchOnly

\* The row in hand is bound: its binding is there from then on.
LEMMA BindPreserves ==
    ASSUME ImportInv, NEW n \in 1..Len(batches), BindRow(n)
    PROVE  ImportInv'
<1> DEFINE b == batches[n]
           row == sheet[b.row]
           e == [b EXCEPT !.isBound = TRUE]
<1>1. /\ b.row <= SheetRows
      /\ row.index # 0 => bindable(b.target, row.index, row.sn)
      /\ bindings' = IF row.index = 0 THEN bindings ELSE bound(b.target, row.index, row.sn)
      /\ UNCHANGED <<sheet, stored, pairings>>
  BY DEF BindRow, atRow
<1>2. b.alive
  BY DEF BindRow, atRow
<1>3. batches \in Seq(ImportBatch) /\ BatchesInv /\ BindingsOK /\ UniqueInv
  BY DEF ImportInv, ShapeInv
<1>4. b \in ImportBatch /\ BatchOK(b, sheet, stored, bindings)
  BY <1>3 DEF BatchesInv
<1>5. b.target \in Targets /\ b.row \in 1..SheetRows
  BY <1>1, <1>4, BatchFields, ImportAssumption
<1>6. row.index \in {0} \cup Indexes /\ row.sn \in InverterSns \cup {Null}
  BY <1>5 DEF ImportInv, ShapeInv, Row
<1>7. /\ BindingsOK' /\ UniqueInv'
      /\ \A t \in Targets : DOMAIN bindings[t] \subseteq DOMAIN bindings'[t]
      /\ row.index # 0 => row.index \in DOMAIN bindings'[b.target]
  <2>1. CASE row.index = 0
    BY <1>1, <1>3, <2>1 DEF BindingsOK, UniqueInv
  <2>2. CASE row.index # 0
    BY <1>1, <1>3, <1>5, <1>6, <2>2, BindingAdded
  <2> QED
    BY <2>1, <2>2
<1>8. Grows
  BY <1>1, <1>7 DEF Grows
<1>9. batches' = [batches EXCEPT ![n] = e]
  BY <1>3 DEF BindRow
<1>10. e \in ImportBatch
  BY <1>4 DEF ImportBatch
<1>11. BatchOK(e, sheet', stored', bindings')
  <2>1. /\ e.row = b.row /\ e.inserted = b.inserted /\ e.failures = b.failures
        /\ e.target = b.target /\ e.status = b.status /\ e.recordCount = b.recordCount
    BY <1>4 DEF ImportBatch
  <2>2. e.alive = b.alive
    BY <1>4 DEF ImportBatch
  <2>3. BatchOK(b, sheet', stored', bindings')
    BY <1>4, <1>8, BatchStays
  <2>4. Counted(e) /\ Written(e, stored')
    BY <2>1, <2>2, <2>3 DEF BatchOK, Counted, Written
  <2>5. Bound(e, sheet', bindings')
    BY <1>1, <1>2, <1>7, <2>1, <2>2 DEF Bound
  <2>6. Told(e, stored')
    BY <2>1, <2>3 DEF BatchOK, Told
  <2> QED
    BY <2>4, <2>5, <2>6 DEF BatchOK
<1> HIDE DEF e
<1>12. batches' \in Seq(ImportBatch) /\ BatchesInv'
  BY <1>3, <1>8, <1>9, <1>10, <1>11, OneBatch
<1>13. StoredInv'
  BY <1>1, <1>7 DEF ImportInv, StoredInv, ShapeInv
<1>14. ShapeInv'
  BY <1>1, <1>7, <1>12 DEF ImportInv, ShapeInv
<1> QED
  BY <1>7, <1>12, <1>13, <1>14 DEF ImportInv

\* The row in hand is written: it is stored, under the binding it was given.
LEMMA WritePreserves ==
    ASSUME ImportInv, NEW n \in 1..Len(batches), WriteRow(n)
    PROVE  ImportInv'
<1> DEFINE b == batches[n]
           place == <<b.target, sheet[b.row].index>>
           e == [b EXCEPT !.row = @ + 1, !.isBound = FALSE, !.inserted = @ + 1]
<1>1. /\ b.row <= SheetRows /\ batches' = [batches EXCEPT ![n] = e]
      /\ stored' = [stored EXCEPT ![b.row] = IF @ # Null THEN @ ELSE place]
      /\ UNCHANGED <<sheet, bindings, pairings>>
  BY DEF WriteRow, atRow
<1>2. b.alive /\ b.isBound
  BY DEF WriteRow, atRow
<1>3. batches \in Seq(ImportBatch) /\ BatchesInv
  BY DEF ImportInv, ShapeInv
<1>4. b \in ImportBatch /\ BatchOK(b, sheet, stored, bindings)
  BY <1>3 DEF BatchesInv
<1>5. b.target \in Targets /\ b.row \in 1..SheetRows /\ b.inserted \in 0..SheetRows
      /\ b.failures \in 0..SheetRows /\ b.inserted + b.failures = b.row - 1
  BY <1>1, <1>2, <1>4, BatchFields, ImportAssumption DEF BatchOK, Counted
<1>6. /\ sheet[b.row].index \in {0} \cup Indexes
      /\ sheet[b.row].index # 0 => sheet[b.row].index \in DOMAIN bindings[b.target]
  <2>1. sheet[b.row].index \in {0} \cup Indexes
    BY <1>5 DEF ImportInv, ShapeInv, Row
  <2> QED
    BY <1>2, <1>4, <2>1 DEF BatchOK, Bound
<1>7. place \in Targets \X ({0} \cup Indexes) /\ place # Null
  BY <1>5, <1>6, ImportAssumption DEF Targets
<1>8. /\ place[1] = b.target /\ place[2] = sheet[b.row].index
  OBVIOUS
<1> HIDE DEF place
<1>9. stored \in [1..SheetRows -> (Targets \X ({0} \cup Indexes)) \cup {Null}]
  BY DEF ImportInv, ShapeInv
<1>10. /\ stored' \in [1..SheetRows -> (Targets \X ({0} \cup Indexes)) \cup {Null}]
       /\ \A r \in 1..SheetRows :
             stored'[r] = IF r = b.row /\ stored[r] = Null THEN place ELSE stored[r]
  BY <1>1, <1>5, <1>7, <1>9
<1>11. Grows /\ stored'[b.row] # Null
  BY <1>1, <1>5, <1>7, <1>10 DEF Grows
<1>12. e \in ImportBatch
  <2>1. b.row + 1 \in 1..(SheetRows + 1) /\ b.inserted + 1 \in 0..SheetRows
    BY <1>5, ImportAssumption
  <2> QED
    BY <1>4, <2>1 DEF ImportBatch
<1>13. BatchOK(e, sheet', stored', bindings')
  <2>1. /\ e.row = b.row + 1 /\ e.inserted = b.inserted + 1 /\ e.failures = b.failures
        /\ e.target = b.target /\ e.status = b.status /\ e.recordCount = b.recordCount
    BY <1>4 DEF ImportBatch
  <2>2. e.alive = b.alive /\ e.isBound = FALSE
    BY <1>4 DEF ImportBatch
  <2>3. BatchOK(b, sheet', stored', bindings')
    BY <1>4, <1>11, BatchStays
  <2>4. Counted(e)
    BY <1>5, <2>1 DEF Counted
  <2>5. Written(e, stored')
    <3>1. b.failures = 0 => \A r \in 1..(b.row - 1) : stored'[r] # Null
      BY <1>2, <2>3 DEF BatchOK, Written
    <3>2. b.failures = 0 => \A r \in 1..b.row : stored'[r] # Null
      BY <1>5, <1>11, <3>1
    <3> QED
      BY <1>5, <2>1, <3>2 DEF Written
  <2>6. Bound(e, sheet', bindings')
    BY <2>2 DEF Bound
  <2>7. Told(e, stored')
    BY <2>1, <2>3 DEF BatchOK, Told
  <2> QED
    BY <2>4, <2>5, <2>6, <2>7 DEF BatchOK
<1> HIDE DEF e
<1>14. batches' \in Seq(ImportBatch) /\ BatchesInv'
  BY <1>1, <1>3, <1>11, <1>12, <1>13, OneBatch
<1>15. StoredInv'
  BY <1>1, <1>6, <1>8, <1>10 DEF ImportInv, StoredInv
<1>16. ShapeInv' /\ UniqueInv'
  BY <1>1, <1>10, <1>14 DEF ImportInv, ShapeInv, BindingsOK, UniqueInv
<1> QED
  BY <1>14, <1>15, <1>16 DEF ImportInv

\* The row in hand fails: the script is over, and the route counts it.
LEMMA WriteFailPreserves ==
    ASSUME ImportInv, NEW n \in 1..Len(batches), WriteRowFails(n)
    PROVE  ImportInv'
<1> DEFINE b == batches[n]
           e == [b EXCEPT !.row = @ + 1, !.isBound = FALSE, !.failures = @ + 1]
<1>1. /\ b.row <= SheetRows
      /\ batches' = [batches EXCEPT ![n] = IF b.by = "script" THEN over ELSE e]
      /\ UNCHANGED <<sheet, bindings, stored, pairings>>
  BY DEF WriteRowFails, atRow
<1>2. b.alive
  BY DEF WriteRowFails, atRow
<1>3. batches \in Seq(ImportBatch) /\ BatchesInv /\ Grows
  BY <1>1 DEF ImportInv, ShapeInv, Grows
<1>4. b \in ImportBatch /\ BatchOK(b, sheet, stored, bindings)
  BY <1>3 DEF BatchesInv
<1>5. b.row \in 1..SheetRows /\ b.inserted \in 0..SheetRows
      /\ b.failures \in 0..SheetRows /\ b.inserted + b.failures = b.row - 1
  BY <1>1, <1>2, <1>4, BatchFields, ImportAssumption DEF BatchOK, Counted
<1>6. e \in ImportBatch
  <2>1. b.row + 1 \in 1..(SheetRows + 1) /\ b.failures + 1 \in 0..SheetRows
    BY <1>5, ImportAssumption
  <2> QED
    BY <1>4, <2>1 DEF ImportBatch
<1>7. BatchOK(e, sheet', stored', bindings')
  <2>1. /\ e.row = b.row + 1 /\ e.inserted = b.inserted /\ e.failures = b.failures + 1
        /\ e.status = b.status /\ e.recordCount = b.recordCount
    BY <1>4 DEF ImportBatch
  <2>2. e.alive = b.alive /\ e.isBound = FALSE
    BY <1>4 DEF ImportBatch
  <2>3. Counted(e) /\ Written(e, stored')
    <3> HIDE DEF b, e
    <3>1. e.inserted + e.failures = e.row - 1 /\ e.failures # 0
      BY <1>5, <2>1
    <3> QED
      BY <3>1 DEF Counted, Written
  <2>4. Bound(e, sheet', bindings')
    BY <2>2 DEF Bound
  <2>5. Told(e, stored')
    BY <1>1, <1>4, <2>1 DEF BatchOK, Told
  <2> QED
    BY <2>3, <2>4, <2>5 DEF BatchOK
<1> HIDE DEF e
<1>8. CASE b.by = "script"
  BY <1>1, <1>8, OverPreserves
<1>9. CASE b.by # "script"
  <2>1. batches' = [batches EXCEPT ![n] = e]
    BY <1>1, <1>9
  <2> QED
    BY <1>1, <1>3, <1>6, <1>7, <2>1, OneBatch, BatchOnly
<1> QED
  BY <1>8, <1>9

\* The sync binds a channel between any two statements of the imports.
LEMMA SyncPreserves ==
    ASSUME ImportInv, NEW index \in Indexes, NEW sn \in InverterSns \cup {Null},
           SyncBinds(index, sn)
    PROVE  ImportInv'
<1> DEFINE known == IF index \in DOMAIN bindings[SheetDevice]
                    THEN bindings[SheetDevice][index] ELSE Null
           next  == IF sn = Null THEN known ELSE sn
<1>1. /\ pairings < MaxPairings /\ pairings' = pairings + 1
      /\ bindings' = IF bindable(SheetDevice, index, next)
                     THEN bound(SheetDevice, index, next) ELSE bindings
      /\ UNCHANGED <<sheet, stored, batches>>
  BY DEF SyncBinds
<1>2. batches \in Seq(ImportBatch) /\ BatchesInv /\ BindingsOK /\ UniqueInv
  BY DEF ImportInv, ShapeInv
<1>3. SheetDevice \in Targets
  BY DEF Targets
<1>4. next \in InverterSns \cup {Null}
  BY <1>2, <1>3 DEF BindingsOK
<1> HIDE DEF next
<1>5. /\ BindingsOK' /\ UniqueInv'
      /\ \A t \in Targets : DOMAIN bindings[t] \subseteq DOMAIN bindings'[t]
  <2>1. CASE bindable(SheetDevice, index, next)
    BY <1>1, <1>2, <1>3, <1>4, <2>1, BindingAdded
  <2>2. CASE ~ bindable(SheetDevice, index, next)
    BY <1>1, <1>2, <2>2 DEF BindingsOK, UniqueInv
  <2> QED
    BY <2>1, <2>2
<1>6. Grows
  BY <1>1, <1>5 DEF Grows
<1>7. batches' \in Seq(ImportBatch) /\ BatchesInv'
  BY <1>1, <1>2, <1>6, NoBatch
<1>8. StoredInv'
  BY <1>1, <1>5 DEF ImportInv, ShapeInv, StoredInv
<1>9. ShapeInv'
  <2>1. pairings' \in 0..MaxPairings
    BY <1>1, ImportAssumption DEF ImportInv, ShapeInv
  <2> QED
    BY <1>1, <1>5, <1>7, <2>1 DEF ImportInv, ShapeInv
<1> QED
  BY <1>5, <1>7, <1>8, <1>9 DEF ImportInv

-----------------------------------------------------------------------------
(* The theorems.                                                             *)

\* Whatever the sheet, and however imports and the sync overlap, fail and die,
\* the invariant holds.
THEOREM ImportCorrect == ImportSpec => []ImportInv
<1>1. ASSUME ImportInv, [ImportNext]_importVars
      PROVE  ImportInv'
  <2>1. ASSUME NEW by \in {"route", "script"}, NEW target \in Targets, StartImport(by, target)
        PROVE  ImportInv'
    BY <1>1, <2>1, StartPreserves
  <2>2. ASSUME NEW n \in DOMAIN batches,
               \/ BindRow(n) \/ BindRowFails(n) \/ WriteRow(n) \/ WriteRowFails(n)
               \/ FinishImport(n) \/ ImportDies(n)
        PROVE  ImportInv'
    <3>1. n \in 1..Len(batches)
      BY <1>1 DEF ImportInv, ShapeInv
    <3>2. CASE BindRow(n)
      BY <1>1, <3>1, <3>2, BindPreserves
    <3>3. CASE BindRowFails(n)
      BY <1>1, <3>1, <3>3, OverPreserves DEF BindRowFails
    <3>4. CASE WriteRow(n)
      BY <1>1, <3>1, <3>4, WritePreserves
    <3>5. CASE WriteRowFails(n)
      BY <1>1, <3>1, <3>5, WriteFailPreserves
    <3>6. CASE FinishImport(n)
      BY <1>1, <3>1, <3>6, FinishPreserves
    <3>7. CASE ImportDies(n)
      BY <1>1, <3>1, <3>7, OverPreserves DEF ImportDies
    <3> QED
      BY <2>2, <3>2, <3>3, <3>4, <3>5, <3>6, <3>7
  <2>3. ASSUME NEW index \in Indexes, NEW sn \in InverterSns \cup {Null}, SyncBinds(index, sn)
        PROVE  ImportInv'
    BY <1>1, <2>3, SyncPreserves
  <2>4. CASE UNCHANGED importVars
    BY <1>1, <2>4 DEF importVars, ImportInv, ShapeInv, BindingsOK, BatchesInv, StoredInv,
                      UniqueInv
  <2> QED
    BY <1>1, <2>1, <2>2, <2>3, <2>4 DEF ImportNext
<1> QED
  BY ImportStarts, <1>1, PTL DEF ImportSpec

\* The sheet, the tables and the batches keep their types.
THEOREM ImportTypes == ImportSpec => []ImportTypeOK
<1>1. ImportInv => ImportTypeOK
  BY DEF ImportInv, ShapeInv, BindingsOK, ImportTypeOK, Sheets, Row
<1> QED
  BY ImportCorrect, <1>1, PTL

\* A batch that is complete has counted and stored every row; telemetry of an
\* inverter is under a binding; no SN is on two channels.
THEOREM RowsAreAccounted == ImportSpec => []ImportAccountsForRows
<1>1. ImportInv => ImportAccountsForRows
  <2> SUFFICES ASSUME ImportInv PROVE ImportAccountsForRows
    OBVIOUS
  <2>1. \A n \in DOMAIN batches : BatchOK(batches[n], sheet, stored, bindings)
    BY DEF ImportInv, ShapeInv, BatchesInv
  <2>2. \A n \in DOMAIN batches : Told(batches[n], stored)
    BY <2>1 DEF BatchOK
  <2> QED
    BY <2>2 DEF Told, ImportInv, StoredInv, UniqueInv, ImportAccountsForRows
<1> QED
  BY ImportCorrect, <1>1, PTL
=============================================================================
