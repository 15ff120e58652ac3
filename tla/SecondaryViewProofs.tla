------------------------ MODULE SecondaryViewProofs -------------------------
(***************************************************************************)
(* The theorems of SecondaryView, for any number of keys, values, inserts  *)
(* and faults: types, the uniqueness of row IDs, and that a view which is  *)
(* up to date shows the rows of the table and nothing else.  Each assumes  *)
(* only that the delicate windows it names are not entered.                *)
(***************************************************************************)
EXTENDS SecondaryView, TLAPS

USE CellAssumption, BoundsAssumption, InitialViewAssumption, WindowsAssumption, RowAssumption

(* What m_Seq will be when the table serves again. *)
NextSeq == IF up THEN seq ELSE high + logged

(* m_Seq is the highest sequence number of a segment plus the records of   *)
(* the log, which is how a reopen computes it; but a new table starts at 1. *)
Counts ==
    /\ seq \in Nat /\ high \in Nat /\ logged \in Nat
    /\ NextSeq <= MaxSeq + 1
    /\ up => seq = high + logged \/ (high = 0 /\ seq = logged + 1)

LEMMA InitCounts == Init => Counts
BY DEF Init, Counts, NextSeq

LEMMA NextCounts ==
    ASSUME Counts, [Next]_vars
    PROVE  Counts'
<1> USE DEF Counts, NextSeq
<1>1. ASSUME NEW k \in Key, NEW d \in Datum, Insert(k, d) PROVE Counts'
  BY <1>1 DEF Insert, InsertPrimary
<1>2. CASE Save
  BY <1>2 DEF Save
<1>3. CASE AddView \/ DeleteView \/ AbortUpdate
  BY <1>3 DEF AddView, DeleteView, AbortUpdate, primary
<1>4. CASE BeginUpdate \/ FinishUpdate
  BY <1>4 DEF BeginUpdate, FinishUpdate, primary
<1>5. ASSUME NEW k \in Key, NEW full \in BOOLEAN, ScanRow(k, full) PROVE Counts'
  BY <1>5 DEF ScanRow, primary
<1>6. CASE UpdateLostView \/ Crash
  BY <1>6 DEF UpdateLostView, Crash, Die, primary
<1>7. ASSUME NEW k \in Key, NEW d \in Datum, CrashInInsert(k, d) PROVE Counts'
  BY <1>7 DEF CrashInInsert, InsertPrimary, Die
<1>8. ASSUME NEW K \in SUBSET Key, CrashInFinish(K) PROVE Counts'
  BY <1>8 DEF CrashInFinish, Die, primary
<1>9. CASE Reopen
  BY <1>9 DEF Reopen, primary
<1>10. CASE UNCHANGED vars
  BY <1>10 DEF vars, primary
<1>11. QED
  BY <1>1, <1>2, <1>3, <1>4, <1>5, <1>6, <1>7, <1>8, <1>9, <1>10 DEF Next, Housekeeping

-----------------------------------------------------------------------------
(* Types *)

LEMMA OverType ==
    ASSUME NEW t \in EntrySet, NEW b \in EntrySet
    PROVE  Over(t, b) \in EntrySet
BY DEF Over, EntrySet

LEMMA NoEntriesType == NoEntries \in EntrySet
BY DEF NoEntries, EntrySet

(* A row of the primary view has an ID below m_Seq. *)
LEMMA MemoryRowType ==
    ASSUME TypeOK, Counts, up, seq <= MaxSeq, NEW k \in Key, NEW d \in Datum
    PROVE  /\ NewRowID(k) \in RowID
           /\ MemoryRow(k, d) \in Row
           /\ OldData(k) \in Datum
<1>1. seq \in RowID /\ 0 \in RowID
  BY DEF RowID, Counts
<1>2. Current(k) \in Row
  BY <1>1 DEF Current, TypeOK, Row, Datum
<1>3. NewRowID(k) \in RowID /\ OldData(k) \in Datum
  BY <1>1, <1>2 DEF NewRowID, OldData, Row, Datum
<1>4. rows[k] # NoRow => rows[k] \in Row
  BY DEF TypeOK
<1>5. QED
  BY <1>3, <1>4 DEF MemoryRow, Row

LEMMA InsertEntryType ==
    ASSUME NEW entries \in EntrySet, NEW k \in Key, NEW old \in Datum, NEW d \in Datum,
           NEW id \in RowID
    PROVE  /\ WithoutOld(entries, old, id) \in EntrySet
           /\ InsertEntry(entries, k, old, d, id) \in EntrySet
<1>1. ASSUME NEW s \in EntrySet, NEW v \in Datum, NEW c \in Key \cup {Nil}
      PROVE  [s EXCEPT ![<<v, id>>] = c] \in EntrySet
  BY <1>1 DEF EntrySet
<1>2. WithoutOld(entries, old, id) \in EntrySet
  BY <1>1 DEF WithoutOld
<1>3. QED
  BY <1>1, <1>2 DEF InsertEntry

LEMMA UpdatedRowsType ==
    ASSUME TypeOK, NEW K \in SUBSET Key
    PROVE  UpdatedRows(K) \in EntrySet
<1> SUFFICES ASSUME NEW e \in Entry PROVE UpdatedRows(K)[e] \in Key \cup {Nil, NoRow}
  BY DEF UpdatedRows, EntrySet
<1>1. CASE \E k \in K : <<rows[k].data, rows[k].id>> = e
  <2>1. (CHOOSE k \in K : <<rows[k].data, rows[k].id>> = e) \in K
    BY <1>1
  <2>2. QED
    BY <1>1, <2>1 DEF UpdatedRows
<1>2. CASE ~\E k \in K : <<rows[k].data, rows[k].id>> = e
  BY <1>2 DEF UpdatedRows, TypeOK, EntrySet
<1>3. QED
  BY <1>1, <1>2

LEMMA UpdateType ==
    ASSUME TypeOK, task # NoTask
    PROVE  /\ task \in Update /\ task.type = "update"
           /\ task.from \in [Key -> Row \cup {NoRow}] /\ task.left \in SUBSET Key
           /\ task.batch \in EntrySet /\ task.created \in EntrySet
BY DEF TypeOK, Update

LEMMA TypeInsert ==
    ASSUME TypeOK, Counts, NEW k \in Key, NEW d \in Datum, Insert(k, d)
    PROVE  TypeOK'
<1>1. up /\ seq <= MaxSeq
  BY DEF Insert, InsertPrimary
<1>2. rows' \in [Key -> Row \cup {NoRow}]
  BY <1>1, MemoryRowType DEF Insert, InsertPrimary, TypeOK
<1>3. vrows' \in EntrySet
  BY <1>1, MemoryRowType, InsertEntryType DEF Insert, TypeOK
<1>4. QED
  BY <1>2, <1>3 DEF Insert, InsertPrimary, TypeOK

LEMMA TypeSave ==
    ASSUME TypeOK, Save
    PROVE  TypeOK'
<1>1. segs' \in [Key -> Row \cup {NoRow}] /\ rows' \in [Key -> Row \cup {NoRow}]
  BY DEF Save, TypeOK, NoRows
<1>2. vsegs' \in EntrySet /\ vrows' \in EntrySet
  BY OverType, NoEntriesType DEF Save, TypeOK
<1>3. QED
  BY <1>1, <1>2 DEF Save, TypeOK

LEMMA TypeScan ==
    ASSUME TypeOK, NEW k \in Key, NEW full \in BOOLEAN, ScanRow(k, full)
    PROVE  TypeOK'
<1>1. /\ task # NoTask /\ k \in task.left
      /\ UNCHANGED <<up, seq, rows, logged, segs, high, view, desc, vrows, vsegs, orphans, faults>>
  BY DEF ScanRow, primary
<1> DEFINE batch == CreateSecondaryRows(k)
           save == full \/ task.left = {k}
<1>2. batch \in EntrySet
  <2>1. CASE task.from[k].data = Nil
    BY <1>1, <2>1, UpdateType DEF CreateSecondaryRows
  <2>2. CASE task.from[k].data # Nil
    BY <1>1, <2>2, UpdateType DEF CreateSecondaryRows, EntrySet
  <2>3. QED
    BY <2>1, <2>2
<1>3. (IF save THEN NoEntries ELSE batch) \in EntrySet
      /\ (IF save THEN Over(batch, task.created) ELSE task.created) \in EntrySet
  BY <1>1, <1>2, OverType, NoEntriesType, UpdateType
<1>4. task' = [task EXCEPT !.left = @ \ {k}, !.batch = IF save THEN NoEntries ELSE batch,
                           !.created = IF save THEN Over(batch, @) ELSE @]
  BY DEF ScanRow
<1>5. task' \in Update
  BY <1>1, <1>3, <1>4, UpdateType DEF Update
<1>6. QED
  BY <1>1, <1>5 DEF TypeOK

(* Housekeeping's other steps, and the view added and deleted. *)
LEMMA TypeHousekeeping ==
    ASSUME TypeOK,
           AddView \/ DeleteView \/ BeginUpdate \/ FinishUpdate
    PROVE  TypeOK'
<1>1. CASE AddView
  BY <1>1 DEF AddView, primary, TypeOK
<1>2. CASE DeleteView
  BY <1>2, NoEntriesType DEF DeleteView, primary, TypeOK
<1>3. CASE BeginUpdate
  <2>1. task' \in Update
    BY <1>3, NoEntriesType DEF BeginUpdate, Update, TypeOK
  <2>2. QED
    BY <1>3, <2>1 DEF BeginUpdate, primary, TypeOK
<1>4. CASE FinishUpdate
  <2>1. vsegs' \in EntrySet /\ vrows' \in EntrySet
    BY <1>4, OverType, UpdateType, UpdatedRowsType DEF FinishUpdate, UpdateScanned, Unsaved, TypeOK
  <2>2. QED
    BY <1>4, <2>1 DEF FinishUpdate, primary, TypeOK
<1>5. QED
  BY <1>1, <1>2, <1>3, <1>4

(* An update that does not end leaves its segment files. *)
LEMMA AbandonedType ==
    ASSUME TypeOK
    PROVE  /\ task # NoTask => Over(task.created, orphans) \in EntrySet
           /\ \A window : Abandon(window) => orphans' \in EntrySet
<1>1. orphans \in EntrySet
  BY DEF TypeOK
<1>2. QED
  BY <1>1, OverType, UpdateType DEF Abandon

LEMMA TypeDie ==
    ASSUME TypeOK, Die, orphans' \in EntrySet, vrows' \in EntrySet, vsegs' = vsegs,
           desc' \in {"none", "stale", "ready"}, faults' \in 0..MaxFaults,
           rows' \in [Key -> Row \cup {NoRow}], segs' = segs, high' = high, logged' \in Nat
    PROVE  TypeOK'
<1>1. up' = FALSE /\ seq' = 0 /\ view' = "none" /\ task' = NoTask
  BY DEF Die
<1>2. up' \in BOOLEAN /\ view' \in {"none", "stale", "ready"} /\ task' \in Update \cup {NoTask}
  BY <1>1
<1>3. seq' \in 0..MaxSeq + 1
  BY <1>1
<1>4. QED
  BY <1>2, <1>3 DEF TypeOK

LEMMA TypeFault ==
    ASSUME TypeOK, Counts, AbortUpdate \/ UpdateLostView \/ Crash
    PROVE  TypeOK'
<1>1. CASE AbortUpdate
  BY <1>1, AbandonedType DEF AbortUpdate, Fault, primary, TypeOK
<1>2. CASE UpdateLostView
  BY <1>2, AbandonedType, TypeDie DEF UpdateLostView, primary, TypeOK
<1>3. CASE Crash
  BY <1>3, AbandonedType, TypeDie DEF Crash, Fault, primary, TypeOK
<1>4. QED
  BY <1>1, <1>2, <1>3

LEMMA TypeCrashInInsert ==
    ASSUME TypeOK, Counts, NEW k \in Key, NEW d \in Datum, CrashInInsert(k, d)
    PROVE  TypeOK'
<1>1. up /\ seq <= MaxSeq
  BY DEF CrashInInsert, InsertPrimary
<1>2. rows' \in [Key -> Row \cup {NoRow}]
  BY <1>1, MemoryRowType DEF CrashInInsert, InsertPrimary, TypeOK
<1>3. vrows' \in EntrySet
  BY <1>1, MemoryRowType, InsertEntryType DEF CrashInInsert, TypeOK
<1>4. orphans' \in EntrySet
  BY AbandonedType DEF CrashInInsert
<1>5. /\ Die /\ vsegs' = vsegs /\ desc' = desc /\ segs' = segs /\ high' = high
      /\ logged' = logged + 1 /\ faults < MaxFaults /\ faults' = faults + 1
  BY DEF CrashInInsert, InsertPrimary, Fault
<1>6. QED
  BY <1>2, <1>3, <1>4, <1>5, TypeDie DEF TypeOK

LEMMA TypeCrashInFinish ==
    ASSUME TypeOK, NEW K \in SUBSET Key, CrashInFinish(K)
    PROVE  TypeOK'
<1>1. orphans' \in EntrySet /\ vrows' \in EntrySet
  BY AbandonedType, UpdatedRowsType DEF CrashInFinish, UpdateScanned
<1>2. /\ Die /\ UNCHANGED <<rows, logged, segs, high, vsegs>>
      /\ desc' \in {desc, "ready"} /\ faults < MaxFaults /\ faults' = faults + 1
  BY DEF CrashInFinish, Fault, primary
<1>3. QED
  BY <1>1, <1>2, TypeDie DEF TypeOK

LEMMA TypeReopen ==
    ASSUME TypeOK, Counts, Counts', Reopen
    PROVE  TypeOK'
<1>1. vsegs' \in EntrySet /\ orphans' \in EntrySet
  BY OverType, NoEntriesType DEF Reopen, TypeOK
<1>2. seq' \in 0..MaxSeq + 1
  BY DEF Reopen, Counts, NextSeq
<1>3. QED
  BY <1>1, <1>2 DEF Reopen, primary, TypeOK

TypeInv == TypeOK /\ Counts

LEMMA InitType == Init => TypeInv
<1> SUFFICES ASSUME Init PROVE TypeOK
  BY InitCounts DEF TypeInv
<1> QED
  BY NoEntriesType DEF Init, TypeOK, NoRows, NoTask

LEMMA NextType == TypeInv /\ [Next]_vars => TypeInv'
<1> SUFFICES ASSUME TypeOK, Counts, [Next]_vars PROVE TypeOK' /\ Counts'
  BY DEF TypeInv
<1>1. Counts'
  BY NextCounts
<1>2. CASE UNCHANGED vars
  BY <1>1, <1>2 DEF vars, TypeOK
<1>3. CASE Next
  BY <1>1, <1>3, TypeInsert, TypeSave, TypeScan, TypeHousekeeping, TypeFault, TypeCrashInInsert,
     TypeCrashInFinish, TypeReopen DEF Next, Housekeeping
<1>4. QED
  BY <1>1, <1>2, <1>3

(* Every variable of SecondaryView keeps its type: row IDs stay within the   *)
(* range of m_Seq, and what the view gives for an entry is a key, nil or     *)
(* nothing (CAeonTable::Insert, HousekeepingUpdateView).                     *)
THEOREM TypeCorrect == Spec => []TypeOK
<1>1. TypeInv => TypeOK
  BY DEF TypeInv
<1>2. QED
  BY <1>1, InitType, NextType, PTL DEF Spec

-----------------------------------------------------------------------------
(* Row IDs *)

(* The IDs given so far are below those to come, and those of saved rows   *)
(* are below the number of the highest segment.                            *)
Below ==
    \A k \in Key : /\ segs[k] # NoRow => segs[k].id < high
                   /\ rows[k] # NoRow => rows[k].id < NextSeq

(* No ID belongs to two keys, in memory or in a segment. *)
HasID(k, i) == \/ rows[k] # NoRow /\ rows[k].id = i
               \/ segs[k] # NoRow /\ segs[k].id = i
Apart == \A j, k \in Key, i \in RowID : HasID(j, i) /\ HasID(k, i) => j = k

IDInv == TypeInv /\ Below /\ Apart

LEMMA InitIDs == Init => IDInv
<1> SUFFICES ASSUME Init PROVE Below /\ Apart
  BY InitType DEF IDInv
<1> QED
  BY DEF Init, Below, Apart, HasID, NoRows

(* The row that an insert makes of a key has an ID of that key, or a new   *)
(* one.                                                                    *)
LEMMA InsertID ==
    ASSUME NEW k \in Key, NEW d \in Datum
    PROVE  HasID(k, MemoryRow(k, d).id) \/ MemoryRow(k, d).id = seq
BY DEF MemoryRow, NewRowID, OldData, Current, HasID

(* An insert keeps the row IDs apart, whether or not it comes to its end. *)
LEMMA InsertIDs ==
    ASSUME IDInv, NEW k \in Key, NEW d \in Datum, InsertPrimary(k, d),
           NextSeq' \in Nat, NextSeq' >= seq + 1
    PROVE  Below' /\ Apart'
<1>1. /\ TypeOK /\ Counts /\ Below /\ Apart /\ up /\ seq <= MaxSeq
      /\ rows' = [rows EXCEPT ![k] = MemoryRow(k, d)]
      /\ logged' = logged + 1 /\ segs' = segs /\ high' = high
  BY DEF InsertPrimary, IDInv, TypeInv
<1>2. /\ \A j \in Key : rows'[j] = IF j = k THEN MemoryRow(k, d) ELSE rows[j]
      /\ MemoryRow(k, d) \in Row
  BY <1>1, MemoryRowType DEF TypeOK
<1>3. seq \in Nat /\ high \in Nat /\ logged \in Nat /\ high <= seq
  BY <1>1 DEF Counts, NextSeq
<1>4. \A j \in Key, i \in RowID : HasID(j, i) => i < seq
  BY <1>1, <1>3 DEF Below, NextSeq, HasID, RowID
<1>5. MemoryRow(k, d).id \in RowID /\ MemoryRow(k, d).id <= seq
  BY <1>2, <1>3, <1>4, InsertID DEF Row, RowID
<1>6. Below'
  <2>1. ASSUME NEW j \in Key, rows'[j] # NoRow PROVE rows'[j].id < NextSeq'
    BY <1>1, <1>2, <1>3, <1>5, <2>1 DEF Below, NextSeq, TypeOK, Row, RowID
  <2>2. QED
    BY <1>1, <2>1 DEF Below
<1>7. \A j \in Key, i \in RowID : HasID(j, i)' => HasID(j, i) \/ (j = k /\ i = seq)
  BY <1>1, <1>2, InsertID DEF HasID
<1>8. ASSUME NEW i \in Key, NEW j \in Key, NEW n \in RowID, HasID(i, n)', HasID(j, n)'
      PROVE  i = j
  BY <1>1, <1>3, <1>4, <1>7, <1>8 DEF Apart, RowID
<1>9. QED
  BY <1>6, <1>8 DEF Apart

(* A reopen counts on from the log's records, or numbers from 0 when there *)
(* is neither a row nor a segment, unless window "reuse" is open.          *)
LEMMA DieIDs ==
    ASSUME IDInv, Die, UNCHANGED primary, "reuse" \notin Windows
    PROVE  Below' /\ Apart'
<1>1. /\ TypeOK /\ Counts /\ Below /\ Apart
      /\ UNCHANGED <<rows, segs, high, logged>> /\ up' = FALSE
      /\ high = 0 => rows = NoRows
  BY DEF IDInv, TypeInv, Die, primary
<1>2. \A k \in Key : rows[k] # NoRow => rows[k].id < NextSeq'
  <2>1. ASSUME NEW k \in Key, rows[k] # NoRow PROVE high # 0
    BY <1>1, <2>1 DEF NoRows
  <2>2. QED
    BY <1>1, <2>1 DEF Below, Counts, NextSeq
<1>3. Below'
  BY <1>1, <1>2 DEF Below
<1>4. Apart'
  BY <1>1 DEF Apart, HasID
<1>5. QED
  BY <1>3, <1>4

(* A step that keeps the primary view and m_Seq keeps the row IDs apart. *)
LEMMA SamePrimaryIDs ==
    ASSUME IDInv, UNCHANGED <<up, seq>>, UNCHANGED primary
    PROVE  Below' /\ Apart'
BY DEF IDInv, Below, Apart, HasID, NextSeq, primary

(* Saved rows keep their IDs, which are below the number of their segment. *)
LEMMA SaveIDs ==
    ASSUME IDInv, Save
    PROVE  Below' /\ Apart'
<1>1. /\ TypeOK /\ Counts /\ Below /\ Apart /\ up /\ up' = up /\ seq' = seq /\ high' = seq
      /\ rows' = NoRows /\ \A k \in Key : rows'[k] = NoRow
      /\ \A k \in Key : segs'[k] = IF rows[k] # NoRow THEN rows[k] ELSE segs[k]
  BY DEF Save, IDInv, TypeInv, NoRows
<1>2. \A k \in Key : segs[k] # NoRow => segs[k].id \in Nat /\ segs[k].id < seq
  BY <1>1 DEF Below, Counts, TypeOK, Row, RowID
<1>3. Below'
  BY <1>1, <1>2 DEF Below, NextSeq
<1>4. \A k \in Key, i \in RowID : HasID(k, i)' => HasID(k, i)
  BY <1>1 DEF HasID
<1>5. QED
  BY <1>1, <1>3, <1>4 DEF Apart

LEMMA ReopenIDs ==
    ASSUME IDInv, Reopen
    PROVE  Below' /\ Apart'
BY DEF IDInv, TypeInv, Reopen, Below, Apart, HasID, NextSeq, primary

LEMMA NextIDs ==
    ASSUME IDInv, [Next]_vars, "reuse" \notin Windows
    PROVE  IDInv'
<1>1. TypeInv /\ TypeInv'
  BY NextType DEF IDInv
<1> SUFFICES Below' /\ Apart'
  BY <1>1 DEF IDInv
<1>2. seq \in Nat /\ high \in Nat /\ logged \in Nat /\ (up => high + logged <= seq)
  BY <1>1 DEF TypeInv, Counts
<1>3. ASSUME NEW k \in Key, NEW d \in Datum, Insert(k, d) PROVE Below' /\ Apart'
  <2>1. InsertPrimary(k, d) /\ up /\ up' = up /\ seq' = seq + 1
    BY <1>3 DEF Insert, InsertPrimary
  <2>2. NextSeq' = seq + 1
    BY <2>1 DEF NextSeq
  <2>3. QED
    BY <1>2, <2>1, <2>2, InsertIDs
<1>4. ASSUME NEW k \in Key, NEW d \in Datum, CrashInInsert(k, d) PROVE Below' /\ Apart'
  <2>1. /\ InsertPrimary(k, d) /\ up /\ up' = FALSE /\ high' = high /\ logged' = logged + 1
        /\ high = 0 => rows' = NoRows
    BY <1>4 DEF CrashInInsert, InsertPrimary, Die
  <2>2. rows' # NoRows
    <3>1. rows'[k] = MemoryRow(k, d) /\ MemoryRow(k, d) \in Row
      BY <1>1, <2>1, MemoryRowType DEF InsertPrimary, TypeInv, TypeOK
    <3>2. QED
      BY <3>1 DEF NoRows
  <2>3. NextSeq' = seq + 1
    BY <1>1, <1>2, <2>1, <2>2 DEF NextSeq, TypeInv, Counts
  <2>4. QED
    BY <1>2, <2>1, <2>3, InsertIDs
<1>5. CASE Save
  BY <1>5, SaveIDs
<1>6. CASE AddView \/ DeleteView \/ AbortUpdate
  BY <1>6, SamePrimaryIDs DEF AddView, DeleteView, AbortUpdate
<1>7. CASE BeginUpdate \/ FinishUpdate
  BY <1>7, SamePrimaryIDs DEF BeginUpdate, FinishUpdate
<1>8. ASSUME NEW k \in Key, NEW full \in BOOLEAN, ScanRow(k, full) PROVE Below' /\ Apart'
  BY <1>8, SamePrimaryIDs DEF ScanRow
<1>9. CASE UpdateLostView \/ Crash
  BY <1>9, DieIDs DEF UpdateLostView, Crash
<1>10. ASSUME NEW K \in SUBSET Key, CrashInFinish(K) PROVE Below' /\ Apart'
  BY <1>10, DieIDs DEF CrashInFinish
<1>11. CASE Reopen
  BY <1>11, ReopenIDs
<1>12. CASE UNCHANGED vars
  BY <1>12, SamePrimaryIDs DEF vars, primary
<1>13. QED
  BY <1>3, <1>4, <1>5, <1>6, <1>7, <1>8, <1>9, <1>10, <1>11, <1>12 DEF Next, Housekeeping

(* No two live rows of the table have the same row ID, which the entries of  *)
(* secondary views rest on (the note in CAeonTable::Insert): whatever views  *)
(* are added, built, deleted or lost, and wherever the process dies, unless  *)
(* a table that has rows and no segment yet numbers its rows anew.           *)
THEOREM RowIDsStayUnique ==
    ASSUME "reuse" \notin Windows
    PROVE  Spec => []RowIDsUnique
<1>1. IDInv => RowIDsUnique
  BY DEF IDInv, TypeInv, TypeOK, Apart, HasID, RowIDsUnique, Live, Current, Row
<1>2. IDInv /\ [Next]_vars => IDInv'
  BY NextIDs
<1>3. QED
  BY <1>1, <1>2, InitIDs, PTL DEF Spec

-----------------------------------------------------------------------------
(* What the view shows, when no delicate window is open but that a view is *)
(* added.                                                                  *)

Delicate == {"delete", "renumber", "flush", "insert", "finish", "abort", "abandon", "reuse"}

(* The view's state now, or when the table is opened again. *)
State == IF up THEN view ELSE desc

(* No update of the view has left anything behind, and one under way reads *)
(* the segments there are.                                                 *)
Clean ==
    /\ up => view = desc
    /\ orphans = NoEntries
    /\ State # "ready" => vrows = NoEntries /\ vsegs = NoEntries
    /\ task # NoTask => up /\ view = "stale" /\ task.from = segs

(* While the view waits for its update, a saved row that a memory row is    *)
(* over has the ID of the memory row.                                       *)
SameIDs ==
    State = "stale" =>
        \A k \in Key : rows[k] # NoRow /\ segs[k] # NoRow /\ segs[k].data # Nil
                       => rows[k].id = segs[k].id

(* An update has gathered the entries of the rows it has read. *)
Read(k) == segs[k] # NoRow /\ k \notin task.left
Got(e) == Over(task.batch, task.created)[e]
Gathered ==
    task # NoTask =>
        /\ \A k \in task.left : segs[k] # NoRow
        /\ \A k \in Key : Read(k) /\ segs[k].data # Nil
                          => Got(<<segs[k].data, segs[k].id>>) = k
        /\ \A e \in Entry : Got(e) # NoRow =>
               \E k \in Key : Got(e) = k /\ Read(k) /\ <<segs[k].data, segs[k].id>> = e
        /\ task.left = {} => task.batch = NoEntries

(* A view that is up to date shows the rows of the table and nothing else. *)
ShowsAll == \A k \in Key : Live(k) => Shown(<<Current(k).data, Current(k).id>>) = k
ShowsOnly ==
    \A e \in Entry : Shown(e) # Nil =>
        /\ Shown(e) \in Key /\ Live(Shown(e))
        /\ <<Current(Shown(e)).data, Current(Shown(e)).id>> = e
Exact == State = "ready" => ShowsAll /\ ShowsOnly

VInv == IDInv /\ Clean /\ SameIDs /\ Gathered /\ Exact

LEMMA EntryShape ==
    ASSUME TypeOK, NEW k \in Key
    PROVE  /\ Live(k) => /\ Current(k) \in Row
                         /\ <<Current(k).data, Current(k).id>> \in Entry
                         /\ HasID(k, Current(k).id)
           /\ segs[k] # NoRow => /\ segs[k] \in Row /\ HasID(k, segs[k].id)
                                 /\ segs[k].data # Nil => <<segs[k].data, segs[k].id>> \in Entry
           /\ rows[k] # NoRow => /\ rows[k] \in Row /\ HasID(k, rows[k].id)
                                 /\ rows[k].data # Nil => <<rows[k].data, rows[k].id>> \in Entry
BY DEF TypeOK, Live, Current, HasID, Row, Datum, Entry

LEMMA InitV == Init => VInv
<1> SUFFICES ASSUME Init PROVE Clean /\ SameIDs /\ Gathered /\ Exact
  BY InitIDs DEF VInv
<1>1. Clean /\ SameIDs /\ Gathered
  BY DEF Init, Clean, SameIDs, Gathered, State, NoRows
<1>2. \A e \in Entry : Shown(e) = Nil
  BY DEF Init, Shown, Over, NoEntries
<1>3. \A k \in Key : ~Live(k)
  BY DEF Init, Live, Current, NoRows
<1>4. QED
  BY <1>1, <1>2, <1>3 DEF Exact, ShowsAll, ShowsOnly

(* What an insert into a view that is up to date shows. *)
LEMMA InsertExact ==
    ASSUME VInv, NEW k \in Key, NEW d \in Datum, Insert(k, d), view = "ready"
    PROVE  ShowsAll' /\ ShowsOnly'
<1>1. /\ TypeOK /\ Counts /\ Below /\ Apart /\ ShowsAll /\ ShowsOnly
      /\ up /\ seq <= MaxSeq /\ seq \in RowID
      /\ rows' = [rows EXCEPT ![k] = MemoryRow(k, d)] /\ segs' = segs
      /\ vrows' = InsertEntry(vrows, k, OldData(k), d, NewRowID(k)) /\ vsegs' = vsegs
  BY DEF VInv, IDInv, TypeInv, Exact, State, Insert, InsertPrimary, Counts, RowID
<1> DEFINE id == NewRowID(k)
           old == Current(k).data
<1>2. /\ OldData(k) = old /\ id \in RowID /\ old \in Datum
      /\ old # Nil => id = Current(k).id
      /\ old = Nil => id = seq
  BY <1>1, MemoryRowType DEF OldData, NewRowID, HasSecondaryViews
<1>3. Current(k)' = [data |-> d, id |-> id]
  <2>1. rows'[k] = MemoryRow(k, d) /\ MemoryRow(k, d) \in Row
    BY <1>1, MemoryRowType DEF TypeOK
  <2>2. MemoryRow(k, d) = [data |-> d, id |-> id]
    BY <1>2 DEF MemoryRow, Current
  <2>3. QED
    BY <2>1, <2>2 DEF Current
<1>4. ASSUME NEW j \in Key, j # k
      PROVE  Current(j)' = Current(j) /\ (Live(j)' <=> Live(j)) /\ (Live(j) => Current(j).id # id)
  <2>1. Current(j)' = Current(j)
    BY <1>1, <1>4 DEF Current, TypeOK
  <2>2. ASSUME Live(j) PROVE Current(j).id # id
    <3>1. HasID(j, Current(j).id) /\ Current(j).id \in RowID
      BY <1>1, <2>2, EntryShape DEF Row
    <3>2. Current(j).id < seq
      BY <1>1, <3>1 DEF Below, HasID, NextSeq, Counts, RowID
    <3>3. CASE old = Nil
      BY <1>2, <3>2, <3>3 DEF RowID, Counts
    <3>4. CASE old # Nil
      <4>1. HasID(k, id)
        BY <1>1, <1>2, <3>4, EntryShape DEF Live
      <4>2. QED
        BY <1>1, <1>2, <1>4, <3>1, <4>1 DEF Apart
    <3>5. QED
      BY <3>3, <3>4
  <2>3. QED
    BY <2>1, <2>2 DEF Live
<1>5. vrows \in EntrySet
  BY <1>1 DEF TypeOK
<1>6. ASSUME NEW e \in Entry
      PROVE  Shown(e)' = IF d # Nil /\ e = <<d, id>> THEN k
                         ELSE IF old # Nil /\ e = <<old, id>> THEN Nil ELSE Shown(e)
  <2>1. vrows'[e] = IF d # Nil /\ e = <<d, id>> THEN k
                    ELSE IF old # Nil /\ e = <<old, id>> THEN Nil ELSE vrows[e]
    BY <1>1, <1>2, <1>5 DEF InsertEntry, WithoutOld, EntrySet
  <2>2. QED
    BY <1>1, <2>1 DEF Shown, Over
<1>7. ShowsAll'
  <2> SUFFICES ASSUME NEW j \in Key, Live(j)'
               PROVE  Shown(<<Current(j).data, Current(j).id>>)' = j
    BY DEF ShowsAll
  <2>1. CASE j = k
    <3>1. d # Nil /\ <<d, id>> \in Entry
      BY <1>2, <1>3, <2>1 DEF Live, Entry, Datum
    <3>2. QED
      BY <1>3, <1>6, <2>1, <3>1
  <2>2. CASE j # k
    <3> DEFINE e == <<Current(j).data, Current(j).id>>
    <3>1. Live(j) /\ e \in Entry /\ Current(j)' = Current(j) /\ Current(j).id # id
      BY <1>1, <1>4, <2>2, EntryShape
    <3>2. e # <<d, id>> /\ e # <<old, id>>
      BY <3>1
    <3>3. Shown(e)' = Shown(e)
      BY <1>6, <3>1, <3>2
    <3>4. QED
      BY <1>1, <3>1, <3>3 DEF ShowsAll
  <2>3. QED
    BY <2>1, <2>2
<1>8. ShowsOnly'
  <2> SUFFICES ASSUME NEW e \in Entry, Shown(e)' # Nil
               PROVE  /\ Shown(e)' \in Key /\ Live(Shown(e))'
                      /\ <<Current(Shown(e)).data, Current(Shown(e)).id>>' = e
    BY DEF ShowsOnly
  <2>1. CASE d # Nil /\ e = <<d, id>>
    BY <1>3, <1>6, <2>1 DEF Live
  <2>2. CASE ~(d # Nil /\ e = <<d, id>>)
    <3>1. ~(old # Nil /\ e = <<old, id>>) /\ Shown(e)' = Shown(e)
      BY <1>6, <2>2
    <3>2. /\ Shown(e) \in Key /\ Live(Shown(e))
          /\ <<Current(Shown(e)).data, Current(Shown(e)).id>> = e
      BY <1>1, <3>1 DEF ShowsOnly
    <3>3. Shown(e) # k
      BY <1>2, <3>1, <3>2 DEF Live
    <3>4. QED
      BY <1>4, <3>1, <3>2, <3>3
  <2>3. QED
    BY <2>1, <2>2
<1>9. QED
  BY <1>7, <1>8

(* A step that changes neither the rows nor what is shown of them. *)
LEMMA SameShown ==
    ASSUME VInv,
           State' = "ready" => /\ State = "ready"
                               /\ \A k \in Key : Current(k)' = Current(k)
                               /\ \A e \in Entry : Shown(e)' = Shown(e)
    PROVE  Exact'
<1> SUFFICES ASSUME State' = "ready" PROVE ShowsAll' /\ ShowsOnly'
  BY DEF Exact
<1>1. /\ TypeOK /\ ShowsAll /\ ShowsOnly
      /\ \A k \in Key : Current(k)' = Current(k)
      /\ \A e \in Entry : Shown(e)' = Shown(e)
  BY DEF VInv, IDInv, TypeInv, Exact
<1>2. \A k \in Key : Live(k)' <=> Live(k)
  BY <1>1 DEF Live
<1>3. ShowsAll'
  BY <1>1, <1>2, EntryShape DEF ShowsAll
<1>4. ShowsOnly'
  BY <1>1, <1>2 DEF ShowsOnly
<1>5. QED
  BY <1>3, <1>4

LEMMA OverNothing ==
    /\ Over(NoEntries, NoEntries) = NoEntries
    /\ \A s \in EntrySet : Over(s, NoEntries) = s /\ Over(NoEntries, s) = s
BY DEF Over, NoEntries, EntrySet

LEMMA InsertV ==
    ASSUME VInv, Windows \cap Delicate = {}, NEW k \in Key, NEW d \in Datum, Insert(k, d)
    PROVE  Clean' /\ SameIDs' /\ Gathered' /\ Exact'
<1>1. /\ TypeOK /\ Counts /\ Clean /\ SameIDs /\ Gathered /\ up
      /\ InsertPrimary(k, d) /\ seq <= MaxSeq
      /\ rows' = [rows EXCEPT ![k] = MemoryRow(k, d)]
      /\ UNCHANGED <<up, view, desc, segs, vsegs, orphans, task>>
      /\ view # "ready" => vrows' = vrows
  BY DEF VInv, IDInv, TypeInv, Insert, InsertPrimary
<1>2. Clean'
  BY <1>1 DEF Clean, State
<1>3. SameIDs'
  <2>1. SUFFICES ASSUME view = "stale", NEW j \in Key, rows'[j] # NoRow, segs[j] # NoRow,
                        segs[j].data # Nil
                 PROVE  rows'[j].id = segs[j].id
    BY <1>1 DEF SameIDs, State
  <2>2. CASE j = k
    <3>1. ~OtherID(k, MemoryRow(k, d))
      BY <1>1, <2>1 DEF InsertPrimary, Delicate
    <3>2. QED
      BY <1>1, <2>1, <2>2, <3>1 DEF OtherID, TypeOK
  <2>3. CASE j # k
    BY <1>1, <2>1, <2>3 DEF SameIDs, State, TypeOK
  <2>4. QED
    BY <2>2, <2>3
<1>4. Gathered'
  BY <1>1 DEF Gathered, Read, Got
<1>5. Exact'
  BY <1>1, InsertExact DEF Exact, State
<1>6. QED
  BY <1>2, <1>3, <1>4, <1>5

LEMMA SaveV ==
    ASSUME VInv, Windows \cap Delicate = {}, Save
    PROVE  Clean' /\ SameIDs' /\ Gathered' /\ Exact'
<1>1. /\ TypeOK /\ Clean /\ up /\ task = NoTask
      /\ UNCHANGED <<up, view, desc, orphans, task>>
      /\ rows' = NoRows
      /\ segs' = [k \in Key |-> IF rows[k] # NoRow THEN rows[k] ELSE segs[k]]
      /\ view = "ready" => vsegs' = Over(vrows, vsegs) /\ vrows' = NoEntries
      /\ view # "ready" => vsegs' = Over(vrows, vsegs) \/ vsegs' = vsegs
      /\ view # "ready" => vrows' = NoEntries \/ vrows' = vrows
  BY DEF VInv, IDInv, TypeInv, Save, Delicate, HasSecondaryViews
<1>2. Clean'
  BY <1>1, OverNothing DEF Clean, State
<1>3. SameIDs' /\ Gathered'
  BY <1>1 DEF SameIDs, Gathered, NoRows
<1>4. ASSUME view = "ready", NEW e \in Entry PROVE Shown(e)' = Shown(e)
  BY <1>1, <1>4 DEF Shown, Over, NoEntries
<1>5. \A k \in Key : Current(k)' = Current(k)
  BY <1>1 DEF Current, NoRows
<1>6. Exact'
  BY <1>1, <1>4, <1>5, SameShown DEF State
<1>7. QED
  BY <1>2, <1>3, <1>6

LEMMA BeginUpdateV ==
    ASSUME VInv, BeginUpdate
    PROVE  Clean' /\ SameIDs' /\ Gathered' /\ Exact'
<1>1. /\ Clean /\ SameIDs /\ up /\ view = "stale"
      /\ UNCHANGED <<up, view, desc, rows, segs, vrows, vsegs, orphans>>
      /\ task' = [type |-> "update", from |-> segs, left |-> {k \in Key : segs[k] # NoRow},
                  batch |-> NoEntries, created |-> NoEntries]
  BY DEF VInv, BeginUpdate, primary
<1>2. Clean' /\ SameIDs' /\ Exact'
  BY <1>1 DEF Clean, SameIDs, Exact, State
<1>3. Gathered'
  <2>1. \A e \in Entry : Over(NoEntries, NoEntries)[e] = NoRow
    BY OverNothing DEF NoEntries
  <2>2. \A k \in Key : ~Read(k)'
    BY <1>1 DEF Read
  <2>3. /\ \A k \in task'.left : segs'[k] # NoRow
        /\ task'.batch = NoEntries /\ task'.created = NoEntries
    BY <1>1
  <2>4. QED
    BY <2>1, <2>2, <2>3 DEF Gathered, Got
<1>4. QED
  BY <1>2, <1>3

(* What an update has gathered once it has read one more row. *)
LEMMA ScanRowV ==
    ASSUME VInv, NEW k \in Key, NEW full \in BOOLEAN, ScanRow(k, full)
    PROVE  Clean' /\ SameIDs' /\ Gathered' /\ Exact'
<1> DEFINE found == CreateSecondaryRows(k)
           save == full \/ task.left = {k}
           row == segs[k]
<1>1. /\ TypeOK /\ Apart /\ Clean /\ SameIDs /\ Gathered
      /\ task # NoTask /\ view = "stale" /\ k \in task.left /\ up /\ task.from = segs
      /\ UNCHANGED <<up, view, desc, rows, segs, vrows, vsegs, orphans>>
      /\ task' = [task EXCEPT !.left = @ \ {k},
                              !.batch = IF save THEN NoEntries ELSE found,
                              !.created = IF save THEN Over(found, @) ELSE @]
  BY DEF VInv, IDInv, ScanRow, Clean, primary, TypeInv
<1>2. task \in Update
  BY <1>1, UpdateType
<1>3. /\ task'.from = segs /\ task'.left = task.left \ {k}
      /\ task'.batch = (IF save THEN NoEntries ELSE found)
      /\ task'.created = (IF save THEN Over(found, task.created) ELSE task.created)
  BY <1>1, <1>2 DEF Update
<1>4. Clean' /\ SameIDs' /\ Exact'
  BY <1>1, <1>3 DEF Clean, SameIDs, Exact, State
<1>5. row # NoRow /\ row \in Row
  BY <1>1 DEF Gathered, TypeOK
<1>6. ASSUME NEW e \in Entry
      PROVE  Got(e)' = IF row.data # Nil /\ e = <<row.data, row.id>> THEN k ELSE Got(e)
  <2>1. found[e] = IF row.data # Nil /\ e = <<row.data, row.id>> THEN k ELSE task.batch[e]
    BY <1>1, <1>2 DEF CreateSecondaryRows, Update, EntrySet
  <2>2. Over(task'.batch, task'.created)[e] = Over(found, task.created)[e]
    BY <1>3 DEF Over, NoEntries
  <2>3. QED
    BY <2>1, <2>2 DEF Over, Got
<1>7. \A j \in Key : Read(j)' <=> Read(j) \/ j = k
  BY <1>1, <1>3, <1>5 DEF Read
<1>8. ASSUME NEW j \in Key, Read(j)', NEW e \in Entry, e = <<segs[j].data, segs[j].id>>
      PROVE  Got(e)' = j
  <2>1. segs[j].data # Nil /\ segs[j].id \in RowID /\ HasID(j, segs[j].id)
    BY <1>1, <1>5, <1>7, <1>8, EntryShape DEF Read, Row, Entry
  <2>2. CASE j = k
    BY <1>6, <1>8, <2>1, <2>2
  <2>3. CASE j # k
    <3>1. HasID(k, row.id) /\ segs[j].id # row.id
      BY <1>1, <1>5, <2>1, <2>3, EntryShape DEF Apart
    <3>2. Got(e) = j
      BY <1>1, <1>7, <1>8, <2>1, <2>3 DEF Gathered
    <3>3. QED
      BY <1>6, <1>8, <3>1, <3>2
  <2>4. QED
    BY <2>2, <2>3
<1>9. ASSUME NEW e \in Entry, Got(e)' # NoRow
      PROVE  \E j \in Key : Got(e)' = j /\ Read(j)' /\ <<segs[j].data, segs[j].id>> = e
  <2>1. CASE row.data # Nil /\ e = <<row.data, row.id>>
    BY <1>6, <1>7, <2>1
  <2>2. CASE ~(row.data # Nil /\ e = <<row.data, row.id>>)
    BY <1>1, <1>6, <1>7, <1>9, <2>2 DEF Gathered
  <2>3. QED
    BY <2>1, <2>2
<1>10. Gathered'
  <2>1. \A j \in task'.left : segs'[j] # NoRow
    BY <1>1, <1>3 DEF Gathered
  <2>2. task'.left = {} => task'.batch = NoEntries
    BY <1>1, <1>3
  <2>3. ASSUME NEW j \in Key, Read(j)', segs[j].data # Nil
        PROVE  <<segs[j].data, segs[j].id>> \in Entry
    BY <1>1, <1>5, <1>7, <2>3, EntryShape DEF Read
  <2>4. QED
    BY <1>1, <1>8, <1>9, <2>1, <2>2, <2>3 DEF Gathered
<1>11. QED
  BY <1>4, <1>10

(* What a view shows that has just been built. *)
LEMMA FinishExact ==
    ASSUME VInv, FinishUpdate
    PROVE  ShowsAll' /\ ShowsOnly'
<1>1. /\ TypeOK /\ Apart /\ task # NoTask /\ view = "stale" /\ task.left = {} /\ up
      /\ task.from = segs /\ task.batch = NoEntries
      /\ vrows = NoEntries /\ vsegs = NoEntries
      /\ UNCHANGED <<rows, segs>>
      /\ vsegs' = Over(task.created, vsegs) /\ vrows' = UpdatedRows(Unsaved)
  BY DEF VInv, IDInv, TypeInv, Clean, Gathered, State, FinishUpdate, UpdateScanned, primary
<1>2. task.created \in EntrySet
  BY <1>1, UpdateType
<1>3. \A e \in Entry : vsegs'[e] = task.created[e] /\ Got(e) = task.created[e]
  BY <1>1 DEF Over, Got, NoEntries
<1>4. /\ \A k \in Key : segs[k] # NoRow /\ segs[k].data # Nil
                        => task.created[<<segs[k].data, segs[k].id>>] = k
      /\ \A e \in Entry : task.created[e] # NoRow =>
             \E k \in Key : task.created[e] = k /\ segs[k] # NoRow /\ <<segs[k].data, segs[k].id>> = e
  BY <1>1, <1>3, EntryShape DEF VInv, Gathered, Read
<1>5. \A k \in Key : rows[k] # NoRow /\ segs[k] # NoRow /\ segs[k].data # Nil
                     => rows[k].id = segs[k].id
  BY <1>1 DEF VInv, SameIDs, State
<1> DEFINE InMemory(e) == \E k \in Unsaved : <<rows[k].data, rows[k].id>> = e
           Replaced(e) == \E k \in Unsaved : <<OldSaved(k), rows[k].id>> = e
<1>6. ASSUME NEW e \in Entry, NEW k \in Unsaved, <<rows[k].data, rows[k].id>> = e
      PROVE  Shown(e)' = k
  <2>1. ASSUME NEW j \in Unsaved, <<rows[j].data, rows[j].id>> = e PROVE j = k
    <3>1. /\ j \in Key /\ k \in Key /\ rows[j] # NoRow /\ rows[k] # NoRow
          /\ rows[j].id = rows[k].id
      BY <1>6, <2>1 DEF Unsaved
    <3>2. HasID(j, rows[k].id) /\ HasID(k, rows[k].id) /\ rows[k].id \in RowID
      BY <1>1, <3>1, EntryShape DEF Row
    <3>3. QED
      BY <1>1, <3>1, <3>2 DEF Apart
  <2>2. vrows'[e] = CHOOSE j \in Unsaved : <<rows[j].data, rows[j].id>> = e
    BY <1>1, <1>6 DEF UpdatedRows
  <2>3. vrows'[e] = k
    BY <1>6, <2>1, <2>2
  <2>4. QED
    BY <2>3 DEF Shown, Over, Unsaved
<1>7. ASSUME NEW e \in Entry, ~InMemory(e)
      PROVE  Shown(e)' = IF Replaced(e) \/ task.created[e] = NoRow THEN Nil ELSE task.created[e]
  <2>1. vrows'[e] = IF Replaced(e) THEN Nil ELSE NoRow
    BY <1>1, <1>7 DEF UpdatedRows, NoEntries
  <2>2. QED
    BY <1>3, <2>1 DEF Shown, Over
<1>8. \A k \in Key : Current(k)' = Current(k) /\ (Live(k)' <=> Live(k))
  BY <1>1 DEF Current, Live
<1>9. ShowsAll'
  <2>1. SUFFICES ASSUME NEW k \in Key, Live(k), NEW e \in Entry,
                        e = <<Current(k).data, Current(k).id>>
                 PROVE  Shown(e)' = k
    BY <1>1, <1>8, EntryShape DEF ShowsAll
  <2>2. CASE rows[k] # NoRow
    BY <1>6, <2>1, <2>2 DEF Current, Unsaved
  <2>3. CASE rows[k] = NoRow
    <3>1. e = <<segs[k].data, segs[k].id>> /\ segs[k] # NoRow /\ segs[k].data # Nil
      BY <2>1, <2>3 DEF Current, Live
    <3>2. ASSUME NEW j \in Unsaved PROVE rows[j].id # segs[k].id
      BY <1>1, <2>3, <3>1, <3>2, EntryShape DEF Unsaved, Apart, Row
    <3>3. ~InMemory(e) /\ ~Replaced(e)
      BY <3>1, <3>2
    <3>4. QED
      BY <1>4, <1>7, <2>1, <3>1, <3>3
  <2>4. QED
    BY <2>2, <2>3
<1>10. ShowsOnly'
  <2> SUFFICES ASSUME NEW e \in Entry, Shown(e)' # Nil
               PROVE  \E k \in Key : /\ Shown(e)' = k /\ Live(k)
                                     /\ <<Current(k).data, Current(k).id>> = e
    BY <1>8 DEF ShowsOnly
  <2>1. CASE InMemory(e)
    <3>1. PICK k \in Unsaved : <<rows[k].data, rows[k].id>> = e
      BY <2>1
    <3>2. k \in Key /\ Current(k) = rows[k] /\ rows[k].data # Nil
      BY <3>1 DEF Unsaved, Current, Entry
    <3>3. QED
      BY <1>6, <3>1, <3>2 DEF Live
  <2>2. CASE ~InMemory(e)
    <3>1. Shown(e)' = task.created[e] /\ task.created[e] # NoRow /\ ~Replaced(e)
      BY <1>7, <2>2
    <3>2. PICK k \in Key : /\ task.created[e] = k /\ segs[k] # NoRow
                           /\ <<segs[k].data, segs[k].id>> = e
      BY <1>4, <3>1
    <3>3. segs[k].data # Nil
      BY <3>2 DEF Entry
    <3>4. rows[k] = NoRow
      BY <1>1, <1>5, <3>1, <3>2, <3>3 DEF OldSaved, Unsaved
    <3>5. Current(k) = segs[k]
      BY <3>2, <3>4 DEF Current
    <3>6. QED
      BY <3>1, <3>2, <3>3, <3>5 DEF Live
  <2>3. QED
    BY <2>1, <2>2
<1>11. QED
  BY <1>9, <1>10

LEMMA FinishV ==
    ASSUME VInv, FinishUpdate
    PROVE  Clean' /\ SameIDs' /\ Gathered' /\ Exact'
<1>1. /\ Clean /\ up /\ up' = up /\ view' = "ready" /\ desc' = "ready" /\ task' = NoTask
      /\ orphans' = orphans
  BY DEF VInv, Clean, FinishUpdate, UpdateScanned
<1>2. QED
  BY <1>1, FinishExact DEF Clean, SameIDs, Gathered, Exact, State

(* An update that ends has left no segment file, unless a window is open. *)
LEMMA NothingAbandoned ==
    ASSUME VInv, NEW w, w \notin Windows, Abandon(w)
    PROVE  orphans' = NoEntries
BY OverNothing DEF Abandon, VInv, Clean

(* The process dies between two operations. *)
LEMMA CrashV ==
    ASSUME VInv, Windows \cap Delicate = {}, Crash
    PROVE  Clean' /\ SameIDs' /\ Gathered' /\ Exact'
<1>1. /\ Clean /\ SameIDs /\ up /\ up' = FALSE /\ task' = NoTask
      /\ UNCHANGED <<rows, segs, desc, vrows, vsegs>> /\ Abandon("abandon")
  BY DEF VInv, Crash, Die, primary
<1>2. orphans' = NoEntries
  BY <1>1, NothingAbandoned DEF Delicate
<1>3. State' = State
  BY <1>1 DEF State, Clean
<1>4. Clean' /\ SameIDs' /\ Gathered'
  BY <1>1, <1>2, <1>3 DEF Clean, SameIDs, Gathered
<1>5. Exact'
  BY <1>1, <1>3, SameShown DEF Current, Shown
<1>6. QED
  BY <1>4, <1>5

LEMMA ReopenV ==
    ASSUME VInv, Reopen
    PROVE  Clean' /\ SameIDs' /\ Gathered' /\ Exact'
<1>1. /\ TypeOK /\ Clean /\ SameIDs /\ ~up /\ up' = TRUE /\ view' = desc /\ task' = task
      /\ UNCHANGED <<rows, segs, desc, vrows>>
      /\ vsegs' = (IF desc # "none" THEN Over(vsegs, orphans) ELSE vsegs)
      /\ orphans' = IF desc # "none" THEN NoEntries ELSE orphans
  BY DEF VInv, IDInv, TypeInv, Reopen, primary
<1>2. vsegs' = vsegs /\ orphans' = NoEntries /\ task = NoTask
  BY <1>1, OverNothing DEF Clean, TypeOK
<1>3. State' = State
  BY <1>1 DEF State
<1>4. Clean' /\ SameIDs' /\ Gathered'
  BY <1>1, <1>2, <1>3 DEF Clean, SameIDs, Gathered
<1>5. Exact'
  BY <1>1, <1>2, <1>3, SameShown DEF Current, Shown
<1>6. QED
  BY <1>4, <1>5

(* The view is added, or its update given up: nothing is shown of it yet. *)
LEMMA NotReadyV ==
    ASSUME VInv, Windows \cap Delicate = {}, AddView \/ AbortUpdate
    PROVE  Clean' /\ SameIDs' /\ Gathered' /\ Exact'
<1>1. /\ Clean /\ State # "ready" /\ State' = "stale" /\ (up => view = desc)'
      /\ UNCHANGED <<up, rows, segs, vrows, vsegs>> /\ task' = NoTask
  BY DEF VInv, Clean, AddView, AbortUpdate, State, primary
<1>2. orphans' = NoEntries
  BY NothingAbandoned DEF VInv, Clean, AddView, AbortUpdate, Delicate
<1>3. \A k \in Key : rows[k] # NoRow /\ segs[k] # NoRow /\ segs[k].data # Nil
                     => rows[k].id = segs[k].id
  <2>1. CASE AddView
    BY <2>1 DEF AddView, OtherID, Delicate
  <2>2. CASE AbortUpdate
    BY <2>2 DEF VInv, Clean, AbortUpdate, SameIDs, State
  <2>3. QED
    BY <2>1, <2>2
<1>4. QED
  BY <1>1, <1>2, <1>3 DEF Clean, SameIDs, Gathered, Exact

LEMMA NextV ==
    ASSUME VInv, [Next]_vars, Windows \cap Delicate = {}
    PROVE  VInv'
<1>1. IDInv'
  BY NextIDs DEF VInv, Delicate
<1> SUFFICES Clean' /\ SameIDs' /\ Gathered' /\ Exact'
  BY <1>1 DEF VInv
<1>2. ~DeleteView /\ ~UpdateLostView
  BY DEF VInv, Clean, DeleteView, UpdateLostView, Delicate
<1>3. /\ \A k \in Key, d \in Datum : ~CrashInInsert(k, d)
      /\ \A K \in SUBSET Key : ~CrashInFinish(K)
  BY DEF CrashInInsert, CrashInFinish, Delicate
<1>4. CASE UNCHANGED vars
  BY <1>4, SameShown DEF vars, VInv, Clean, SameIDs, Gathered, Got, Read, State, Current, Shown
<1>5. CASE Next
  BY <1>2, <1>3, <1>5, InsertV, SaveV, BeginUpdateV, ScanRowV, FinishV, CrashV, ReopenV, NotReadyV
     DEF Next, Housekeeping
<1>6. QED
  BY <1>4, <1>5

(* A view that is up to date has an entry for every row of the table: an    *)
(* insert into all views (CAeonTable::Insert), the background build with    *)
(* inserts around it (HousekeepingUpdateView), saves, crashes and reopens   *)
(* lose none, as long as no delicate window but that of adding a view is    *)
(* entered.                                                                 *)
THEOREM ViewShowsAll ==
    ASSUME Windows \cap Delicate = {}
    PROVE  Spec => []ViewComplete
<1>1. VInv => ViewComplete
  BY DEF VInv, Exact, ShowsAll, State, ViewComplete, Serving
<1>2. VInv /\ [Next]_vars => VInv'
  BY NextV
<1>3. QED
  BY <1>1, <1>2, InitV, PTL DEF Spec

(* Under the same assumption, it has no entry that is not of a row of the  *)
(* table as it is now.                                                     *)
THEOREM ViewShowsOnly ==
    ASSUME Windows \cap Delicate = {}
    PROVE  Spec => []ViewSound
<1>1. VInv => ViewSound
  BY DEF VInv, Exact, ShowsOnly, State, ViewSound, Serving
<1>2. VInv /\ [Next]_vars => VInv'
  BY NextV
<1>3. QED
  BY <1>1, <1>2, InitV, PTL DEF Spec
=============================================================================
