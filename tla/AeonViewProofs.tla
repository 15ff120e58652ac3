-------------------------- MODULE AeonViewProofs ---------------------------
(***************************************************************************)
(* The theorems of AeonView: its type invariant, that a lookup returns the *)
(* last insert to land, and that the view implements RowStore, for any     *)
(* number of keys, values, files and operations.                           *)
(***************************************************************************)
EXTENDS AeonViewInv, TLAPS

USE CellAssumption, CrashPointsAssumption, MaxSeqAssumption

(* What a holder of m_cs looks like, by its type. *)
LEMMA OpShape ==
    ASSUME TypeOK
    PROVE  /\ op.type = "insert" => op \in InsertOp /\ op.key \in Key /\ op.data \in Datum
           /\ op.type = "save" => op \in SaveOp /\ op.file \in File
           /\ op.type \notin {"insert", "save"} => op = Idle
BY DEF TypeOK, InsertOp, SaveOp, Idle

(* The files of a merge under way. *)
LEMMA MergeShape ==
    ASSUME TypeOK, merge # NoMerge
    PROVE  /\ merge.new \in File
           /\ merge.newer \in File
           /\ merge.older \in File
BY DEF TypeOK, MergeOp, NoMerge

(* A segment file is a record of these three fields. *)
LEMMA FileShape ==
    ASSUME TypeOK, NEW f \in File
    PROVE  /\ disk[f].seq \in Nat
           /\ disk[f].rows \in RowSet
           /\ disk[f].state \in {"none", "writing", "complete"}
           /\ disk[f] = Segment(disk[f].state, disk[f].seq, disk[f].rows)
BY DEF TypeOK, SegmentFile, Segment

(* A segment file made of a state, a sequence number and rows is a file. *)
LEMMA SegmentType ==
    ASSUME NEW st \in {"none", "writing", "complete"}, NEW s \in Nat, NEW r \in RowSet
    PROVE  Segment(st, s, r) \in SegmentFile
BY DEF Segment, SegmentFile

(* The empty row set and the missing file have their types. *)
LEMMA EmptyTypes == EmptyRows \in RowSet /\ NoFile \in SegmentFile
BY DEF EmptyRows, NoFile, RowSet, Cell, SegmentFile

(* A merge of two segments makes a row set. *)
LEMMA MergedType ==
    ASSUME TypeOK, NEW a \in File, NEW b \in File, NEW oldest \in BOOLEAN
    PROVE  MergedRows(a, b, oldest) \in RowSet
<1>1. disk[a].rows \in RowSet /\ disk[b].rows \in RowSet
  BY FileShape
<1>2. QED
  BY <1>1 DEF MergedRows, RowSet, Cell

(* A new table has its type (CAeonTable::Create). *)
LEMMA InitTypeOK == Init => TypeOK
<1> SUFFICES ASSUME Init PROVE TypeOK
  OBVIOUS
<1>1. rows \in RowSet /\ disk \in [File -> SegmentFile]
  BY EmptyTypes DEF Init
<1>2. log \in Seq(Record) /\ store \in [Key -> Datum]
  BY DEF Init, Datum
<1>3. QED
  BY <1>1, <1>2 DEF Init, TypeOK, Phase

(* Every step keeps the type, action by action. *)
LEMMA NextTypeOK == TypeOK /\ [Next]_vars => TypeOK'
<1> SUFFICES ASSUME TypeOK, [Next]_vars PROVE TypeOK'
  OBVIOUS
<1>1. ASSUME NEW k \in Key, NEW d \in Datum, BeginInsert(k, d) PROVE TypeOK'
  BY <1>1 DEF BeginInsert, TypeOK, LockFree, InsertOp, RowSet, Cell, Datum
<1>2. CASE EndInsert
  <2>1. Landed \in Seq(Record) /\ Stored \in [Key -> Datum]
    BY <1>2, OpShape DEF EndInsert, TypeOK, Landed, Stored, Record
  <2>2. QED
    BY <1>2, <2>1 DEF EndInsert, TypeOK
<1>3. ASSUME NEW f \in File, BeginSave(f) PROVE TypeOK'
  <2>1. Segment("writing", seq, rows) \in SegmentFile
    BY SegmentType DEF TypeOK
  <2>2. QED
    BY <1>3, <2>1 DEF BeginSave, TypeOK, SaveOp
<1>4. CASE SaveWritten
  <2>1. op.file \in File
    BY <1>4, OpShape DEF SaveWritten
  <2>2. disk' \in [File -> SegmentFile]
    BY <1>4, <2>1 DEF SaveWritten, TypeOK, SegmentFile
  <2>3. QED
    BY <1>4, <2>2 DEF SaveWritten, memory, TypeOK
<1>5. CASE SegmentSaveComplete
  BY <1>5, EmptyTypes, OpShape DEF SegmentSaveComplete, TypeOK
<1>6. ASSUME NEW a \in File, NEW b \in File, NEW f \in File, NEW oldest \in BOOLEAN,
             BeginMerge(a, b, oldest, f)
      PROVE  TypeOK'
  <2>1. Segment("writing", disk[a].seq, MergedRows(a, b, oldest)) \in SegmentFile
    BY SegmentType, FileShape, MergedType
  <2>2. QED
    BY <1>6, <2>1 DEF BeginMerge, TypeOK, MergeOp
<1>7. ASSUME NEW a \in File, NEW b \in File, NEW oldest \in BOOLEAN,
             MergeToNothing(a, b, oldest)
      PROVE  TypeOK'
  BY <1>7 DEF MergeToNothing, TypeOK, volume
<1>8. CASE MergeWritten
  <2>1. disk' \in [File -> SegmentFile]
    BY <1>8, MergeShape DEF MergeWritten, TypeOK, SegmentFile
  <2>2. QED
    BY <1>8, <2>1 DEF MergeWritten, memory, TypeOK
<1>9. CASE MergeFailed
  BY <1>9, EmptyTypes DEF MergeFailed, TypeOK
<1>10. CASE SegmentMergeComplete
  BY <1>10, MergeShape DEF SegmentMergeComplete, TypeOK, volume
<1>11. ASSUME NEW f \in File, Release(f) PROVE TypeOK'
  BY <1>11, EmptyTypes DEF Release, TypeOK
<1>12. CASE Crash
  <2>1. op.type = "insert" => Landed \in Seq(Record) /\ Stored \in [Key -> Datum]
    BY OpShape DEF TypeOK, Landed, Stored, Record
  <2>2. QED
    BY <1>12, <2>1, EmptyTypes DEF Crash, TypeOK, Phase
<1>13. CASE OpenLog
  BY <1>13 DEF OpenLog, TypeOK, Phase, volume
<1>14. CASE RecoverRow
  <2>1. replayed + 1 \in 1..Len(log)
    BY <1>14 DEF RecoverRow, TypeOK
  <2>2. log[replayed + 1] \in Record
    BY <2>1 DEF TypeOK
  <2>3. QED
    BY <1>14, <2>2 DEF RecoverRow, TypeOK, volume, Record, RowSet, Cell
<1>15. CASE RecoverEnd
  BY <1>15 DEF RecoverEnd, TypeOK, Phase
<1>16. ASSUME NEW f \in File, OpenSegment(f) PROVE TypeOK'
  BY <1>16, FileShape DEF OpenSegment, TypeOK, volume
<1>17. ASSUME NEW f \in File, OpenFailed(f) PROVE TypeOK'
  BY <1>17 DEF OpenFailed, TypeOK, Phase, volume
<1>18. CASE OpenDone
  BY <1>18 DEF OpenDone, TypeOK, Phase, volume
<1>19. CASE UNCHANGED vars
  BY <1>19 DEF vars, TypeOK
<1>20. QED
  BY <1>1, <1>2, <1>3, <1>4, <1>5, <1>6, <1>7, <1>8, <1>9, <1>10, <1>11, <1>12,
     <1>13, <1>14, <1>15, <1>16, <1>17, <1>18, <1>19 DEF Next

(* Every variable of the table keeps its type, whatever the process does and *)
(* wherever it dies (CAeonView, CAeonTable and the files of the view).       *)
THEOREM TypeCorrect == Spec => []TypeOK
BY InitTypeOK, NextTypeOK, PTL DEF Spec

-----------------------------------------------------------------------------
(* Facts about lookups *)

(* Segments that determine a row give exactly its data to a lookup. *)
LEMMA GivesData ==
    ASSUME TypeOK, NEW S \in SUBSET File, NEW k \in Key, NEW d, Gives(S, k, d)
    PROVE  SegmentData(S, k) = {d}
<1>1. CASE d = Nil /\ \A f \in S : ~Holds(f, k)
  BY <1>1 DEF SegmentData, Holders
<1>2. ASSUME NEW f \in S, Holds(f, k), disk[f].rows[k] = d,
             \A g \in S \ {f} : Holds(g, k) => disk[g].seq < disk[f].seq
      PROVE  SegmentData(S, k) = {d}
  <2>1. \A g \in S : disk[g].seq \in Nat
    BY FileShape
  <2>2. Newest(S, k) = {f}
    BY <1>2, <2>1 DEF Newest, Holders
  <2>3. QED
    BY <1>2, <2>2 DEF SegmentData, Holders
<1>3. QED
  BY <1>1, <1>2 DEF Gives

(* With the lock free, the memory row of a key is the last logged one. *)
LEMMA MemoryRow ==
    ASSUME TypeOK, IInv, phase = "open", NEW k \in Key, ~(op.type = "insert" /\ op.key = k)
    PROVE  /\ rows[k] # NoRow => rows[k] = store[k] /\ log # <<>>
           /\ rows[k] = NoRow <=> ~InLog(k)
BY DEF IInv, RowsHoldLog, RowHoldsLog, Accounted, LogHoldsStore, InLog, TypeOK

(* With the lock free, the invariant gives every lookup one answer: from *)
(* the memory row, which is the last one logged, or from the segments.   *)
LEMMA IInvReadsLatest == TypeOK /\ IInv => ReadsLatest
<1> SUFFICES ASSUME TypeOK, IInv, LockFree, NEW k \in Key
             PROVE  GetData(k) = {store[k]}
  BY DEF ReadsLatest
<1>1. phase = "open" /\ op.type # "insert"
  BY DEF LockFree, Idle
<1>2. CASE rows[k] # NoRow
  BY <1>1, <1>2, MemoryRow DEF GetData
<1>3. CASE rows[k] = NoRow
  <2>1. Gives(segments, k, store[k])
    BY <1>1, <1>3, MemoryRow DEF IInv, SegmentsHoldRest, LiveFiles
  <2>2. SegmentData(segments, k) = {store[k]}
    BY <2>1, GivesData DEF TypeOK
  <2>3. QED
    BY <1>3, <2>2 DEF GetData
<1>4. QED
  BY <1>2, <1>3

(* Unsaved rows are in the log, and with a log every segment is below *)
(* m_Seq.                                                             *)
LEMMA IInvUnsavedRowsAreNewest == TypeOK /\ IInv => UnsavedRowsAreNewest
<1> SUFFICES ASSUME TypeOK, IInv, LockFree, HasUnsavedRows
             PROVE  \A f \in segments : disk[f].seq < seq
  BY DEF UnsavedRowsAreNewest
<1>1. phase = "open" /\ op.type # "insert"
  BY DEF LockFree, Idle
<1>2. log # <<>>
  BY <1>1, MemoryRow DEF HasUnsavedRows
<1>3. QED
  BY <1>1, <1>2 DEF IInv, Ordering

(* A segment of S above "top" gives row k the data d. *)
GivenAbove(S, top, k, d) ==
    \E f \in S : /\ Holds(f, k)
                 /\ disk[f].rows[k] = d
                 /\ disk[f].seq > disk[top].seq
                 /\ \A g \in S \ {f} : Holds(g, k) => disk[g].seq < disk[f].seq

(* Replacing two adjacent segments by their merge does not change what the  *)
(* segments give: either no merged row is needed, or it carries the data,   *)
(* or a segment above the pair does.                                        *)
LEMMA MergeGives ==
    ASSUME TypeOK, DistinctSeqs(segments),
           NEW a \in segments, NEW b \in segments, Adjacent(a, b),
           NEW oldest \in BOOLEAN, oldest => MayBeOldest(a, b),
           NEW k \in Key, NEW d \in Datum, Gives(segments, k, d),
           NEW m, m = MergedRows(a, b, oldest)[k]
    PROVE  /\ m = NoRow => Gives(segments \ {a, b}, k, d)
           /\ m # NoRow =>
                 \/ /\ m = d
                    /\ \A g \in segments \ {a, b} : Holds(g, k) => disk[g].seq < disk[a].seq
                 \/ GivenAbove(segments \ {a, b}, a, k, d)
<1>1. \A f \in segments : disk[f].seq \in Nat
  BY FileShape DEF TypeOK
<1>2. m = LET c == IF Holds(a, k) THEN disk[a].rows[k] ELSE disk[b].rows[k]
          IN  IF oldest /\ c = Nil THEN NoRow ELSE c
  BY DEF MergedRows
<1>3. CASE \A f \in segments : ~Holds(f, k)
  BY <1>2, <1>3 DEF Gives, Holds
<1>4. ASSUME NEW f \in segments, Holds(f, k), disk[f].rows[k] = d,
             \A g \in segments \ {f} : Holds(g, k) => disk[g].seq < disk[f].seq,
             f \in {a, b}
      PROVE  /\ m = NoRow => Gives(segments \ {a, b}, k, d)
             /\ m # NoRow =>
                   /\ m = d
                   /\ \A g \in segments \ {a, b} : Holds(g, k) => disk[g].seq < disk[a].seq
  <2>1. disk[f].seq <= disk[a].seq /\ (f # a => ~Holds(a, k))
    BY <1>1, <1>4 DEF Adjacent
  <2>2. \A g \in segments \ {a, b} : Holds(g, k) => disk[g].seq < disk[a].seq
    BY <1>1, <1>4, <2>1
  <2>3. m = IF oldest /\ d = Nil THEN NoRow ELSE d
    BY <1>2, <1>4, <2>1
  <2>4. m = NoRow => d = Nil /\ oldest
    BY <2>3 DEF Datum
  <2>5. oldest => \A g \in segments \ {a, b} : ~Holds(g, k)
    BY <1>1, <2>2 DEF MayBeOldest
  <2>6. QED
    BY <2>2, <2>3, <2>4, <2>5 DEF Gives
<1>5. ASSUME NEW f \in segments, Holds(f, k), disk[f].rows[k] = d,
             \A g \in segments \ {f} : Holds(g, k) => disk[g].seq < disk[f].seq,
             f \notin {a, b}
      PROVE  /\ Gives(segments \ {a, b}, k, d)
             /\ m # NoRow => disk[f].seq > disk[a].seq
  <2>1. Gives(segments \ {a, b}, k, d)
    BY <1>5 DEF Gives
  <2>2. ASSUME m # NoRow PROVE disk[f].seq > disk[a].seq
    <3>1. Holds(a, k) \/ Holds(b, k)
      BY <1>2, <2>2 DEF Holds
    <3>2. Holds(b, k) => disk[f].seq > disk[b].seq
      BY <1>5
    <3>3. Holds(a, k) => disk[f].seq > disk[a].seq
      BY <1>5
    <3>4. disk[f].seq # disk[a].seq
      BY <1>5 DEF DistinctSeqs
    <3>5. QED
      BY <1>1, <3>1, <3>2, <3>3, <3>4 DEF Adjacent
  <2>3. QED
    BY <2>1, <2>2
<1>6. QED
  BY <1>3, <1>4, <1>5 DEF Gives, GivenAbove

-----------------------------------------------------------------------------
(* Preservation of the inductive invariant, action by action *)

(* A new table has no segment, no log and no row. *)
LEMMA InitIInv == Init => IInv
<1> SUFFICES ASSUME Init PROVE IInv
  OBVIOUS
<1>1. Complete = {}
  BY DEF Init, Complete, NoFile
<1>2. Files /\ SaveFile /\ MergeFile
  BY <1>1 DEF Init, Files, SaveFile, MergeFile, Idle
<1>3. Ordering /\ LogHoldsStore /\ SegmentsHoldRest
  BY DEF Init, Ordering, LogHoldsStore, SegmentsHoldRest, LiveFiles, DistinctSeqs, Gives
<1>4. RowsHoldLog
  BY DEF Init, RowsHoldLog, RowHoldsLog, Accounted, Idle, EmptyRows
<1>5. QED
  BY <1>2, <1>3, <1>4 DEF IInv

(* An insert that has begun changes only the memory row of its key. *)
LEMMA BeginInsertIInv ==
    ASSUME TypeOK, IInv, NEW k0 \in Key, NEW d \in Datum, BeginInsert(k0, d)
    PROVE  IInv'
<1> USE DEF BeginInsert, LockFree, Idle
<1>1. Files' /\ SaveFile'
  BY DEF IInv, Files, SaveFile, Complete
<1>2. MergeFile'
  BY DEF IInv, MergeFile, Adjacent, MayBeOldest, MergedRows, Holds
<1>3. Ordering' /\ LogHoldsStore'
  BY DEF IInv, Ordering, DistinctSeqs, LogHoldsStore, LastOf, LiveFiles
<1>4. SegmentsHoldRest'
  BY DEF IInv, SegmentsHoldRest, LiveFiles, InLog, Gives, Holds
<1>5. RowsHoldLog'
  BY DEF IInv, RowsHoldLog, RowHoldsLog, Accounted, LastOf, TypeOK, RowSet
<1>6. QED
  BY <1>1, <1>2, <1>3, <1>4, <1>5 DEF IInv

(* Landing an insert in the log: what the log then says of each key. *)
LEMMA LandedRecords ==
    ASSUME TypeOK, op.type = "insert"
    PROVE  /\ Len(Landed) = Len(log) + 1
           /\ \A i \in 1..Len(log) : Landed[i] = log[i]
           /\ Landed[Len(log) + 1] = [key |-> op.key, data |-> op.data]
           /\ Stored[op.key] = op.data
           /\ \A k \in Key \ {op.key} : Stored[k] = store[k]
           /\ op.key \in Key
BY OpShape DEF TypeOK, Landed, Stored, Record

(* The record that lands is the last for its key, and no other key's last *)
(* record changes.                                                        *)
LEMMA LandedLog ==
    ASSUME TypeOK, IInv, op.type = "insert", log' = Landed, store' = Stored
    PROVE  /\ LogHoldsStore'
           /\ \A k \in Key : ~InLog(k)' => ~InLog(k) /\ store'[k] = store[k]
           /\ log' # <<>>
<1>1. LogHoldsStore'
  <2> SUFFICES ASSUME NEW i \in 1..Len(log'), LastOf(i, Len(log))'
               PROVE  log'[i].data = store'[log'[i].key]
    BY DEF LogHoldsStore
  <2>1. CASE i = Len(log) + 1
    BY <2>1, LandedRecords
  <2>2. CASE i \in 1..Len(log)
    <3>1. log'[i] = log[i] /\ log[i].key # op.key /\ LastOf(i, Len(log))
      BY <2>2, LandedRecords DEF LastOf, TypeOK
    <3>2. log[i] \in Record
      BY <2>2 DEF TypeOK
    <3>3. log[i].key \in Key
      BY <3>2 DEF Record
    <3>4. QED
      BY <2>2, <3>1, <3>3, LandedRecords DEF IInv, LogHoldsStore
  <2>3. QED
    BY <2>1, <2>2, LandedRecords DEF TypeOK
<1>2. \A k \in Key : ~InLog(k)' => ~InLog(k) /\ store'[k] = store[k]
  BY LandedRecords DEF InLog, TypeOK
<1>3. QED
  BY <1>1, <1>2, LandedRecords DEF TypeOK

(* An insert that lands moves its key into the log, and m_Seq past every *)
(* segment.                                                              *)
LEMMA EndInsertIInv == TypeOK /\ IInv /\ EndInsert => IInv'
<1> SUFFICES ASSUME TypeOK, IInv, EndInsert PROVE IInv'
  OBVIOUS
<1> USE DEF EndInsert
<1>1. phase = "open"
  BY DEF IInv, Files, Idle
<1>2. Files' /\ SaveFile'
  BY <1>1 DEF IInv, Files, SaveFile, Complete, Idle
<1>3. MergeFile'
  BY DEF IInv, MergeFile, Adjacent, MayBeOldest, MergedRows, Holds
<1>4. Ordering'
  <2>1. \A f \in segments : disk[f].seq \in Nat /\ disk[f].seq <= seq
    BY <1>1, FileShape DEF TypeOK, IInv, Ordering
  <2>2. QED
    BY <1>1, <2>1 DEF IInv, Ordering, DistinctSeqs, LiveFiles, TypeOK
<1>5. LogHoldsStore'
  BY LandedLog
<1>6. SegmentsHoldRest'
  <2> SUFFICES ASSUME NEW k \in Key, ~InLog(k)' PROVE Gives(segments, k, store'[k])
    BY <1>1 DEF SegmentsHoldRest, LiveFiles, Gives, Holds
  <2>1. QED
    BY <1>1, LandedLog DEF IInv, SegmentsHoldRest, LiveFiles
<1>7. RowsHoldLog'
  <2> SUFFICES ASSUME NEW k \in Key PROVE RowHoldsLog(k)'
    BY <1>1 DEF RowsHoldLog, Idle
  <2>1. Accounted' = Len(log) + 1 /\ Accounted = Len(log)
    BY <1>1, LandedRecords DEF Accounted
  <2>2. CASE k = op.key
    <3>1. rows[k] = op.data /\ op.data # NoRow
      BY <2>2, OpShape DEF IInv, RowsHoldLog, Datum
    <3>2. /\ Accounted' \in 1..Accounted'
          /\ log'[Accounted'] = [key |-> k, data |-> rows'[k]]
          /\ LastOf(Accounted, Accounted)'
      BY <2>1, <2>2, <3>1, LandedRecords DEF LastOf, TypeOK
    <3>3. QED
      BY <2>2, <3>1, <3>2 DEF RowHoldsLog
  <2>3. CASE k # op.key
    <3>1. RowHoldsLog(k) /\ rows'[k] = rows[k]
      BY <2>3 DEF IInv, RowsHoldLog
    <3>2. log'[Len(log) + 1].key # k /\ \A i \in 1..Len(log) : log'[i] = log[i]
      BY <2>3, LandedRecords
    <3>3. Len(log) \in Nat /\ \A i \in 1..(Len(log) + 1) : i \in 1..Len(log) \/ i = Len(log) + 1
      BY DEF TypeOK
    <3>4. CASE rows[k] = NoRow
      BY <2>1, <3>1, <3>2, <3>3, <3>4 DEF RowHoldsLog
    <3>5. CASE rows[k] # NoRow
      <4>1. PICK i \in 1..Len(log) : /\ log[i].key = k
                                     /\ log[i].data = rows[k]
                                     /\ LastOf(i, Len(log))
        BY <2>1, <3>1, <3>5 DEF RowHoldsLog
      <4>2. i \in 1..Accounted' /\ LastOf(i, Accounted)'
        BY <2>1, <3>2, <3>3, <4>1 DEF LastOf
      <4>3. QED
        BY <3>1, <3>2, <3>5, <4>1, <4>2 DEF RowHoldsLog
    <3>6. QED
      BY <3>4, <3>5
  <2>4. QED
    BY <2>2, <2>3
<1>8. QED
  BY <1>2, <1>3, <1>4, <1>5, <1>6, <1>7 DEF IInv

(* The file that a save begins holds the unsaved rows and the current *)
(* m_Seq.                                                             *)
LEMMA BeginSaveIInv ==
    ASSUME TypeOK, IInv, NEW f \in File, BeginSave(f)
    PROVE  IInv'
<1> USE DEF BeginSave, LockFree, Idle
<1>1. /\ disk'[f] = Segment("writing", seq, rows)
      /\ \A g \in File \ {f} : disk'[g] = disk[g]
      /\ f \notin Complete
      /\ Complete' = Complete
      /\ f \notin segments \cup retired
      /\ merge # NoMerge => merge.new # f
  BY DEF TypeOK, Existing, Complete, Segment, IInv, Files, MergeFile
<1>2. segments \subseteq File \ {f}
  BY <1>1 DEF TypeOK
<1>3. Files' /\ SaveFile'
  BY <1>1 DEF IInv, Files, SaveFile, Segment, HasUnsavedRows
<1>4. MergeFile'
  <2>1. CASE merge # NoMerge
    <3>1. merge.new \in File \ {f} /\ merge.newer \in segments /\ merge.older \in segments
      BY <1>1, <2>1, MergeShape DEF IInv, MergeFile
    <3>2. QED
      BY <1>1, <1>2, <3>1 DEF IInv, MergeFile, Adjacent, MayBeOldest, MergedRows, Holds
  <2>2. QED
    BY <2>1 DEF MergeFile
<1>5. Ordering' /\ LogHoldsStore'
  BY <1>1, <1>2 DEF IInv, Ordering, DistinctSeqs, LogHoldsStore, LastOf, LiveFiles
<1>6. SegmentsHoldRest'
  BY <1>1, <1>2 DEF IInv, SegmentsHoldRest, LiveFiles, InLog, Gives, Holds
<1>7. RowsHoldLog'
  BY DEF IInv, RowsHoldLog, RowHoldsLog, Accounted, LastOf
<1>8. QED
  BY <1>3, <1>4, <1>5, <1>6, <1>7 DEF IInv

(* When the save's file is complete, its rows are both in it and in the *)
(* log.                                                                 *)
LEMMA SaveWrittenIInv == TypeOK /\ IInv /\ SaveWritten => IInv'
<1> SUFFICES ASSUME TypeOK, IInv, SaveWritten PROVE IInv'
  OBVIOUS
<1> USE DEF SaveWritten, memory
<1>1. phase = "open" /\ op.file \in File
  BY OpShape DEF IInv, Files, Idle
<1>2. /\ \A g \in File : disk'[g].seq = disk[g].seq /\ disk'[g].rows = disk[g].rows
      /\ \A g \in File \ {op.file} : disk'[g] = disk[g]
      /\ disk'[op.file].state = "complete"
      /\ Complete' = Complete \cup {op.file}
  BY <1>1 DEF TypeOK, SegmentFile, Complete
<1>3. segments \subseteq File
  BY DEF TypeOK
<1>4. Files' /\ SaveFile'
  BY <1>1, <1>2 DEF IInv, Files, SaveFile, HasUnsavedRows
<1>5. MergeFile'
  <2>1. CASE merge # NoMerge
    <3>1. merge.new \in File \ {op.file} /\ merge.newer \in File /\ merge.older \in File
      BY <2>1, MergeShape DEF IInv, SaveFile
    <3>2. QED
      BY <1>2, <1>3, <3>1 DEF IInv, MergeFile, Adjacent, MayBeOldest, MergedRows, Holds
  <2>2. QED
    BY <2>1 DEF MergeFile
<1>6. Ordering' /\ LogHoldsStore'
  BY <1>1, <1>2, <1>3 DEF IInv, Ordering, DistinctSeqs, LogHoldsStore, LastOf, LiveFiles
<1>7. SegmentsHoldRest'
  BY <1>1, <1>2, <1>3 DEF IInv, SegmentsHoldRest, LiveFiles, InLog, Gives, Holds
<1>8. RowsHoldLog'
  BY DEF IInv, RowsHoldLog, RowHoldsLog, Accounted, LastOf
<1>9. QED
  BY <1>4, <1>5, <1>6, <1>7, <1>8 DEF IInv

(* When the log is truncated, the rows it held are on top of the stack. *)
LEMMA SegmentSaveCompleteIInv == TypeOK /\ IInv /\ SegmentSaveComplete => IInv'
<1> SUFFICES ASSUME TypeOK, IInv, SegmentSaveComplete PROVE IInv'
  OBVIOUS
<1> USE DEF SegmentSaveComplete
<1> DEFINE f == op.file
<1>1. /\ phase = "open"
      /\ f \in File
      /\ f \in Complete
      /\ f \notin segments \cup retired
      /\ disk[f].rows = rows
      /\ disk[f].seq = seq
      /\ segments \subseteq File
  BY OpShape DEF IInv, Files, SaveFile, Idle, Complete, TypeOK
<1>2. log # <<>>
  BY <1>1, MemoryRow DEF IInv, SaveFile, HasUnsavedRows
<1>3. \A g \in segments : disk[g].seq < disk[f].seq
  BY <1>1, <1>2 DEF IInv, Ordering
<1>4. \A g \in segments' : disk[g].seq \in Nat
  BY <1>1, FileShape
<1>5. Files' /\ SaveFile'
  BY <1>1 DEF IInv, Files, SaveFile, Complete, Idle
<1>6. MergeFile'
  <2>1. CASE merge # NoMerge
    <3>1. merge.newer \in segments /\ merge.older \in segments /\ merge.new # f
      BY <2>1 DEF IInv, MergeFile, SaveFile
    <3>2. Adjacent(merge.newer, merge.older)'
      BY <1>1, <1>3, <1>4, <2>1, <3>1 DEF IInv, MergeFile, Adjacent
    <3>3. MayBeOldest(merge.newer, merge.older) => MayBeOldest(merge.newer, merge.older)'
      BY <1>1, <1>3, <1>4, <3>1 DEF MayBeOldest
    <3>4. QED
      BY <2>1, <3>1, <3>2, <3>3 DEF IInv, MergeFile, MergedRows, Holds
  <2>2. QED
    BY <2>1 DEF MergeFile
<1>7. Ordering' /\ LogHoldsStore'
  BY <1>1, <1>3, <1>4 DEF IInv, Ordering, DistinctSeqs, LogHoldsStore, LiveFiles, TypeOK
<1>8. SegmentsHoldRest'
  <2> SUFFICES ASSUME NEW k \in Key PROVE Gives(segments \cup {f}, k, store[k])
    BY <1>1 DEF SegmentsHoldRest, LiveFiles, Gives, Holds
  <2>1. CASE rows[k] # NoRow
    BY <1>1, <1>3, <2>1, MemoryRow DEF Gives, Holds
  <2>2. CASE rows[k] = NoRow
    <3>1. Gives(segments, k, store[k]) /\ ~Holds(f, k)
      BY <1>1, <2>2, MemoryRow DEF IInv, SegmentsHoldRest, LiveFiles, Holds
    <3>2. QED
      BY <3>1 DEF Gives
  <2>3. QED
    BY <2>1, <2>2
<1>9. RowsHoldLog'
  BY <1>1 DEF RowsHoldLog, RowHoldsLog, Accounted, Idle, EmptyRows
<1>10. QED
  BY <1>5, <1>6, <1>7, <1>8, <1>9 DEF IInv

(* The file that a merge begins can stand in for its two inputs. *)
LEMMA BeginMergeIInv ==
    ASSUME TypeOK, IInv, NEW a \in File, NEW b \in File, NEW f \in File,
           NEW oldest \in BOOLEAN, BeginMerge(a, b, oldest, f)
    PROVE  IInv'
<1> USE DEF BeginMerge, SegmentsToMerge, LockFree, Idle
<1>1. /\ disk'[f] = Segment("writing", disk[a].seq, MergedRows(a, b, oldest))
      /\ \A g \in File \ {f} : disk'[g] = disk[g]
      /\ f \notin Complete
      /\ Complete' = Complete
      /\ f \notin segments \cup retired
  BY DEF TypeOK, Existing, Complete, Segment, IInv, Files
<1>2. segments \subseteq File \ {f} /\ a \in segments /\ b \in segments
  BY <1>1 DEF TypeOK
<1>3. Files' /\ SaveFile'
  BY <1>1 DEF IInv, Files, SaveFile
<1>4. MergeFile'
  <2>1. /\ disk'[f].state = "writing"
        /\ disk'[f].seq = disk'[a].seq
        /\ disk'[f].rows = MergedRows(a, b, oldest)
    BY <1>1, <1>2 DEF Segment
  <2>2. /\ merge'.new = f
        /\ merge'.newer = a
        /\ merge'.older = b
    OBVIOUS
  <2>3. Adjacent(merge.newer, merge.older)'
    BY <1>1, <1>2, <2>2 DEF Adjacent
  <2>4. oldest => MayBeOldest(merge.newer, merge.older)'
    BY <1>1, <1>2, <2>2 DEF MayBeOldest
  <2>5. disk'[a] = disk[a] /\ disk'[b] = disk[b]
    BY <1>1, <1>2
  <2>6. MergedRows(merge.newer, merge.older, oldest)' = MergedRows(a, b, oldest)
    BY ONLY <2>2, <2>5 DEF MergedRows, Holds
  <2>7. QED
    BY <1>1, <1>2, <2>1, <2>2, <2>3, <2>4, <2>6 DEF MergeFile
<1>5. Ordering' /\ LogHoldsStore'
  BY <1>1, <1>2 DEF IInv, Ordering, DistinctSeqs, LogHoldsStore, LastOf, LiveFiles
<1>6. SegmentsHoldRest'
  BY <1>1, <1>2 DEF IInv, SegmentsHoldRest, LiveFiles, InLog, Gives, Holds
<1>7. RowsHoldLog'
  BY DEF IInv, RowsHoldLog, RowHoldsLog, Accounted, LastOf
<1>8. QED
  BY <1>3, <1>4, <1>5, <1>6, <1>7 DEF IInv

(* Two segments of tombstones at the bottom of the stack say nothing. *)
LEMMA MergeToNothingIInv ==
    ASSUME TypeOK, IInv, NEW a \in File, NEW b \in File,
           NEW oldest \in BOOLEAN, MergeToNothing(a, b, oldest)
    PROVE  IInv'
<1> USE DEF MergeToNothing, SegmentsToMerge, LockFree, Idle, volume
<1>1. Files' /\ SaveFile' /\ MergeFile'
  BY DEF IInv, Files, SaveFile, MergeFile, Complete
<1>2. Ordering' /\ LogHoldsStore'
  BY DEF IInv, Ordering, DistinctSeqs, LogHoldsStore, LastOf, LiveFiles
<1>3. SegmentsHoldRest'
  <2> SUFFICES ASSUME NEW k \in Key, ~InLog(k)
               PROVE  Gives(segments \ {a, b}, k, store[k])
    BY DEF SegmentsHoldRest, LiveFiles, InLog, Gives, Holds
  <2>1. Gives(segments, k, store[k]) /\ store[k] \in Datum
    BY DEF IInv, SegmentsHoldRest, LiveFiles, TypeOK
  <2>2. MergedRows(a, b, oldest)[k] = NoRow
    BY DEF EmptyRows
  <2>3. DistinctSeqs(segments)
    BY DEF IInv, Ordering, LiveFiles
  <2>4. QED
    BY <2>1, <2>2, <2>3, MergeGives
<1>4. RowsHoldLog'
  BY DEF IInv, RowsHoldLog, RowHoldsLog, Accounted, LastOf
<1>5. QED
  BY <1>1, <1>2, <1>3, <1>4 DEF IInv

(* A complete merge file is not in use yet, and its inputs are. *)
LEMMA MergeWrittenIInv == TypeOK /\ IInv /\ MergeWritten => IInv'
<1> SUFFICES ASSUME TypeOK, IInv, MergeWritten PROVE IInv'
  OBVIOUS
<1> USE DEF MergeWritten, memory
<1> DEFINE n == merge.new
<1>1. phase = "open" /\ n \in File /\ merge.newer \in File /\ merge.older \in File
  BY MergeShape DEF IInv, Files
<1>2. /\ \A g \in File : disk'[g].seq = disk[g].seq /\ disk'[g].rows = disk[g].rows
      /\ \A g \in File \ {n} : disk'[g] = disk[g]
      /\ disk'[n].state = "complete"
      /\ Complete' = Complete \cup {n}
  BY <1>1 DEF TypeOK, SegmentFile, Complete
<1>3. segments \subseteq File
  BY DEF TypeOK
<1>4. Files'
  BY <1>1, <1>2 DEF IInv, Files
<1>5. SaveFile'
  BY <1>1, <1>2, OpShape DEF IInv, SaveFile, HasUnsavedRows
<1>6. MergeFile'
  BY <1>1, <1>2, <1>3 DEF IInv, MergeFile, Adjacent, MayBeOldest, MergedRows, Holds
<1>7. Ordering' /\ LogHoldsStore'
  BY <1>1, <1>2, <1>3 DEF IInv, Ordering, DistinctSeqs, LogHoldsStore, LastOf, LiveFiles
<1>8. SegmentsHoldRest'
  BY <1>1, <1>2, <1>3 DEF IInv, SegmentsHoldRest, LiveFiles, InLog, Gives, Holds
<1>9. RowsHoldLog'
  BY DEF IInv, RowsHoldLog, RowHoldsLog, Accounted, LastOf
<1>10. QED
  BY <1>4, <1>5, <1>6, <1>7, <1>8, <1>9 DEF IInv

(* A failed merge leaves its inputs in use and no file. *)
LEMMA MergeFailedIInv == TypeOK /\ IInv /\ MergeFailed => IInv'
<1> SUFFICES ASSUME TypeOK, IInv, MergeFailed PROVE IInv'
  OBVIOUS
<1> USE DEF MergeFailed, LockFree, Idle
<1> DEFINE n == merge.new
<1>1. /\ n \in File
      /\ \A g \in File \ {n} : disk'[g] = disk[g]
      /\ n \notin segments \cup retired
      /\ n \notin Complete
      /\ Complete' = Complete
  BY MergeShape DEF TypeOK, IInv, MergeFile, Complete, NoFile
<1>2. segments \subseteq File \ {n}
  BY <1>1 DEF TypeOK
<1>3. Files' /\ SaveFile' /\ MergeFile'
  BY <1>1 DEF IInv, Files, SaveFile, MergeFile
<1>4. Ordering' /\ LogHoldsStore'
  BY <1>1, <1>2 DEF IInv, Ordering, DistinctSeqs, LogHoldsStore, LastOf, LiveFiles
<1>5. SegmentsHoldRest'
  BY <1>1, <1>2 DEF IInv, SegmentsHoldRest, LiveFiles, InLog, Gives, Holds
<1>6. RowsHoldLog'
  BY DEF IInv, RowsHoldLog, RowHoldsLog, Accounted, LastOf
<1>7. QED
  BY <1>3, <1>4, <1>5, <1>6 DEF IInv

(* The merged segment in place of its inputs gives every key the same *)
(* data, with the segments saved meanwhile above it.                  *)
LEMMA SegmentMergeCompleteIInv == TypeOK /\ IInv /\ SegmentMergeComplete => IInv'
<1> SUFFICES ASSUME TypeOK, IInv, SegmentMergeComplete PROVE IInv'
  OBVIOUS
<1> USE DEF SegmentMergeComplete, LockFree, Idle, volume
<1> DEFINE n == merge.new
           a == merge.newer
           b == merge.older
<1>1. /\ n \in Complete
      /\ n \notin segments \cup retired
      /\ a \in segments
      /\ b \in segments
      /\ Adjacent(a, b)
      /\ disk[n].seq = disk[a].seq
      /\ segments \subseteq File
  BY MergeShape DEF IInv, MergeFile, Complete, TypeOK
<1>2. PICK oldest \in BOOLEAN : /\ oldest => MayBeOldest(a, b)
                               /\ disk[n].rows = MergedRows(a, b, oldest)
  BY DEF IInv, MergeFile
<1>3. DistinctSeqs(segments)
  BY DEF IInv, Ordering, LiveFiles
<1>4. Files' /\ SaveFile' /\ MergeFile'
  BY <1>1 DEF IInv, Files, SaveFile, MergeFile, Complete
<1>5. Ordering' /\ LogHoldsStore'
  BY <1>1, <1>3 DEF IInv, Ordering, DistinctSeqs, LogHoldsStore, LastOf, LiveFiles
<1>6. SegmentsHoldRest'
  <2> SUFFICES ASSUME NEW k \in Key, ~InLog(k)
               PROVE  Gives((segments \ {a, b}) \cup {n}, k, store[k])
    BY DEF SegmentsHoldRest, LiveFiles, InLog, Gives, Holds
  <2> DEFINE m == MergedRows(a, b, oldest)[k]
  <2>1. Gives(segments, k, store[k]) /\ store[k] \in Datum
    BY DEF IInv, SegmentsHoldRest, LiveFiles, TypeOK
  <2>2. Holds(n, k) <=> m # NoRow
    BY <1>2 DEF Holds
  <2>3. CASE m = NoRow
    <3>1. Gives(segments \ {a, b}, k, store[k])
      BY <1>1, <1>2, <1>3, <2>1, <2>3, MergeGives
    <3>2. QED
      BY <2>2, <2>3, <3>1 DEF Gives
  <2>4. CASE m # NoRow
    <3>1. \/ /\ m = store[k]
             /\ \A g \in segments \ {a, b} : Holds(g, k) => disk[g].seq < disk[a].seq
          \/ GivenAbove(segments \ {a, b}, a, k, store[k])
      BY <1>1, <1>2, <1>3, <2>1, <2>4, MergeGives
    <3>2. CASE /\ m = store[k]
               /\ \A g \in segments \ {a, b} : Holds(g, k) => disk[g].seq < disk[a].seq
      BY <1>1, <1>2, <2>2, <2>4, <3>2 DEF Gives
    <3>3. ASSUME NEW f \in segments \ {a, b},
                 Holds(f, k),
                 disk[f].rows[k] = store[k],
                 disk[f].seq > disk[a].seq,
                 \A g \in (segments \ {a, b}) \ {f} : Holds(g, k) => disk[g].seq < disk[f].seq
          PROVE  Gives((segments \ {a, b}) \cup {n}, k, store[k])
      <4>1. disk[n].seq < disk[f].seq
        BY <1>1, <3>3, FileShape
      <4>2. QED
        BY <1>1, <3>3, <4>1 DEF Gives
    <3>4. QED
      BY <3>1, <3>2, <3>3 DEF GivenAbove
  <2>5. QED
    BY <2>3, <2>4
<1>7. RowsHoldLog'
  BY DEF IInv, RowsHoldLog, RowHoldsLog, Accounted, LastOf
<1>8. QED
  BY <1>4, <1>5, <1>6, <1>7 DEF IInv

(* A file that is deleted is not in use. *)
LEMMA ReleaseIInv ==
    ASSUME TypeOK, IInv, NEW f \in File, Release(f)
    PROVE  IInv'
<1> USE DEF Release
<1>1. /\ phase = "open"
      /\ \A g \in File \ {f} : disk'[g] = disk[g]
      /\ f \notin segments
      /\ op.type = "save" => op.file \in File \ {f}
      /\ merge # NoMerge => merge.new \in File \ {f}
      /\ Complete' = Complete \ {f}
  BY OpShape, MergeShape DEF TypeOK, IInv, Files, SaveFile, MergeFile, Complete, NoFile
<1>2. segments \subseteq File \ {f}
  BY <1>1 DEF TypeOK
<1>3. Files'
  BY <1>1, <1>2 DEF IInv, Files
<1>4. SaveFile'
  BY <1>1 DEF IInv, SaveFile, HasUnsavedRows
<1>5. MergeFile'
  BY <1>1, <1>2 DEF IInv, MergeFile, Adjacent, MayBeOldest, MergedRows, Holds
<1>6. Ordering' /\ LogHoldsStore'
  BY <1>1, <1>2 DEF IInv, Ordering, DistinctSeqs, LogHoldsStore, LastOf, LiveFiles
<1>7. SegmentsHoldRest'
  BY <1>1, <1>2 DEF IInv, SegmentsHoldRest, LiveFiles, InLog, Gives, Holds
<1>8. RowsHoldLog'
  BY DEF IInv, RowsHoldLog, RowHoldsLog, Accounted, LastOf
<1>9. QED
  BY <1>3, <1>4, <1>5, <1>6, <1>7, <1>8 DEF IInv

(* What a crash leaves on the volume is what memory had accounted for:     *)
(* every complete file is an open segment, or the segment a save has just  *)
(* completed, above all of them.                                           *)
LEMMA CrashFiles ==
    ASSUME TypeOK, IInv, phase = "open", MayCrash, "retiring" \notin CrashPoints
    PROVE  /\ DistinctSeqs(Complete)
           /\ \A k \in Key : ~InLog(k) => Gives(Complete, k, store[k])
<1>1. \A f \in Complete : f \in segments \/ (op.type = "save" /\ f = op.file)
  BY MergeShape DEF MayCrash, Retiring, IInv, Files, Complete
<1>2. segments \subseteq Complete /\ segments \subseteq File
  BY DEF IInv, Files, TypeOK
<1>3. DistinctSeqs(segments) /\ \A k \in Key : ~InLog(k) => Gives(segments, k, store[k])
  BY DEF IInv, Ordering, SegmentsHoldRest, LiveFiles
<1>4. CASE Complete = segments
  BY <1>3, <1>4
<1>5. CASE op.type = "save" /\ op.file \in Complete \ segments
  <2> DEFINE f == op.file
  <2>1. Complete = segments \cup {f}
    BY <1>1, <1>2, <1>5
  <2>2. log # <<>>
    BY <1>5, MemoryRow DEF IInv, SaveFile, HasUnsavedRows
  <2>3. \A g \in segments : disk[g].seq \in Nat /\ disk[g].seq < disk[f].seq
    BY <1>2, <1>5, <2>2, FileShape DEF IInv, Ordering, SaveFile
  <2>4. DistinctSeqs(Complete)
    BY <1>3, <2>1, <2>3 DEF DistinctSeqs
  <2>5. \A k \in Key : ~InLog(k) => ~Holds(f, k)
    BY <1>5, MemoryRow DEF IInv, SaveFile, Holds
  <2>6. QED
    BY <1>3, <2>1, <2>4, <2>5 DEF Gives
<1>6. QED
  BY <1>1, <1>2, <1>4, <1>5

(* A crash outside the retiring window leaves on the volume exactly what *)
(* the stack was, the file of a save perhaps added, and the log with or  *)
(* without the record in flight.                                         *)
LEMMA CrashIInv ==
    ASSUME TypeOK, IInv, Crash, "retiring" \notin CrashPoints
    PROVE  IInv'
<1> USE DEF Crash
<1>1. op.type = "insert" => phase = "open"
  BY DEF IInv, Files, Idle
<1>2. /\ DistinctSeqs(Complete)
      /\ \A k \in Key : ~InLog(k) => Gives(Complete, k, store[k])
  <2>1. CASE phase = "open"
    BY <2>1, CrashFiles
  <2>2. CASE phase # "open"
    BY <2>2 DEF IInv, Ordering, SegmentsHoldRest, LiveFiles, Complete
  <2>3. QED
    BY <2>1, <2>2
<1>3. /\ LogHoldsStore'
      /\ \A k \in Key : ~InLog(k)' => ~InLog(k) /\ store'[k] = store[k]
  <2>1. CASE log' = Landed /\ store' = Stored /\ op.type = "insert"
    BY <2>1, LandedLog
  <2>2. CASE UNCHANGED <<log, store>>
    BY <2>2 DEF IInv, LogHoldsStore, LastOf, InLog
  <2>3. QED
    BY <2>1, <2>2
<1>4. LiveFiles' = Complete
  BY DEF LiveFiles, Complete
<1>5. Files' /\ SaveFile' /\ MergeFile'
  BY DEF Files, SaveFile, MergeFile, Idle
<1>6. Ordering'
  BY <1>2, <1>4 DEF Ordering, DistinctSeqs
<1>7. SegmentsHoldRest'
  BY <1>2, <1>3, <1>4 DEF SegmentsHoldRest, Gives, Holds
<1>8. RowsHoldLog'
  <2>1. Len(log') \in Nat
    BY NextTypeOK DEF Next, TypeOK
  <2>2. QED
    BY <2>1 DEF RowsHoldLog, RowHoldsLog, Accounted, Idle, EmptyRows
<1>9. QED
  BY <1>3, <1>5, <1>6, <1>7, <1>8 DEF IInv

(* Opening the log changes nothing on the volume. *)
LEMMA OpenLogIInv == TypeOK /\ IInv /\ OpenLog => IInv'
<1> SUFFICES ASSUME TypeOK, IInv, OpenLog PROVE IInv'
  OBVIOUS
<1> USE DEF OpenLog, volume
<1>1. Files' /\ SaveFile' /\ MergeFile'
  BY DEF IInv, Files, SaveFile, MergeFile, Idle, Complete
<1>2. Ordering' /\ LogHoldsStore'
  BY DEF IInv, Ordering, DistinctSeqs, LogHoldsStore, LastOf, LiveFiles
<1>3. SegmentsHoldRest'
  BY DEF IInv, SegmentsHoldRest, LiveFiles, InLog, Gives, Holds
<1>4. RowsHoldLog'
  BY DEF IInv, RowsHoldLog, RowHoldsLog, Accounted, LastOf
<1>5. QED
  BY <1>1, <1>2, <1>3, <1>4 DEF IInv

(* Replaying the next record makes the memory rows those of a longer *)
(* prefix.                                                           *)
LEMMA RecoverRowIInv == TypeOK /\ IInv /\ RecoverRow => IInv'
<1> SUFFICES ASSUME TypeOK, IInv, RecoverRow PROVE IInv'
  OBVIOUS
<1> USE DEF RecoverRow, volume
<1>1. Files' /\ SaveFile' /\ MergeFile'
  BY DEF IInv, Files, SaveFile, MergeFile, Idle, Complete
<1>2. Ordering' /\ LogHoldsStore'
  BY DEF IInv, Ordering, DistinctSeqs, LogHoldsStore, LastOf, LiveFiles
<1>3. SegmentsHoldRest'
  BY DEF IInv, SegmentsHoldRest, LiveFiles, InLog, Gives, Holds
<1>4. RowsHoldLog'
  <2> DEFINE r == log[replayed + 1]
  <2>1. op = Idle /\ replayed \in Nat /\ Len(log) \in Nat /\ replayed + 1 <= Len(log)
    BY DEF IInv, Files, TypeOK
  <2>2. r \in Record
    BY <2>1 DEF TypeOK
  <2>3. r.key \in Key /\ r.data # NoRow
    BY <2>2 DEF Record, Datum
  <2>4. Accounted = replayed /\ Accounted' = replayed + 1
    BY DEF Accounted
  <2>5. ASSUME NEW k \in Key PROVE RowHoldsLog(k)'
    <3>1. RowHoldsLog(k)
      BY <2>1 DEF IInv, RowsHoldLog, Idle
    <3>2. CASE k = r.key
      <4>1. rows'[k] = r.data
        BY <3>2 DEF TypeOK, RowSet
      <4>2. Accounted' \in 1..Accounted' /\ LastOf(Accounted, Accounted)'
        BY <2>1, <2>4 DEF LastOf
      <4>3. QED
        BY <2>3, <2>4, <3>2, <4>1, <4>2 DEF RowHoldsLog
    <3>3. CASE k # r.key
      <4>1. rows'[k] = rows[k]
        BY <3>3 DEF TypeOK, RowSet
      <4>2. \A i \in 1..(replayed + 1) : i \in 1..replayed \/ i = replayed + 1
        BY <2>1
      <4>3. CASE rows[k] = NoRow
        BY <2>4, <3>1, <3>3, <4>1, <4>2, <4>3 DEF RowHoldsLog
      <4>4. CASE rows[k] # NoRow
        <5>1. PICK i \in 1..replayed : /\ log[i].key = k
                                       /\ log[i].data = rows[k]
                                       /\ LastOf(i, replayed)
          BY <2>4, <3>1, <4>4 DEF RowHoldsLog
        <5>2. i \in 1..Accounted' /\ LastOf(i, Accounted)'
          BY <2>1, <2>4, <3>3, <4>2, <5>1 DEF LastOf
        <5>3. QED
          BY <4>1, <4>4, <5>1, <5>2 DEF RowHoldsLog
      <4>5. QED
        BY <4>3, <4>4
    <3>4. QED
      BY <3>2, <3>3
  <2>6. QED
    BY <2>1, <2>5 DEF RowsHoldLog, Idle
<1>5. QED
  BY <1>1, <1>2, <1>3, <1>4 DEF IInv

(* At the end of the replay the memory rows are those of the whole log. *)
LEMMA RecoverEndIInv == TypeOK /\ IInv /\ RecoverEnd => IInv'
<1> SUFFICES ASSUME TypeOK, IInv, RecoverEnd PROVE IInv'
  OBVIOUS
<1> USE DEF RecoverEnd
<1>1. segments = {}
  BY DEF IInv, Files
<1>2. Files' /\ SaveFile' /\ MergeFile'
  BY DEF IInv, Files, SaveFile, MergeFile, Idle, Complete
<1>3. Ordering' /\ LogHoldsStore'
  BY <1>1 DEF IInv, Ordering, DistinctSeqs, LogHoldsStore, LastOf, LiveFiles
<1>4. SegmentsHoldRest'
  BY DEF IInv, SegmentsHoldRest, LiveFiles, InLog, Gives, Holds
<1>5. RowsHoldLog'
  BY DEF IInv, RowsHoldLog, RowHoldsLog, Accounted, LastOf
<1>6. QED
  BY <1>2, <1>3, <1>4, <1>5 DEF IInv

(* Opening a segment raises m_Seq to at least its number. *)
LEMMA OpenSegmentIInv ==
    ASSUME TypeOK, IInv, NEW f \in File, OpenSegment(f)
    PROVE  IInv'
<1> USE DEF OpenSegment, volume
<1>1. Files' /\ SaveFile' /\ MergeFile'
  BY DEF IInv, Files, SaveFile, MergeFile, Idle, Complete
<1>2. \A g \in segments \cup {f} : disk[g].seq \in Nat
  BY FileShape DEF TypeOK
<1>3. Ordering' /\ LogHoldsStore'
  BY <1>2 DEF IInv, Ordering, DistinctSeqs, LogHoldsStore, LastOf, LiveFiles, TypeOK
<1>4. SegmentsHoldRest'
  BY DEF IInv, SegmentsHoldRest, LiveFiles, InLog, Gives, Holds
<1>5. RowsHoldLog'
  BY DEF IInv, RowsHoldLog, RowHoldsLog, Accounted, LastOf
<1>6. QED
  BY <1>1, <1>3, <1>4, <1>5 DEF IInv

(* A failed open closes the segments and touches no file. *)
LEMMA OpenFailedIInv ==
    ASSUME TypeOK, IInv, NEW f \in File, OpenFailed(f)
    PROVE  IInv'
<1> USE DEF OpenFailed, volume
<1>1. Files' /\ SaveFile' /\ MergeFile'
  BY DEF IInv, Files, SaveFile, MergeFile, Idle, Complete
<1>2. Ordering' /\ LogHoldsStore'
  BY DEF IInv, Ordering, DistinctSeqs, LogHoldsStore, LastOf, LiveFiles
<1>3. SegmentsHoldRest'
  BY DEF IInv, SegmentsHoldRest, LiveFiles, InLog, Gives, Holds
<1>4. RowsHoldLog'
  BY DEF IInv, RowsHoldLog, RowHoldsLog, Accounted, LastOf
<1>5. QED
  BY <1>1, <1>2, <1>3, <1>4 DEF IInv

(* Adding the records replayed puts m_Seq above every segment if there are *)
(* any.                                                                    *)
LEMMA OpenDoneIInv == TypeOK /\ IInv /\ OpenDone => IInv'
<1> SUFFICES ASSUME TypeOK, IInv, OpenDone PROVE IInv'
  OBVIOUS
<1> USE DEF OpenDone, volume
<1>1. /\ segments = Complete
      /\ LiveFiles' = segments
      /\ LiveFiles = segments
      /\ replayed = Len(log)
      /\ op = Idle
      /\ merge = NoMerge
      /\ retired = {}
  BY DEF IInv, Files, Existing, Complete, LiveFiles, RowsHoldLog
<1>2. \A f \in segments : disk[f].seq \in Nat /\ disk[f].seq <= seq
  BY FileShape DEF TypeOK, IInv, Ordering
<1>3. log # <<>> => replayed > 0
  BY <1>1 DEF TypeOK
<1>4. Files' /\ SaveFile' /\ MergeFile'
  BY <1>1 DEF IInv, Files, SaveFile, MergeFile, Idle, Complete
<1>5. Ordering' /\ LogHoldsStore'
  BY <1>1, <1>2, <1>3 DEF IInv, Ordering, DistinctSeqs, LogHoldsStore, LastOf, TypeOK
<1>6. SegmentsHoldRest'
  BY <1>1 DEF IInv, SegmentsHoldRest, InLog, Gives, Holds
<1>7. RowsHoldLog'
  BY <1>1 DEF IInv, RowsHoldLog, RowHoldsLog, Accounted, LastOf
<1>8. QED
  BY <1>4, <1>5, <1>6, <1>7 DEF IInv

(* A stuttering step keeps the invariant. *)
LEMMA UnchangedIInv == IInv /\ UNCHANGED vars => IInv'
<1> SUFFICES ASSUME IInv, UNCHANGED vars PROVE IInv'
  OBVIOUS
<1> USE DEF vars
<1>1. Files' /\ SaveFile' /\ MergeFile'
  BY DEF IInv, Files, SaveFile, MergeFile, Complete, HasUnsavedRows, Adjacent,
         MayBeOldest, MergedRows, Holds
<1>2. Ordering' /\ LogHoldsStore'
  BY DEF IInv, Ordering, DistinctSeqs, LogHoldsStore, LastOf, LiveFiles
<1>3. SegmentsHoldRest'
  BY DEF IInv, SegmentsHoldRest, LiveFiles, InLog, Gives, Holds
<1>4. RowsHoldLog'
  BY DEF IInv, RowsHoldLog, RowHoldsLog, Accounted, LastOf
<1>5. QED
  BY <1>1, <1>2, <1>3, <1>4 DEF IInv

(* Every step keeps the invariant, one lemma for each action. *)
LEMMA NextIInv ==
    ASSUME TypeOK, IInv, [Next]_vars, "retiring" \notin CrashPoints
    PROVE  IInv'
BY BeginInsertIInv, EndInsertIInv, BeginSaveIInv, SaveWrittenIInv, SegmentSaveCompleteIInv,
   BeginMergeIInv, MergeToNothingIInv, MergeWrittenIInv, MergeFailedIInv,
   SegmentMergeCompleteIInv, ReleaseIInv, CrashIInv, OpenLogIInv, RecoverRowIInv,
   RecoverEndIInv, OpenSegmentIInv, OpenFailedIInv, OpenDoneIInv, UnchangedIInv
DEF Next

-----------------------------------------------------------------------------
(* If the process never dies while a merge retires its inputs, everything a *)
(* reopen needs is always on the volume, and memory agrees with it.         *)
THEOREM Invariance ==
    ASSUME "retiring" \notin CrashPoints
    PROVE  Spec => []IInv
<1>1. TypeOK /\ IInv /\ [Next]_vars => IInv'
  BY NextIInv
<1>2. QED
  BY <1>1, InitIInv, TypeCorrect, PTL DEF Spec

(* A lookup (CAeonView::GetData) returns the data of the last insert that    *)
(* landed, across any saves, merges, crashes and reopens, for any number of  *)
(* keys, values, segments and operations, if the process never dies while a  *)
(* merge retires its inputs.                                                 *)
THEOREM LookupsReadLatest ==
    ASSUME "retiring" \notin CrashPoints
    PROVE  Spec => []ReadsLatest
BY Invariance, TypeCorrect, IInvReadsLatest, PTL

(* Under the same assumption, the segment that CAeonTable::Save makes of the *)
(* unsaved rows always goes above every segment of the view, also after      *)
(* CAeonTable::Open has recomputed m_Seq.                                    *)
THEOREM UnsavedRowsStayNewest ==
    ASSUME "retiring" \notin CrashPoints
    PROVE  Spec => []UnsavedRowsAreNewest
BY Invariance, TypeCorrect, IInvUnsavedRowsAreNewest, PTL

-----------------------------------------------------------------------------
(* Implementation of RowStore *)

(* A row that the log mentions is mentioned last somewhere. *)
HasLast == \A k \in Key : InLog(k) => \E i \in LoggedAt(k) : \A j \in LoggedAt(k) : j <= i

(* Appending a record keeps that. *)
LEMMA LandedHasLast ==
    ASSUME TypeOK, HasLast, op.type = "insert", log' = Landed
    PROVE  HasLast'
<1> SUFFICES ASSUME NEW k \in Key, InLog(k)'
             PROVE  \E i \in LoggedAt(k)' : \A j \in LoggedAt(k)' : j <= i
  BY DEF HasLast
<1>1. /\ Len(log') = Len(log) + 1 /\ Len(log) \in Nat
      /\ \A i \in 1..Len(log) : log'[i] = log[i]
      /\ log'[Len(log) + 1].key = op.key
  BY LandedRecords DEF TypeOK
<1>2. CASE k = op.key
  <2>1. Len(log) + 1 \in LoggedAt(k)'
    BY <1>1, <1>2 DEF LoggedAt
  <2>2. QED
    BY <1>1, <2>1 DEF LoggedAt
<1>3. CASE k # op.key
  <2>1. LoggedAt(k)' = LoggedAt(k)
    BY <1>1, <1>3 DEF LoggedAt
  <2>2. InLog(k)
    BY <1>1, <1>3 DEF InLog
  <2>3. QED
    BY <2>1, <2>2 DEF HasLast
<1>4. QED
  BY <1>2, <1>3

(* The log is appended to, reset, or left alone. *)
LEMMA NextHasLast ==
    ASSUME TypeOK, HasLast, [Next]_vars
    PROVE  HasLast'
<1>1. \/ op.type = "insert" /\ log' = Landed
      \/ log' = <<>>
      \/ log' = log
  BY DEF Next, vars, memory, volume, BeginInsert, EndInsert, BeginSave, SaveWritten,
         SegmentSaveComplete, BeginMerge, MergeToNothing, MergeWritten, MergeFailed,
         SegmentMergeComplete, Release, Crash, OpenLog, RecoverRow, RecoverEnd,
         OpenSegment, OpenFailed, OpenDone
<1>2. CASE log' = <<>>
  BY <1>2 DEF HasLast, InLog
<1>3. CASE log' = log
  BY <1>3 DEF HasLast, InLog, LoggedAt
<1>4. QED
  BY <1>1, <1>2, <1>3, LandedHasLast

(* What the volume holds for each row is what the row must be. *)
Recovered == [k \in Key |-> Recoverable(k)] = store

LEMMA RecoverableIsStore == TypeOK /\ IInv /\ HasLast => Recovered
<1> SUFFICES ASSUME TypeOK, IInv, HasLast, NEW k \in Key PROVE Recoverable(k) = store[k]
  BY DEF Recovered, TypeOK
<1>1. CASE LoggedAt(k) # {}
  <2> DEFINE last == CHOOSE i \in LoggedAt(k) : \A j \in LoggedAt(k) : j <= i
  <2>1. last \in LoggedAt(k) /\ \A j \in LoggedAt(k) : j <= last
    BY <1>1 DEF HasLast, InLog, LoggedAt
  <2>2. last \in 1..Len(log) /\ log[last].key = k
    BY <2>1 DEF LoggedAt
  <2>3. LastOf(last, Len(log))
    BY <2>1, <2>2 DEF LastOf, LoggedAt, TypeOK
  <2>4. log[last].data = store[k]
    BY <2>2, <2>3 DEF IInv, LogHoldsStore
  <2>5. QED
    BY <1>1, <2>4 DEF Recoverable, LastLogged
<1>2. CASE LoggedAt(k) = {}
  <2>1. Gives(LiveFiles, k, store[k])
    BY <1>2 DEF IInv, SegmentsHoldRest, InLog, LoggedAt
  <2>2. LiveFiles \in SUBSET File
    BY DEF LiveFiles, TypeOK
  <2>3. SegmentData(LiveFiles, k) = {store[k]}
    BY <2>1, <2>2, GivesData
  <2>4. QED
    BY <1>2, <2>3 DEF Recoverable
<1>3. QED
  BY <1>1, <1>2

(* The initial states are those of RowStore. *)
LEMMA InitRefines ==
    ASSUME Init, TypeOK, IInv, HasLast
    PROVE  Abstract!Init
BY RecoverableIsStore DEF Recovered, Init, Idle, Abstract!Init, Abstract!NoRequest

(* Every step of the view is a step of RowStore or changes nothing there. *)
LEMMA NextRefines ==
    ASSUME TypeOK, IInv, HasLast, [Next]_vars, TypeOK', IInv', HasLast'
    PROVE  [Abstract!Next]_(Abstract!vars)
<1>1. Recovered /\ Recovered'
  BY RecoverableIsStore, PTL
<1> DEFINE bar == [k \in Key |-> Recoverable(k)]
           request == IF op.type = "insert" THEN op ELSE [type |-> "none"]
           up == phase = "open"
<1>2. bar = store /\ bar' = store'
  BY <1>1 DEF Recovered
<1>3. bar' = bar /\ request' = request /\ up' = up => UNCHANGED Abstract!vars
  BY DEF Abstract!vars
<1>4. ASSUME NEW k \in Key, NEW d \in Datum, BeginInsert(k, d) PROVE Abstract!Next
  <2>1. op' \in Abstract!Insertion /\ op'.type = "insert"
    BY <1>4 DEF BeginInsert, Abstract!Insertion, Abstract!Datum, Datum
  <2>2. Abstract!Request(op')
    BY <1>2, <1>4, <2>1 DEF BeginInsert, LockFree, Idle, Abstract!Request, Abstract!NoRequest
  <2>3. QED
    BY <2>1, <2>2 DEF Abstract!Next
<1>5. CASE EndInsert
  <2>1. Abstract!Acknowledge
    BY <1>2, <1>5, OpShape DEF EndInsert, Idle, Stored, InsertOp, Abstract!Acknowledge,
       Abstract!Applied, Abstract!NoRequest
  <2>2. QED
    BY <2>1 DEF Abstract!Next
<1>6. CASE Crash
  <2>1. Abstract!Crash
    BY <1>2, <1>6, OpShape DEF Crash, Idle, Stored, InsertOp, Abstract!Crash,
       Abstract!Applied, Abstract!NoRequest
  <2>2. QED
    BY <2>1 DEF Abstract!Next
<1>7. CASE OpenDone
  <2>1. Abstract!Restart
    BY <1>2, <1>7 DEF OpenDone, volume, Abstract!Restart
  <2>2. QED
    BY <2>1 DEF Abstract!Next
<1>8. ASSUME NEW f \in File, BeginSave(f) \/ Release(f) \/ OpenSegment(f) \/ OpenFailed(f)
      PROVE  UNCHANGED Abstract!vars
  BY <1>2, <1>3, <1>8 DEF BeginSave, Release, OpenSegment, OpenFailed, volume, LockFree, Idle
<1>9. CASE SaveWritten \/ SegmentSaveComplete
  BY <1>2, <1>3, <1>9 DEF SaveWritten, SegmentSaveComplete, memory, volume, Idle
<1>10. ASSUME NEW a \in File, NEW b \in File, NEW oldest \in BOOLEAN, NEW f \in File,
             BeginMerge(a, b, oldest, f) \/ MergeToNothing(a, b, oldest)
      PROVE  UNCHANGED Abstract!vars
  BY <1>2, <1>3, <1>10 DEF BeginMerge, MergeToNothing, volume
<1>11. CASE MergeWritten \/ MergeFailed \/ SegmentMergeComplete
  BY <1>2, <1>3, <1>11 DEF MergeWritten, MergeFailed, SegmentMergeComplete, memory, volume
<1>12. CASE OpenLog \/ RecoverRow \/ RecoverEnd
  BY <1>2, <1>3, <1>12 DEF OpenLog, RecoverRow, RecoverEnd, volume
<1>13. CASE UNCHANGED vars
  BY <1>2, <1>3, <1>13 DEF vars
<1>14. QED
  BY <1>4, <1>5, <1>6, <1>7, <1>8, <1>9, <1>10, <1>11, <1>12, <1>13 DEF Next

(* Whatever saves, merges, crashes and reopens CAeonView and CAeonTable go   *)
(* through, what can be recovered from the volume changes only when the      *)
(* insert under way lands, once, acknowledged or cut short by a crash: the   *)
(* view implements RowStore if the process does not die between the end of a *)
(* merge and the deletion of its inputs.                                     *)
THEOREM ViewImplementsRowStore ==
    ASSUME "retiring" \notin CrashPoints
    PROVE  Spec => ImplementsRowStore
<1>1. Init => HasLast
  BY DEF Init, HasLast, InLog
<1>2. TypeOK /\ HasLast /\ [Next]_vars => HasLast'
  BY NextHasLast
<1>3. Init /\ TypeOK /\ IInv /\ HasLast => Abstract!Init
  BY InitRefines
<1>4. TypeOK /\ IInv /\ HasLast /\ [Next]_vars /\ TypeOK' /\ IInv' /\ HasLast'
         => [Abstract!Next]_(Abstract!vars)
  BY NextRefines
<1>5. Spec => []HasLast
  BY <1>1, <1>2, TypeCorrect, PTL DEF Spec
<1>6. QED
  BY <1>3, <1>4, <1>5, TypeCorrect, Invariance, PTL DEF Spec, ImplementsRowStore, Abstract!Spec
=============================================================================
