------------------------------ MODULE AeonView ------------------------------
(***************************************************************************)
(* The primary view of an AeonDB table on one volume: the memory rows, the *)
(* recovery log and the stack of immutable segment files of CAeonView, and *)
(* the operations of CAeonTable that move rows between them (insert, save, *)
(* merge, reopen after a crash).                                           *)
(*                                                                         *)
(* m_cs is held for the whole of an insert and of a save, so at most one   *)
(* of them is under way: "op" is that holder.  A merge writes its new      *)
(* segment with m_cs released; "merge" is the housekeeping thread's state. *)
(***************************************************************************)
EXTENDS Naturals, Sequences, FiniteSets

CONSTANTS Key,          \* row keys
          Value,        \* row data other than nil
          Nil,          \* nil data: inserting it deletes the row (a tombstone)
          NoRow,        \* marks a key that has no entry in a row set
          File,         \* segment file names
          MaxSeq,       \* bound on m_Seq
          CrashPoints   \* the delicate windows in which the process may die

ASSUME CellAssumption == /\ Nil \notin Value
                         /\ NoRow \notin Value \cup {Nil}
ASSUME MaxSeqAssumption == MaxSeq \in Nat
ASSUME CrashPointsAssumption == CrashPoints \subseteq {"writing", "retiring"}

VARIABLES
    \* memory, lost when the process dies
    phase,      \* what the process is doing with the table
    seq,        \* CAeonTable::m_Seq
    rows,       \* CAeonView::m_pRows
    segments,   \* CAeonView::m_Segments, the open segment files
    retired,    \* files marked for delete and still referenced
    op,         \* the insert or save that holds m_cs
    merge,      \* the merge under way (m_iHousekeeping = stateMergingSegments)
    replayed,   \* rows read back from the log so far (m_iRowsRecovered)
    \* the volume
    disk,       \* the segment files
    log,        \* the complete records of the recovery file
    torn,       \* whether a partial record follows them
    \* history: the data each row must have
    store

memory == <<phase, seq, rows, segments, retired, op, merge, replayed>>
volume == <<disk, log, torn>>
vars == <<phase, seq, rows, segments, retired, op, merge, replayed,
          disk, log, torn, store>>

Datum == Value \cup {Nil}
Cell == Datum \cup {NoRow}
RowSet == [Key -> Cell]
EmptyRows == [k \in Key |-> NoRow]
Record == [key : Key, data : Datum]

Phase == {"closed", "replay", "segments", "open", "failed"}
Idle == [type |-> "none"]
InsertOp == [type : {"insert"}, key : Key, data : Datum]
SaveOp == [type : {"save"}, file : File]
NoMerge == [type |-> "none"]
MergeOp == [type : {"merge"}, new : File, newer : File, older : File]

SegmentFile == [state : {"none", "writing", "complete"}, seq : Nat, rows : RowSet]
NoFile == [state |-> "none", seq |-> 0, rows |-> EmptyRows]
Segment(state, s, r) == [state |-> state, seq |-> s, rows |-> r]

(* The type of the table's state in memory and on the volume. *)
TypeOK ==
    /\ phase \in Phase
    /\ seq \in Nat
    /\ rows \in RowSet
    /\ segments \subseteq File
    /\ retired \subseteq File
    /\ op \in InsertOp \cup SaveOp \cup {Idle}
    /\ merge \in MergeOp \cup {NoMerge}
    /\ replayed \in Nat
    /\ disk \in [File -> SegmentFile]
    /\ log \in Seq(Record)
    /\ torn \in BOOLEAN
    /\ store \in [Key -> Datum]

Init ==
    /\ phase = "open"
    /\ seq = 1
    /\ rows = EmptyRows
    /\ segments = {}
    /\ retired = {}
    /\ op = Idle
    /\ merge = NoMerge
    /\ replayed = 0
    /\ disk = [f \in File |-> NoFile]
    /\ log = <<>>
    /\ torn = FALSE
    /\ store = [k \in Key |-> Nil]

-----------------------------------------------------------------------------
(* Lookup *)

Existing == {f \in File : disk[f].state # "none"}
Holds(f, k) == disk[f].rows[k] # NoRow
Holders(S, k) == {f \in S : Holds(f, k)}

(* The segments of S that a lookup of k may stop at.  m_Segments is sorted *)
(* on the sequence number, newest first; the order of equals is left open. *)
Newest(S, k) ==
    {f \in Holders(S, k) : \A g \in Holders(S, k) : disk[g].seq <= disk[f].seq}

SegmentData(S, k) ==
    IF Holders(S, k) = {} THEN {Nil} ELSE {disk[f].rows[k] : f \in Newest(S, k)}

(* The data that a lookup may return. *)
GetData(k) ==
    IF rows[k] # NoRow THEN {rows[k]} ELSE SegmentData(segments, k)

-----------------------------------------------------------------------------
(* Insert *)

LockFree == phase = "open" /\ op = Idle

BeginInsert(k, d) ==
    /\ LockFree
    /\ seq < MaxSeq
    /\ rows' = [rows EXCEPT ![k] = d]
    /\ op' = [type |-> "insert", key |-> k, data |-> d]
    /\ UNCHANGED <<phase, seq, segments, retired, merge, replayed, disk, log, torn, store>>

LandedWhole == Append(log, op)    \* mutant: logs the request, not its row
Landed == Append(log, [key |-> op.key, data |-> op.data])
Stored == [store EXCEPT ![op.key] = op.data]

EndInsert ==
    /\ op.type = "insert"
    /\ log' = Landed
    /\ store' = Stored
    /\ seq' = seq + 1
    /\ op' = Idle
    /\ UNCHANGED <<phase, rows, segments, retired, merge, replayed, disk, torn>>

-----------------------------------------------------------------------------
(* Save: by housekeeping, or by a flush at any time *)

HasUnsavedRows == \E k \in Key : rows[k] # NoRow

(* Mutant: the log is truncated before the segment is written. *)
BeginSaveResettingFirst(f) ==
    /\ LockFree
    /\ seq <= MaxSeq
    /\ HasUnsavedRows
    /\ f \notin Existing
    /\ disk' = [disk EXCEPT ![f] = Segment("writing", seq, rows)]
    /\ op' = [type |-> "save", file |-> f]
    /\ log' = <<>>
    /\ UNCHANGED <<phase, seq, rows, segments, retired, merge, replayed, torn, store>>

BeginSave(f) ==
    /\ LockFree
    /\ seq <= MaxSeq
    /\ HasUnsavedRows
    /\ f \notin Existing
    /\ disk' = [disk EXCEPT ![f] = Segment("writing", seq, rows)]
    /\ op' = [type |-> "save", file |-> f]
    /\ UNCHANGED <<phase, seq, rows, segments, retired, merge, replayed, log, torn, store>>

SaveWritten ==
    /\ op.type = "save"
    /\ disk[op.file].state = "writing"
    /\ disk' = [disk EXCEPT ![op.file].state = "complete"]
    /\ UNCHANGED <<memory, log, torn, store>>

(* Mutant: the log is not truncated when its rows are in a segment. *)
SegmentSaveCompleteWithoutReset ==
    /\ op.type = "save"
    /\ disk[op.file].state = "complete"
    /\ segments' = segments \cup {op.file}
    /\ rows' = EmptyRows
    /\ op' = Idle
    /\ UNCHANGED <<phase, seq, retired, merge, replayed, volume, store>>

SegmentSaveComplete ==
    /\ op.type = "save"
    /\ disk[op.file].state = "complete"
    /\ segments' = segments \cup {op.file}
    /\ rows' = EmptyRows
    /\ log' = <<>>
    /\ op' = Idle
    /\ UNCHANGED <<phase, seq, retired, merge, replayed, disk, torn, store>>

-----------------------------------------------------------------------------
(* Merge *)

Adjacent(a, b) ==
    /\ a # b
    /\ disk[a].seq >= disk[b].seq
    /\ \A c \in segments : ~(disk[a].seq > disk[c].seq /\ disk[c].seq > disk[b].seq)

AnyPairIsOldest(a, b) == TRUE    \* mutant: every merge eliminates tombstones

(* Whether b may be, and may fail to be, the last segment of the list. *)
MayBeOldest(a, b) == \A c \in segments \ {a, b} : disk[c].seq >= disk[a].seq
MayNotBeOldest(a, b) == \E c \in segments \ {a, b} : disk[c].seq <= disk[b].seq

MergedRows(a, b, oldest) ==
    [k \in Key |->
        LET c == IF Holds(a, k) THEN disk[a].rows[k] ELSE disk[b].rows[k]
        IN  IF oldest /\ c = Nil THEN NoRow ELSE c]

(* GetSegmentsToMerge chooses by file size: any adjacent pair. *)
SegmentsToMerge(a, b, oldest) ==
    /\ LockFree
    /\ merge = NoMerge
    /\ a \in segments
    /\ b \in segments
    /\ Adjacent(a, b)
    /\ IF oldest THEN MayBeOldest(a, b) ELSE MayNotBeOldest(a, b)

BeginMerge(a, b, oldest, f) ==
    /\ SegmentsToMerge(a, b, oldest)
    /\ MergedRows(a, b, oldest) # EmptyRows
    /\ f \notin Existing
    /\ disk' = [disk EXCEPT ![f] =
                   Segment("writing", disk[a].seq, MergedRows(a, b, oldest))]
    /\ merge' = [type |-> "merge", new |-> f, newer |-> a, older |-> b]
    /\ UNCHANGED <<phase, seq, rows, segments, retired, op, replayed, log, torn, store>>

(* Every row of the pair was a tombstone: no new segment replaces it. *)
MergeToNothing(a, b, oldest) ==
    /\ SegmentsToMerge(a, b, oldest)
    /\ MergedRows(a, b, oldest) = EmptyRows
    /\ segments' = segments \ {a, b}
    /\ retired' = retired \cup {a, b}
    /\ UNCHANGED <<phase, seq, rows, op, merge, replayed, volume, store>>

MergeWritten ==
    /\ merge # NoMerge
    /\ disk[merge.new].state = "writing"
    /\ disk' = [disk EXCEPT ![merge.new].state = "complete"]
    /\ UNCHANGED <<memory, log, torn, store>>

MergeFailed ==
    /\ LockFree
    /\ merge # NoMerge
    /\ disk[merge.new].state = "writing"
    /\ disk' = [disk EXCEPT ![merge.new] = NoFile]
    /\ merge' = NoMerge
    /\ UNCHANGED <<phase, seq, rows, segments, retired, op, replayed, log, torn, store>>

SegmentMergeComplete ==
    /\ LockFree
    /\ merge # NoMerge
    /\ disk[merge.new].state = "complete"
    /\ segments' = (segments \ {merge.newer, merge.older}) \cup {merge.new}
    /\ retired' = retired \cup {merge.newer, merge.older}
    /\ merge' = NoMerge
    /\ UNCHANGED <<phase, seq, rows, op, replayed, volume, store>>

(* The last reference to a retired segment is dropped; iterators that other *)
(* threads hold make the order arbitrary.                                   *)
Release(f) ==
    /\ f \in retired
    /\ retired' = retired \ {f}
    /\ disk' = [disk EXCEPT ![f] = NoFile]
    /\ UNCHANGED <<phase, seq, rows, segments, op, merge, replayed, log, torn, store>>

-----------------------------------------------------------------------------
(* Crash and reopen *)

Writing == \E f \in File : disk[f].state = "writing"

(* A merged segment and one of the files it replaces are both on disk. *)
Retiring ==
    \/ retired # {}
    \/ merge # NoMerge /\ disk[merge.new].state = "complete"

MayCrash ==
    /\ Writing => "writing" \in CrashPoints
    /\ Retiring => "retiring" \in CrashPoints

(* The write of an insert in flight reached the file whole, in part or not *)
(* at all.                                                                 *)
Crash ==
    /\ phase # "closed"
    /\ MayCrash
    /\ \/ UNCHANGED <<log, torn, store>>
       \/ op.type = "insert" /\ torn' = TRUE /\ UNCHANGED <<log, store>>
       \/ op.type = "insert" /\ log' = Landed /\ store' = Stored /\ UNCHANGED torn
    /\ phase' = "closed"
    /\ seq' = 0
    /\ rows' = EmptyRows
    /\ segments' = {}
    /\ retired' = {}
    /\ op' = Idle
    /\ merge' = NoMerge
    /\ replayed' = 0
    /\ UNCHANGED disk

OpenLog ==
    /\ phase = "closed"
    /\ phase' = "replay"
    /\ UNCHANGED <<seq, rows, segments, retired, op, merge, replayed, volume, store>>

RecoverRow ==
    /\ phase = "replay"
    /\ replayed < Len(log)
    /\ replayed' = replayed + 1
    /\ rows' = [rows EXCEPT ![log[replayed'].key] = log[replayed'].data]
    /\ UNCHANGED <<phase, seq, segments, retired, op, merge, volume, store>>

RecoverEnd ==
    /\ phase = "replay"
    /\ replayed = Len(log)
    /\ torn' = FALSE
    /\ phase' = "segments"
    /\ UNCHANGED <<seq, rows, segments, retired, op, merge, replayed, disk, log, store>>

OpenSegment(f) ==
    /\ phase = "segments"
    /\ f \in Existing \ segments
    /\ disk[f].state = "complete"
    /\ segments' = segments \cup {f}
    /\ seq' = IF disk[f].seq > seq THEN disk[f].seq ELSE seq
    /\ UNCHANGED <<phase, rows, retired, op, merge, replayed, volume, store>>

OpenFailed(f) ==
    /\ phase = "segments"
    /\ disk[f].state = "writing"
    /\ phase' = "failed"
    /\ segments' = {}
    /\ UNCHANGED <<seq, rows, retired, op, merge, replayed, volume, store>>

(* Mutant: m_Seq is not bumped by the rows recovered. *)
OpenDoneForgettingRows ==
    /\ phase = "segments"
    /\ segments = Existing
    /\ phase' = "open"
    /\ UNCHANGED <<seq, rows, segments, retired, op, merge, replayed, volume, store>>

OpenDone ==
    /\ phase = "segments"
    /\ segments = Existing
    /\ seq' = seq + replayed
    /\ phase' = "open"
    /\ UNCHANGED <<rows, segments, retired, op, merge, replayed, volume, store>>

-----------------------------------------------------------------------------
Next ==
    \/ \E k \in Key, d \in Datum : BeginInsert(k, d)
    \/ EndInsert
    \/ \E f \in File : BeginSave(f)
    \/ SaveWritten
    \/ SegmentSaveComplete
    \/ \E a, b, f \in File, oldest \in BOOLEAN : BeginMerge(a, b, oldest, f)
    \/ \E a, b \in File, oldest \in BOOLEAN : MergeToNothing(a, b, oldest)
    \/ MergeWritten
    \/ MergeFailed
    \/ SegmentMergeComplete
    \/ \E f \in File : Release(f)
    \/ Crash
    \/ OpenLog
    \/ RecoverRow
    \/ RecoverEnd
    \/ \E f \in File : OpenSegment(f)
    \/ \E f \in File : OpenFailed(f)
    \/ OpenDone

Spec == Init /\ [][Next]_vars

-----------------------------------------------------------------------------
(* A lookup returns the data of the last insert that landed on the volume, *)
(* whatever saves, merges, crashes and reopens came between (the clients   *)
(* of CAeonView::GetData).                                                 *)
ReadsLatest == LockFree => \A k \in Key : GetData(k) = {store[k]}

(* Unsaved rows are newer than every segment: the segment that Save makes  *)
(* of them goes to the top of the stack also after recovery has recomputed *)
(* m_Seq from the segments and the log.                                    *)
UnsavedRowsAreNewest ==
    LockFree /\ HasUnsavedRows => \A f \in segments : disk[f].seq < seq

(* A row whose deletion landed on the volume does not come back, whatever  *)
(* merge was under way when the process died.                              *)
DeletedStaysDeleted ==
    LockFree => \A k \in Key : store[k] = Nil => GetData(k) = {Nil}

(* After any crash the table can be opened again, and the rows of the log  *)
(* are replayed.                                                           *)
Reopens == phase # "failed"

-----------------------------------------------------------------------------
(* The view implements RowStore: its abstract store is what a reopen would *)
(* recover from the volume now.                                            *)

LoggedAt(k) == {i \in 1..Len(log) : log[i].key = k}
LastLogged(k) == log[CHOOSE i \in LoggedAt(k) : \A j \in LoggedAt(k) : j <= i].data

LiveFiles ==
    IF phase = "open" THEN segments ELSE {f \in File : disk[f].state = "complete"}

Recoverable(k) ==
    IF LoggedAt(k) # {} THEN LastLogged(k) ELSE CHOOSE d \in SegmentData(LiveFiles, k) : TRUE

Abstract == INSTANCE RowStore WITH
    store <- [k \in Key |-> Recoverable(k)],
    request <- IF op.type = "insert" THEN op ELSE [type |-> "none"],
    up <- phase = "open"

(* What the volume holds changes only when the insert in flight lands,     *)
(* once, acknowledged or cut short by a crash; no save, merge, release or  *)
(* reopen changes what would be recovered.                                 *)
ImplementsRowStore == Abstract!Spec
=============================================================================
