--------------------------- MODULE SecondaryView ---------------------------
(***************************************************************************)
(* An AeonDB table with a secondary view: an index that CAeonTable::Insert *)
(* keeps beside the primary view, that housekeeping builds in the          *)
(* background when the view is added to a table with rows, and that has    *)
(* its own segments and its own recovery log.                              *)
(*                                                                         *)
(* An operation holds m_cs for all of its steps, so each is one action;    *)
(* only a crash can cut one short (CrashInInsert, CrashInFinish).  Each    *)
(* view's stack of segments is reduced to what it gives a lookup, and the  *)
(* memory rows stand for the log that replays them: module AeonView is     *)
(* about those.  A row's data is reduced to the field the view indexes.    *)
(***************************************************************************)
EXTENDS Naturals, FiniteSets

CONSTANTS Key,          \* primary keys
          Value,        \* values of the indexed field
          Nil,          \* nil data
          NoRow,        \* no entry
          MaxSeq,       \* bound on m_Seq
          MaxFaults,    \* bound on crashes and failed writes
          InitialView,  \* the view's state in the table first opened
          Windows       \* the delicate windows a behaviour may enter

ASSUME CellAssumption == Nil \notin Value \cup Key /\ NoRow \notin Value \cup Key \cup {Nil}
ASSUME BoundsAssumption == MaxSeq \in Nat /\ MaxFaults \in Nat
ASSUME InitialViewAssumption == InitialView \in {"none", "stale", "ready"}
ASSUME WindowsAssumption ==
    Windows \subseteq {"add", "delete", "undermine", "renumber", "flush",
                       "insert", "finish", "abort", "abandon", "reuse"}

VARIABLES
    up,         \* whether the process runs
    seq,        \* CAeonTable::m_Seq
    rows,       \* the primary view's memory rows (and log)
    logged,     \* the number of records in the primary view's log
    segs,       \* the primary view's segments
    high,       \* the highest sequence number of a segment
    view,       \* the secondary view: m_bUpdateNeeded is "stale"
    desc,       \* the same in the descriptor on the volume
    vrows,      \* the secondary view's memory rows (and log)
    vsegs,      \* the secondary view's segments
    orphans,    \* segment files of the secondary view that it has not opened
    task,       \* the update of the view that housekeeping is running
    faults      \* history: crashes and failed writes so far

vars == <<up, seq, rows, logged, segs, high, view, desc, vrows, vsegs, orphans, task, faults>>
primary == <<rows, logged, segs, high>>

Datum == Value \cup {Nil}
RowID == 0..MaxSeq
Row == [data : Datum, id : RowID]
ASSUME RowAssumption == NoRow \notin Row

NoRows == [k \in Key |-> NoRow]

(* A secondary key: the indexed value, and the row ID to break ties. *)
Entry == Value \X RowID
EntrySet == [Entry -> Key \cup {Nil, NoRow}]
NoEntries == [e \in Entry |-> NoRow]
Over(top, bottom) == [e \in Entry |-> IF top[e] # NoRow THEN top[e] ELSE bottom[e]]

NoTask == [type |-> "none"]
Update == [type : {"update"}, from : [Key -> Row \cup {NoRow}], left : SUBSET Key,
           batch : EntrySet, created : EntrySet]

(* The type of the table's two views, and of an update under way. *)
TypeOK ==
    /\ up \in BOOLEAN
    /\ seq \in 0..(MaxSeq + 1)
    /\ rows \in [Key -> Row \cup {NoRow}]
    /\ logged \in Nat
    /\ segs \in [Key -> Row \cup {NoRow}]
    /\ high \in 0..(MaxSeq + 1)
    /\ view \in {"none", "stale", "ready"}
    /\ desc \in {"none", "stale", "ready"}
    /\ vrows \in EntrySet
    /\ vsegs \in EntrySet
    /\ orphans \in EntrySet
    /\ task \in Update \cup {NoTask}
    /\ faults \in 0..MaxFaults

Init ==
    /\ up = TRUE
    /\ seq = 1
    /\ rows = NoRows
    /\ logged = 0
    /\ segs = NoRows
    /\ high = 0
    /\ view = InitialView
    /\ desc = InitialView
    /\ vrows = NoEntries
    /\ vsegs = NoEntries
    /\ orphans = NoEntries
    /\ task = NoTask
    /\ faults = 0

-----------------------------------------------------------------------------
(* Lookup *)

(* The primary row of k. *)
Current(k) ==
    IF rows[k] # NoRow THEN rows[k]
    ELSE IF segs[k] # NoRow THEN segs[k] ELSE [data |-> Nil, id |-> 0]

Live(k) == Current(k).data # Nil

(* The primary key that the view gives for an entry. *)
Shown(e) ==
    LET c == Over(vrows, vsegs)[e] IN IF c = NoRow THEN Nil ELSE c

-----------------------------------------------------------------------------
(* Insert *)

HasSecondaryViews == view # "none"

OldData(k) == IF HasSecondaryViews THEN Current(k).data ELSE Nil
NewRowID(k) == IF OldData(k) # Nil THEN Current(k).id ELSE seq

(* CAeonRowArray::Insert keeps the row ID of a row it overwrites. *)
MemoryRow(k, d) ==
    [data |-> d,
     id |-> IF rows[k] # NoRow /\ rows[k].data # Nil THEN rows[k].id ELSE NewRowID(k)]

WithoutOld(entries, old, id) ==
    IF old = Nil THEN entries ELSE [entries EXCEPT ![<<old, id>>] = Nil]

(* Mutant: the old entry is deleted after the new one is inserted. *)
InsertEntryClearingLast(entries, k, old, d, id) ==
    LET new == IF d = Nil THEN entries ELSE [entries EXCEPT ![<<d, id>>] = k]
    IN  WithoutOld(new, old, id)

(* CAeonView::Insert into the secondary view. *)
InsertEntry(entries, k, old, d, id) ==
    LET cleared == WithoutOld(entries, old, id)
    IN  IF d = Nil THEN cleared ELSE [cleared EXCEPT ![<<d, id>>] = k]

(* An unsaved row r of k is over one that was saved under another ID: an     *)
(* update of the view reads both, and takes them for the same.               *)
OtherID(k, r) == segs[k] # NoRow /\ segs[k].data # Nil /\ r.id # segs[k].id

InsertPrimary(k, d) ==
    /\ up
    /\ seq <= MaxSeq
    /\ view = "stale" /\ OtherID(k, MemoryRow(k, d)) => "renumber" \in Windows
    /\ rows' = [rows EXCEPT ![k] = MemoryRow(k, d)]
    /\ logged' = logged + 1
    /\ UNCHANGED <<segs, high, desc, vsegs>>

Insert(k, d) ==
    /\ InsertPrimary(k, d)
    /\ vrows' = IF view = "ready"
                THEN InsertEntry(vrows, k, OldData(k), d, NewRowID(k)) ELSE vrows
    /\ seq' = seq + 1
    /\ UNCHANGED <<up, view, orphans, task, faults>>

-----------------------------------------------------------------------------
(* Save *)

(* A flush request saves whatever housekeeping is doing; otherwise saving is *)
(* itself housekeeping.                                                      *)
Save ==
    /\ up
    /\ task # NoTask => "flush" \in Windows
    /\ rows # NoRows \/ (HasSecondaryViews /\ vrows # NoEntries)
    /\ segs' = [k \in Key |-> IF rows[k] # NoRow THEN rows[k] ELSE segs[k]]
    /\ rows' = NoRows
    /\ logged' = 0
    /\ vsegs' = IF HasSecondaryViews THEN Over(vrows, vsegs) ELSE vsegs
    /\ vrows' = IF HasSecondaryViews THEN NoEntries ELSE vrows
    /\ high' = seq
    /\ UNCHANGED <<up, seq, view, desc, orphans, task, faults>>

-----------------------------------------------------------------------------
(* Adding and deleting the view *)

(* Recreate gives the view the ID after the highest in use: the ID, and so   *)
(* the recovery file, of the view that was deleted last.                      *)
AddView ==
    /\ up
    /\ "add" \in Windows
    /\ view = "none"
    /\ (\E k \in Key : rows[k] # NoRow /\ OtherID(k, rows[k])) => "renumber" \in Windows
    /\ view' = "stale"
    /\ desc' = "stale"
    /\ UNCHANGED <<up, seq, primary, vrows, vsegs, orphans, task, faults>>

(* The view goes with its segments, but not its recovery file, and whether *)
(* or not housekeeping is at work on it.                                    *)
DeleteView ==
    /\ up
    /\ "delete" \in Windows
    /\ task # NoTask => "undermine" \in Windows
    /\ view # "none"
    /\ view' = "none"
    /\ desc' = "none"
    /\ vsegs' = NoEntries
    /\ UNCHANGED <<up, seq, primary, vrows, orphans, task, faults>>

-----------------------------------------------------------------------------
(* Crash and failed writes *)

Fault == faults < MaxFaults /\ faults' = faults + 1

(* A table with rows and no segment numbers its rows again after a reopen. *)
Die ==
    /\ high' = 0 /\ rows' # NoRows => "reuse" \in Windows
    /\ up' = FALSE
    /\ seq' = 0
    /\ view' = "none"
    /\ task' = NoTask

(* The files of the segments that an update has created stay behind. *)
Abandon(window) ==
    /\ task # NoTask /\ task.created # NoEntries => window \in Windows
    /\ orphans' = IF task # NoTask THEN Over(task.created, orphans) ELSE orphans

-----------------------------------------------------------------------------
(* Updating the view (HousekeepingUpdateView) *)

(* The iterator holds on to the segments there are when the update begins. *)
BeginUpdate ==
    /\ up
    /\ task = NoTask
    /\ view = "stale"
    /\ task' = [type |-> "update", from |-> segs,
                left |-> {k \in Key : segs[k] # NoRow},
                batch |-> NoEntries, created |-> NoEntries]
    /\ UNCHANGED <<up, seq, primary, view, desc, vrows, vsegs, orphans, faults>>

CreateSecondaryRows(k) ==
    IF task.from[k].data = Nil THEN task.batch
    ELSE [task.batch EXCEPT ![<<task.from[k].data, task.from[k].id>>] = k]

(* The batch goes to a segment file of its own when it is full, and after the *)
(* last row.                                                                  *)
ScanRow(k, full) ==
    /\ task # NoTask
    /\ view = "stale"
    /\ k \in task.left
    /\ LET batch == CreateSecondaryRows(k)
           save == full \/ task.left = {k}
       IN  task' = [task EXCEPT
                      !.left = @ \ {k},
                      !.batch = IF save THEN NoEntries ELSE batch,
                      !.created = IF save THEN Over(batch, @) ELSE @]
    /\ UNCHANGED <<up, seq, primary, view, desc, vrows, vsegs, orphans, faults>>

(* A segment of the view could not be written.  The segments created before *)
(* are released, but not marked for delete.                                  *)
AbortUpdate ==
    /\ task # NoTask
    /\ view = "stale"
    /\ task.left # {}
    /\ Fault
    /\ Abandon("abort")
    /\ task' = NoTask
    /\ UNCHANGED <<up, seq, primary, view, desc, vrows, vsegs>>

(* The view was deleted meanwhile: the pointer recomputed after the lock is *)
(* NULL.                                                                     *)
UpdateLostView ==
    /\ task # NoTask
    /\ view = "none"
    /\ orphans' = Over(task.created, orphans)
    /\ UNCHANGED <<primary, desc, vrows, vsegs, faults>>
    /\ Die

Unsaved == {k \in Key : rows[k] # NoRow}
OldSaved(k) == IF task.from[k] = NoRow THEN Nil ELSE task.from[k].data

(* Mutant: the rows that the memory rows replace are not looked up. *)
UpdatedRowsWithoutOld(K) ==
    [e \in Entry |->
        IF \E k \in K : <<rows[k].data, rows[k].id>> = e
        THEN CHOOSE k \in K : <<rows[k].data, rows[k].id>> = e
        ELSE IF task.created # NoEntries THEN NoRow ELSE vrows[e]]

(* The new segments replace the view's memory rows, if there are any.  Then  *)
(* the memory rows of K are inserted over the segments.                      *)
UpdatedRows(K) ==
    [e \in Entry |->
        IF \E k \in K : <<rows[k].data, rows[k].id>> = e
        THEN CHOOSE k \in K : <<rows[k].data, rows[k].id>> = e
        ELSE IF \E k \in K : <<OldSaved(k), rows[k].id>> = e THEN Nil
        ELSE IF task.created # NoEntries THEN NoRow ELSE vrows[e]]

UpdateScanned == task # NoTask /\ view = "stale" /\ task.left = {}

FinishUpdate ==
    /\ UpdateScanned
    /\ vsegs' = Over(task.created, vsegs)
    /\ vrows' = UpdatedRows(Unsaved)
    /\ view' = "ready"
    /\ desc' = "ready"
    /\ task' = NoTask
    /\ UNCHANGED <<up, seq, primary, orphans, faults>>

-----------------------------------------------------------------------------
(* Crash and reopen *)

Crash ==
    /\ up
    /\ Fault
    /\ UNCHANGED <<primary, desc, vrows, vsegs>>
    /\ Abandon("abandon")
    /\ Die

(* The insert reached the primary view's log, and perhaps the log of the      *)
(* secondary view with the old entry's deletion, and no further.              *)
CrashInInsert(k, d) ==
    /\ "insert" \in Windows
    /\ Fault
    /\ InsertPrimary(k, d)
    /\ \/ UNCHANGED vrows
       \/ view = "ready" /\ vrows' = WithoutOld(vrows, OldData(k), NewRowID(k))
    /\ Abandon("abandon")
    /\ Die

(* The update had created its segments, and perhaps saved the descriptor and *)
(* inserted some of the memory rows.                                         *)
CrashInFinish(K) ==
    /\ "finish" \in Windows
    /\ UpdateScanned
    /\ Fault
    /\ K \subseteq Unsaved
    /\ desc' \in IF K = {} THEN {desc, "ready"} ELSE {"ready"}
    /\ vrows' = UpdatedRows(K)
    /\ orphans' = Over(task.created, orphans)
    /\ UNCHANGED <<primary, vsegs>>
    /\ Die

(* Mutant: m_Seq is not bumped by the rows recovered. *)
ReopenForgettingRows ==
    /\ ~up
    /\ up' = TRUE
    /\ seq' = high
    /\ view' = desc
    /\ vsegs' = IF desc # "none" THEN Over(vsegs, orphans) ELSE vsegs
    /\ orphans' = IF desc # "none" THEN NoEntries ELSE orphans
    /\ UNCHANGED <<primary, desc, vrows, task, faults>>

(* Mutant: a view that needs an update is opened as if it were up to date. *)
ReopenUpToDate ==
    /\ ~up
    /\ up' = TRUE
    /\ seq' = high + logged
    /\ view' = IF desc = "stale" THEN "ready" ELSE desc
    /\ vsegs' = IF desc # "none" THEN Over(vsegs, orphans) ELSE vsegs
    /\ orphans' = IF desc # "none" THEN NoEntries ELSE orphans
    /\ UNCHANGED <<primary, desc, vrows, task, faults>>

(* Segment files of a view that is not in the descriptor are ignored. *)
Reopen ==
    /\ ~up
    /\ up' = TRUE
    /\ seq' = high + logged
    /\ view' = desc
    /\ vsegs' = IF desc # "none" THEN Over(vsegs, orphans) ELSE vsegs
    /\ orphans' = IF desc # "none" THEN NoEntries ELSE orphans
    /\ UNCHANGED <<primary, desc, vrows, task, faults>>

-----------------------------------------------------------------------------
Housekeeping ==
    \/ BeginUpdate
    \/ \E k \in Key, full \in BOOLEAN : ScanRow(k, full)
    \/ FinishUpdate
    \/ UpdateLostView

Next ==
    \/ \E k \in Key, d \in Datum : Insert(k, d)
    \/ Save
    \/ AddView
    \/ DeleteView
    \/ Housekeeping
    \/ AbortUpdate
    \/ Crash
    \/ \E k \in Key, d \in Datum : CrashInInsert(k, d)
    \/ \E K \in SUBSET Key : CrashInFinish(K)
    \/ Reopen

Spec == Init /\ [][Next]_vars

(* Housekeeping is called on a timer for as long as the engine runs, and a  *)
(* crashed engine is started again.                                         *)
FairSpec == Spec /\ WF_vars(Housekeeping) /\ WF_vars(Reopen)

-----------------------------------------------------------------------------
Serving == up /\ view = "ready"

(* A query of an up-to-date view finds every row of the table under the row's *)
(* current value (CAeonTable::GetRows on the view).                           *)
ViewComplete ==
    Serving => \A k \in Key : Live(k) => Shown(<<Current(k).data, Current(k).id>>) = k

(* And it finds nothing else: no row that was deleted, none under a value it *)
(* no longer has.                                                            *)
ViewSound ==
    Serving => \A e \in Entry : Shown(e) # Nil =>
        Live(Shown(e)) /\ <<Current(Shown(e)).data, Current(Shown(e)).id>> = e

(* Two rows never have the same row ID, which is what keeps their entries in *)
(* the view apart (the note in CAeonTable::Insert).                          *)
RowIDsUnique ==
    up => \A j, k \in Key : j # k /\ Live(j) /\ Live(k) => Current(j).id # Current(k).id

(* A view that needs an update gets it: whatever inserts, flushes, failures  *)
(* and crashes come between, it is eventually ready for queries, or deleted. *)
ViewBecomesReady == desc = "stale" ~> desc # "stale"
=============================================================================
