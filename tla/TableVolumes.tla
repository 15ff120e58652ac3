---------------------------- MODULE TableVolumes ----------------------------
(***************************************************************************)
(* An AeonDB table on the storage volumes of a machine: a primary volume   *)
(* with its segments and recovery log, a backup volume with copies of the  *)
(* segments, and what CAeonTable does when a volume fails, goes offline or *)
(* comes back, while housekeeping copies and merges with m_cs released.    *)
(*                                                                         *)
(* What runs under m_cs is one action, nested recovery included; a volume  *)
(* fails between actions, never in the middle of one.  Rows are distinct,  *)
(* each inserted once: module AeonView is about rows that replace others.  *)
(***************************************************************************)
EXTENDS Naturals, FiniteSets

CONSTANTS NumVolumes,  \* volumes are numbered in CMachineStorage's order
          Row,         \* rows
          Reader,      \* threads in GetRows, which reads without m_cs
          MaxFaults,   \* bound on crashes, failed volumes and read errors
          Windows      \* the delicate windows a behaviour may enter

ASSUME NumVolumesAssumption == NumVolumes \in Nat /\ NumVolumes >= 2
ASSUME MaxFaultsAssumption == MaxFaults \in Nat
ASSUME WindowsAssumption ==
    Windows \subseteq {"tie", "log", "stale", "glitch", "wait", "flush", "override", "return"}

VARIABLES
    up,        \* whether the process runs
    db,        \* the CAeonTable, the machine's storage and its volumes
    hk,        \* m_iHousekeeping, and the work it stands for
    copies,    \* segments just saved, on their way to the backup volume
    readers,   \* the volume on which each reader has met a disk error
    wait,      \* a RecoveryRestore that waits for housekeeping to be done
    owed,      \* history: acknowledged rows, less those lost with the volumes
    faults     \* history: faults so far

vars == <<up, db, hk, copies, readers, wait, owed, faults>>

Volume == 1..NumVolumes
None == 0
Segment == [seq : Nat, rows : SUBSET Row]
Disk == [has : BOOLEAN, segs : SUBSET Segment, log : SUBSET Row, backup : Volume \cup {None}]

Ready == [type |-> "ready"]
Backup == [type : {"backup"}, from : Volume, to : Volume, left : SUBSET Segment, wiped : BOOLEAN]
Merge == [type : {"merge"}, newer : Segment, older : Segment, on : Volume,
          to : Volume \cup {None}, made : BOOLEAN, failed : BOOLEAN]

(* The type of the table, its volumes and housekeeping; every volume named *)
(* is one of the machine's.                                                *)
TypeOK ==
    /\ up \in BOOLEAN
    /\ db.primary \in Volume \cup {None}
    /\ db.backup \in Volume \cup {None}
    /\ db.primaryLost \in BOOLEAN
    /\ db.backupLost \in BOOLEAN
    /\ db.backupNeeded \in BOOLEAN
    /\ db.validate \in BOOLEAN
    /\ db.rows \subseteq Row
    /\ db.open \subseteq Segment
    /\ db.openOn \in Volume \cup {None}
    /\ db.seq \in Nat
    /\ db.logOn \in Volume \cup {None}
    /\ db.online \subseteq Volume
    /\ db.ok \subseteq Volume
    /\ db.disk \in [Volume -> Disk]
    /\ hk \in {Ready} \cup Backup \cup Merge
    /\ copies \subseteq [seg : Segment, from : Volume, to : Volume]
    /\ readers \in [Reader -> Volume \cup {None}]
    /\ wait \in {"none", "locked", "unlocked"}
    /\ owed \subseteq Row
    /\ faults \in 0..MaxFaults

-----------------------------------------------------------------------------
(* Storage.  t is a value of db. *)

Usable(t) == t.ok \cap t.online
RowsOf(segs) == UNION {s.rows : s \in segs}
HighSeq(segs) ==
    IF segs = {} THEN 0 ELSE (CHOOSE s \in segs : \A r \in segs : r.seq <= s.seq).seq

(* GetRedundantVolume: the next volume, in a ring. *)
NextInRing(t, v) == CHOOSE w \in t.online \ {v} : \A x \in t.online \ {v} :
                   (w + NumVolumes - v) % NumVolumes <= (x + NumVolumes - v) % NumVolumes
GetRedundantVolume(t, v) == IF t.online = {v} THEN None ELSE NextInRing(t, v)

WriteDesc(t, v) == [t EXCEPT !.disk[v].backup = IF t.backupLost THEN None ELSE t.backup]

(* FindVolumeToOpen: the first of the volumes with the highest segment. *)
FindVolumeToOpen(t, V) ==
    LET top == {v \in V : \A w \in V : HighSeq(t.disk[w].segs) <= HighSeq(t.disk[v].segs)}
    IN  CHOOSE v \in top : \A w \in top : v <= w

FindTableVolumes(t) == {v \in t.online : t.disk[v].has}

-----------------------------------------------------------------------------
(* Recovery *)

RecoveryFailure(t) ==
    [t EXCEPT !.open = {}, !.openOn = None, !.primary = None, !.primaryLost = TRUE,
              !.backup = None, !.backupLost = TRUE, !.backupNeeded = FALSE]

RecoveryBackup(t) ==
    LET next == GetRedundantVolume(t, t.primary)
        planned == [t EXCEPT !.backupLost = TRUE, !.backup = next, !.backupNeeded = next # None]
    IN  IF t.primaryLost THEN t
        ELSE IF t.primary \in Usable(t) THEN WriteDesc(planned, t.primary)
        ELSE RecoveryFailure(planned)

(* Saves the descriptor to both volumes, the primary volume being usable. *)
SaveDesc(t) ==
    LET saved == IF t.primaryLost THEN t ELSE WriteDesc(t, t.primary)
    IN  IF t.backupLost THEN saved
        ELSE IF t.backup \in Usable(t) THEN WriteDesc(saved, t.backup)
        ELSE RecoveryBackup(saved)

NewSegment(t) == [seq |-> t.seq, rows |-> t.rows]

(* The memory rows go to a segment on the primary volume, and the log that *)
(* the view has open is truncated.                                         *)
SegmentSaved(t) ==
    IF t.rows = {} THEN t
    ELSE [t EXCEPT !.disk[t.primary].segs = @ \cup {NewSegment(t)},
                   !.disk[t.logOn].log = IF t.logOn \in Usable(t) THEN {} ELSE @,
                   !.open = @ \cup {NewSegment(t)},
                   !.openOn = t.primary,
                   !.rows = {}]

SwappedToBackup(t) ==
    [t EXCEPT !.primary = t.backup, !.primaryLost = FALSE,
              !.backupLost = TRUE, !.backupNeeded = FALSE]

OpenSegments(t) ==
    [t EXCEPT !.open = t.disk[t.primary].segs, !.openOn = t.primary,
              !.seq = HighSeq(t.disk[t.primary].segs)]

(* Mutant: the memory rows are dropped. *)
RestoreToWithoutSave(t) ==
    IF t.primaryLost \/ t.primary \notin Usable(t) THEN RecoveryFailure(t)
    ELSE RecoveryBackup([OpenSegments(t) EXCEPT !.rows = {}])

(* The memory rows are saved to the new primary volume, its segments are    *)
(* opened in place of the old ones, and a backup is asked for.              *)
RestoreTo(t) ==
    IF t.primaryLost \/ t.primary \notin Usable(t) THEN RecoveryFailure(t)
    ELSE RecoveryBackup(OpenSegments(SegmentSaved(t)))

(* "held": the caller has m_cs itself, so that the wait for housekeeping    *)
(* gives up only one of two levels of it.                                   *)
RecoveryRestore(t, held) ==
    IF t.backupLost
    THEN db' = RecoveryFailure(t) /\ UNCHANGED wait
    ELSE IF hk = Ready
    THEN db' = RestoreTo(SwappedToBackup(t)) /\ UNCHANGED wait
    ELSE /\ wait = "none"
         /\ held => "wait" \in Windows
         /\ db' = SwappedToBackup(t)
         /\ wait' = IF held THEN "locked" ELSE "unlocked"

ContinueRestore ==
    /\ wait # "none"
    /\ hk = Ready
    /\ db' = RestoreTo(db)
    /\ wait' = "none"
    /\ UNCHANGED <<up, hk, copies, readers, owed, faults>>

-----------------------------------------------------------------------------
(* The table in use *)

LockFree == up /\ wait # "locked"
Working == LockFree /\ ~db.primaryLost
Fault == faults < MaxFaults /\ faults' = faults + 1

(* A table with no rows yet, on any volume and the next in the ring. *)
Init ==
    /\ up = TRUE
    /\ \E v \in Volume :
         LET backup == IF v = NumVolumes THEN 1 ELSE v + 1
         IN  db = [primary |-> v, backup |-> backup, primaryLost |-> FALSE,
                   backupLost |-> FALSE, backupNeeded |-> FALSE, validate |-> FALSE,
                   rows |-> {}, open |-> {}, openOn |-> v, seq |-> 1, logOn |-> v,
                   online |-> Volume, ok |-> Volume,
                   disk |-> [w \in Volume |->
                       [has |-> w \in {v, backup}, segs |-> {}, log |-> {},
                        backup |-> IF w \in {v, backup} THEN backup ELSE None]]]
    /\ hk = Ready
    /\ copies = {}
    /\ readers = [r \in Reader |-> None]
    /\ wait = "none"
    /\ owed = {}
    /\ faults = 0

(* The row is in memory before the log is written.  The insert succeeds also *)
(* when the write fails, if the table can go on with its backup.             *)
Insert(n) ==
    /\ Working
    /\ n \notin owed
    /\ db.logOn # db.primary => "log" \in Windows
    /\ LET inserted == [db EXCEPT !.rows = @ \cup {n}, !.seq = @ + 1]
       IN  IF db.logOn \in Usable(db)
           THEN /\ db' = [inserted EXCEPT !.disk[db.logOn].log = @ \cup {n}]
                /\ UNCHANGED wait
           ELSE RecoveryRestore(inserted, TRUE)
    /\ owed' = IF db'.primaryLost \/ wait' = "locked" THEN owed ELSE owed \cup {n}
    /\ UNCHANGED <<up, hk, copies, readers, faults>>

(* Mutant: the new segment is not copied to the backup volume. *)
SaveWithoutCopy(t) ==
    IF t.primary \in Usable(t)
    THEN db' = SaveDesc(SegmentSaved(t)) /\ UNCHANGED <<copies, wait>>
    ELSE RecoveryRestore(t, TRUE) /\ UNCHANGED copies

(* CAeonTable::Save, under m_cs.  The segment's backup is named before the *)
(* descriptor is saved and copied after m_cs is released.                  *)
Save(t) ==
    IF t.primary \in Usable(t)
    THEN /\ db' = SaveDesc(SegmentSaved(t))
         /\ copies' = IF t.rows # {} /\ ~db'.backupLost
                      THEN copies \cup {[seg |-> NewSegment(t), from |-> t.primary, to |-> t.backup]}
                      ELSE copies
         /\ UNCHANGED wait
    ELSE RecoveryRestore(t, TRUE) /\ UNCHANGED copies

(* A flush saves whatever housekeeping is doing. *)
Flush ==
    /\ Working
    /\ hk # Ready \/ wait # "none" => "flush" \in Windows
    /\ Save(db)
    /\ UNCHANGED <<up, hk, readers, owed, faults>>

(* The copy that Save makes; a failure is logged, and forgotten. *)
CopyToBackup(c) ==
    /\ up
    /\ c \in copies
    /\ copies' = copies \ {c}
    /\ db' = IF {c.from, c.to} \subseteq Usable(db) /\ db.disk[c.to].has
             THEN [db EXCEPT !.disk[c.to].segs = @ \cup {c.seg}] ELSE db
    /\ UNCHANGED <<up, hk, readers, wait, owed, faults>>

-----------------------------------------------------------------------------
(* Reading *)

InGoodStanding(t) ==
    /\ ~t.backupLost /\ ~t.backupNeeded
    /\ t.backup \in Usable(t)
    /\ t.open \subseteq t.disk[t.backup].segs

(* v could be read, and the backup is not as good. *)
Behind(v) == v \in Usable(db) /\ ~InGoodStanding(db)

(* A segment cannot be read: its volume has failed, or has not. *)
ReadFails ==
    /\ db.open # {}
    /\ IF db.openOn \in Usable(db) THEN Fault ELSE UNCHANGED faults
    /\ Behind(db.openOn) => "glitch" \in Windows

(* CAeonTable::GetData recovers under the m_cs it has held all along. *)
GetDataFails ==
    /\ Working
    /\ ReadFails
    /\ db.openOn # db.primary => "stale" \in Windows
    /\ RecoveryRestore(db, TRUE)
    /\ UNCHANGED <<up, hk, copies, readers, owed>>

(* CAeonTable::GetRows reads, and recovers, without it. *)
GetRowsFails(r) ==
    /\ Working
    /\ readers[r] = None
    /\ ReadFails
    /\ readers' = [readers EXCEPT ![r] = db.openOn]
    /\ UNCHANGED <<up, db, hk, copies, wait, owed>>

GetRowsRecovers(r) ==
    /\ LockFree
    /\ readers[r] # None
    /\ readers[r] # db.primary => "stale" \in Windows
    /\ Behind(readers[r]) => "glitch" \in Windows
    /\ readers' = [readers EXCEPT ![r] = None]
    /\ RecoveryRestore(db, FALSE)
    /\ UNCHANGED <<up, hk, copies, owed, faults>>

-----------------------------------------------------------------------------
(* Housekeeping *)

(* Segments on the backup volume that are not in use are deleted, unless  *)
(* one that is in use is missing.                                         *)
Validated(t) ==
    LET valid == t.open \subseteq t.disk[t.backup].segs /\ t.backup \in Usable(t)
    IN  IF valid THEN [t EXCEPT !.disk[t.backup].segs = t.open, !.validate = FALSE]
        ELSE [t EXCEPT !.backupNeeded = TRUE, !.validate = FALSE]

BackupBegun(t) ==
    [type |-> "backup", from |-> t.primary, to |-> t.backup, left |-> {}, wiped |-> FALSE]

MergedSegment(a, b) == [seq |-> a.seq, rows |-> a.rows \cup b.rows]

BeginMerge(t, a, b) ==
    /\ {a, b} \subseteq t.open
    /\ a # b
    /\ a.seq >= b.seq
    /\ hk' = [type |-> "merge", newer |-> a, older |-> b, on |-> t.primary,
              to |-> IF t.backupLost THEN None ELSE t.backup, made |-> FALSE, failed |-> FALSE]

(* Housekeeping is called on a timer.  The backup is validated when the table *)
(* has just been opened, and otherwise at random.                             *)
Housekeeping ==
    /\ Working
    /\ wait = "none"
    /\ hk = Ready
    /\ \E check \in BOOLEAN :
         LET may == ~db.backupNeeded /\ db.backup # None
             t == IF may /\ check THEN Validated(db) ELSE db
         IN  /\ may /\ db.validate => check
             /\ IF t.backupNeeded
                THEN hk' = BackupBegun(t) /\ db' = t /\ UNCHANGED <<copies, wait>>
                ELSE \/ db' = t /\ UNCHANGED <<hk, copies, wait>>
                     \/ t.rows # {} /\ Save(t) /\ UNCHANGED hk
                     \/ /\ \E a, b \in t.open : BeginMerge(t, a, b)
                        /\ db' = t
                        /\ UNCHANGED <<copies, wait>>
    /\ UNCHANGED <<up, readers, owed, faults>>

BackingUp == up /\ hk.type = "backup"
BackupUsable == {hk.from, hk.to} \subseteq Usable(db)

(* CopyVolume deletes what was on the volume, but not a log that is open, and *)
(* lists the segments to copy.                                                *)
CopyDesc ==
    /\ BackingUp
    /\ ~hk.wiped
    /\ BackupUsable
    /\ db' = [db EXCEPT !.disk[hk.to] =
                 [has |-> TRUE, segs |-> {}, backup |-> db.disk[hk.from].backup,
                  log |-> IF hk.to = db.logOn THEN @.log ELSE {}]]
    /\ hk' = [hk EXCEPT !.wiped = TRUE, !.left = db.disk[hk.from].segs]
    /\ UNCHANGED <<up, copies, readers, wait, owed, faults>>

CopySegment(s) ==
    /\ BackingUp
    /\ s \in hk.left
    /\ BackupUsable
    /\ db' = [db EXCEPT !.disk[hk.to].segs = @ \cup {s}]
    /\ hk' = [hk EXCEPT !.left = @ \ {s}]
    /\ UNCHANGED <<up, copies, readers, wait, owed, faults>>

(* Mutant: the state is not reset when the copy fails. *)
CopyVolumeFailsBusy ==
    /\ BackingUp
    /\ ~hk.wiped \/ hk.left # {}
    /\ ~BackupUsable
    /\ hk' = [hk EXCEPT !.left = {}]
    /\ UNCHANGED <<up, db, copies, readers, wait, owed, faults>>

(* The state is reset without m_cs. *)
CopyVolumeFails ==
    /\ BackingUp
    /\ ~hk.wiped \/ hk.left # {}
    /\ ~BackupUsable
    /\ hk' = Ready
    /\ UNCHANGED <<up, db, copies, readers, wait, owed, faults>>

(* Mutant: the new backup is not marked complete. *)
BackedUpStillNeeded(t) == [t EXCEPT !.backupLost = FALSE]
BackedUp(t) == [t EXCEPT !.backupNeeded = FALSE, !.backupLost = FALSE]

(* Whatever the primary and backup volumes are now, the backup is complete. *)
EndBackup ==
    /\ BackingUp
    /\ LockFree
    /\ hk.wiped /\ hk.left = {}
    /\ db.primary # hk.from \/ db.backup # hk.to => "override" \in Windows
    /\ IF db.primaryLost \/ db.primary \in Usable(db)
       THEN hk' = Ready /\ db' = SaveDesc(BackedUp(db)) /\ UNCHANGED wait
       ELSE UNCHANGED hk /\ RecoveryRestore(BackedUp(db), TRUE)
    /\ UNCHANGED <<up, copies, readers, owed, faults>>

Merging == up /\ hk.type = "merge"
Merged == MergedSegment(hk.newer, hk.older)

(* The merged segment is written, and copied to the backup volume that was  *)
(* current when the merge began.                                            *)
MergeSegments ==
    /\ Merging
    /\ ~hk.made
    /\ IF hk.on \in Usable(db)
       THEN LET copy == ~db.backupLost
                copied == copy /\ hk.to \in Usable(db)
            IN  /\ hk' = [hk EXCEPT !.made = TRUE, !.failed = copy /\ ~copied]
                /\ db' = [db EXCEPT !.disk = [v \in Volume |->
                       IF v = hk.on \/ (copied /\ v = hk.to)
                       THEN [db.disk[v] EXCEPT !.segs = db.disk[v].segs \cup {Merged}]
                       ELSE db.disk[v]]]
       ELSE hk' = Ready /\ UNCHANGED db
    /\ UNCHANGED <<up, copies, readers, wait, owed, faults>>

EndMerge ==
    /\ Merging
    /\ LockFree
    /\ hk.made
    /\ LET old == {hk.newer, hk.older} \ {Merged}
           backups == IF hk.failed \/ db.backupLost THEN {} ELSE {db.backup}
       IN  db' = [db EXCEPT !.open = (@ \ old) \cup {Merged},
                            !.disk = [v \in Volume |->
                                IF v \in {hk.on} \cup backups
                                THEN [db.disk[v] EXCEPT !.segs = db.disk[v].segs \ old]
                                ELSE db.disk[v]]]
    /\ hk' = Ready
    /\ UNCHANGED <<up, copies, readers, wait, owed, faults>>

-----------------------------------------------------------------------------
(* Volumes that fail, go offline and come back *)

(* What the primary volume holds, or when it has failed its backup, if that  *)
(* is not marked as lost or needed.                                          *)
Kept(t) ==
    IF t.primary \in t.ok THEN RowsOf(t.disk[t.primary].segs)
    ELSE IF t.backup \in t.ok /\ ~t.backupLost /\ ~t.backupNeeded
    THEN RowsOf(t.disk[t.backup].segs) ELSE {}
Logged(t) == IF t.logOn \in t.ok THEN t.disk[t.logOn].log ELSE {}

FailVolume(v) ==
    /\ up
    /\ v \in db.ok
    /\ Fault
    /\ db' = [db EXCEPT !.ok = @ \ {v}]
    /\ owed' = owed \cap (db.rows \cup Kept(db'))
    /\ UNCHANGED <<up, hk, copies, readers, wait>>

(* Mutant: the test for a lost primary volume is the wrong way round. *)
OnVolumesChangedSwapped(t, deleted) ==
    IF t.primary \in deleted /\ t.backup \in deleted
    THEN db' = RecoveryFailure(t) /\ UNCHANGED wait
    ELSE IF t.backup \in deleted
    THEN db' = (IF t.primaryLost THEN RecoveryBackup(t) ELSE RecoveryFailure(t)) /\ UNCHANGED wait
    ELSE IF t.primary \in deleted
    THEN RecoveryRestore(t, TRUE)
    ELSE IF t.primaryLost
    THEN IF FindTableVolumes(t) = {} THEN db' = t /\ UNCHANGED wait
         ELSE RecoveryRestore([t EXCEPT !.backupLost = FALSE, !.backupNeeded = FALSE,
                  !.backup = FindVolumeToOpen(t, FindTableVolumes(t))], TRUE)
    ELSE IF t.backupLost /\ ~t.backupNeeded
    THEN db' = RecoveryBackup(t) /\ UNCHANGED wait
    ELSE db' = t /\ UNCHANGED wait

OnVolumesChanged(t, deleted) ==
    IF t.primary \in deleted /\ t.backup \in deleted
    THEN db' = RecoveryFailure(t) /\ UNCHANGED wait
    ELSE IF t.backup \in deleted
    THEN db' = (IF t.primaryLost THEN RecoveryFailure(t) ELSE RecoveryBackup(t)) /\ UNCHANGED wait
    ELSE IF t.primary \in deleted
    THEN RecoveryRestore(t, TRUE)
    ELSE IF t.primaryLost
    THEN IF FindTableVolumes(t) = {} THEN db' = t /\ UNCHANGED wait
         ELSE RecoveryRestore([t EXCEPT !.backupLost = FALSE, !.backupNeeded = FALSE,
                  !.backup = FindVolumeToOpen(t, FindTableVolumes(t))], TRUE)
    ELSE IF t.backupLost /\ ~t.backupNeeded
    THEN db' = RecoveryBackup(t) /\ UNCHANGED wait
    ELSE db' = t /\ UNCHANGED wait

VolumeRemoved(v) ==
    /\ LockFree
    /\ v \in db.online \ db.ok
    /\ OnVolumesChanged([db EXCEPT !.online = @ \ {v}], {v})
    /\ UNCHANGED <<up, hk, copies, readers, owed, faults>>

(* The volume comes back intact. *)
VolumeAdded(v) ==
    /\ v \notin db.ok
    /\ LET added == [db EXCEPT !.online = @ \cup {v}, !.ok = @ \cup {v}]
       IN  IF up THEN LockFree /\ v \notin db.online /\ OnVolumesChanged(added, {})
           ELSE db' = added /\ UNCHANGED wait
    /\ UNCHANGED <<up, hk, copies, readers, owed, faults>>

-----------------------------------------------------------------------------
(* Crash and reopen *)

Closed(t) ==
    [t EXCEPT !.primary = None, !.backup = None, !.primaryLost = FALSE, !.backupLost = FALSE,
              !.backupNeeded = FALSE, !.validate = FALSE, !.rows = {}, !.open = {},
              !.openOn = None, !.seq = 0, !.logOn = None]

Crash ==
    /\ up
    /\ Fault
    /\ up' = FALSE
    /\ db' = Closed(db)
    /\ hk' = Ready
    /\ copies' = {}
    /\ readers' = [r \in Reader |-> None]
    /\ wait' = "none"
    /\ owed' = owed \cap (Logged(db) \cup Kept(db))

OpenVolumes == {v \in Usable(db) : db.disk[v].has}
Level(v) == {w \in OpenVolumes : HighSeq(db.disk[w].segs) = HighSeq(db.disk[v].segs)}

(* The backup named in the descriptor, or another volume, is taken for the  *)
(* backup if its highest segment is as high as the one of the volume opened. *)
OpenBackups(v) ==
    LET level == Level(v) \ {v}
        named == level \cap {db.disk[v].backup}
    IN  IF named # {} THEN named ELSE {w \in level : \A x \in level : w <= x}

Opened(v) ==
    LET found == OpenBackups(v)
        high == HighSeq(db.disk[v].segs)
        backup == IF found # {} THEN CHOOSE w \in found : TRUE ELSE GetRedundantVolume(db, v)
    IN  [db EXCEPT !.primary = v, !.backup = backup, !.primaryLost = FALSE,
                   !.backupLost = found = {},
                   !.backupNeeded = found = {} /\ backup # None,
                   !.validate = found # {},
                   !.rows = db.disk[v].log, !.logOn = v,
                   !.open = db.disk[v].segs, !.openOn = v,
                   !.seq = high + Cardinality(db.disk[v].log)]

Stored(v) == db.disk[v].log \cup RowsOf(db.disk[v].segs)
MissesRows(v, others) == \E w \in others : ~(Stored(w) \subseteq Stored(v))

(* The volume opened does not hold the rows of another, which is just as   *)
(* high (window "tie"), or not as high (window "return": a volume that the *)
(* table has done without comes back with more segments).                  *)
Open ==
    /\ ~up
    /\ OpenVolumes # {}
    /\ LET v == FindVolumeToOpen(db, OpenVolumes)
       IN  /\ MissesRows(v, Level(v)) => "tie" \in Windows
           /\ MissesRows(v, OpenVolumes \ Level(v)) => "return" \in Windows
           /\ db' = SaveDesc(Opened(v))
    /\ up' = TRUE
    /\ UNCHANGED <<hk, copies, readers, wait, owed, faults>>

-----------------------------------------------------------------------------
HousekeepingThread ==
    \/ Housekeeping
    \/ CopyDesc
    \/ BackingUp /\ \E s \in hk.left : CopySegment(s)
    \/ CopyVolumeFails
    \/ EndBackup
    \/ MergeSegments
    \/ EndMerge

Next ==
    \/ \E n \in Row : Insert(n)
    \/ Flush
    \/ \E c \in copies : CopyToBackup(c)
    \/ GetDataFails
    \/ \E r \in Reader : GetRowsFails(r)
    \/ \E r \in Reader : GetRowsRecovers(r)
    \/ ContinueRestore
    \/ HousekeepingThread
    \/ \E v \in Volume : FailVolume(v)
    \/ \E v \in Volume : VolumeRemoved(v)
    \/ \E v \in Volume : VolumeAdded(v)
    \/ Crash
    \/ Open

Spec == Init /\ [][Next]_vars

(* Housekeeping is called on a timer for as long as the engine runs, its    *)
(* copying comes to an end, and a crashed engine is started again.          *)
FairSpec == /\ Spec
            /\ WF_vars(HousekeepingThread)
            /\ WF_vars(ContinueRestore)
            /\ WF_vars(Open)

-----------------------------------------------------------------------------
Serving == Working /\ wait = "none" /\ db.primary \in Usable(db)

(* While the table is served, every acknowledged row that is still on some   *)
(* healthy volume, or in memory, can be read, whatever volumes failed and    *)
(* whatever reopens and fail-overs came between (CAeonTable::GetData).       *)
AckedReadable == Serving => owed \subseteq db.rows \cup RowsOf(db.open)

(* A backup that is not marked as lost or needed holds every segment in use: *)
(* RecoveryRestore relies on it without looking.                             *)
BackupComplete ==
    /\ Serving
    /\ hk.type # "merge"
    /\ copies = {}
    /\ ~db.backupLost /\ ~db.backupNeeded /\ ~db.validate
    /\ db.backup \in Usable(db)
    => db.open \subseteq db.disk[db.backup].segs

(* A table is given up only when its primary volume is broken and its backup *)
(* is not to be used (the notes on RecoveryFailure).                         *)
GivesUpOnlyWhenLost ==
    [][up /\ ~db.primaryLost /\ db'.primaryLost =>
         /\ db.primary \notin Usable(db')
         /\ db.backupLost \/ db.backup \notin Usable(db')]_vars

(* A thread that waits for housekeeping before it restores the table from    *)
(* its backup goes on in the end (the loop in RecoveryRestore).              *)
RestoreEnds == wait # "none" ~> wait = "none"

(* A backup that is asked for is made, unless a volume of the two breaks.    *)
BackupMade ==
    up /\ db.backupNeeded ~>
        \/ ~up
        \/ ~db.backupNeeded
        \/ ~({db.primary, db.backup} \subseteq Usable(db))
=============================================================================
