------------------------ MODULE TableVolumesProofs -------------------------
(***************************************************************************)
(* That a table on several volumes loses no acknowledged row that a healthy *)
(* volume in use has, believes no backup complete that is not, and is given *)
(* up only when it has to be: for any number of volumes, rows and faults.   *)
(***************************************************************************)
EXTENDS TableVolumes, FiniteSetTheorems, WellFoundedInduction, TLAPS

USE NumVolumesAssumption

(* The windows that this module takes to be closed. *)
NoWindow == Windows = {}

-----------------------------------------------------------------------------
(* The invariant *)

Table ==
    [primary : Volume \cup {None}, backup : Volume \cup {None}, primaryLost : BOOLEAN,
     backupLost : BOOLEAN, backupNeeded : BOOLEAN, validate : BOOLEAN, rows : SUBSET Row,
     open : SUBSET Segment, openOn : Volume \cup {None}, seq : Nat, logOn : Volume \cup {None},
     online : SUBSET Volume, ok : SUBSET Volume, disk : [Volume -> Disk]]

(* What is counted or compared is finite. *)
Finite(t) == \A v \in Volume : IsFiniteSet(t.disk[v].segs) /\ IsFiniteSet(t.disk[v].log)

Work == {Ready} \cup Backup \cup Merge

WellTyped(t) == t \in Table /\ Finite(t) /\ t.ok \subseteq t.online

Copies == [seg : Segment, from : Volume, to : Volume]

TypeInv ==
    /\ up \in BOOLEAN /\ WellTyped(db) /\ hk \in Work /\ copies \subseteq Copies
    /\ readers \in [Reader -> Volume \cup {None}]
    /\ wait \in {"none", "locked", "unlocked"}
    /\ owed \subseteq Row
    /\ faults \in 0..MaxFaults

(* The primary and the backup volume. *)
Named(t) ==
    /\ t.primaryLost <=> t.primary = None
    /\ t.primary # None => t.disk[t.primary].has
    /\ ~t.backupLost => /\ ~t.primaryLost /\ t.backup \notin {t.primary, None}
                        /\ t.disk[t.backup].has
    /\ t.backupNeeded => ~t.primaryLost /\ t.backup \notin {t.primary, None}
    /\ t.logOn # None /\ t.disk[t.logOn].has
Mounted(t) ==
    /\ t.primary # None => t.primary \in t.online
    /\ ~t.backupLost => t.backup \in t.online

(* The segments in use are on the volume they were opened on, and the rows *)
(* in memory in the log, as long as that volume is in use.                 *)
InUse(t) ==
    ~t.primaryLost =>
        /\ t.openOn # None /\ t.disk[t.openOn].has
        /\ t.open \subseteq t.disk[t.openOn].segs
        /\ t.rows \subseteq t.disk[t.logOn].log
        /\ t.logOn \notin {t.primary, t.openOn} => t.rows = {}

(* A thread that waits has marked the backup as lost; until it waits the   *)
(* segments in use are those of the primary volume.                        *)
Waiting(t) ==
    /\ wait = "locked" => FALSE
    /\ wait # "none" => t.backupLost
    /\ wait = "none" /\ ~t.primaryLost => t.openOn = t.primary
    /\ wait = "none" /\ t.backupLost /\ ~t.backupNeeded => t.backup = None

(* The work of housekeeping is on the volume whose segments are in use. *)
WorkingOn(t, v) == ~t.primaryLost => v = t.openOn /\ (wait # "none" => v # t.primary)

CopyRight(t) ==
    hk.type = "backup" =>
        /\ hk.from # hk.to
        /\ WorkingOn(t, hk.from)
        /\ wait # "none" /\ ~t.primaryLost => t.primary = hk.to
        /\ ~t.backupLost => t.backupNeeded /\ t.backup = hk.to
        /\ t.open \subseteq t.disk[hk.from].segs
        /\ hk.wiped => /\ t.disk[hk.to].has
                       /\ t.open \subseteq t.disk[hk.to].segs \cup hk.left

MergeRight(t) ==
    hk.type = "merge" =>
        /\ WorkingOn(t, hk.on)
        /\ ~t.backupLost => t.backup = hk.to
        /\ hk.made => /\ ~t.primaryLost => Merged \in t.disk[hk.on].segs
                      /\ ~t.backupLost => IF hk.failed THEN hk.to \notin t.ok
                                          ELSE Merged \in t.disk[hk.to].segs

(* Where the acknowledged rows are: in memory and in the segments in use,  *)
(* when the primary volume is broken on the backup, and when a restore     *)
(* waits on the volume that is to be opened.                               *)
Replaced(t) == IF ~t.backupLost /\ t.backup \in t.ok THEN RowsOf(t.disk[t.backup].segs) ELSE {}
Overwriting(t) == hk.type = "backup" /\ hk.from \in t.ok
Held(t) ==
    /\ t.primaryLost => owed \subseteq t.rows
    /\ ~t.primaryLost =>
        /\ owed \subseteq t.rows \cup RowsOf(t.open)
        /\ t.primary \notin t.ok => owed \subseteq t.rows \cup Replaced(t)
        /\ wait # "none" /\ t.primary \in t.ok /\ ~Overwriting(t) =>
               owed \subseteq t.rows \cup RowsOf(t.disk[t.primary].segs)

(* A backup that is believed complete has every segment in use, or is      *)
(* about to be sent it.                                                    *)
Mirrored(t) ==
    /\ wait = "none" /\ ~t.primaryLost /\ ~t.backupLost /\ ~t.backupNeeded /\ ~t.validate
    /\ {t.primary, t.backup} \subseteq t.ok
    => \A s \in t.open : \/ s \in t.disk[t.backup].segs
                         \/ [seg |-> s, from |-> t.primary, to |-> t.backup] \in copies

Firm(t) ==
    Named(t) /\ InUse(t) /\ Waiting(t) /\ CopyRight(t) /\ MergeRight(t) /\ Held(t)
Sound(t) == Firm(t) /\ Mounted(t) /\ Mirrored(t)

Down ==
    ~up => /\ hk = Ready /\ wait = "none"
           /\ owed = {} \/ \E w \in OpenVolumes : owed \subseteq Stored(w)

VInv == TypeInv /\ (up => Sound(db)) /\ Down

-----------------------------------------------------------------------------
(* The least and the greatest of some numbers *)

LEMMA Least ==
    ASSUME NEW S, S # {}, NEW f, \A x \in S : f[x] \in Nat
    PROVE  \E m \in S : \A x \in S : f[m] <= f[x]
<1> DEFINE Image == {f[x] : x \in S}
<1>1. Image # {} /\ Image \subseteq Nat
  OBVIOUS
<1>2. PICK n \in Image : \A k \in Image : ~(<<k, n>> \in OpToRel(<, Nat))
  BY <1>1, WFMin, NatLessThanWellFounded
<1>3. n \in Nat /\ \A k \in Image : k \in Nat /\ ~(k < n)
  BY <1>1, <1>2 DEF OpToRel
<1>4. PICK m \in S : f[m] = n
  BY <1>2
<1>5. QED
  BY <1>3, <1>4

LEMMA Greatest ==
    ASSUME NEW S, IsFiniteSet(S), S # {}, NEW f, \A x \in S : f[x] \in Nat
    PROVE  \E m \in S : \A x \in S : f[x] <= f[m]
<1> DEFINE Without == {T \in SUBSET S : T # {} /\ ~\E m \in T : \A x \in T : f[x] <= f[m]}
           size == [T \in SUBSET S |-> Cardinality(T)]
<1>1. SUFFICES ASSUME Without # {} PROVE FALSE
  OBVIOUS
<1>2. ASSUME NEW T \in SUBSET S PROVE IsFiniteSet(T) /\ Cardinality(T) \in Nat
  BY FS_Subset, FS_CardinalityType
<1>3. \A T \in Without : size[T] \in Nat
  BY <1>2
<1>4. PICK T \in Without : \A U \in Without : size[T] <= size[U]
  BY <1>1, <1>3, Least
<1>5. PICK x \in T : TRUE
  BY <1>4
<1>6. PICK U : U = T \ {x}
  OBVIOUS
<1>7. U \in SUBSET S /\ Cardinality(U) = Cardinality(T) - 1
  BY <1>2, <1>4, <1>5, <1>6, FS_RemoveElement
<1>8. U \notin Without
  <2>1. size[T] = Cardinality(T) /\ size[U] = Cardinality(U)
    BY <1>4, <1>7
  <2>2. ~(size[T] <= size[U])
    BY <1>2, <1>4, <1>7, <2>1
  <2>3. QED
    BY <1>4, <2>2
<1>9. \A y \in T : f[y] \in Nat
  BY <1>4
<1>10. CASE U = {}
  BY <1>4, <1>5, <1>6, <1>9, <1>10
<1>11. CASE U # {}
  <2>1. PICK m \in U : \A y \in U : f[y] <= f[m]
    BY <1>7, <1>8, <1>11
  <2>2. CASE f[x] <= f[m]
    BY <1>4, <1>6, <2>1, <2>2
  <2>3. CASE f[m] <= f[x]
    <3>1. \A y \in T : f[y] <= f[x]
      BY <1>6, <1>9, <2>1, <2>3
    <3>2. QED
      BY <1>4, <1>5, <3>1
  <2>4. QED
    BY <1>5, <1>6, <1>9, <2>1, <2>2, <2>3
<1>12. QED
  BY <1>10, <1>11

LEMMA HighSeqType ==
    ASSUME NEW segs \in SUBSET Segment, IsFiniteSet(segs)
    PROVE  HighSeq(segs) \in Nat
<1> DEFINE f == [s \in segs |-> s.seq]
<1>1. CASE segs = {}
  BY <1>1 DEF HighSeq
<1>2. CASE segs # {}
  <2>1. \A s \in segs : f[s] \in Nat
    BY DEF Segment
  <2>2. \E m \in segs : \A s \in segs : f[s] <= f[m]
    BY <1>2, <2>1, Greatest
  <2>3. \E m \in segs : \A s \in segs : s.seq <= m.seq
    BY <2>2
  <2>4. QED
    BY <1>2, <2>3 DEF HighSeq, Segment
<1>3. QED
  BY <1>1, <1>2

(* The volume that is opened is one of those it is chosen from. *)
LEMMA FindVolumeToOpenType ==
    ASSUME NEW t \in Table, Finite(t), NEW V \in SUBSET Volume, V # {}
    PROVE  FindVolumeToOpen(t, V) \in V
<1> DEFINE f == [v \in V |-> HighSeq(t.disk[v].segs)]
           top == {v \in V : \A w \in V : HighSeq(t.disk[w].segs) <= HighSeq(t.disk[v].segs)}
           g == [v \in V |-> v]
<1>1. ASSUME NEW v \in V PROVE f[v] \in Nat
  <2>1. PICK segs : segs = t.disk[v].segs
    OBVIOUS
  <2>2. segs \in SUBSET Segment /\ IsFiniteSet(segs)
    BY <2>1 DEF Table, Disk, Finite
  <2>3. HighSeq(segs) \in Nat
    BY <2>2, HighSeqType
  <2>4. QED
    BY <2>1, <2>3
<1>2. IsFiniteSet(V)
  <2>1. IsFiniteSet(Volume)
    BY 1 \in Int, NumVolumes \in Int, FS_Interval DEF Volume
  <2>2. QED
    BY <2>1, FS_Subset
<1>3. \E m \in V : \A v \in V : f[v] <= f[m]
  BY <1>1, <1>2, Greatest
<1>4. top # {}
  BY <1>3
<1>5. \A v \in top : g[v] \in Nat
  BY DEF Volume
<1>6. \E m \in top : \A v \in top : g[m] <= g[v]
  BY <1>4, <1>5, Least
<1>7. \E m \in top : \A v \in top : m <= v
  BY <1>6
<1>8. QED
  BY <1>7 DEF FindVolumeToOpen

(* The backup is on another volume. *)
LEMMA GetRedundantVolumeType ==
    ASSUME NEW t \in Table, NEW v \in t.online
    PROVE  GetRedundantVolume(t, v) \in (t.online \ {v}) \cup {None}
<1> DEFINE others == t.online \ {v}
           f == [w \in others |-> (w + NumVolumes - v) % NumVolumes]
<1>1. CASE others = {}
  BY <1>1 DEF GetRedundantVolume
<1>2. CASE others # {}
  <2>1. \A w \in others : f[w] \in Nat
    BY DEF Table, Volume
  <2>2. \E m \in others : \A w \in others : f[m] <= f[w]
    BY <1>2, <2>1, Least
  <2>3. \E m \in others : \A w \in others :
            (m + NumVolumes - v) % NumVolumes <= (w + NumVolumes - v) % NumVolumes
    BY <2>2
  <2>4. QED
    BY <2>3 DEF GetRedundantVolume, NextInRing
<1>3. QED
  BY <1>1, <1>2

-----------------------------------------------------------------------------
(* What the operations on a table do to each part of it.  p comes from t.  *)

SameVolumes(p, t) == p.online = t.online /\ p.ok = t.ok
SameNames(p, t) ==
    /\ p.primary = t.primary /\ p.backup = t.backup /\ p.primaryLost = t.primaryLost
    /\ p.backupLost = t.backupLost /\ p.backupNeeded = t.backupNeeded
SameRows(p, t) ==
    /\ p.rows = t.rows /\ p.open = t.open /\ p.openOn = t.openOn /\ p.seq = t.seq
    /\ p.logOn = t.logOn
SameFiles(p, t) ==
    \A v \in Volume : /\ p.disk[v].has = t.disk[v].has /\ p.disk[v].segs = t.disk[v].segs
                      /\ p.disk[v].log = t.disk[v].log

(* Only descriptors are written. *)
Described(p, t) ==
    /\ SameNames(p, t) /\ p.validate = t.validate /\ SameRows(p, t)
    /\ SameVolumes(p, t) /\ SameFiles(p, t)

(* The table has no volume to use. *)
GivenUp(p, t) ==
    /\ p.primary = None /\ p.primaryLost /\ p.backup = None /\ p.backupLost /\ ~p.backupNeeded
    /\ p.open = {} /\ p.openOn = None
    /\ p.rows = t.rows /\ p.seq = t.seq /\ p.logOn = t.logOn /\ p.validate = t.validate
    /\ SameVolumes(p, t) /\ SameFiles(p, t)

(* Another backup is wanted, if there is a volume for it. *)
Planned(p, t) ==
    /\ p.primary = t.primary /\ p.primaryLost = t.primaryLost
    /\ p.backupLost /\ p.backup \in (t.online \ {t.primary}) \cup {None}
    /\ p.backupNeeded <=> p.backup # None
    /\ p.validate = t.validate /\ SameRows(p, t) /\ SameVolumes(p, t) /\ SameFiles(p, t)

LEMMA SameFilesFinite ==
    ASSUME NEW p, NEW t, SameFiles(p, t), Finite(t)
    PROVE  Finite(p)
BY DEF SameFiles, Finite

LEMMA WriteDescDoes ==
    ASSUME NEW t, WellTyped(t), NEW v \in Volume, NEW p, p = WriteDesc(t, v)
    PROVE  WellTyped(p) /\ Described(p, t)
<1>1. PICK b \in Volume \cup {None} : b = IF t.backupLost THEN None ELSE t.backup
  BY DEF WellTyped, Table
<1>2. PICK d : d = [t.disk EXCEPT ![v].backup = b]
  OBVIOUS
<1>3. \A w \in Volume : t.disk[w] \in Disk
  BY DEF WellTyped, Table
<1>4. /\ d \in [Volume -> Disk]
      /\ \A w \in Volume : d[w].has = t.disk[w].has /\ d[w].segs = t.disk[w].segs /\ d[w].log = t.disk[w].log
  BY <1>1, <1>2, <1>3 DEF WellTyped, Table, Disk
<1>5. p = [t EXCEPT !.disk = d]
  BY <1>1, <1>2 DEF WriteDesc, WellTyped, Table
<1>6. p \in Table /\ Described(p, t) /\ p.ok \subseteq p.online
  BY <1>4, <1>5 DEF WellTyped, Table, Described, SameNames, SameRows, SameVolumes, SameFiles
<1>7. QED
  BY <1>6, SameFilesFinite DEF WellTyped, Described

LEMMA RecoveryFailureDoes ==
    ASSUME NEW t, WellTyped(t), NEW p, p = RecoveryFailure(t)
    PROVE  WellTyped(p) /\ GivenUp(p, t)
<1>1. p \in Table /\ GivenUp(p, t) /\ p.ok \subseteq p.online
  BY DEF RecoveryFailure, WellTyped, Table, GivenUp, SameVolumes, SameFiles
<1>2. QED
  BY <1>1, SameFilesFinite DEF WellTyped, GivenUp

LEMMA RecoveryBackupDoes ==
    ASSUME NEW t, WellTyped(t), ~t.primaryLost, NEW p, p = RecoveryBackup(t)
    PROVE  /\ WellTyped(p)
           /\ t.primary \in t.ok => Planned(p, t)
           /\ t.primary \notin t.ok => GivenUp(p, t)
<1>1. PICK next : next = GetRedundantVolume(t, t.primary)
  OBVIOUS
<1>2. PICK planned : planned = [t EXCEPT !.backupLost = TRUE, !.backup = next, !.backupNeeded = next # None]
  OBVIOUS
<1>3. t.primary \in Usable(t) <=> t.primary \in t.ok
  BY DEF Usable, WellTyped
<1>4. CASE t.primary \in t.ok
  <2>1. next \in (t.online \ {t.primary}) \cup {None} /\ t.primary \in Volume
    BY <1>1, <1>4, GetRedundantVolumeType DEF WellTyped, Table
  <2>2. next \in Volume \cup {None}
    BY <2>1 DEF WellTyped, Table
  <2>3. WellTyped(planned) /\ Planned(planned, t)
    BY <1>2, <2>1, <2>2 DEF WellTyped, Table, Finite, Planned, SameRows, SameVolumes, SameFiles
  <2>4. p = WriteDesc(planned, t.primary)
    BY <1>1, <1>2, <1>3, <1>4 DEF RecoveryBackup
  <2>5. WellTyped(p) /\ Described(p, planned)
    BY <2>1, <2>3, <2>4, WriteDescDoes
  <2>6. Planned(p, t)
    BY <2>3, <2>5 DEF Planned, Described, SameNames, SameRows, SameVolumes, SameFiles
  <2>7. QED
    BY <1>4, <2>5, <2>6
<1>5. CASE t.primary \notin t.ok
  <2>1. p = RecoveryFailure(planned)
    BY <1>1, <1>2, <1>3, <1>5 DEF RecoveryBackup
  <2>2. p = RecoveryFailure(t)
    BY <1>2, <2>1 DEF RecoveryFailure, WellTyped, Table
  <2>3. QED
    BY <1>5, <2>2, RecoveryFailureDoes
<1>6. QED
  BY <1>4, <1>5

LEMMA SaveDescDoes ==
    ASSUME NEW t, WellTyped(t), ~t.primaryLost, t.primary \in t.ok, NEW p, p = SaveDesc(t)
    PROVE  /\ WellTyped(p)
           /\ t.backupLost \/ t.backup \in t.ok => Described(p, t)
           /\ ~t.backupLost /\ t.backup \notin t.ok => Planned(p, t)
<1>1. PICK saved : saved = WriteDesc(t, t.primary)
  OBVIOUS
<1>2. t.primary \in Volume
  BY DEF WellTyped, Table
<1>3. WellTyped(saved) /\ Described(saved, t)
  BY <1>1, <1>2, WriteDescDoes
<1>4. t.backup \in Usable(t) <=> t.backup \in t.ok
  BY DEF Usable, WellTyped
<1>5. CASE t.backupLost
  BY <1>1, <1>3, <1>5 DEF SaveDesc
<1>6. CASE ~t.backupLost /\ t.backup \in t.ok
  <2>1. p = WriteDesc(saved, t.backup) /\ t.backup \in Volume
    BY <1>1, <1>4, <1>6 DEF SaveDesc, WellTyped, Table
  <2>2. WellTyped(p) /\ Described(p, saved)
    BY <1>3, <2>1, WriteDescDoes
  <2>3. Described(p, t)
    BY <1>3, <2>2 DEF Described, SameNames, SameRows, SameVolumes, SameFiles
  <2>4. QED
    BY <1>6, <2>2, <2>3
<1>7. CASE ~t.backupLost /\ t.backup \notin t.ok
  <2>1. p = RecoveryBackup(saved)
    BY <1>1, <1>4, <1>7 DEF SaveDesc
  <2>2. ~saved.primaryLost /\ saved.primary \in saved.ok
    BY <1>3 DEF Described, SameNames, SameVolumes
  <2>3. WellTyped(p) /\ Planned(p, saved)
    BY <1>3, <2>1, <2>2, RecoveryBackupDoes
  <2>4. Planned(p, t)
    BY <1>3, <2>3 DEF Planned, Described, SameNames, SameRows, SameVolumes, SameFiles
  <2>5. QED
    BY <1>7, <2>3, <2>4
<1>8. QED
  BY <1>5, <1>6, <1>7

(* The memory rows are in a new segment on the primary volume, if there    *)
(* were any.                                                               *)
Fresh(t) == IF t.rows = {} THEN {} ELSE {NewSegment(t)}
Saved(p, t) ==
    /\ SameNames(p, t) /\ p.validate = t.validate /\ SameVolumes(p, t)
    /\ p.rows = {} /\ p.logOn = t.logOn
    /\ p.open = t.open \cup Fresh(t)
    /\ p.openOn = IF t.rows = {} THEN t.openOn ELSE t.primary
    /\ \A v \in Volume :
          /\ p.disk[v].has = t.disk[v].has
          /\ p.disk[v].segs = IF v = t.primary THEN t.disk[v].segs \cup Fresh(t) ELSE t.disk[v].segs

LEMMA SegmentSavedDoes ==
    ASSUME NEW t, WellTyped(t), t.primary # None, t.logOn # None, NEW p, p = SegmentSaved(t)
    PROVE  WellTyped(p) /\ Saved(p, t)
<1>1. t.primary \in Volume /\ t.logOn \in Volume /\ \A v \in Volume : t.disk[v] \in Disk
  BY DEF WellTyped, Table
<1>2. CASE t.rows = {}
  BY <1>1, <1>2 DEF SegmentSaved, Saved, Fresh, SameNames, SameVolumes, WellTyped
<1>3. CASE t.rows # {}
  <2>1. PICK new : new = NewSegment(t)
    OBVIOUS
  <2>2. new \in Segment
    BY <2>1 DEF NewSegment, Segment, WellTyped, Table
  <2>3. PICK log : log = IF t.logOn \in Usable(t) THEN {} ELSE t.disk[t.logOn].log
    OBVIOUS
  <2>4. log \in SUBSET Row /\ IsFiniteSet(log)
    BY <1>1, <2>3, FS_EmptySet DEF WellTyped, Finite, Disk
  <2>5. PICK c : c = [t.disk EXCEPT ![t.primary].segs = t.disk[t.primary].segs \cup {new}]
    OBVIOUS
  <2>6. /\ c \in [Volume -> Disk]
        /\ \A v \in Volume : /\ c[v].has = t.disk[v].has /\ c[v].log = t.disk[v].log
                             /\ c[v].segs = IF v = t.primary THEN t.disk[v].segs \cup {new} ELSE t.disk[v].segs
    BY <1>1, <2>2, <2>5 DEF WellTyped, Table, Disk
  <2>7. PICK d : d = [c EXCEPT ![t.logOn].log = log]
    OBVIOUS
  <2>8. /\ d \in [Volume -> Disk]
        /\ \A v \in Volume : /\ d[v].has = c[v].has /\ d[v].segs = c[v].segs
                             /\ d[v].log = IF v = t.logOn THEN log ELSE c[v].log
    BY <1>1, <2>4, <2>6, <2>7 DEF Disk
  <2>9. p = [t EXCEPT !.disk = d, !.open = t.open \cup {new}, !.openOn = t.primary, !.rows = {}]
    BY <1>1, <1>3, <2>1, <2>3, <2>5, <2>6, <2>7 DEF SegmentSaved, WellTyped, Table
  <2>10. \A v \in Volume : IsFiniteSet(d[v].segs) /\ IsFiniteSet(d[v].log)
    <3>1. ASSUME NEW v \in Volume PROVE IsFiniteSet(t.disk[v].segs \cup {new})
      BY FS_AddElement DEF WellTyped, Finite
    <3>2. QED
      BY <2>4, <2>6, <2>8, <3>1 DEF WellTyped, Finite
  <2>11. /\ p \in Table /\ p.ok \subseteq p.online
         /\ SameNames(p, t) /\ p.validate = t.validate /\ SameVolumes(p, t) /\ p.logOn = t.logOn
         /\ p.rows = {} /\ p.open = t.open \cup {new} /\ p.openOn = t.primary /\ p.disk = d
    <3>1. PICK open : open = t.open \cup {new}
      OBVIOUS
    <3>2. open \in SUBSET Segment
      BY <2>2, <3>1 DEF WellTyped, Table
    <3>3. p = [t EXCEPT !.disk = d, !.open = open, !.openOn = t.primary, !.rows = {}]
      BY <2>9, <3>1
    <3>4. QED
      BY <1>1, <2>8, <3>1, <3>2, <3>3 DEF WellTyped, Table, SameNames, SameVolumes
  <2>12. WellTyped(p)
    BY <2>10, <2>11 DEF WellTyped, Finite
  <2>13. Fresh(t) = {new}
    BY <1>3, <2>1 DEF Fresh
  <2>14. Saved(p, t)
    BY <1>3, <2>6, <2>8, <2>11, <2>13 DEF Saved
  <2>15. QED
    BY <2>12, <2>14
<1>4. QED
  BY <1>2, <1>3

(* The segments of volume v are in use, the memory rows among them, and    *)
(* another backup is wanted.                                               *)
Restored(p, t, v) ==
    /\ p.primary = v /\ ~p.primaryLost
    /\ p.backupLost /\ p.backup \in (t.online \ {v}) \cup {None}
    /\ p.backupNeeded <=> p.backup # None
    /\ p.validate = t.validate /\ SameVolumes(p, t)
    /\ p.rows = {} /\ p.logOn = t.logOn /\ p.openOn = v
    /\ p.open = t.disk[v].segs \cup Fresh(t)
    /\ p.disk[v].segs = p.open
    /\ \A w \in Volume : p.disk[w].has = t.disk[w].has

LEMMA RestoreToDoes ==
    ASSUME NEW t, WellTyped(t), t.primaryLost <=> t.primary = None, t.logOn # None,
           NEW p, p = RestoreTo(t)
    PROVE  /\ WellTyped(p)
           /\ t.primary \in t.ok => Restored(p, t, t.primary)
           /\ t.primary \notin t.ok => GivenUp(p, t)
<1>1. t.primary \in Usable(t) <=> t.primary \in t.ok
  BY DEF Usable, WellTyped
<1>2. CASE t.primary \notin t.ok
  <2>1. p = RecoveryFailure(t)
    BY <1>1, <1>2 DEF RestoreTo
  <2>2. QED
    BY <1>2, <2>1, RecoveryFailureDoes
<1>3. CASE t.primary \in t.ok
  <2>1. t.primary \in Volume /\ t.primary # None /\ ~t.primaryLost
    BY <1>3 DEF WellTyped, Table, Volume, None
  <2>2. PICK s : s = SegmentSaved(t)
    OBVIOUS
  <2>3. WellTyped(s) /\ Saved(s, t)
    BY <2>1, <2>2, SegmentSavedDoes
  <2>4. PICK o : o = OpenSegments(s)
    OBVIOUS
  <2>5. s.primary = t.primary /\ s.disk[t.primary] \in Disk
    BY <2>1, <2>3 DEF Saved, SameNames, WellTyped, Table
  <2>6. PICK segs : segs = s.disk[t.primary].segs
    OBVIOUS
  <2>7. segs \in SUBSET Segment /\ IsFiniteSet(segs)
    BY <2>1, <2>3, <2>5, <2>6 DEF Disk, WellTyped, Finite
  <2>8. PICK high \in Nat : high = HighSeq(segs)
    BY <2>7, HighSeqType
  <2>9. o = [s EXCEPT !.open = segs, !.openOn = t.primary, !.seq = high]
    BY <2>4, <2>5, <2>6, <2>8 DEF OpenSegments
  <2>10. /\ o \in Table /\ o.ok \subseteq o.online
         /\ SameNames(o, s) /\ o.validate = s.validate /\ SameVolumes(o, s)
         /\ o.rows = s.rows /\ o.logOn = s.logOn /\ o.open = segs /\ o.openOn = t.primary
         /\ o.disk = s.disk
    BY <2>1, <2>3, <2>7, <2>9 DEF WellTyped, Table, SameNames, SameVolumes
  <2>11. WellTyped(o)
    BY <2>3, <2>10 DEF WellTyped, Finite
  <2>12. p = RecoveryBackup(o)
    BY <1>1, <1>3, <2>1, <2>2, <2>4 DEF RestoreTo
  <2>13. ~o.primaryLost /\ o.primary = t.primary /\ o.primary \in o.ok
    BY <1>3, <2>1, <2>3, <2>10 DEF Saved, SameNames, SameVolumes
  <2>14. WellTyped(p) /\ Planned(p, o)
    BY <2>11, <2>12, <2>13, RecoveryBackupDoes
  <2>15. Restored(p, t, t.primary)
    <3>1. /\ p.primary = t.primary /\ ~p.primaryLost /\ p.backupLost
          /\ p.backup \in (o.online \ {t.primary}) \cup {None}
          /\ p.backupNeeded <=> p.backup # None
          /\ p.validate = o.validate /\ SameVolumes(p, o)
          /\ p.rows = o.rows /\ p.logOn = o.logOn /\ p.openOn = t.primary /\ p.open = segs
          /\ p.disk[t.primary].segs = segs
          /\ \A w \in Volume : p.disk[w].has = s.disk[w].has
      BY <2>1, <2>6, <2>10, <2>13, <2>14 DEF Planned, SameRows, SameVolumes, SameFiles
    <3>2. /\ o.validate = t.validate /\ SameVolumes(o, t) /\ o.rows = {} /\ o.logOn = t.logOn
          /\ \A w \in Volume : s.disk[w].has = t.disk[w].has
          /\ segs = t.disk[t.primary].segs \cup Fresh(t)
      BY <2>1, <2>3, <2>6, <2>10 DEF Saved, SameVolumes
    <3>3. QED
      BY <3>1, <3>2 DEF Restored, SameVolumes
  <2>16. QED
    BY <1>3, <2>14, <2>15
<1>4. QED
  BY <1>2, <1>3

(* The backup volume is the primary volume from now on. *)
Swapped(p, t) ==
    /\ p.primary = t.backup /\ p.backup = t.backup /\ ~p.primaryLost /\ p.backupLost
    /\ ~p.backupNeeded /\ p.validate = t.validate
    /\ SameRows(p, t) /\ SameVolumes(p, t) /\ SameFiles(p, t)

LEMMA RecoveryRestoreDoes ==
    ASSUME NoWindow, NEW t, WellTyped(t), ~t.backupLost => t.backup # None, t.logOn # None,
           NEW held \in BOOLEAN, RecoveryRestore(t, held)
    PROVE  /\ WellTyped(db)'
           /\ \/ /\ t.backupLost \/ (hk = Ready /\ t.backup \notin t.ok)
                 /\ wait' = wait /\ GivenUp(db', t)
              \/ /\ ~t.backupLost /\ hk = Ready /\ t.backup \in t.ok
                 /\ wait' = wait /\ Restored(db', t, t.backup)
              \/ /\ ~t.backupLost /\ hk # Ready /\ ~held /\ wait = "none"
                 /\ wait' = "unlocked" /\ Swapped(db', t)
<1>1. CASE t.backupLost
  <2>1. db' = RecoveryFailure(t) /\ wait' = wait
    BY <1>1 DEF RecoveryRestore
  <2>2. PICK p : p = RecoveryFailure(t)
    OBVIOUS
  <2>3. WellTyped(p) /\ GivenUp(p, t)
    BY <2>2, RecoveryFailureDoes
  <2>4. db' = p
    BY <2>1, <2>2
  <2>5. WellTyped(db)'
    BY <2>3, <2>4 DEF WellTyped, Finite
  <2>6. GivenUp(db', t) /\ wait' = wait
    BY <2>1, <2>3, <2>4
  <2>7. QED
    BY <1>1, <2>5, <2>6
<1>2. CASE ~t.backupLost
  <2>1. PICK s : s = SwappedToBackup(t)
    OBVIOUS
  <2>2. WellTyped(s) /\ Swapped(s, t) /\ ~s.primaryLost /\ s.primary # None
    BY <1>2, <2>1 DEF SwappedToBackup, WellTyped, Table, Finite, Swapped, SameRows, SameVolumes, SameFiles
  <2>3. CASE hk = Ready
    <3>1. PICK p : p = RestoreTo(s)
      OBVIOUS
    <3>2. db' = p /\ wait' = wait
      BY <1>2, <2>1, <2>3, <3>1 DEF RecoveryRestore
    <3>3. s.logOn # None /\ s.primary = t.backup /\ s.ok = t.ok
      BY <2>2 DEF Swapped, SameRows, SameVolumes
    <3>4. /\ WellTyped(p)
          /\ t.backup \in t.ok => Restored(p, s, t.backup)
          /\ t.backup \notin t.ok => GivenUp(p, s)
      BY <2>2, <3>1, <3>3, RestoreToDoes
    <3>5. ASSUME Restored(p, s, t.backup), t.backup \in t.ok PROVE Restored(p, t, t.backup)
      <4>1. t.backup \in Volume
        BY <3>5 DEF WellTyped, Table
      <4>2. Fresh(s) = Fresh(t) /\ s.disk[t.backup].segs = t.disk[t.backup].segs
        BY <2>2, <4>1 DEF Swapped, SameRows, SameFiles, Fresh, NewSegment
      <4>3. QED
        BY <2>2, <3>5, <4>2 DEF Restored, Swapped, SameRows, SameVolumes, SameFiles
    <3>6. ASSUME GivenUp(p, s) PROVE GivenUp(p, t)
      BY <2>2, <3>6 DEF GivenUp, Swapped, SameRows, SameVolumes, SameFiles
    <3>7. WellTyped(db)'
      BY <3>2, <3>4 DEF WellTyped, Finite
    <3>8. QED
      BY <1>2, <2>3, <3>2, <3>4, <3>5, <3>6, <3>7
  <2>4. CASE hk # Ready
    <3>1. db' = s /\ wait = "none" /\ ~held /\ wait' = "unlocked"
      BY <1>2, <2>1, <2>4 DEF RecoveryRestore, NoWindow
    <3>2. WellTyped(db)'
      BY <2>2, <3>1 DEF WellTyped, Finite
    <3>3. QED
      BY <1>2, <2>2, <2>4, <3>1, <3>2
  <2>5. QED
    BY <2>3, <2>4
<1>3. QED
  BY <1>1, <1>2

-----------------------------------------------------------------------------
(* How each of these leaves the invariant *)

LEMMA RowsOfUnion ==
    ASSUME NEW A, NEW B
    PROVE  RowsOf(A \cup B) = RowsOf(A) \cup RowsOf(B)
BY DEF RowsOf

LEMMA RowsOfSubset ==
    ASSUME NEW A, NEW B, A \subseteq B
    PROVE  RowsOf(A) \subseteq RowsOf(B)
BY DEF RowsOf

LEMMA RowsOfFresh ==
    ASSUME NEW t
    PROVE  RowsOf(Fresh(t)) = t.rows
<1>1. NewSegment(t).rows = t.rows
  BY DEF NewSegment
<1>2. QED
  BY <1>1 DEF RowsOf, Fresh

LEMMA WorkType ==
    ASSUME hk \in Work
    PROVE  /\ hk # Ready => hk.type \in {"backup", "merge"}
           /\ hk.type = "backup" => hk \in Backup /\ hk # Ready
           /\ hk.type = "merge" => hk \in Merge /\ hk # Ready
BY DEF Work, Ready, Backup, Merge

LEMMA GivenUpKeeps ==
    ASSUME NEW t, WellTyped(db)', GivenUp(db', t), hk \in Work, CopyRight(t),
           t.logOn \in Volume, t.disk[t.logOn].has, wait' # "locked",
           hk' = hk, owed' \subseteq t.rows
    PROVE  Sound(db)'
<1>1. Named(db)' /\ Mounted(db)' /\ InUse(db)' /\ Waiting(db)' /\ Held(db)' /\ Mirrored(db)'
  BY DEF GivenUp, Named, Mounted, InUse, Waiting, Held, Mirrored, SameFiles, Volume, None
<1>2. CopyRight(db)'
  BY WorkType DEF GivenUp, CopyRight, WorkingOn, SameFiles, Backup
<1>3. MergeRight(db)'
  BY DEF GivenUp, MergeRight, WorkingOn
<1>4. QED
  BY <1>1, <1>2, <1>3 DEF Sound, Firm

LEMMA RestoredKeeps ==
    ASSUME NEW t, WellTyped(t), NEW v \in t.ok, t.disk[v].has, WellTyped(db)', Restored(db', t, v),
           t.logOn \in Volume, t.disk[t.logOn].has, hk' = Ready, wait' # "locked",
           owed' \subseteq t.rows \cup RowsOf(t.disk[v].segs)
    PROVE  Sound(db)'
<1>1. v \in Volume /\ v # None /\ v \in t.online
  BY DEF WellTyped, Table, Volume, None
<1>2. owed' \subseteq RowsOf(db'.open)
  BY RowsOfUnion, RowsOfFresh DEF Restored
<1>3. Named(db)' /\ Mounted(db)' /\ InUse(db)' /\ Waiting(db)'
  BY <1>1 DEF Restored, Named, Mounted, InUse, Waiting, SameVolumes, Volume, None
<1>4. CopyRight(db)' /\ MergeRight(db)' /\ Mirrored(db)'
  BY DEF Restored, CopyRight, MergeRight, Mirrored, Ready
<1>5. Held(db)'
  BY <1>1, <1>2 DEF Restored, Held, SameVolumes
<1>6. QED
  BY <1>3, <1>4, <1>5 DEF Sound, Firm

LEMMA SwappedKeeps ==
    ASSUME NEW t, WellTyped(t), Firm(t), t.backup \in t.online, ~t.primaryLost,
           hk \in Work, ~t.backupLost, wait = "none", wait' = "unlocked",
           t.primary \notin t.ok \/ (t.backup \in t.ok /\ t.open \subseteq t.disk[t.backup].segs),
           Swapped(db', t), hk' = hk, owed' = owed
    PROVE  Sound(db)'
<1>1. /\ t.backup # t.primary /\ t.backup \in Volume /\ t.openOn = t.primary
      /\ t.openOn \in Volume /\ t.logOn \in Volume /\ t.backup # None
  BY DEF Firm, Named, InUse, Waiting, WellTyped, Table, Volume, None
<1>2. Named(db)' /\ Mounted(db)' /\ InUse(db)' /\ Waiting(db)'
  BY <1>1 DEF Firm, Named, Mounted, InUse, Waiting, Swapped, SameRows, SameVolumes, SameFiles
<1>3. CopyRight(db)'
  BY <1>1, WorkType DEF Firm, CopyRight, WorkingOn, Swapped, SameRows, SameVolumes, SameFiles, Backup
<1>4. MergeRight(db)'
  BY <1>1, WorkType DEF Firm, MergeRight, WorkingOn, Swapped, SameRows, SameVolumes, SameFiles, Merge, Merged
<1>5. Held(db)'
  <2>1. db'.rows = t.rows /\ db'.open = t.open /\ db'.primary = t.backup /\ db'.ok = t.ok
        /\ ~db'.primaryLost /\ db'.backupLost /\ db'.disk[t.backup].segs = t.disk[t.backup].segs
    BY <1>1 DEF Swapped, SameRows, SameVolumes, SameFiles
  <2>2. owed \subseteq t.rows \cup RowsOf(t.open)
    BY <1>1 DEF Firm, Held
  <2>3. CASE t.primary \notin t.ok
    <3>1. owed \subseteq t.rows \cup Replaced(t)
      BY <1>1, <2>3 DEF Firm, Held
    <3>2. QED
      BY <2>1, <2>2, <3>1 DEF Held, Replaced
  <2>4. CASE t.backup \in t.ok /\ t.open \subseteq t.disk[t.backup].segs
    <3>1. RowsOf(t.open) \subseteq RowsOf(t.disk[t.backup].segs)
      BY <2>4, RowsOfSubset
    <3>2. QED
      BY <2>1, <2>2, <2>4, <3>1 DEF Held
  <2>5. QED
    BY <2>3, <2>4
<1>6. Mirrored(db)'
  BY DEF Mirrored
<1>7. QED
  BY <1>2, <1>3, <1>4, <1>5, <1>6 DEF Sound, Firm

(* Only the names of the volumes change, or nothing but descriptors.       *)
LEMMA NamesKeep ==
    ASSUME NEW t, WellTyped(t), Firm(t), hk \in Work, t.primary \in t.ok,
           Planned(db', t) \/ Described(db', t), hk' = hk, wait' = wait, owed' = owed
    PROVE  Firm(db)'
<1>1. /\ t.logOn \in Volume /\ t.primary \in Volume /\ ~t.primaryLost /\ t.openOn \in Volume
      /\ ~t.backupLost => t.backup \in Volume
  BY DEF Firm, Named, InUse, WellTyped, Table, Volume, None
<1>2. CASE Planned(db', t)
  <2>1. Named(db)' /\ InUse(db)' /\ Waiting(db)'
    BY <1>1, <1>2 DEF Firm, Named, InUse, Waiting, Planned, SameRows, SameVolumes, SameFiles
  <2>2. CopyRight(db)'
    BY <1>1, <1>2, WorkType DEF Firm, CopyRight, WorkingOn, Planned, SameRows, SameVolumes, SameFiles, Backup
  <2>3. MergeRight(db)'
    BY <1>1, <1>2, WorkType DEF Firm, MergeRight, WorkingOn, Planned, SameRows, SameVolumes, SameFiles, Merge, Merged
  <2>4. Held(db)'
    BY <1>1, <1>2 DEF Firm, Held, Overwriting, Planned, SameRows, SameVolumes, SameFiles
  <2>5. QED
    BY <2>1, <2>2, <2>3, <2>4 DEF Firm
<1>3. CASE Described(db', t)
  <2>1. Named(db)' /\ InUse(db)' /\ Waiting(db)'
    BY <1>1, <1>3 DEF Firm, Named, InUse, Waiting, Described, SameNames, SameRows, SameVolumes, SameFiles
  <2>2. CopyRight(db)'
    BY <1>1, <1>3, WorkType
    DEF Firm, CopyRight, WorkingOn, Described, SameNames, SameRows, SameVolumes, SameFiles, Backup
  <2>3. MergeRight(db)'
    BY <1>1, <1>3, WorkType
    DEF Firm, MergeRight, WorkingOn, Described, SameNames, SameRows, SameVolumes, SameFiles, Merge, Merged
  <2>4. Held(db)'
    BY <1>1, <1>3 DEF Firm, Held, Overwriting, Described, SameNames, SameRows, SameVolumes, SameFiles
  <2>5. QED
    BY <2>1, <2>2, <2>3, <2>4 DEF Firm
<1>4. QED
  BY <1>2, <1>3

LEMMA PlannedKeeps ==
    ASSUME NEW t, WellTyped(t), Firm(t), hk \in Work, t.primary \in t.ok, Planned(db', t),
           hk' = hk, wait' = wait, owed' = owed
    PROVE  Sound(db)'
<1>1. Firm(db)'
  BY NamesKeep
<1>2. Mounted(db)' /\ Mirrored(db)'
  BY DEF Mounted, Mirrored, Planned, SameVolumes, WellTyped
<1>3. QED
  BY <1>1, <1>2 DEF Sound

LEMMA RecoveryBackupKeeps ==
    ASSUME NEW t, WellTyped(t), Firm(t), hk \in Work, ~t.primaryLost, t.backupLost \/ t.backup \notin t.ok,
           db' = RecoveryBackup(t), hk' = hk, wait' = wait, owed' = owed
    PROVE  WellTyped(db)' /\ Sound(db)'
<1>1. PICK p : p = RecoveryBackup(t)
  OBVIOUS
<1>2. /\ WellTyped(p)
      /\ t.primary \in t.ok => Planned(p, t)
      /\ t.primary \notin t.ok => GivenUp(p, t)
  BY <1>1, RecoveryBackupDoes
<1>3. db' = p
  BY <1>1
<1>4. WellTyped(db)'
  BY <1>2, <1>3 DEF WellTyped, Finite
<1>5. CASE t.primary \in t.ok
  BY <1>2, <1>3, <1>4, <1>5, PlannedKeeps
<1>6. CASE t.primary \notin t.ok
  <2>1. owed' \subseteq t.rows /\ CopyRight(t) /\ t.logOn \in Volume /\ t.disk[t.logOn].has /\ wait' # "locked"
    BY <1>6 DEF Firm, Held, Replaced, Named, Waiting, WellTyped, Table
  <2>2. GivenUp(db', t)
    BY <1>2, <1>3, <1>6
  <2>3. QED
    BY <1>4, <2>1, <2>2, GivenUpKeeps
<1>7. QED
  BY <1>5, <1>6

(* The restore of a table whose primary volume is broken, or whose backup  *)
(* is in good standing.                                                    *)
LEMMA RecoveryRestoreKeeps ==
    ASSUME NoWindow, NEW t, WellTyped(t), Firm(t), hk \in Work, ~t.primaryLost,
           ~t.backupLost => t.backup \in t.online,
           \/ t.primary \notin t.ok
           \/ ~t.backupLost /\ t.backup \in t.ok /\ t.open \subseteq t.disk[t.backup].segs,
           NEW held \in BOOLEAN, RecoveryRestore(t, held), hk' = hk, owed' = owed
    PROVE  WellTyped(db)' /\ Sound(db)'
<1>1. /\ t.logOn \in Volume /\ t.logOn # None /\ t.disk[t.logOn].has /\ wait # "locked" /\ CopyRight(t)
      /\ ~t.backupLost => t.backup # None /\ t.disk[t.backup].has
  BY DEF Firm, Named, Waiting, WellTyped, Table
<1>2. owed \subseteq t.rows \cup Replaced(t)
  <2>1. CASE t.primary \notin t.ok
    BY <2>1 DEF Firm, Held
  <2>2. CASE ~t.backupLost /\ t.backup \in t.ok /\ t.open \subseteq t.disk[t.backup].segs
    BY <2>2, RowsOfSubset DEF Firm, Held, Replaced
  <2>3. QED
    BY <2>1, <2>2
<1>3. WellTyped(db)'
  BY <1>1, RecoveryRestoreDoes
<1>4. CASE (t.backupLost \/ t.backup \notin t.ok) /\ GivenUp(db', t) /\ wait' = wait
  BY <1>1, <1>2, <1>3, <1>4, GivenUpKeeps DEF Replaced
<1>5. CASE ~t.backupLost /\ hk = Ready /\ t.backup \in t.ok /\ wait' = wait /\ Restored(db', t, t.backup)
  <2>1. owed' \subseteq t.rows \cup RowsOf(t.disk[t.backup].segs)
    BY <1>2, <1>5 DEF Replaced
  <2>2. PICK v : v = t.backup
    OBVIOUS
  <2>3. QED
    BY <1>1, <1>3, <1>5, <2>1, <2>2, RestoredKeeps
<1>6. CASE ~t.backupLost /\ wait = "none" /\ wait' = "unlocked" /\ Swapped(db', t)
  BY <1>3, <1>6, SwappedKeeps
<1>7. QED
  BY <1>1, <1>4, <1>5, <1>6, RecoveryRestoreDoes

(* A save, of whatever is in memory, to a primary volume that can be       *)
(* written: the copy that is to be made of it is on its way.               *)
LEMMA SaveKeeps ==
    ASSUME NoWindow, NEW t, WellTyped(t), Sound(t), hk = Ready, wait = "none", ~t.primaryLost,
           copies \in SUBSET Copies, Save(t), hk' = hk, owed' = owed
    PROVE  WellTyped(db)' /\ Sound(db)' /\ copies' \in SUBSET Copies
<1>1. /\ t.primary \in Volume /\ t.primary # None /\ t.logOn \in Volume /\ t.logOn # None
      /\ t.openOn = t.primary
      /\ ~t.backupLost => t.backup \in Volume /\ t.backup # t.primary
  BY DEF Sound, Firm, Named, Waiting, WellTyped, Table, Volume, None
<1>2. t.primary \in Usable(t) <=> t.primary \in t.ok
  BY DEF Usable, WellTyped
<1>3. hk \in Work
  BY DEF Work
<1>4. CASE t.primary \notin t.ok
  <2>1. RecoveryRestore(t, TRUE) /\ copies' = copies
    BY <1>2, <1>4 DEF Save
  <2>2. ~t.backupLost => t.backup \in t.online
    BY DEF Sound, Mounted
  <2>3. WellTyped(db)' /\ Sound(db)'
    BY <1>3, <1>4, <2>1, <2>2, RecoveryRestoreKeeps DEF Sound
  <2>4. QED
    BY <2>1, <2>3
<1>5. CASE t.primary \in t.ok
  <2>1. PICK s : s = SegmentSaved(t)
    OBVIOUS
  <2>2. WellTyped(s) /\ Saved(s, t)
    BY <1>1, <2>1, SegmentSavedDoes
  <2>3. PICK p : p = SaveDesc(s)
    OBVIOUS
  <2>4. db' = p /\ wait' = wait
    BY <1>2, <1>5, <2>1, <2>3 DEF Save
  <2>5. ~s.primaryLost /\ s.primary \in s.ok /\ s.primary = t.primary
    BY <1>5, <2>2 DEF Saved, SameNames, SameVolumes
  <2>6. /\ WellTyped(p)
        /\ s.backupLost \/ s.backup \in s.ok => Described(p, s)
        /\ ~s.backupLost /\ s.backup \notin s.ok => Planned(p, s)
    BY <2>2, <2>3, <2>5, SaveDescDoes
  <2>7. WellTyped(db)'
    BY <2>4, <2>6 DEF WellTyped, Finite
  <2>8. Firm(s)
    <3>1. owed \subseteq RowsOf(s.open)
      <4>1. s.open = t.open \cup Fresh(t) /\ owed \subseteq t.rows \cup RowsOf(t.open)
        BY <2>2 DEF Sound, Firm, Held, Saved
      <4>2. RowsOf(s.open) = RowsOf(t.open) \cup t.rows
        BY <4>1, RowsOfUnion, RowsOfFresh
      <4>3. QED
        BY <4>1, <4>2
    <3>2. Named(s) /\ InUse(s) /\ Waiting(s)
      BY <1>1, <2>2 DEF Sound, Firm, Named, InUse, Waiting, Saved, SameNames
    <3>3. CopyRight(s) /\ MergeRight(s) /\ Held(s)
      BY <2>5, <3>1 DEF CopyRight, MergeRight, Held, Ready
    <3>4. QED
      BY <3>2, <3>3 DEF Firm
  <2>9. NewSegment(t) \in Segment
    BY DEF NewSegment, Segment, WellTyped, Table
  <2>10. copies' = IF t.rows # {} /\ ~db'.backupLost
                   THEN copies \cup {[seg |-> NewSegment(t), from |-> t.primary, to |-> t.backup]}
                   ELSE copies
    BY <1>2, <1>5 DEF Save
  <2>11. CASE s.backupLost \/ s.backup \in s.ok
    <3>1. Described(db', s)
      BY <2>4, <2>6, <2>11
    <3>2. Firm(db)'
      BY <1>3, <2>2, <2>4, <2>5, <2>8, <3>1, NamesKeep
    <3>3. /\ db'.primary = t.primary /\ db'.backup = t.backup /\ db'.backupLost = t.backupLost
          /\ db'.primaryLost = t.primaryLost /\ db'.backupNeeded = t.backupNeeded
          /\ db'.validate = t.validate /\ SameVolumes(db', t)
          /\ db'.open = t.open \cup Fresh(t)
          /\ ~t.backupLost => db'.disk[t.backup].segs = t.disk[t.backup].segs
      BY <1>1, <2>2, <3>1 DEF Saved, Described, SameNames, SameRows, SameVolumes, SameFiles
    <3>4. Mounted(db)'
      BY <3>3 DEF Sound, Mounted, SameVolumes
    <3>5. copies' \in SUBSET Copies
      BY <1>1, <2>9, <2>10, <3>3 DEF Copies
    <3>6. Mirrored(db)'
      BY <2>10, <3>3 DEF Sound, Mirrored, SameVolumes, Fresh
    <3>7. QED
      BY <2>7, <3>2, <3>4, <3>5, <3>6 DEF Sound
  <2>12. CASE ~s.backupLost /\ s.backup \notin s.ok
    <3>1. Planned(db', s)
      BY <2>4, <2>6, <2>12
    <3>2. Sound(db)'
      BY <1>3, <2>2, <2>4, <2>5, <2>8, <3>1, PlannedKeeps
    <3>3. copies' = copies
      BY <2>10, <3>1 DEF Planned
    <3>4. QED
      BY <2>7, <3>2, <3>3
  <2>13. QED
    BY <2>11, <2>12
<1>6. QED
  BY <1>4, <1>5

(* What validation deletes from the backup volume is not in use.           *)
LEMMA ValidatedKeeps ==
    ASSUME NEW t, WellTyped(t), Sound(t), hk = Ready, wait = "none", ~t.primaryLost,
           t.backup # None, ~t.backupNeeded, NEW p, p = Validated(t)
    PROVE  WellTyped(p) /\ Sound(p) /\ ~p.primaryLost
<1>1. /\ ~t.backupLost /\ t.backup \in Volume /\ t.primary \in Volume /\ t.backup # t.primary
      /\ t.primary # None /\ t.openOn = t.primary /\ t.logOn \in Volume
  BY DEF Sound, Firm, Named, Waiting, WellTyped, Table, Volume, None
<1>2. t.open \in SUBSET Segment /\ IsFiniteSet(t.open)
  BY <1>1, FS_Subset DEF Sound, Firm, InUse, WellTyped, Table, Finite
<1>3. CASE t.open \subseteq t.disk[t.backup].segs /\ t.backup \in Usable(t)
  <2>1. PICK d : d = [t.disk EXCEPT ![t.backup].segs = t.open]
    OBVIOUS
  <2>2. /\ d \in [Volume -> Disk]
        /\ \A v \in Volume : /\ d[v].has = t.disk[v].has /\ d[v].log = t.disk[v].log
                             /\ d[v].segs = IF v = t.backup THEN t.open ELSE t.disk[v].segs
    BY <1>1, <1>2, <2>1 DEF WellTyped, Table, Disk
  <2>3. p = [t EXCEPT !.disk = d, !.validate = FALSE]
    BY <1>3, <2>1 DEF Validated, WellTyped, Table
  <2>4. /\ p \in Table /\ p.ok \subseteq p.online /\ SameNames(p, t) /\ SameRows(p, t) /\ SameVolumes(p, t)
        /\ p.disk = d
    BY <2>2, <2>3 DEF WellTyped, Table, SameNames, SameRows, SameVolumes
  <2>5. WellTyped(p)
    BY <1>2, <2>2, <2>4 DEF WellTyped, Finite
  <2>6. Named(p) /\ Mounted(p) /\ InUse(p) /\ Waiting(p)
    BY <1>1, <2>2, <2>4
    DEF Sound, Firm, Named, Mounted, InUse, Waiting, SameNames, SameRows, SameVolumes
  <2>7. CopyRight(p) /\ MergeRight(p) /\ Mirrored(p)
    BY <1>1, <2>2, <2>4 DEF CopyRight, MergeRight, Mirrored, Ready, SameNames, SameRows
  <2>8. Held(p)
    BY <1>1, <2>2, <2>4 DEF Sound, Firm, Held, Replaced, SameNames, SameRows, SameVolumes
  <2>9. QED
    BY <2>4, <2>5, <2>6, <2>7, <2>8 DEF Sound, Firm, SameNames
<1>4. CASE ~(t.open \subseteq t.disk[t.backup].segs /\ t.backup \in Usable(t))
  <2>1. p = [t EXCEPT !.backupNeeded = TRUE, !.validate = FALSE]
    BY <1>4 DEF Validated
  <2>2. /\ WellTyped(p) /\ p.backupNeeded /\ SameRows(p, t) /\ SameVolumes(p, t) /\ p.disk = t.disk
        /\ p.primary = t.primary /\ p.backup = t.backup /\ p.primaryLost = t.primaryLost
        /\ p.backupLost = t.backupLost
    BY <2>1 DEF WellTyped, Table, Finite, SameRows, SameVolumes
  <2>3. Named(p) /\ Mounted(p) /\ InUse(p) /\ Waiting(p)
    BY <1>1, <2>2 DEF Sound, Firm, Named, Mounted, InUse, Waiting, SameRows, SameVolumes
  <2>4. CopyRight(p) /\ MergeRight(p) /\ Mirrored(p)
    BY <2>2 DEF CopyRight, MergeRight, Mirrored, Ready
  <2>5. Held(p)
    BY <2>2 DEF Sound, Firm, Held, Replaced, SameRows, SameVolumes
  <2>6. QED
    BY <2>2, <2>3, <2>4, <2>5 DEF Sound, Firm
<1>5. QED
  BY <1>3, <1>4

-----------------------------------------------------------------------------
(* The actions.  A step of a running table preserves the invariant if it   *)
(* leaves the table well typed and sound.                                  *)
LEMMA Alive ==
    ASSUME up' = TRUE, WellTyped(db)', Sound(db)', hk' \in Work, copies' \in SUBSET Copies,
           readers' \in [Reader -> Volume \cup {None}], wait' \in {"none", "locked", "unlocked"},
           owed' \in SUBSET Row, faults' \in 0..MaxFaults
    PROVE  VInv'
BY DEF VInv, TypeInv, Down

LEMMA RestoreWaitType ==
    ASSUME wait \in {"none", "locked", "unlocked"}, NEW t, NEW held \in BOOLEAN,
           RecoveryRestore(t, held)
    PROVE  wait' \in {"none", "locked", "unlocked"}
BY DEF RecoveryRestore

LEMMA FaultType ==
    ASSUME faults \in 0..MaxFaults, Fault
    PROVE  faults' \in 0..MaxFaults
BY MaxFaultsAssumption DEF Fault

(* What is known of a table in use. *)
LEMMA InUseTypes ==
    ASSUME VInv, up
    PROVE  /\ WellTyped(db) /\ Sound(db) /\ hk \in Work /\ copies \in SUBSET Copies
           /\ readers \in [Reader -> Volume \cup {None}] /\ wait \in {"none", "unlocked"}
           /\ owed \in SUBSET Row /\ faults \in 0..MaxFaults
           /\ db.logOn \in Volume /\ db.logOn # None
           /\ db.primary \in Volume \cup {None}
           /\ ~db.primaryLost => /\ db.primary \in Volume /\ db.primary # None
                                 /\ db.openOn \in Volume /\ db.openOn # None
           /\ ~db.backupLost => /\ db.backup \in Volume /\ db.backup # None
                                /\ db.backup # db.primary /\ ~db.primaryLost /\ wait = "none"
           /\ wait = "none" /\ ~db.primaryLost => db.openOn = db.primary
           /\ \A v \in Volume : v \in Usable(db) <=> v \in db.ok
<1>1. /\ WellTyped(db) /\ Sound(db) /\ hk \in Work /\ copies \in SUBSET Copies
      /\ readers \in [Reader -> Volume \cup {None}] /\ wait \in {"none", "locked", "unlocked"}
      /\ owed \in SUBSET Row /\ faults \in 0..MaxFaults
  BY DEF VInv, TypeInv
<1>2. \A v \in Volume : v \in Usable(db) <=> v \in db.ok
  BY <1>1 DEF WellTyped, Usable
<1>3. QED
  BY <1>1, <1>2 DEF Sound, Firm, Named, InUse, Waiting, WellTyped, Table, Volume, None

LEMMA FlushKeeps ==
    ASSUME NoWindow, VInv, Flush
    PROVE  VInv'
<1>1. up /\ up' = up /\ hk = Ready /\ wait = "none" /\ ~db.primaryLost /\ Save(db) /\ hk' = hk
      /\ readers' = readers /\ owed' = owed /\ faults' = faults
  BY DEF Flush, Working, LockFree, NoWindow
<1>2. WellTyped(db)' /\ Sound(db)' /\ copies' \in SUBSET Copies
  BY <1>1, InUseTypes, SaveKeeps
<1>3. wait' \in {"none", "locked", "unlocked"}
  BY <1>1, RestoreWaitType DEF Save
<1>4. QED
  BY <1>1, <1>2, <1>3, InUseTypes, Alive DEF VInv, TypeInv

(* The row is in memory and in the log, or in memory when the table is     *)
(* restored from its backup.                                               *)
LEMMA InsertKeeps ==
    ASSUME NoWindow, VInv, NEW n \in Row, Insert(n)
    PROVE  VInv'
<1>1. /\ up /\ up' = up /\ wait # "locked" /\ ~db.primaryLost /\ n \notin owed
      /\ db.logOn = db.primary
      /\ hk' = hk /\ copies' = copies /\ readers' = readers /\ faults' = faults
      /\ owed' = IF db'.primaryLost \/ wait' = "locked" THEN owed ELSE owed \cup {n}
  BY DEF Insert, Working, LockFree, NoWindow
<1>2. PICK rows : rows = db.rows \cup {n}
  OBVIOUS
<1>3. PICK t : t = [db EXCEPT !.rows = rows, !.seq = db.seq + 1]
  OBVIOUS
<1>4. /\ IF db.logOn \in Usable(db)
         THEN /\ db' = [t EXCEPT !.disk[db.logOn].log = @ \cup {n}]
              /\ UNCHANGED wait
         ELSE RecoveryRestore(t, TRUE)
      /\ rows \in SUBSET Row /\ owed' \in SUBSET Row
  BY <1>1, <1>2, <1>3, InUseTypes DEF Insert, WellTyped, Table
<1>5. /\ WellTyped(t) /\ SameNames(t, db) /\ SameVolumes(t, db) /\ t.validate = db.validate
      /\ t.rows = rows /\ t.open = db.open /\ t.openOn = db.openOn /\ t.logOn = db.logOn
      /\ t.disk = db.disk
  <2>1. WellTyped(db)
    BY <1>1, InUseTypes
  <2>2. PICK seq : seq = db.seq + 1
    OBVIOUS
  <2>3. seq \in Nat
    BY <2>1, <2>2 DEF WellTyped, Table
  <2>4. t = [db EXCEPT !.rows = rows, !.seq = seq]
    BY <1>3, <2>2
  <2>5. QED
    BY <1>4, <2>1, <2>3, <2>4 DEF WellTyped, Table, Finite, SameNames, SameVolumes
<1>6. CASE db.logOn \in Usable(db)
  <2>1. PICK log : log = db.disk[db.logOn].log \cup {n}
    OBVIOUS
  <2>2. PICK d : d = [db.disk EXCEPT ![db.logOn].log = log]
    OBVIOUS
  <2>3. log \in SUBSET Row /\ IsFiniteSet(log)
    BY <1>1, <2>1, InUseTypes, FS_AddElement DEF WellTyped, Table, Finite, Disk
  <2>4. /\ d \in [Volume -> Disk]
        /\ \A v \in Volume : /\ d[v].has = db.disk[v].has /\ d[v].segs = db.disk[v].segs
                             /\ d[v].log = IF v = db.logOn THEN log ELSE db.disk[v].log
    BY <1>1, <2>2, <2>3, InUseTypes DEF WellTyped, Table, Disk
  <2>5. db' = [t EXCEPT !.disk = d] /\ wait' = wait
    BY <1>1, <1>4, <1>5, <1>6, <2>1, <2>2 DEF WellTyped, Table
  <2>6. /\ db' \in Table /\ db'.ok \subseteq db'.online /\ SameNames(db', db) /\ SameVolumes(db', db)
        /\ db'.validate = db.validate /\ db'.rows = rows /\ db'.open = db.open
        /\ db'.openOn = db.openOn /\ db'.logOn = db.logOn /\ db'.disk = d
    BY <1>5, <2>4, <2>5 DEF WellTyped, Table, SameNames, SameVolumes
  <2>7. WellTyped(db)'
    BY <2>3, <2>4, <2>6, InUseTypes, <1>1 DEF WellTyped, Finite
  <2>8. db.logOn \in db.ok /\ wait' \in {"none", "locked", "unlocked"}
    BY <1>1, <1>6, <2>5, InUseTypes
  <2>9. Named(db)' /\ Mounted(db)' /\ InUse(db)' /\ Waiting(db)'
    BY <1>1, <1>2, <2>1, <2>4, <2>5, <2>6, InUseTypes
    DEF Sound, Firm, Named, Mounted, InUse, Waiting, SameNames, SameVolumes
  <2>10. CopyRight(db)'
    BY <1>1, <2>4, <2>5, <2>6, InUseTypes, WorkType
    DEF Sound, Firm, CopyRight, WorkingOn, SameNames, SameVolumes, Backup
  <2>11. MergeRight(db)'
    BY <1>1, <2>4, <2>5, <2>6, InUseTypes, WorkType
    DEF Sound, Firm, MergeRight, WorkingOn, SameNames, SameVolumes, Merge, Merged
  <2>12. Held(db)'
    <3>1. owed' = owed \cup {n} /\ db.primary \in db'.ok /\ db'.primary = db.primary
          /\ ~db'.primaryLost /\ db'.disk[db.primary].segs = db.disk[db.primary].segs
      BY <1>1, <2>4, <2>5, <2>6, <2>8, InUseTypes DEF SameNames, SameVolumes
    <3>2. QED
      BY <1>1, <1>2, <2>5, <2>6, <2>8, <3>1, InUseTypes
      DEF Sound, Firm, Held, Overwriting, SameVolumes
  <2>13. Mirrored(db)'
    BY <1>1, <2>4, <2>5, <2>6, InUseTypes DEF Sound, Mirrored, SameNames, SameVolumes
  <2>14. Sound(db)'
    BY <2>9, <2>10, <2>11, <2>12, <2>13 DEF Sound, Firm
  <2>15. QED
    BY <1>1, <1>4, <2>7, <2>8, <2>14, InUseTypes, Alive
<1>7. CASE db.logOn \notin Usable(db)
  <2>1. RecoveryRestore(t, TRUE) /\ db.primary \notin db.ok
    BY <1>1, <1>4, <1>7, InUseTypes
  <2>2. owed \subseteq db.rows \cup Replaced(db)
    BY <1>1, <2>1, InUseTypes DEF Sound, Firm, Held
  <2>3. /\ WellTyped(db)'
        /\ \/ /\ t.backupLost \/ (hk = Ready /\ t.backup \notin t.ok)
              /\ wait' = wait /\ GivenUp(db', t)
           \/ /\ ~t.backupLost /\ hk = Ready /\ t.backup \in t.ok
              /\ wait' = wait /\ Restored(db', t, t.backup)
    BY <1>1, <1>5, <2>1, InUseTypes, RecoveryRestoreDoes DEF SameNames
  <2>4. t.logOn \in Volume /\ t.disk[t.logOn].has /\ wait' # "locked" /\ hk \in Work
    BY <1>1, <1>5, <2>3, InUseTypes DEF Sound, Firm, Named
  <2>5. CASE GivenUp(db', t) /\ (t.backupLost \/ t.backup \notin t.ok)
    <3>1. owed' \subseteq t.rows
      BY <1>1, <1>2, <1>5, <2>2, <2>5 DEF GivenUp, Replaced, SameNames, SameVolumes
    <3>2. CopyRight(t)
      BY <1>1, <1>5, InUseTypes DEF Sound, Firm, CopyRight, WorkingOn, SameNames
    <3>3. Sound(db)'
      BY <1>1, <1>5, <2>3, <2>4, <2>5, <3>1, <3>2, GivenUpKeeps
    <3>4. QED
      BY <1>1, <1>4, <2>1, <2>3, <3>3, InUseTypes, RestoreWaitType, Alive
  <2>6. CASE ~t.backupLost /\ hk = Ready /\ t.backup \in t.ok /\ Restored(db', t, t.backup)
    <3>1. t.backup = db.backup /\ db.backup \in Volume /\ t.disk[t.backup].has
      BY <1>5, <2>6, InUseTypes, <1>1 DEF SameNames, Sound, Firm, Named
    <3>2. owed' \subseteq t.rows \cup RowsOf(t.disk[t.backup].segs)
      BY <1>1, <1>2, <1>5, <2>2, <2>6, <3>1 DEF Replaced, SameVolumes, SameNames
    <3>3. PICK v : v = t.backup
      OBVIOUS
    <3>4. Sound(db)'
      BY <1>1, <1>5, <2>3, <2>4, <2>6, <3>1, <3>2, <3>3, RestoredKeeps
    <3>5. QED
      BY <1>1, <1>4, <2>1, <2>3, <3>4, InUseTypes, RestoreWaitType, Alive
  <2>7. QED
    BY <2>3, <2>5, <2>6
<1>8. QED
  BY <1>6, <1>7

LEMMA GetDataFailsKeeps ==
    ASSUME NoWindow, VInv, GetDataFails
    PROVE  VInv'
<1>1. /\ up /\ up' = up /\ ~db.primaryLost /\ db.openOn = db.primary /\ ~Behind(db.openOn)
      /\ RecoveryRestore(db, TRUE)
      /\ hk' = hk /\ copies' = copies /\ readers' = readers /\ owed' = owed
  BY DEF GetDataFails, ReadFails, Working, LockFree, NoWindow
<1>2. faults' \in 0..MaxFaults
  BY <1>1, InUseTypes, FaultType DEF GetDataFails, ReadFails
<1>3. \/ db.primary \notin db.ok
      \/ ~db.backupLost /\ db.backup \in db.ok /\ db.open \subseteq db.disk[db.backup].segs
  BY <1>1, InUseTypes DEF Behind, InGoodStanding
<1>4. ~db.backupLost => db.backup \in db.online
  BY <1>1, InUseTypes DEF Sound, Mounted
<1>5. WellTyped(db)' /\ Sound(db)'
  BY <1>1, <1>3, <1>4, InUseTypes, RecoveryRestoreKeeps DEF Sound
<1>6. QED
  BY <1>1, <1>2, <1>5, InUseTypes, RestoreWaitType, Alive

LEMMA GetRowsFailsKeeps ==
    ASSUME VInv, NEW r \in Reader, GetRowsFails(r)
    PROVE  VInv'
<1>1. /\ up /\ ~db.primaryLost /\ readers' = [readers EXCEPT ![r] = db.openOn]
      /\ UNCHANGED <<up, db, hk, copies, wait, owed>>
  BY DEF GetRowsFails, Working, LockFree
<1>2. faults' \in 0..MaxFaults
  BY <1>1, InUseTypes, FaultType DEF GetRowsFails, ReadFails
<1>3. readers' \in [Reader -> Volume \cup {None}]
  BY <1>1, InUseTypes
<1>4. WellTyped(db)'
  BY <1>1, InUseTypes DEF WellTyped, Finite
<1>5. Sound(db)'
  BY <1>1, InUseTypes
  DEF Sound, Firm, Named, Mounted, InUse, Waiting, CopyRight, MergeRight, WorkingOn, Merged, Held,
      Replaced, Overwriting, Mirrored
<1>6. QED
  BY <1>1, <1>2, <1>3, <1>4, <1>5, InUseTypes, Alive

LEMMA GetRowsRecoversKeeps ==
    ASSUME NoWindow, VInv, NEW r \in Reader, GetRowsRecovers(r)
    PROVE  VInv'
<1>1. /\ up /\ up' = up /\ readers[r] # None /\ readers[r] = db.primary /\ ~Behind(readers[r])
      /\ RecoveryRestore(db, FALSE) /\ readers' = [readers EXCEPT ![r] = None]
      /\ hk' = hk /\ copies' = copies /\ owed' = owed /\ faults' = faults
  BY DEF GetRowsRecovers, LockFree, NoWindow
<1>2. ~db.primaryLost
  BY <1>1, InUseTypes DEF Sound, Firm, Named
<1>3. \/ db.primary \notin db.ok
      \/ ~db.backupLost /\ db.backup \in db.ok /\ db.open \subseteq db.disk[db.backup].segs
  BY <1>1, <1>2, InUseTypes DEF Behind, InGoodStanding
<1>4. ~db.backupLost => db.backup \in db.online
  BY <1>1, InUseTypes DEF Sound, Mounted
<1>5. WellTyped(db)' /\ Sound(db)'
  BY <1>1, <1>2, <1>3, <1>4, InUseTypes, RecoveryRestoreKeeps DEF Sound
<1>6. readers' \in [Reader -> Volume \cup {None}]
  BY <1>1, InUseTypes
<1>7. QED
  BY <1>1, <1>5, <1>6, InUseTypes, RestoreWaitType, Alive

(* The thread that has waited opens the volume that was the backup, which  *)
(* had the rows when it began to wait and from which nothing was deleted.  *)
LEMMA ContinueRestoreKeeps ==
    ASSUME VInv, up, ContinueRestore
    PROVE  VInv'
<1>1. /\ wait # "none" /\ hk = Ready /\ wait' = "none" /\ db.backupLost
      /\ up' = up /\ hk' = hk /\ copies' = copies /\ readers' = readers /\ owed' = owed
      /\ faults' = faults
  BY InUseTypes DEF ContinueRestore
<1>2. PICK p : p = RestoreTo(db)
  OBVIOUS
<1>3. db' = p
  BY <1>2 DEF ContinueRestore
<1>4. /\ WellTyped(p)
      /\ db.primary \in db.ok => Restored(p, db, db.primary)
      /\ db.primary \notin db.ok => GivenUp(p, db)
  BY <1>2, InUseTypes, RestoreToDoes DEF Sound, Firm, Named
<1>5. WellTyped(db)'
  BY <1>3, <1>4 DEF WellTyped, Finite
<1>6. db.disk[db.logOn].has /\ CopyRight(db)
  BY InUseTypes DEF Sound, Firm, Named
<1>7. CASE db.primary \in db.ok
  <2>1. ~db.primaryLost /\ db.disk[db.primary].has
    BY <1>7, InUseTypes DEF Sound, Firm, Named, WellTyped, Table, Volume, None
  <2>2. owed' \subseteq db.rows \cup RowsOf(db.disk[db.primary].segs)
    BY <1>1, <1>7, <2>1, InUseTypes DEF Sound, Firm, Held, Overwriting, Ready
  <2>3. PICK v : v = db.primary
    OBVIOUS
  <2>4. Sound(db)'
    BY <1>1, <1>3, <1>4, <1>5, <1>6, <1>7, <2>1, <2>2, <2>3, InUseTypes, RestoredKeeps
  <2>5. QED
    BY <1>1, <1>5, <2>4, InUseTypes, Alive
<1>8. CASE db.primary \notin db.ok
  <2>1. owed' \subseteq db.rows
    BY <1>1, <1>8, InUseTypes DEF Sound, Firm, Held, Replaced
  <2>2. Sound(db)'
    BY <1>1, <1>3, <1>4, <1>5, <1>6, <1>8, <2>1, InUseTypes, GivenUpKeeps
  <2>3. QED
    BY <1>1, <1>5, <2>2, InUseTypes, Alive
<1>9. QED
  BY <1>7, <1>8

(* Segments are added, to any volumes. *)
Grown(p, t) ==
    /\ SameNames(p, t) /\ p.validate = t.validate /\ SameRows(p, t) /\ SameVolumes(p, t)
    /\ \A v \in Volume : /\ p.disk[v].has = t.disk[v].has /\ p.disk[v].log = t.disk[v].log
                         /\ t.disk[v].segs \subseteq p.disk[v].segs

LEMMA GrownKeeps ==
    ASSUME VInv, up, Grown(db', db), wait' = wait, owed' = owed, 
           hk.type = "backup" => hk'.type = "backup" /\ hk'.from = hk.from
    PROVE  /\ Named(db)' /\ Mounted(db)' /\ InUse(db)' /\ Waiting(db)' /\ Held(db)'
           /\ copies' = copies => Mirrored(db)'
<1>1. Named(db)' /\ Mounted(db)' /\ InUse(db)' /\ Waiting(db)'
  BY InUseTypes
  DEF Grown, Sound, Firm, Named, Mounted, InUse, Waiting, SameNames, SameRows, SameVolumes
<1>2. Held(db)'
  <2>1. \A v \in Volume : RowsOf(db.disk[v].segs) \subseteq RowsOf(db'.disk[v].segs)
    BY RowsOfSubset DEF Grown
  <2>2. Replaced(db) \subseteq Replaced(db')
    BY <2>1, InUseTypes DEF Grown, Replaced, SameNames, SameVolumes
  <2>3. /\ ~Overwriting(db)' => ~Overwriting(db)
        /\ Replaced(db)' = Replaced(db')
    BY DEF Overwriting, Grown, SameVolumes, Replaced
  <2>4. Held(db)
    BY InUseTypes DEF Sound, Firm
  <2>5. /\ db'.primary = db.primary /\ db'.primaryLost = db.primaryLost
        /\ db'.rows = db.rows /\ db'.open = db.open /\ db'.ok = db.ok
        /\ ~db.primaryLost => db.primary \in Volume
    BY InUseTypes DEF Grown, SameNames, SameRows, SameVolumes
  <2>6. QED
    BY <2>1, <2>2, <2>3, <2>4, <2>5 DEF Held
<1>3. ASSUME copies' = copies PROVE Mirrored(db)'
  BY <1>3, InUseTypes DEF Grown, Sound, Mirrored, SameNames, SameRows, SameVolumes
<1>4. QED
  BY <1>1, <1>2, <1>3

LEMMA AddSegmentDoes ==
    ASSUME NEW t, WellTyped(t), NEW v \in Volume, NEW s \in Segment,
           NEW p, p = [t EXCEPT !.disk[v].segs = @ \cup {s}]
    PROVE  WellTyped(p) /\ Grown(p, t) /\ s \in p.disk[v].segs
<1>1. PICK segs : segs = t.disk[v].segs \cup {s}
  OBVIOUS
<1>2. segs \in SUBSET Segment /\ IsFiniteSet(segs)
  BY <1>1, FS_AddElement DEF WellTyped, Table, Disk, Finite
<1>3. PICK d : d = [t.disk EXCEPT ![v].segs = segs]
  OBVIOUS
<1>4. /\ d \in [Volume -> Disk]
      /\ \A w \in Volume : /\ d[w].has = t.disk[w].has /\ d[w].log = t.disk[w].log
                           /\ d[w].segs = IF w = v THEN segs ELSE t.disk[w].segs
  BY <1>2, <1>3 DEF WellTyped, Table, Disk
<1>5. p = [t EXCEPT !.disk = d]
  BY <1>1, <1>3 DEF WellTyped, Table
<1>6. /\ p \in Table /\ p.ok \subseteq p.online /\ SameNames(p, t) /\ p.validate = t.validate
      /\ SameRows(p, t) /\ SameVolumes(p, t) /\ p.disk = d
  BY <1>4, <1>5 DEF WellTyped, Table, SameNames, SameRows, SameVolumes
<1>7. Finite(p)
  BY <1>2, <1>4, <1>6 DEF WellTyped, Finite
<1>8. Grown(p, t) /\ s \in p.disk[v].segs
  BY <1>1, <1>4, <1>6 DEF Grown
<1>9. QED
  BY <1>6, <1>7, <1>8 DEF WellTyped

LEMMA CopyToBackupKeeps ==
    ASSUME VInv, NEW c \in copies, CopyToBackup(c)
    PROVE  VInv'
<1>1. /\ up /\ copies' = copies \ {c}
      /\ UNCHANGED <<up, hk, readers, wait, owed, faults>>
      /\ c.from \in Volume /\ c.to \in Volume /\ c.seg \in Segment
  BY InUseTypes DEF CopyToBackup, Copies
<1>2. CASE {c.from, c.to} \subseteq Usable(db) /\ db.disk[c.to].has
  <2>1. PICK p : p = [db EXCEPT !.disk[c.to].segs = @ \cup {c.seg}]
    OBVIOUS
  <2>2. WellTyped(p) /\ Grown(p, db) /\ c.seg \in p.disk[c.to].segs
    BY <1>1, <2>1, InUseTypes, AddSegmentDoes
  <2>3. db' = p
    BY <1>2, <2>1 DEF CopyToBackup
  <2>4. WellTyped(db)'
    BY <2>2, <2>3 DEF WellTyped, Finite
  <2>5. Named(db)' /\ Mounted(db)' /\ InUse(db)' /\ Waiting(db)' /\ Held(db)'
    BY <1>1, <2>2, <2>3, GrownKeeps
  <2>6. CopyRight(db)'
    BY <1>1, <2>2, <2>3, InUseTypes, WorkType
    DEF Sound, Firm, CopyRight, WorkingOn, Grown, SameNames, SameRows, Backup
  <2>7. MergeRight(db)'
    BY <1>1, <2>2, <2>3, InUseTypes, WorkType
    DEF Sound, Firm, MergeRight, WorkingOn, Grown, SameNames, SameRows, SameVolumes, Merge, Merged
  <2>8. Mirrored(db)'
    BY <1>1, <2>2, <2>3, InUseTypes
    DEF Sound, Mirrored, Grown, SameNames, SameRows, SameVolumes
  <2>9. Sound(db)'
    BY <2>5, <2>6, <2>7, <2>8 DEF Sound, Firm
  <2>10. QED
    BY <1>1, <2>4, <2>9, InUseTypes, Alive
<1>3. CASE ~({c.from, c.to} \subseteq Usable(db) /\ db.disk[c.to].has)
  <2>1. db' = db
    BY <1>3 DEF CopyToBackup
  <2>2. WellTyped(db)'
    BY <1>1, <2>1, InUseTypes DEF WellTyped, Finite
  <2>3. Firm(db)' /\ Mounted(db)'
    BY <1>1, <2>1, InUseTypes
    DEF Sound, Firm, Named, Mounted, InUse, Waiting, CopyRight, MergeRight, WorkingOn, Merged, Held,
        Replaced, Overwriting
  <2>4. Mirrored(db)'
    BY <1>1, <1>3, <2>1, InUseTypes DEF Sound, Firm, Named, Mirrored
  <2>5. Sound(db)'
    BY <2>3, <2>4 DEF Sound
  <2>6. QED
    BY <1>1, <2>2, <2>5, InUseTypes, Alive
<1>4. QED
  BY <1>2, <1>3

(* The rows that are lost with the volume are no longer owed. *)
LEMMA FailVolumeKeeps ==
    ASSUME VInv, NEW v \in Volume, FailVolume(v)
    PROVE  VInv'
<1>1. /\ up /\ UNCHANGED <<up, hk, copies, readers, wait>>
      /\ owed' = owed \cap (db.rows \cup Kept(db')) /\ Fault
  BY DEF FailVolume
<1>2. PICK ok : ok = db.ok \ {v}
  OBVIOUS
<1>3. db' = [db EXCEPT !.ok = ok]
  BY <1>2 DEF FailVolume
<1>4. /\ db' \in Table /\ db'.ok \subseteq db'.online /\ db'.ok = ok /\ db'.online = db.online
      /\ db'.disk = db.disk /\ SameNames(db', db) /\ SameRows(db', db) /\ db'.validate = db.validate
  BY <1>1, <1>2, <1>3, InUseTypes DEF WellTyped, Table, SameNames, SameRows
<1>5. WellTyped(db)'
  BY <1>1, <1>4, InUseTypes DEF WellTyped, Finite
<1>6. Named(db)' /\ Mounted(db)' /\ InUse(db)' /\ Waiting(db)' /\ Mirrored(db)'
  BY <1>1, <1>2, <1>4, InUseTypes
  DEF Sound, Firm, Named, Mounted, InUse, Waiting, Mirrored, SameNames, SameRows
<1>7. CopyRight(db)' /\ MergeRight(db)'
  BY <1>1, <1>2, <1>4, InUseTypes
  DEF Sound, Firm, CopyRight, MergeRight, WorkingOn, Merged, SameNames, SameRows
<1>8. Held(db)'
  <2>1. CASE db.primaryLost
    BY <1>1, <1>4, <2>1, InUseTypes DEF Sound, Firm, Held, SameNames, SameRows
  <2>2. CASE ~db.primaryLost
    <3>1. owed' \subseteq db'.rows \cup RowsOf(db'.open)
      BY <1>1, <1>4, <2>2, InUseTypes DEF Sound, Firm, Held, SameRows
    <3>2. ASSUME db'.primary \notin db'.ok PROVE owed' \subseteq db'.rows \cup Replaced(db)'
      BY <1>1, <1>4, <3>2 DEF Kept, Replaced, SameNames, SameRows
    <3>3. ASSUME db'.primary \in db'.ok
          PROVE  owed' \subseteq db'.rows \cup RowsOf(db'.disk[db'.primary].segs)
      BY <1>1, <1>4, <3>3 DEF Kept, SameNames, SameRows
    <3>4. QED
      BY <1>4, <2>2, <3>1, <3>2, <3>3 DEF Held, SameNames
  <2>3. QED
    BY <2>1, <2>2
<1>9. Sound(db)'
  BY <1>6, <1>7, <1>8 DEF Sound, Firm
<1>10. QED
  BY <1>1, <1>5, <1>9, InUseTypes, FaultType, Alive

(* What it begins is on the primary volume and, unless that is marked as   *)
(* lost, the backup volume.                                                *)
LEMMA HousekeepingKeeps ==
    ASSUME NoWindow, VInv, Housekeeping
    PROVE  VInv'
<1>1. up /\ ~db.primaryLost /\ hk = Ready /\ wait = "none" /\ UNCHANGED <<up, readers, owed, faults>>
  BY DEF Housekeeping, Working, LockFree
<1>2. PICK t : /\ t = db \/ (~db.backupNeeded /\ db.backup # None /\ t = Validated(db))
               /\ IF t.backupNeeded
                  THEN hk' = BackupBegun(t) /\ db' = t /\ UNCHANGED <<copies, wait>>
                  ELSE \/ db' = t /\ UNCHANGED <<hk, copies, wait>>
                       \/ t.rows # {} /\ Save(t) /\ UNCHANGED hk
                       \/ /\ \E a, b \in t.open : BeginMerge(t, a, b)
                          /\ db' = t
                          /\ UNCHANGED <<copies, wait>>
  <2>1. PICK check \in BOOLEAN :
         LET may == ~db.backupNeeded /\ db.backup # None
             t == IF may /\ check THEN Validated(db) ELSE db
         IN  /\ may /\ db.validate => check
             /\ IF t.backupNeeded
                THEN hk' = BackupBegun(t) /\ db' = t /\ UNCHANGED <<copies, wait>>
                ELSE \/ db' = t /\ UNCHANGED <<hk, copies, wait>>
                     \/ t.rows # {} /\ Save(t) /\ UNCHANGED hk
                     \/ /\ \E a, b \in t.open : BeginMerge(t, a, b)
                        /\ db' = t
                        /\ UNCHANGED <<copies, wait>>
    BY DEF Housekeeping
  <2>2. PICK t : t = IF ~db.backupNeeded /\ db.backup # None /\ check THEN Validated(db) ELSE db
    OBVIOUS
  <2>3. QED
    BY <2>1, <2>2
<1>3. WellTyped(t) /\ Sound(t) /\ ~t.primaryLost
  BY <1>1, <1>2, InUseTypes, ValidatedKeeps
<1>4. ASSUME db' = t PROVE WellTyped(db)'
  BY <1>3, <1>4 DEF WellTyped, Finite
<1>5. ASSUME db' = t, wait' = wait, copies' = copies
      PROVE  Named(db)' /\ Mounted(db)' /\ InUse(db)' /\ Waiting(db)' /\ Held(db)' /\ Mirrored(db)'
  BY <1>1, <1>3, <1>5
  DEF Sound, Firm, Named, Mounted, InUse, Waiting, Held, Replaced, Mirrored
<1>6. /\ t.primary \in Volume /\ t.primary = t.openOn
      /\ t.open \subseteq t.disk[t.primary].segs /\ t.open \subseteq Segment
      /\ ~t.backupLost \/ t.backupNeeded => t.backup \in Volume /\ t.backup # t.primary
  BY <1>1, <1>3 DEF Sound, Firm, Named, InUse, Waiting, WellTyped, Table
<1>7. CASE t.backupNeeded
  <2>1. hk' = BackupBegun(t) /\ db' = t /\ UNCHANGED <<copies, wait>>
    BY <1>2, <1>7
  <2>2. hk' \in Work
    BY <1>6, <1>7, <2>1 DEF BackupBegun, Work, Backup
  <2>3. CopyRight(db)' /\ MergeRight(db)'
    BY <1>1, <1>6, <1>7, <2>1 DEF CopyRight, MergeRight, WorkingOn, BackupBegun
  <2>4. Sound(db)'
    BY <1>5, <2>1, <2>3 DEF Sound, Firm
  <2>5. QED
    BY <1>1, <1>4, <2>1, <2>2, <2>4, InUseTypes, Alive
<1>8. CASE db' = t /\ UNCHANGED <<hk, copies, wait>>
  <2>1. CopyRight(db)' /\ MergeRight(db)'
    BY <1>1, <1>8 DEF CopyRight, MergeRight, Ready
  <2>2. Sound(db)'
    BY <1>5, <1>8, <2>1 DEF Sound, Firm
  <2>3. QED
    BY <1>1, <1>4, <1>8, <2>2, InUseTypes, Alive
<1>9. CASE Save(t) /\ UNCHANGED hk
  <2>1. WellTyped(db)' /\ Sound(db)' /\ copies' \in SUBSET Copies
    BY <1>1, <1>3, <1>9, InUseTypes, SaveKeeps
  <2>2. wait' \in {"none", "locked", "unlocked"}
    BY <1>1, <1>9, RestoreWaitType DEF Save
  <2>3. hk' \in Work /\ up' = TRUE
    BY <1>1, <1>9, InUseTypes DEF VInv, TypeInv
  <2>4. QED
    BY <1>1, <2>1, <2>2, <2>3, InUseTypes, Alive
<1>10. CASE /\ \E a, b \in t.open : BeginMerge(t, a, b)
            /\ db' = t
            /\ UNCHANGED <<copies, wait>>
  <2>1. PICK a, b \in t.open : BeginMerge(t, a, b)
    BY <1>10
  <2>2. PICK to : to = IF t.backupLost THEN None ELSE t.backup
    OBVIOUS
  <2>3. hk' = [type |-> "merge", newer |-> a, older |-> b, on |-> t.primary, to |-> to,
               made |-> FALSE, failed |-> FALSE]
    BY <2>1, <2>2 DEF BeginMerge
  <2>4. hk' \in Work
    BY <1>6, <2>1, <2>2, <2>3 DEF Work, Merge
  <2>5. CopyRight(db)' /\ MergeRight(db)'
    BY <1>1, <1>6, <1>10, <2>2, <2>3 DEF CopyRight, MergeRight, WorkingOn
  <2>6. Sound(db)'
    BY <1>5, <1>10, <2>5 DEF Sound, Firm
  <2>7. QED
    BY <1>1, <1>4, <1>10, <2>4, <2>6, InUseTypes, Alive
<1>11. QED
  BY <1>2, <1>7, <1>8, <1>9, <1>10

LEMMA CopyDescKeeps ==
    ASSUME VInv, CopyDesc
    PROVE  VInv'
<1>1. /\ up /\ hk.type = "backup" /\ hk \in Backup /\ BackupUsable
      /\ UNCHANGED <<up, copies, readers, wait, owed, faults>>
      /\ hk' = [hk EXCEPT !.wiped = TRUE, !.left = db.disk[hk.from].segs]
      /\ hk.from \in Volume /\ hk.to \in Volume /\ hk.from # hk.to
      /\ hk.from \in db.ok /\ hk.to \in db.ok
  BY InUseTypes, WorkType
  DEF CopyDesc, BackingUp, BackupUsable, Backup, Sound, Firm, CopyRight, Usable
<1>2. PICK log : log = IF hk.to = db.logOn THEN db.disk[hk.to].log ELSE {}
  OBVIOUS
<1>3. PICK new : new = [has |-> TRUE, segs |-> {}, backup |-> db.disk[hk.from].backup, log |-> log]
  OBVIOUS
<1>4. log \in SUBSET Row /\ IsFiniteSet(log) /\ new \in Disk
  BY <1>1, <1>2, <1>3, InUseTypes, FS_EmptySet DEF WellTyped, Table, Disk, Finite
<1>5. PICK d : d = [db.disk EXCEPT ![hk.to] = new]
  OBVIOUS
<1>6. /\ d \in [Volume -> Disk]
      /\ \A v \in Volume : d[v] = IF v = hk.to THEN new ELSE db.disk[v]
  BY <1>1, <1>4, <1>5, InUseTypes DEF WellTyped, Table
<1>7. db' = [db EXCEPT !.disk = d]
  BY <1>1, <1>2, <1>3, <1>5 DEF CopyDesc
<1>8. /\ db' \in Table /\ db'.ok \subseteq db'.online /\ SameNames(db', db) /\ db'.validate = db.validate
      /\ SameRows(db', db) /\ SameVolumes(db', db) /\ db'.disk = d
  BY <1>1, <1>6, <1>7, InUseTypes DEF WellTyped, Table, SameNames, SameRows, SameVolumes
<1>9. WellTyped(db)'
  <2>1. \A v \in Volume : IsFiniteSet(db.disk[v].segs) /\ IsFiniteSet(db.disk[v].log)
    BY <1>1, InUseTypes DEF WellTyped, Finite
  <2>2. new.segs = {} /\ new.log = log
    BY <1>3
  <2>3. \A v \in Volume : IsFiniteSet(d[v].segs) /\ IsFiniteSet(d[v].log)
    BY <1>4, <1>6, <2>1, <2>2, FS_EmptySet
  <2>4. QED
    BY <1>8, <2>3 DEF WellTyped, Finite
<1>10. /\ hk' \in Backup /\ hk'.type = "backup" /\ hk'.from = hk.from /\ hk'.to = hk.to
       /\ hk'.left = db.disk[hk.from].segs
  BY <1>1, InUseTypes DEF Backup, WellTyped, Table, Disk
<1>11. ~db.primaryLost => db.openOn = hk.from
  BY <1>1, InUseTypes DEF Sound, Firm, CopyRight, WorkingOn
<1>12. Named(db)' /\ Mounted(db)'
  BY <1>1, <1>3, <1>6, <1>8, InUseTypes
  DEF Sound, Firm, Named, Mounted, SameNames, SameRows, SameVolumes
<1>13. InUse(db)' /\ Waiting(db)'
  BY <1>1, <1>2, <1>3, <1>6, <1>8, <1>11, InUseTypes
  DEF Sound, Firm, InUse, Waiting, SameNames, SameRows
<1>14. CopyRight(db)'
  BY <1>1, <1>3, <1>6, <1>8, <1>10, InUseTypes
  DEF Sound, Firm, CopyRight, WorkingOn, SameNames, SameRows
<1>15. MergeRight(db)'
  BY <1>10 DEF MergeRight
<1>16. Held(db)'
  <2>1. Overwriting(db)'
    BY <1>1, <1>8, <1>10 DEF Overwriting, SameVolumes
  <2>2. ~db.backupLost => db.primary = hk.from
    BY <1>11, InUseTypes, <1>1
  <2>3. Replaced(db)' = {} \/ db.primary = hk.from
    BY <1>8, <2>2 DEF Replaced, SameNames
  <2>4. Held(db) /\ (db.backupLost => Replaced(db) = {})
    BY <1>1, InUseTypes DEF Sound, Firm, Replaced
  <2>5. QED
    BY <1>1, <1>8, <2>1, <2>2, <2>3, <2>4 DEF Held, SameNames, SameRows, SameVolumes
<1>17. Mirrored(db)'
  BY <1>1, <1>8, InUseTypes DEF Sound, Firm, CopyRight, Mirrored, SameNames
<1>18. Sound(db)'
  BY <1>12, <1>13, <1>14, <1>15, <1>16, <1>17 DEF Sound, Firm
<1>19. QED
  BY <1>1, <1>9, <1>10, <1>18, InUseTypes, Alive DEF Work

LEMMA CopySegmentKeeps ==
    ASSUME VInv, BackingUp, NEW s \in hk.left, CopySegment(s)
    PROVE  VInv'
<1>1. /\ up /\ hk.type = "backup" /\ hk \in Backup
      /\ UNCHANGED <<up, copies, readers, wait, owed, faults>>
      /\ hk' = [hk EXCEPT !.left = @ \ {s}]
      /\ hk.to \in Volume /\ s \in Segment
  BY InUseTypes, WorkType DEF BackingUp, CopySegment, Backup
<1>2. PICK p : p = [db EXCEPT !.disk[hk.to].segs = @ \cup {s}]
  OBVIOUS
<1>3. db' = p /\ WellTyped(p) /\ Grown(p, db) /\ s \in p.disk[hk.to].segs
  BY <1>1, <1>2, InUseTypes, AddSegmentDoes DEF CopySegment
<1>4. WellTyped(db)'
  BY <1>3 DEF WellTyped, Finite
<1>5. /\ hk' \in Backup /\ hk'.type = "backup" /\ hk'.from = hk.from /\ hk'.to = hk.to
      /\ hk'.left = hk.left \ {s} /\ hk'.wiped = hk.wiped
  BY <1>1 DEF Backup
<1>6. Named(db)' /\ Mounted(db)' /\ InUse(db)' /\ Waiting(db)' /\ Held(db)' /\ Mirrored(db)'
  BY <1>1, <1>3, <1>5, GrownKeeps
<1>7. CopyRight(db)'
  <2>1. CopyRight(db) /\ hk.from \in Volume
    BY <1>1, InUseTypes DEF Sound, Firm, Backup
  <2>2. /\ \A v \in Volume : db.disk[v].segs \subseteq db'.disk[v].segs /\ db'.disk[v].has = db.disk[v].has
        /\ SameNames(db', db) /\ SameRows(db', db)
    BY <1>3 DEF Grown
  <2>3. QED
    BY <1>1, <1>3, <1>5, <2>1, <2>2 DEF CopyRight, WorkingOn, SameNames, SameRows
<1>8. MergeRight(db)'
  BY <1>5 DEF MergeRight
<1>9. Sound(db)'
  BY <1>6, <1>7, <1>8 DEF Sound, Firm
<1>10. QED
  BY <1>1, <1>4, <1>5, <1>9, InUseTypes, Alive DEF Work

(* The volume that a waiting thread is to open is the one that could not   *)
(* be copied to, or the one copied from is broken.                         *)
LEMMA CopyVolumeFailsKeeps ==
    ASSUME VInv, CopyVolumeFails
    PROVE  VInv'
<1>1. /\ up /\ hk.type = "backup" /\ hk \in Backup /\ hk' = Ready
      /\ UNCHANGED <<up, db, copies, readers, wait, owed, faults>>
      /\ hk.from \notin db.ok \/ hk.to \notin db.ok
  BY InUseTypes, WorkType DEF CopyVolumeFails, BackingUp, BackupUsable, Backup
<1>2. WellTyped(db)'
  BY <1>1, InUseTypes DEF WellTyped, Finite
<1>3. Named(db)' /\ Mounted(db)' /\ InUse(db)' /\ Waiting(db)' /\ Mirrored(db)'
  BY <1>1, InUseTypes DEF Sound, Firm, Named, Mounted, InUse, Waiting, Mirrored
<1>4. CopyRight(db)' /\ MergeRight(db)'
  BY <1>1 DEF CopyRight, MergeRight, Ready
<1>5. Held(db)'
  BY <1>1, InUseTypes DEF Sound, Firm, CopyRight, Held, Replaced, Overwriting
<1>6. Sound(db)'
  BY <1>3, <1>4, <1>5 DEF Sound, Firm
<1>7. QED
  BY <1>1, <1>2, <1>6, InUseTypes, Alive DEF Work

(* The volume that was copied to has every segment in use. *)
LEMMA EndBackupKeeps ==
    ASSUME NoWindow, VInv, EndBackup
    PROVE  VInv'
<1>1. /\ up /\ hk.type = "backup" /\ hk \in Backup /\ hk # Ready /\ hk.wiped /\ hk.left = {}
      /\ db.primary = hk.from /\ db.backup = hk.to
      /\ UNCHANGED <<up, copies, readers, owed, faults>>
      /\ hk.from \in Volume /\ hk.to \in Volume /\ hk.from # hk.to
      /\ ~db.primaryLost /\ wait = "none" /\ db.openOn = hk.from
      /\ db.disk[hk.to].has /\ db.open \subseteq db.disk[hk.to].segs
  <2>1. /\ up /\ hk.type = "backup" /\ hk \in Backup /\ hk # Ready /\ hk.wiped /\ hk.left = {}
        /\ db.primary = hk.from /\ db.backup = hk.to
        /\ UNCHANGED <<up, copies, readers, owed, faults>>
        /\ hk.from \in Volume /\ hk.to \in Volume
    BY InUseTypes, WorkType DEF EndBackup, BackingUp, NoWindow, Backup
  <2>2. CopyRight(db) /\ Named(db) /\ db.primary # None
    BY <2>1, InUseTypes DEF Sound, Firm, Volume, None
  <2>3. ~db.primaryLost
    BY <2>2 DEF Named
  <2>4. wait = "none"
    BY <2>1, <2>2, <2>3 DEF CopyRight
  <2>5. QED
    BY <2>1, <2>2, <2>3, <2>4, InUseTypes DEF CopyRight
<1>2. PICK t : t = BackedUp(db)
  OBVIOUS
<1>3. /\ WellTyped(t) /\ t.primary = db.primary /\ t.backup = db.backup /\ ~t.primaryLost
      /\ ~t.backupLost /\ ~t.backupNeeded /\ t.validate = db.validate
      /\ SameRows(t, db) /\ SameVolumes(t, db) /\ t.disk = db.disk
  BY <1>1, <1>2, InUseTypes DEF BackedUp, WellTyped, Table, Finite, SameRows, SameVolumes
<1>4. /\ db.primary \in db.ok
      /\ hk' = Ready /\ wait' = wait /\ db' = SaveDesc(t)
  BY <1>1, <1>2, <1>3, InUseTypes DEF EndBackup, RecoveryRestore, NoWindow
<1>5. PICK p : p = SaveDesc(t)
  OBVIOUS
<1>6. /\ db' = p /\ WellTyped(p)
      /\ t.backup \in t.ok => Described(p, t)
      /\ t.backup \notin t.ok => Planned(p, t)
  BY <1>3, <1>4, <1>5, SaveDescDoes DEF SameVolumes
<1>7. WellTyped(db)'
  BY <1>6 DEF WellTyped, Finite
<1>8. CopyRight(db)' /\ MergeRight(db)'
  BY <1>4 DEF CopyRight, MergeRight, Ready
<1>9. Named(db)' /\ InUse(db)' /\ Mounted(db)' /\ Waiting(db)' /\ Held(db)' /\ Mirrored(db)'
  <2>1. CASE t.backup \in t.ok
    <3>1. /\ db'.primary = db.primary /\ ~db'.primaryLost /\ db'.backup = db.backup
          /\ ~db'.backupLost /\ ~db'.backupNeeded
          /\ SameRows(db', db) /\ SameVolumes(db', db) /\ SameFiles(db', db)
      BY <1>3, <1>6, <2>1 DEF Described, SameNames, SameRows, SameVolumes, SameFiles
    <3>2. db.backup \in db'.online
      <4>1. t.backup \in t.online
        BY <1>3, <2>1 DEF WellTyped
      <4>2. QED
        BY <1>3, <3>1, <4>1 DEF SameVolumes
    <3>3. Named(db) /\ InUse(db) /\ Mounted(db) /\ Held(db) /\ db.logOn \in Volume
      BY <1>1, InUseTypes DEF Sound, Firm
    <3>4. Named(db)' /\ InUse(db)' /\ Mounted(db)' /\ Waiting(db)'
      BY <1>1, <1>4, <3>1, <3>2, <3>3
      DEF Named, InUse, Mounted, Waiting, SameRows, SameVolumes, SameFiles, Volume, None
    <3>5. Held(db)'
      BY <1>1, <1>4, <3>1, <3>3 DEF Held, SameRows, SameVolumes
    <3>6. Mirrored(db)'
      BY <1>1, <3>1 DEF Mirrored, SameRows, SameFiles
    <3>7. QED
      BY <3>4, <3>5, <3>6
  <2>2. CASE t.backup \notin t.ok
    <3>1. /\ db'.primary = db.primary /\ ~db'.primaryLost /\ db'.backupLost
          /\ db'.backup \in (db.online \ {db.primary}) \cup {None}
          /\ db'.backupNeeded <=> db'.backup # None
          /\ SameRows(db', db) /\ SameVolumes(db', db) /\ SameFiles(db', db)
      BY <1>3, <1>6, <2>2 DEF Planned, SameNames, SameRows, SameVolumes, SameFiles
    <3>2. QED
      BY <1>1, <1>4, <3>1, InUseTypes
      DEF Sound, Firm, Named, InUse, Mounted, Waiting, Held, Mirrored, SameRows, SameVolumes, SameFiles
  <2>3. QED
    BY <2>1, <2>2
<1>10. Sound(db)'
  BY <1>8, <1>9 DEF Sound, Firm
<1>11. QED
  BY <1>1, <1>4, <1>7, <1>10, InUseTypes, Alive DEF Work

LEMMA MergeSegmentsKeeps ==
    ASSUME VInv, MergeSegments
    PROVE  VInv'
<1>1. /\ up /\ hk.type = "merge" /\ hk \in Merge
      /\ UNCHANGED <<up, copies, readers, wait, owed, faults>>
      /\ hk.on \in Volume /\ hk.to \in Volume \cup {None}
  BY InUseTypes, WorkType DEF MergeSegments, Merging, Merge
<1>2. CASE hk.on \notin Usable(db)
  <2>1. hk' = Ready /\ db' = db
    BY <1>2 DEF MergeSegments
  <2>2. WellTyped(db)'
    BY <1>1, <2>1, InUseTypes DEF WellTyped, Finite
  <2>3. Named(db)' /\ Mounted(db)' /\ InUse(db)' /\ Waiting(db)' /\ Mirrored(db)'
    BY <1>1, <2>1, InUseTypes DEF Sound, Firm, Named, Mounted, InUse, Waiting, Mirrored
  <2>4. CopyRight(db)' /\ MergeRight(db)'
    BY <2>1 DEF CopyRight, MergeRight, Ready
  <2>5. Held(db)'
    BY <1>1, <2>1, InUseTypes DEF Sound, Firm, Held, Replaced, Overwriting
  <2>6. Sound(db)'
    BY <2>3, <2>4, <2>5 DEF Sound, Firm
  <2>7. QED
    BY <1>1, <2>1, <2>2, <2>6, InUseTypes, Alive DEF Work
<1>3. CASE hk.on \in Usable(db)
  <2>1. PICK copied \in BOOLEAN : copied = (~db.backupLost /\ hk.to \in Usable(db))
    OBVIOUS
  <2>2. PICK failed \in BOOLEAN : failed = (~db.backupLost /\ ~copied)
    OBVIOUS
  <2>3. PICK m \in Segment : m = Merged
    BY <1>1 DEF Merged, MergedSegment, Merge, Segment
  <2>4. PICK d : d = [v \in Volume |->
                        IF v = hk.on \/ ((~db.backupLost /\ hk.to \in Usable(db)) /\ v = hk.to)
                        THEN [db.disk[v] EXCEPT !.segs = db.disk[v].segs \cup {Merged}] ELSE db.disk[v]]
    OBVIOUS
  <2>5. hk' = [hk EXCEPT !.made = TRUE, !.failed = failed] /\ db' = [db EXCEPT !.disk = d]
    <3>1. hk' = [hk EXCEPT !.made = TRUE, !.failed = failed]
      BY <1>3, <2>1, <2>2 DEF MergeSegments
    <3>2. db' = [db EXCEPT !.disk = d]
      BY <1>3, <2>4 DEF MergeSegments
    <3>3. QED
      BY <3>1, <3>2
  <2>6. /\ hk' \in Merge /\ hk'.type = "merge" /\ hk'.on = hk.on /\ hk'.to = hk.to
        /\ hk'.newer = hk.newer /\ hk'.older = hk.older /\ hk'.made /\ hk'.failed = failed
    BY <1>1, <2>5 DEF Merge
  <2>7. Merged' = m
    BY <2>3, <2>6 DEF Merged
  <2>8. /\ d \in [Volume -> Disk]
        /\ \A v \in Volume : /\ d[v].has = db.disk[v].has /\ d[v].log = db.disk[v].log
                             /\ d[v].segs = IF v = hk.on \/ (copied /\ v = hk.to)
                                            THEN db.disk[v].segs \cup {m} ELSE db.disk[v].segs
    <3>1. \A v \in Volume : db.disk[v] \in Disk
      BY <1>1, InUseTypes DEF WellTyped, Table
    <3>2. QED
      BY <2>1, <2>3, <2>4, <3>1 DEF Disk
  <2>9. /\ db' \in Table /\ db'.ok \subseteq db'.online /\ SameNames(db', db)
        /\ db'.validate = db.validate /\ SameRows(db', db) /\ SameVolumes(db', db) /\ db'.disk = d
    BY <1>1, <2>5, <2>8, InUseTypes DEF WellTyped, Table, SameNames, SameRows, SameVolumes
  <2>10. WellTyped(db)'
    <3>1. \A v \in Volume : /\ IsFiniteSet(db.disk[v].segs) /\ IsFiniteSet(db.disk[v].log)
                            /\ IsFiniteSet(db.disk[v].segs \cup {m})
      BY <1>1, InUseTypes, FS_AddElement DEF WellTyped, Finite
    <3>2. QED
      BY <2>8, <2>9, <3>1 DEF WellTyped, Finite
  <2>11. Grown(db', db)
    BY <2>8, <2>9 DEF Grown
  <2>12. Named(db)' /\ Mounted(db)' /\ InUse(db)' /\ Waiting(db)' /\ Held(db)' /\ Mirrored(db)'
    BY <1>1, <2>11, GrownKeeps
  <2>13. CopyRight(db)'
    BY <2>6 DEF CopyRight
  <2>14. MergeRight(db)'
    <3>1. m \in db'.disk[hk.on].segs /\ (copied => m \in db'.disk[hk.to].segs)
      <4>1. copied => hk.to \in Volume
        BY <1>1, <2>1, InUseTypes DEF Usable, WellTyped, Table
      <4>2. QED
        BY <1>1, <2>8, <2>9, <4>1
    <3>2. failed /\ ~db.backupLost => hk.to \notin db'.ok
      <4>1. hk.to \in Usable(db) <=> hk.to \in db.ok
        BY <1>1, InUseTypes DEF Usable, WellTyped
      <4>2. QED
        BY <2>1, <2>2, <2>9, <4>1 DEF SameVolumes
    <3>3. MergeRight(db)
      BY <1>1, InUseTypes DEF Sound, Firm
    <3>4. QED
      BY <1>1, <2>1, <2>2, <2>6, <2>7, <2>9, <3>1, <3>2, <3>3
      DEF MergeRight, WorkingOn, SameNames, SameRows
  <2>15. Sound(db)'
    BY <2>12, <2>13, <2>14 DEF Sound, Firm
  <2>16. QED
    BY <1>1, <2>6, <2>10, <2>15, InUseTypes, Alive DEF Work
<1>4. QED
  BY <1>2, <1>3

(* The rows of the segments merged are in the merged one. *)
LEMMA MergedRows ==
    ASSUME NEW A, NEW a, NEW b
    PROVE  RowsOf(A) \subseteq RowsOf((A \ ({a, b} \ {MergedSegment(a, b)})) \cup {MergedSegment(a, b)})
<1>1. a.rows \subseteq MergedSegment(a, b).rows /\ b.rows \subseteq MergedSegment(a, b).rows
  BY DEF MergedSegment
<1>2. QED
  BY <1>1 DEF RowsOf

LEMMA EndMergeKeeps ==
    ASSUME VInv, EndMerge
    PROVE  VInv'
<1>1. /\ up /\ hk.type = "merge" /\ hk \in Merge /\ hk.made /\ hk' = Ready
      /\ UNCHANGED <<up, copies, readers, wait, owed, faults>>
      /\ hk.on \in Volume /\ hk.to \in Volume \cup {None}
  BY InUseTypes, WorkType DEF EndMerge, Merging, Merge
<1>2. PICK m \in Segment : m = Merged
  BY <1>1 DEF Merged, MergedSegment, Merge, Segment
<1>3. PICK old : old = {hk.newer, hk.older} \ {m}
  OBVIOUS
<1>4. PICK backups : backups = IF hk.failed \/ db.backupLost THEN {} ELSE {db.backup}
  OBVIOUS
<1>5. PICK d : d = [v \in Volume |->
                      IF v \in {hk.on} \cup (IF hk.failed \/ db.backupLost THEN {} ELSE {db.backup})
                      THEN [db.disk[v] EXCEPT !.segs = db.disk[v].segs \ ({hk.newer, hk.older} \ {Merged})]
                      ELSE db.disk[v]]
  OBVIOUS
<1>6. PICK open : open = (db.open \ ({hk.newer, hk.older} \ {Merged})) \cup {Merged}
  OBVIOUS
<1>7. db' = [db EXCEPT !.open = open, !.disk = d]
  BY <1>5, <1>6 DEF EndMerge
<1>8. /\ d \in [Volume -> Disk]
      /\ \A v \in Volume : /\ d[v].has = db.disk[v].has /\ d[v].log = db.disk[v].log
                           /\ d[v].segs = IF v \in {hk.on} \cup backups
                                          THEN db.disk[v].segs \ old ELSE db.disk[v].segs
  <2>1. \A v \in Volume : db.disk[v] \in Disk
    BY <1>1, InUseTypes DEF WellTyped, Table
  <2>2. QED
    BY <1>2, <1>3, <1>4, <1>5, <2>1 DEF Disk
<1>9. /\ db' \in Table /\ db'.ok \subseteq db'.online /\ SameNames(db', db)
      /\ db'.validate = db.validate /\ SameVolumes(db', db) /\ db'.disk = d
      /\ db'.rows = db.rows /\ db'.open = open /\ db'.openOn = db.openOn /\ db'.logOn = db.logOn
  <2>1. WellTyped(db)
    BY <1>1, InUseTypes
  <2>2. open \in SUBSET Segment
    BY <1>2, <1>6, <2>1 DEF WellTyped, Table
  <2>3. QED
    BY <1>7, <1>8, <2>1, <2>2 DEF WellTyped, Table, SameNames, SameVolumes
<1>10. WellTyped(db)'
  <2>1. \A v \in Volume : /\ IsFiniteSet(db.disk[v].segs) /\ IsFiniteSet(db.disk[v].log)
                          /\ IsFiniteSet(db.disk[v].segs \ old)
    BY <1>1, InUseTypes, FS_Subset DEF WellTyped, Finite
  <2>2. QED
    BY <1>8, <1>9, <2>1 DEF WellTyped, Finite
<1>11. /\ ~db.primaryLost => m \in db.disk[hk.on].segs /\ db.openOn = hk.on
       /\ ~db.primaryLost /\ wait # "none" => hk.on # db.primary
       /\ ~db.backupLost /\ db.backup \in db.ok => ~hk.failed /\ m \in db.disk[db.backup].segs
  BY <1>1, <1>2, InUseTypes DEF Sound, Firm, MergeRight, WorkingOn
<1>12. Named(db)' /\ Mounted(db)' /\ InUse(db)' /\ Waiting(db)'
  <2>1. Named(db) /\ Mounted(db) /\ InUse(db) /\ Waiting(db)
    BY <1>1, InUseTypes DEF Sound, Firm
  <2>2. /\ ~db.primaryLost => db.openOn \in Volume /\ db.primary \in Volume
        /\ db.primary \in Volume \cup {None}
        /\ ~db.backupLost => db.backup \in Volume
        /\ db.logOn \in Volume
    BY <1>1, InUseTypes
  <2>3. Named(db)' /\ Mounted(db)' /\ Waiting(db)'
    BY <1>1, <1>8, <1>9, <2>1, <2>2 DEF Named, Mounted, Waiting, SameNames, SameVolumes
  <2>4. ~db.primaryLost => open \subseteq d[db.openOn].segs
    <3>1. d[hk.on].segs = db.disk[hk.on].segs \ old
      BY <1>1, <1>8
    <3>2. open = (db.open \ old) \cup {m} /\ m \notin old
      BY <1>2, <1>3, <1>6
    <3>3. ~db.primaryLost => db.open \subseteq db.disk[db.openOn].segs
      BY <2>1 DEF InUse
    <3>4. QED
      BY <1>11, <3>1, <3>2, <3>3
  <2>5. InUse(db)'
    BY <1>8, <1>9, <2>1, <2>2, <2>4 DEF InUse, SameNames
  <2>6. QED
    BY <2>3, <2>5
<1>13. CopyRight(db)' /\ MergeRight(db)'
  BY <1>1 DEF CopyRight, MergeRight, Ready
<1>14. Held(db)'
  <2>1. Held(db)
    BY <1>1, InUseTypes DEF Sound, Firm
  <2>2. RowsOf(db.open) \subseteq RowsOf(open)
    BY <1>2, <1>3, <1>6, MergedRows DEF Merged
  <2>3. ASSUME ~db.backupLost, db.backup \in db.ok
        PROVE  RowsOf(db.disk[db.backup].segs) \subseteq RowsOf(d[db.backup].segs)
    <3>1. PICK segs : segs = db.disk[db.backup].segs
      OBVIOUS
    <3>2. d[db.backup].segs = (segs \ old) \cup {m}
      BY <1>1, <1>3, <1>4, <1>8, <1>11, <2>3, <3>1, InUseTypes
    <3>3. RowsOf(segs) \subseteq RowsOf((segs \ old) \cup {m})
      BY <1>2, <1>3, MergedRows DEF Merged
    <3>4. QED
      BY <3>1, <3>2, <3>3
  <2>4. Replaced(db) \subseteq Replaced(db')
    BY <1>9, <2>3 DEF Replaced, SameNames, SameVolumes
  <2>5. Replaced(db)' = Replaced(db')
    BY DEF Replaced
  <2>6. ASSUME ~db.primaryLost, wait # "none"
        PROVE  d[db.primary].segs = db.disk[db.primary].segs /\ ~Overwriting(db)
    BY <1>1, <1>4, <1>8, <1>11, <2>6, InUseTypes DEF Overwriting
  <2>7. QED
    BY <1>1, <1>9, <2>1, <2>2, <2>4, <2>5, <2>6 DEF Held, SameNames, SameVolumes
<1>15. Mirrored(db)'
  <2>1. Mirrored(db)
    BY <1>1, InUseTypes DEF Sound
  <2>2. SUFFICES ASSUME ~db.backupLost, db.backup \in db.ok, Mirrored(db)
                 PROVE  Mirrored(db)'
    BY <1>9, <2>1 DEF Mirrored, SameNames, SameVolumes
  <2>3. d[db.backup].segs = db.disk[db.backup].segs \ old /\ m \in db.disk[db.backup].segs
    BY <1>1, <1>4, <1>8, <1>11, <2>2, InUseTypes
  <2>4. QED
    BY <1>1, <1>2, <1>3, <1>6, <1>9, <2>2, <2>3 DEF Mirrored, SameNames, SameVolumes
<1>16. Sound(db)'
  BY <1>12, <1>13, <1>14, <1>15 DEF Sound, Firm
<1>17. QED
  BY <1>1, <1>10, <1>16, InUseTypes, Alive DEF Work

(* A table that has been given up comes back with a volume that has it:    *)
(* the rows that it still owes are in memory.                              *)
LEMMA ComesBackKeeps ==
    ASSUME NoWindow, NEW t, WellTyped(t), Firm(t), hk \in Work, t.primaryLost, NEW w \in Volume,
           t.disk[w].has,
           RecoveryRestore([t EXCEPT !.backupLost = FALSE, !.backupNeeded = FALSE, !.backup = w], TRUE),
           hk' = hk, owed' = owed
    PROVE  WellTyped(db)' /\ Sound(db)' /\ wait' = wait
<1>1. PICK s : s = [t EXCEPT !.backupLost = FALSE, !.backupNeeded = FALSE, !.backup = w]
  OBVIOUS
<1>2. /\ WellTyped(s) /\ ~s.backupLost /\ s.backup = w /\ w # None /\ s.logOn = t.logOn
      /\ s.rows = t.rows /\ s.disk = t.disk /\ s.ok = t.ok
  <2>1. w # None
    BY DEF Volume, None
  <2>2. QED
    BY <1>1, <2>1 DEF WellTyped, Table, Finite
<1>3. RecoveryRestore(s, TRUE) /\ s.logOn # None /\ s.logOn \in Volume /\ s.disk[s.logOn].has
  BY <1>1, <1>2 DEF Firm, Named, WellTyped, Table
<1>4. /\ WellTyped(db)' /\ hk = Ready /\ wait' = wait
      /\ \/ GivenUp(db', s)
         \/ w \in s.ok /\ Restored(db', s, w)
  BY <1>2, <1>3, RecoveryRestoreDoes
<1>5. owed' \subseteq s.rows /\ wait' # "locked" /\ CopyRight(s)
  BY <1>2, <1>4 DEF Firm, Held, Waiting, CopyRight, Ready
<1>6. CASE GivenUp(db', s)
  BY <1>3, <1>4, <1>5, <1>6, GivenUpKeeps
<1>7. CASE w \in s.ok /\ Restored(db', s, w)
  <2>1. s.disk[w].has /\ hk' = Ready
    BY <1>2, <1>4
  <2>2. owed' \subseteq s.rows \cup RowsOf(s.disk[w].segs)
    BY <1>5
  <2>3. Sound(db)'
    BY <1>2, <1>3, <1>4, <1>5, <1>7, <2>1, <2>2, RestoredKeeps
  <2>4. QED
    BY <1>4, <2>3
<1>8. QED
  BY <1>4, <1>6, <1>7

LEMMA OnVolumesChangedKeeps ==
    ASSUME NoWindow, NEW t, WellTyped(t), Firm(t), Mirrored(t), hk \in Work,
           NEW deleted \in SUBSET Volume, deleted \cap t.online = {},
           t.primary # None /\ t.primary \notin deleted => t.primary \in t.online,
           ~t.backupLost /\ t.backup \notin deleted => t.backup \in t.online,
           OnVolumesChanged(t, deleted), hk' = hk, owed' = owed, copies' = copies
    PROVE  WellTyped(db)' /\ Sound(db)'
<1>1. /\ t.logOn \in Volume /\ t.disk[t.logOn].has /\ CopyRight(t) /\ wait # "locked"
      /\ t.primary \in deleted => t.primary \notin t.ok /\ ~t.primaryLost
      /\ t.backup \in deleted => t.backup \notin t.ok
      /\ t.primaryLost => owed \subseteq t.rows
  BY DEF Firm, Named, Waiting, Held, WellTyped, Table, Volume, None
<1>2. ASSUME db' = RecoveryFailure(t), wait' = wait, owed \subseteq t.rows
      PROVE  WellTyped(db)' /\ Sound(db)'
  <2>1. PICK p : p = RecoveryFailure(t)
    OBVIOUS
  <2>2. WellTyped(p) /\ GivenUp(p, t) /\ db' = p
    BY <1>2, <2>1, RecoveryFailureDoes
  <2>3. WellTyped(db)'
    BY <2>2 DEF WellTyped, Finite
  <2>4. QED
    BY <1>1, <1>2, <2>2, <2>3, GivenUpKeeps
<1>3. ASSUME db' = t, wait' = wait,
             t.primary # None => t.primary \in t.online,
             ~t.backupLost => t.backup \in t.online
      PROVE  WellTyped(db)' /\ Sound(db)'
  <2>1. WellTyped(db)'
    BY <1>3 DEF WellTyped, Finite
  <2>2. Firm(db)'
    BY <1>3
    DEF Firm, Named, InUse, Waiting, CopyRight, MergeRight, WorkingOn, Merged, Held, Replaced,
        Overwriting
  <2>3. Mounted(db)' /\ Mirrored(db)'
    BY <1>3 DEF Mounted, Mirrored
  <2>4. QED
    BY <2>1, <2>2, <2>3 DEF Sound
<1>4. CASE t.primary \in deleted /\ t.backup \in deleted
  <2>1. db' = RecoveryFailure(t) /\ wait' = wait
    BY <1>4 DEF OnVolumesChanged
  <2>2. owed \subseteq t.rows
    BY <1>1, <1>4 DEF Firm, Held, Replaced
  <2>3. QED
    BY <1>2, <2>1, <2>2
<1>5. CASE t.primary \notin deleted /\ t.backup \in deleted
  <2>1. CASE t.primaryLost
    BY <1>1, <1>2, <1>5, <2>1 DEF OnVolumesChanged
  <2>2. CASE ~t.primaryLost
    <3>1. db' = RecoveryBackup(t) /\ wait' = wait
      BY <1>5, <2>2 DEF OnVolumesChanged
    <3>2. QED
      BY <1>1, <1>5, <2>2, <3>1, RecoveryBackupKeeps
  <2>3. QED
    BY <2>1, <2>2
<1>6. CASE t.primary \in deleted /\ t.backup \notin deleted
  <2>1. RecoveryRestore(t, TRUE)
    BY <1>6 DEF OnVolumesChanged
  <2>2. QED
    BY <1>1, <1>6, <2>1, RecoveryRestoreKeeps
<1>7. CASE t.primary \notin deleted /\ t.backup \notin deleted
  <2>1. CASE t.primaryLost /\ FindTableVolumes(t) = {}
    BY <1>3, <1>7, <2>1 DEF OnVolumesChanged
  <2>2. CASE t.primaryLost /\ FindTableVolumes(t) # {}
    <3>1. PICK w : w = FindVolumeToOpen(t, FindTableVolumes(t))
      OBVIOUS
    <3>2. FindTableVolumes(t) \in SUBSET Volume
      BY DEF FindTableVolumes, WellTyped, Table
    <3>3. w \in FindTableVolumes(t)
      BY <2>2, <3>1, <3>2, FindVolumeToOpenType DEF WellTyped
    <3>4. w \in Volume /\ t.disk[w].has
      BY <3>2, <3>3 DEF FindTableVolumes
    <3>5. RecoveryRestore([t EXCEPT !.backupLost = FALSE, !.backupNeeded = FALSE, !.backup = w], TRUE)
      BY <1>7, <2>2, <3>1 DEF OnVolumesChanged
    <3>6. QED
      BY <2>2, <3>4, <3>5, ComesBackKeeps
  <2>3. CASE ~t.primaryLost /\ t.backupLost /\ ~t.backupNeeded
    <3>1. db' = RecoveryBackup(t) /\ wait' = wait
      BY <1>7, <2>3 DEF OnVolumesChanged
    <3>2. QED
      BY <2>3, <3>1, RecoveryBackupKeeps
  <2>4. CASE ~t.primaryLost /\ ~(t.backupLost /\ ~t.backupNeeded)
    BY <1>3, <1>7, <2>4 DEF OnVolumesChanged
  <2>5. QED
    BY <2>1, <2>2, <2>3, <2>4
<1>8. QED
  BY <1>4, <1>5, <1>6, <1>7

LEMMA OnVolumesChangedWait ==
    ASSUME wait \in {"none", "locked", "unlocked"}, NEW t, NEW deleted, OnVolumesChanged(t, deleted)
    PROVE  wait' \in {"none", "locked", "unlocked"}
BY RestoreWaitType DEF OnVolumesChanged

LEMMA VolumeRemovedKeeps ==
    ASSUME NoWindow, VInv, NEW v \in Volume, VolumeRemoved(v)
    PROVE  VInv'
<1>1. up /\ v \in db.online /\ v \notin db.ok /\ UNCHANGED <<up, hk, copies, readers, owed, faults>>
  BY DEF VolumeRemoved, LockFree
<1>2. PICK online : online = db.online \ {v}
  OBVIOUS
<1>3. PICK t : t = [db EXCEPT !.online = online]
  OBVIOUS
<1>4. OnVolumesChanged(t, {v})
  BY <1>2, <1>3 DEF VolumeRemoved
<1>5. /\ t \in Table /\ t.ok = db.ok /\ t.online = online /\ t.disk = db.disk
      /\ SameNames(t, db) /\ SameRows(t, db) /\ t.validate = db.validate
  BY <1>1, <1>2, <1>3, InUseTypes DEF WellTyped, Table, SameNames, SameRows
<1>6. WellTyped(t)
  BY <1>1, <1>2, <1>5, InUseTypes DEF WellTyped, Finite
<1>7. Firm(t) /\ Mirrored(t)
  BY <1>1, <1>5, InUseTypes
  DEF Sound, Firm, Named, InUse, Waiting, CopyRight, MergeRight, WorkingOn, Held, Replaced,
      Overwriting, Mirrored, SameNames, SameRows
<1>8. /\ t.primary # None /\ t.primary \notin {v} => t.primary \in t.online
      /\ ~t.backupLost /\ t.backup \notin {v} => t.backup \in t.online
  BY <1>1, <1>2, <1>5, InUseTypes DEF Sound, Mounted, SameNames
<1>9. {v} \cap t.online = {}
  BY <1>2, <1>5
<1>10. WellTyped(db)' /\ Sound(db)'
  BY <1>1, <1>4, <1>6, <1>7, <1>8, <1>9, InUseTypes, OnVolumesChangedKeeps
<1>11. QED
  BY <1>1, <1>4, <1>10, InUseTypes, OnVolumesChangedWait, Alive

LEMMA VolumeAddedKeeps ==
    ASSUME NoWindow, VInv, NEW v \in Volume, VolumeAdded(v)
    PROVE  VInv'
<1>1. PICK online : online = db.online \cup {v}
  OBVIOUS
<1>2. PICK ok : ok = db.ok \cup {v}
  OBVIOUS
<1>3. PICK t : t = [db EXCEPT !.online = online, !.ok = ok]
  OBVIOUS
<1>4. /\ v \notin db.ok /\ UNCHANGED <<up, hk, copies, readers, owed, faults>>
      /\ IF up THEN LockFree /\ v \notin db.online /\ OnVolumesChanged(t, {})
         ELSE db' = t /\ wait' = wait
  BY <1>1, <1>2, <1>3 DEF VolumeAdded
<1>5. WellTyped(db)
  BY DEF VInv, TypeInv
<1>6. /\ t \in Table /\ t.ok = ok /\ t.online = online /\ t.disk = db.disk
      /\ SameNames(t, db) /\ SameRows(t, db) /\ t.validate = db.validate
  BY <1>1, <1>2, <1>3, <1>5 DEF WellTyped, Table, SameNames, SameRows
<1>7. WellTyped(t)
  BY <1>1, <1>2, <1>5, <1>6 DEF WellTyped, Finite
<1>8. CASE up
  <2>1. v \notin db.online /\ OnVolumesChanged(t, {})
    BY <1>4, <1>8
  <2>2. v # db.primary /\ (~db.backupLost => v # db.backup)
    BY <1>8, <2>1, InUseTypes DEF Sound, Mounted, Volume, None
  <2>3. Named(t) /\ InUse(t) /\ Waiting(t) /\ CopyRight(t)
    BY <1>6, <1>8, InUseTypes
    DEF Sound, Firm, Named, InUse, Waiting, CopyRight, WorkingOn, SameNames, SameRows
  <2>4. MergeRight(t)
    BY <1>2, <1>6, <1>8, <2>2, InUseTypes
    DEF Sound, Firm, MergeRight, WorkingOn, SameNames, SameRows
  <2>5. Held(t)
    BY <1>2, <1>6, <1>8, <2>2, InUseTypes
    DEF Sound, Firm, Held, Replaced, Overwriting, SameNames, SameRows
  <2>6. Mirrored(t)
    BY <1>2, <1>6, <1>8, <2>2, InUseTypes DEF Sound, Mirrored, SameNames, SameRows
  <2>7. /\ t.primary # None => t.primary \in t.online
        /\ ~t.backupLost => t.backup \in t.online
    BY <1>1, <1>6, <1>8, InUseTypes DEF Sound, Mounted, SameNames
  <2>8. WellTyped(db)' /\ Sound(db)'
    BY <1>4, <1>7, <1>8, <2>1, <2>3, <2>4, <2>5, <2>6, <2>7, InUseTypes, OnVolumesChangedKeeps DEF Firm
  <2>9. QED
    BY <1>4, <1>8, <2>1, <2>8, InUseTypes, OnVolumesChangedWait, Alive
<1>9. CASE ~up
  <2>1. db' = t /\ wait' = wait
    BY <1>4, <1>9
  <2>2. WellTyped(db)'
    BY <1>7, <2>1 DEF WellTyped, Finite
  <2>3. TypeInv'
    BY <1>4, <2>1, <2>2 DEF VInv, TypeInv
  <2>4. \A w \in OpenVolumes : w \in OpenVolumes' /\ Stored(w)' = Stored(w)
    BY <1>1, <1>2, <1>6, <2>1 DEF OpenVolumes, Usable, Stored
  <2>5. Down'
    BY <1>4, <1>9, <2>1, <2>4 DEF VInv, Down
  <2>6. QED
    BY <1>4, <1>9, <2>3, <2>5 DEF VInv
<1>10. QED
  BY <1>8, <1>9 DEF VInv, TypeInv

-----------------------------------------------------------------------------
(* A crash, and the next open *)

(* One volume has what is left of the acknowledged rows. *)
LEMMA CrashKeeps ==
    ASSUME VInv, Crash
    PROVE  VInv'
<1>1. /\ up /\ up' = FALSE /\ db' = Closed(db) /\ hk' = Ready /\ copies' = {} /\ wait' = "none"
      /\ readers' \in [Reader -> Volume \cup {None}] /\ Fault
      /\ owed' = owed \cap (Logged(db) \cup Kept(db))
  BY DEF Crash
<1>2. PICK t : t = Closed(db)
  OBVIOUS
<1>3. t \in Table /\ t.ok = db.ok /\ t.online = db.online /\ t.disk = db.disk
  BY <1>1, <1>2, InUseTypes DEF Closed, WellTyped, Table
<1>4. WellTyped(db)'
  BY <1>1, <1>2, <1>3, InUseTypes DEF WellTyped, Finite
<1>5. TypeInv'
  BY <1>1, <1>4, InUseTypes, FaultType DEF TypeInv, Work
<1>6. SUFFICES ASSUME owed' # {} PROVE \E w \in OpenVolumes : owed' \subseteq Stored(w)
  <2>1. OpenVolumes' = OpenVolumes /\ \A w \in OpenVolumes : Stored(w)' = Stored(w)
    BY <1>1, <1>2, <1>3 DEF OpenVolumes, Usable, Stored
  <2>2. QED
    BY <1>1, <1>5, <2>1 DEF VInv, Down
<1>7. \A v \in Volume : v \in db.ok /\ db.disk[v].has => v \in OpenVolumes
  BY <1>1, InUseTypes DEF OpenVolumes
<1>8. Named(db) /\ InUse(db) /\ Waiting(db) /\ Held(db) /\ CopyRight(db)
  BY <1>1, InUseTypes DEF Sound, Firm
<1>9. \A v \in Volume : RowsOf(db.disk[v].segs) \subseteq Stored(v) /\ db.disk[v].log \subseteq Stored(v)
  BY DEF Stored
<1>10. db.logOn \in Volume /\ db.disk[db.logOn].has /\ db.ok \subseteq Volume
  BY <1>1, <1>8, InUseTypes DEF Named, WellTyped, Table
<1>11. CASE Kept(db) = {}
  BY <1>1, <1>6, <1>7, <1>9, <1>10, <1>11 DEF Logged
<1>12. CASE Kept(db) # {} /\ db.primary \in db.ok
  <2>1. /\ ~db.primaryLost /\ db.primary \in Volume /\ db.primary \in OpenVolumes
        /\ db.openOn \in Volume /\ db.disk[db.openOn].has
        /\ RowsOf(db.open) \subseteq RowsOf(db.disk[db.openOn].segs)
    BY <1>1, <1>7, <1>8, <1>10, <1>12, RowsOfSubset, InUseTypes DEF Named, InUse, Volume, None
  <2>2. owed' \subseteq Logged(db) \cup RowsOf(db.disk[db.primary].segs)
    BY <1>1, <1>12 DEF Kept
  <2>3. CASE db.logOn = db.primary \/ db.logOn \notin db.ok
    <3>1. owed' \subseteq Stored(db.primary)
      BY <1>9, <2>1, <2>2, <2>3 DEF Logged
    <3>2. QED
      BY <2>1, <3>1
  <2>4. CASE db.logOn # db.primary /\ db.logOn \in db.ok
    <3>1. owed' \subseteq db.rows \cup RowsOf(db.open) /\ db.rows \subseteq db.disk[db.logOn].log
      BY <1>1, <1>8, <2>1 DEF Held, InUse
    <3>2. CASE db.logOn = db.openOn
      BY <1>7, <1>9, <1>10, <2>1, <2>4, <3>1, <3>2
    <3>3. CASE db.logOn # db.openOn
      <4>1. db.rows = {}
        BY <1>8, <2>1, <2>4, <3>3 DEF InUse
      <4>2. CASE wait = "none"
        BY <1>8, <1>9, <2>1, <3>1, <4>1, <4>2 DEF Waiting
      <4>3. CASE wait # "none" /\ ~Overwriting(db)
        BY <1>1, <1>8, <1>9, <1>12, <2>1, <4>1, <4>3 DEF Held
      <4>4. CASE Overwriting(db)
        BY <1>7, <1>8, <1>9, <2>1, <3>1, <4>1, <4>4 DEF CopyRight, WorkingOn, Overwriting
      <4>5. QED
        BY <4>2, <4>3, <4>4
    <3>4. QED
      BY <3>2, <3>3
  <2>5. QED
    BY <2>3, <2>4
<1>13. CASE Kept(db) # {} /\ db.primary \notin db.ok
  <2>1. /\ db.backup \in db.ok /\ ~db.backupLost /\ ~db.primaryLost
        /\ Kept(db) = RowsOf(db.disk[db.backup].segs)
    BY <1>8, <1>13 DEF Kept, Named
  <2>2. db.backup \in Volume /\ db.backup \in OpenVolumes /\ wait = "none" /\ db.openOn = db.primary
    BY <1>1, <1>7, <1>8, <1>10, <2>1, InUseTypes DEF Named
  <2>3. owed' \subseteq db.rows \cup Kept(db) /\ db.rows \subseteq db.disk[db.logOn].log
    BY <1>1, <1>8, <1>13, <2>1 DEF Held, Replaced, InUse
  <2>4. owed' \subseteq Stored(db.backup)
    <3>1. CASE db.logOn \notin db.ok
      BY <1>1, <1>9, <2>1, <2>2, <3>1 DEF Logged
    <3>2. CASE db.logOn = db.backup
      BY <1>9, <2>1, <2>2, <2>3, <3>2
    <3>3. CASE db.logOn \in db.ok /\ db.logOn # db.backup
      <4>1. db.rows = {}
        BY <1>8, <1>13, <2>1, <2>2, <3>3 DEF InUse
      <4>2. QED
        BY <1>9, <2>1, <2>2, <2>3, <4>1
    <3>4. QED
      BY <3>1, <3>2, <3>3
  <2>5. QED
    BY <2>2, <2>4
<1>14. QED
  BY <1>11, <1>12, <1>13

LEMMA OpenedDoes ==
    ASSUME NEW v \in OpenVolumes, WellTyped(db), NEW t, t = Opened(v)
    PROVE  /\ WellTyped(t) /\ t.primary = v /\ ~t.primaryLost /\ t.logOn = v /\ t.openOn = v
           /\ t.rows = db.disk[v].log /\ t.open = db.disk[v].segs /\ SameVolumes(t, db)
           /\ t.disk = db.disk
           /\ ~t.backupLost => t.validate /\ ~t.backupNeeded /\ t.backup \in OpenVolumes \ {v}
           /\ t.backupLost => /\ t.backup \in (db.online \ {v}) \cup {None}
                              /\ t.backupNeeded <=> t.backup # None
<1>1. /\ v \in Volume /\ v \in db.ok /\ v \in db.online /\ db.disk[v] \in Disk
      /\ OpenVolumes \subseteq Volume
  BY DEF OpenVolumes, Usable, WellTyped, Table
<1>2. PICK found : found = OpenBackups(v)
  OBVIOUS
<1>3. found \subseteq OpenVolumes \ {v}
  BY <1>2 DEF OpenBackups, Level
<1>4. PICK other : other = GetRedundantVolume(db, v)
  OBVIOUS
<1>5. other \in (db.online \ {v}) \cup {None}
  BY <1>1, <1>4, GetRedundantVolumeType DEF WellTyped
<1>6. PICK backup : backup = IF found # {} THEN CHOOSE w \in found : TRUE ELSE other
  OBVIOUS
<1>7. /\ found # {} => backup \in OpenVolumes \ {v}
      /\ found = {} => backup \in (db.online \ {v}) \cup {None}
  BY <1>3, <1>5, <1>6
<1>8. backup \in Volume \cup {None}
  BY <1>1, <1>7 DEF WellTyped, Table
<1>9. PICK segs : segs = db.disk[v].segs
  OBVIOUS
<1>10. PICK log : log = db.disk[v].log
  OBVIOUS
<1>11. segs \in SUBSET Segment /\ IsFiniteSet(segs) /\ log \in SUBSET Row /\ IsFiniteSet(log)
  BY <1>1, <1>9, <1>10 DEF Disk, WellTyped, Finite
<1>12. PICK seq : seq = HighSeq(segs) + Cardinality(log)
  OBVIOUS
<1>13. seq \in Nat
  BY <1>11, <1>12, HighSeqType, FS_CardinalityType
<1>14. PICK lost \in BOOLEAN : lost = (found = {})
  OBVIOUS
<1>15. PICK needed \in BOOLEAN : needed = (found = {} /\ backup # None)
  OBVIOUS
<1>16. PICK validate \in BOOLEAN : validate = (found # {})
  OBVIOUS
<1>17. t = [db EXCEPT !.primary = v, !.backup = backup, !.primaryLost = FALSE, !.backupLost = lost,
               !.backupNeeded = needed, !.validate = validate, !.rows = log, !.logOn = v,
               !.open = segs, !.openOn = v, !.seq = seq]
  BY <1>2, <1>4, <1>6, <1>9, <1>10, <1>12, <1>14, <1>15, <1>16 DEF Opened
<1>18. /\ t \in Table /\ t.ok = db.ok /\ t.online = db.online /\ t.disk = db.disk
       /\ t.primary = v /\ ~t.primaryLost /\ t.logOn = v /\ t.openOn = v
       /\ t.rows = log /\ t.open = segs /\ t.backup = backup
       /\ t.backupLost = lost /\ t.backupNeeded = needed /\ t.validate = validate
  <2>1. db \in Table /\ db.ok \subseteq db.online
    BY DEF WellTyped
  <2>2. PICK n : n = [db EXCEPT !.primary = v, !.backup = backup, !.primaryLost = FALSE,
                                !.backupLost = lost, !.backupNeeded = needed, !.validate = validate]
    OBVIOUS
  <2>3. /\ n \in Table /\ n.ok = db.ok /\ n.online = db.online /\ n.disk = db.disk
        /\ n.primary = v /\ ~n.primaryLost /\ n.backup = backup
        /\ n.backupLost = lost /\ n.backupNeeded = needed /\ n.validate = validate
    BY <1>1, <1>8, <2>1, <2>2 DEF Table
  <2>4. t = [n EXCEPT !.rows = log, !.logOn = v, !.open = segs, !.openOn = v, !.seq = seq]
    BY <1>17, <2>1, <2>2 DEF Table
  <2>5. QED
    BY <1>1, <1>11, <1>13, <2>1, <2>3, <2>4 DEF Table
<1>19. WellTyped(t)
  BY <1>18 DEF WellTyped, Finite
<1>20. QED
  BY <1>7, <1>9, <1>10, <1>14, <1>15, <1>16, <1>18, <1>19 DEF SameVolumes

(* The volume opened has the rows of every other, and so those still owed. *)
LEMMA OpenKeeps ==
    ASSUME NoWindow, VInv, Open
    PROVE  VInv'
<1>1. ~up /\ up' = TRUE /\ OpenVolumes # {} /\ UNCHANGED <<hk, copies, readers, wait, owed, faults>>
  BY DEF Open
<1>2. /\ WellTyped(db) /\ hk = Ready /\ wait = "none"
      /\ owed = {} \/ \E w \in OpenVolumes : owed \subseteq Stored(w)
  BY <1>1 DEF VInv, TypeInv, Down
<1>3. PICK v : v = FindVolumeToOpen(db, OpenVolumes)
  OBVIOUS
<1>4. OpenVolumes \in SUBSET Volume
  BY <1>2 DEF OpenVolumes, Usable, WellTyped, Table
<1>5. v \in OpenVolumes
  BY <1>1, <1>2, <1>3, <1>4, FindVolumeToOpenType DEF WellTyped
<1>6. owed \subseteq Stored(v)
  <2>1. ~MissesRows(v, Level(v)) /\ ~MissesRows(v, OpenVolumes \ Level(v))
    BY <1>3 DEF Open, NoWindow
  <2>2. \A w \in OpenVolumes : Stored(w) \subseteq Stored(v)
    BY <2>1 DEF MissesRows
  <2>3. QED
    BY <1>2, <2>2
<1>7. PICK t : t = Opened(v)
  OBVIOUS
<1>8. /\ WellTyped(t) /\ t.primary = v /\ ~t.primaryLost /\ t.logOn = v /\ t.openOn = v
      /\ t.rows = db.disk[v].log /\ t.open = db.disk[v].segs /\ SameVolumes(t, db)
      /\ t.disk = db.disk
      /\ ~t.backupLost => t.validate /\ ~t.backupNeeded /\ t.backup \in OpenVolumes \ {v}
      /\ t.backupLost => /\ t.backup \in (db.online \ {v}) \cup {None}
                         /\ t.backupNeeded <=> t.backup # None
  BY <1>2, <1>5, <1>7, OpenedDoes
<1>9. /\ v \in Volume /\ v # None /\ v \in t.ok /\ v \in t.online /\ t.disk[v].has
      /\ \A w \in OpenVolumes : w # None /\ t.disk[w].has /\ w \in t.online
  BY <1>4, <1>5, <1>8 DEF OpenVolumes, Usable, SameVolumes, Volume, None
<1>10. Firm(t)
  <2>1. Named(t)
    BY <1>8, <1>9 DEF Named
  <2>2. InUse(t) /\ Waiting(t)
    BY <1>2, <1>8, <1>9 DEF InUse, Waiting
  <2>3. CopyRight(t) /\ MergeRight(t)
    BY <1>2 DEF CopyRight, MergeRight, Ready
  <2>4. Held(t)
    BY <1>2, <1>6, <1>8, <1>9 DEF Held, Stored
  <2>5. QED
    BY <2>1, <2>2, <2>3, <2>4 DEF Firm
<1>11. PICK p : p = SaveDesc(t)
  OBVIOUS
<1>12. db' = p
  BY <1>3, <1>7, <1>11 DEF Open
<1>13. /\ WellTyped(p)
       /\ t.backupLost \/ t.backup \in t.ok => Described(p, t)
       /\ ~t.backupLost /\ t.backup \notin t.ok => Planned(p, t)
  BY <1>8, <1>9, <1>11, SaveDescDoes
<1>14. WellTyped(db)'
  BY <1>12, <1>13 DEF WellTyped, Finite
<1>15. hk \in Work
  BY <1>2 DEF Work
<1>16. CASE Described(p, t)
  <2>1. Firm(db)'
    BY <1>1, <1>8, <1>9, <1>10, <1>12, <1>15, <1>16, NamesKeep
  <2>2. /\ db'.primary = v /\ db'.backup = t.backup /\ db'.backupLost = t.backupLost
        /\ db'.validate = t.validate /\ db'.online = t.online
    BY <1>8, <1>12, <1>16 DEF Described, SameNames, SameVolumes
  <2>3. Mounted(db)' /\ Mirrored(db)'
    BY <1>8, <1>9, <2>2 DEF Mounted, Mirrored
  <2>4. Sound(db)'
    BY <2>1, <2>3 DEF Sound
  <2>5. QED
    BY <1>1, <1>14, <2>4, Alive DEF VInv, TypeInv
<1>17. CASE Planned(p, t)
  <2>1. Sound(db)'
    BY <1>1, <1>8, <1>9, <1>10, <1>12, <1>15, <1>17, PlannedKeeps
  <2>2. QED
    BY <1>1, <1>14, <2>1, Alive DEF VInv, TypeInv
<1>18. QED
  BY <1>13, <1>16, <1>17

-----------------------------------------------------------------------------
(* The invariant holds *)

LEMMA InitHolds ==
    ASSUME Init
    PROVE  VInv
<1>1. PICK v \in Volume :
         LET backup == IF v = NumVolumes THEN 1 ELSE v + 1
         IN  db = [primary |-> v, backup |-> backup, primaryLost |-> FALSE,
                   backupLost |-> FALSE, backupNeeded |-> FALSE, validate |-> FALSE,
                   rows |-> {}, open |-> {}, openOn |-> v, seq |-> 1, logOn |-> v,
                   online |-> Volume, ok |-> Volume,
                   disk |-> [w \in Volume |->
                       [has |-> w \in {v, backup}, segs |-> {}, log |-> {},
                        backup |-> IF w \in {v, backup} THEN backup ELSE None]]]
  BY DEF Init
<1>2. PICK b : b = IF v = NumVolumes THEN 1 ELSE v + 1
  OBVIOUS
<1>3. b \in Volume /\ b # v /\ v # None /\ b # None
  BY <1>2 DEF Volume, None
<1>4. PICK d : d = [w \in Volume |->
                      [has |-> w \in {v, b}, segs |-> {}, log |-> {},
                       backup |-> IF w \in {v, b} THEN b ELSE None]]
  OBVIOUS
<1>5. /\ d \in [Volume -> Disk]
      /\ \A w \in Volume : d[w].segs = {} /\ d[w].log = {}
      /\ d[v].has /\ d[b].has
  <2>1. ASSUME NEW w \in Volume
        PROVE  [has |-> w \in {v, b}, segs |-> {}, log |-> {},
                backup |-> IF w \in {v, b} THEN b ELSE None] \in Disk
    <3>1. PICK has \in BOOLEAN : has = (w \in {v, b})
      <4>1. (w \in {v, b}) \in BOOLEAN
        OBVIOUS
      <4>2. QED
        BY <4>1, Zenon
    <3>2. PICK backup \in Volume \cup {None} : backup = IF w \in {v, b} THEN b ELSE None
      BY <1>3
    <3>3. [has |-> has, segs |-> {}, log |-> {}, backup |-> backup] \in Disk
      BY <3>1, <3>2 DEF Disk
    <3>4. QED
      BY <3>1, <3>2, <3>3
  <2>2. d \in [Volume -> Disk]
    BY <1>4, <2>1
  <2>3. QED
    BY <1>3, <1>4, <2>2
<1>6. db = [primary |-> v, backup |-> b, primaryLost |-> FALSE,
            backupLost |-> FALSE, backupNeeded |-> FALSE, validate |-> FALSE,
            rows |-> {}, open |-> {}, openOn |-> v, seq |-> 1, logOn |-> v,
            online |-> Volume, ok |-> Volume, disk |-> d]
  BY <1>1, <1>2, <1>4
<1>7. WellTyped(db)
  BY <1>3, <1>5, <1>6, FS_EmptySet DEF WellTyped, Table, Finite
<1>8. up = TRUE /\ hk = Ready /\ copies = {} /\ wait = "none" /\ owed = {} /\ faults = 0
      /\ readers = [r \in Reader |-> None]
  BY DEF Init
<1>9. TypeInv
  BY <1>7, <1>8, MaxFaultsAssumption DEF TypeInv, Work
<1>10. Named(db) /\ Mounted(db) /\ InUse(db) /\ Waiting(db)
  BY <1>3, <1>5, <1>6, <1>8 DEF Named, Mounted, InUse, Waiting
<1>11. CopyRight(db) /\ MergeRight(db) /\ Held(db) /\ Mirrored(db)
  BY <1>6, <1>8 DEF CopyRight, MergeRight, Held, Mirrored, Ready
<1>12. QED
  BY <1>8, <1>9, <1>10, <1>11 DEF VInv, Sound, Firm, Down

LEMMA UnchangedKeeps ==
    ASSUME VInv, UNCHANGED vars
    PROVE  VInv'
<1>1. WellTyped(db)' /\ TypeInv'
  BY DEF VInv, TypeInv, vars, WellTyped, Finite
<1>2. up => Sound(db)'
  BY
  DEF VInv, vars, Sound, Firm, Named, Mounted, InUse, Waiting, CopyRight, MergeRight, WorkingOn,
      Merged, Held, Replaced, Overwriting, Mirrored
<1>3. Down'
  BY DEF VInv, vars, Down, OpenVolumes, Usable, Stored
<1>4. QED
  BY <1>1, <1>2, <1>3 DEF VInv, vars

LEMMA VInvNext ==
    ASSUME NoWindow, VInv, [Next]_vars
    PROVE  VInv'
<1>1. ASSUME ContinueRestore PROVE VInv'
  <2>1. up
    BY <1>1 DEF VInv, TypeInv, Down, ContinueRestore
  <2>2. QED
    BY <1>1, <2>1, ContinueRestoreKeeps
<1>2. ASSUME HousekeepingThread PROVE VInv'
  BY <1>2, HousekeepingKeeps, CopyDescKeeps, CopySegmentKeeps, CopyVolumeFailsKeeps, EndBackupKeeps,
     MergeSegmentsKeeps, EndMergeKeeps
  DEF HousekeepingThread
<1>3. QED
  BY <1>1, <1>2, InsertKeeps, FlushKeeps, CopyToBackupKeeps, GetDataFailsKeeps, GetRowsFailsKeeps,
     GetRowsRecoversKeeps, FailVolumeKeeps, VolumeRemovedKeeps, VolumeAddedKeeps, CrashKeeps,
     OpenKeeps, UnchangedKeeps
  DEF Next

LEMMA VInvAlways ==
    ASSUME NoWindow
    PROVE  Spec => []VInv
<1>1. Init => VInv
  BY InitHolds
<1>2. VInv /\ [Next]_vars => VInv'
  BY VInvNext
<1>3. QED
  BY <1>1, <1>2, PTL DEF Spec

(* While the table is served, every acknowledged row that is still on some *)
(* healthy volume in use, or in memory, can be read (CAeonTable::GetData), *)
(* for any number of volumes, rows, readers and faults, as long as none of *)
(* the windows is entered.                                                 *)
THEOREM AckedRowsStayReadable ==
    ASSUME NoWindow
    PROVE  Spec => []AckedReadable
<1>1. VInv => AckedReadable
  <2>1. SUFFICES ASSUME VInv, Serving PROVE owed \subseteq db.rows \cup RowsOf(db.open)
    BY DEF AckedReadable
  <2>2. up /\ ~db.primaryLost
    BY <2>1 DEF Serving, Working, LockFree
  <2>3. QED
    BY <2>1, <2>2 DEF VInv, Sound, Firm, Held
<1>2. QED
  BY <1>1, VInvAlways, PTL

(* A backup that is not marked as lost or needed holds every segment in use *)
(* once the copies on their way to it have been made: what RecoveryRestore  *)
(* relies on without looking.                                               *)
THEOREM BelievedBackupsAreComplete ==
    ASSUME NoWindow
    PROVE  Spec => []BackupComplete
<1>1. VInv => BackupComplete
  <2>1. SUFFICES ASSUME VInv, Serving, copies = {}, ~db.backupLost, ~db.backupNeeded, ~db.validate,
                        db.backup \in Usable(db)
                 PROVE  db.open \subseteq db.disk[db.backup].segs
    BY DEF BackupComplete
  <2>2. up /\ ~db.primaryLost /\ wait = "none" /\ {db.primary, db.backup} \subseteq db.ok
    BY <2>1 DEF Serving, Working, LockFree, Usable
  <2>3. QED
    BY <2>1, <2>2 DEF VInv, Sound, Mirrored
<1>2. QED
  BY <1>1, VInvAlways, PTL

-----------------------------------------------------------------------------
(* When a table is given up *)

(* What is asked of a step that gives up the table t. *)
Hopeless(t) ==
    db'.primaryLost => /\ t.primary \notin db'.ok
                       /\ t.backupLost \/ t.backup \notin db'.ok

LEMMA RestoreGivesUp ==
    ASSUME NoWindow, NEW t, WellTyped(t), Named(t), ~t.primaryLost,
           \/ t.primary \notin t.ok
           \/ ~t.backupLost /\ t.backup \in t.ok,
           NEW held \in BOOLEAN, RecoveryRestore(t, held)
    PROVE  Hopeless(t)
<1>1. /\ \/ t.backupLost \/ (hk = Ready /\ t.backup \notin t.ok)
         \/ Restored(db', t, t.backup)
         \/ Swapped(db', t)
      /\ GivenUp(db', t) \/ Restored(db', t, t.backup) \/ Swapped(db', t)
  BY RecoveryRestoreDoes DEF Named
<1>2. QED
  BY <1>1 DEF Hopeless, GivenUp, Restored, Swapped, SameVolumes

LEMMA BackupGivesUp ==
    ASSUME NEW t, WellTyped(t), ~t.primaryLost, t.backupLost \/ t.backup \notin t.ok,
           db' = RecoveryBackup(t)
    PROVE  Hopeless(t)
<1>1. PICK p : p = RecoveryBackup(t)
  OBVIOUS
<1>2. /\ t.primary \in t.ok => Planned(p, t)
      /\ t.primary \notin t.ok => GivenUp(p, t)
  BY <1>1, RecoveryBackupDoes
<1>3. QED
  BY <1>1, <1>2 DEF Hopeless, Planned, GivenUp, SameVolumes

LEMMA SaveGivesUp ==
    ASSUME NoWindow, NEW t, WellTyped(t), Named(t), ~t.primaryLost, Save(t)
    PROVE  Hopeless(t)
<1>1. t.primary \in Usable(t) <=> t.primary \in t.ok
  BY DEF Usable, WellTyped
<1>2. CASE t.primary \notin t.ok
  <2>1. RecoveryRestore(t, TRUE)
    BY <1>1, <1>2 DEF Save
  <2>2. QED
    BY <1>2, <2>1, RestoreGivesUp
<1>3. CASE t.primary \in t.ok
  <2>1. PICK s : s = SegmentSaved(t)
    OBVIOUS
  <2>2. WellTyped(s) /\ Saved(s, t)
    BY <2>1, SegmentSavedDoes DEF Named
  <2>3. ~s.primaryLost /\ s.primary \in s.ok
    BY <1>3, <2>2 DEF Saved, SameNames, SameVolumes
  <2>4. PICK p : p = SaveDesc(s)
    OBVIOUS
  <2>5. Described(p, s) \/ Planned(p, s)
    BY <2>2, <2>3, <2>4, SaveDescDoes
  <2>6. db' = p
    BY <1>1, <1>3, <2>1, <2>4 DEF Save
  <2>7. QED
    BY <2>3, <2>5, <2>6 DEF Hopeless, Described, Planned, SameNames
<1>4. QED
  BY <1>2, <1>3

LEMMA ChangesGiveUp ==
    ASSUME NoWindow, NEW t, WellTyped(t), Firm(t), ~t.primaryLost,
           NEW deleted \in SUBSET Volume, deleted \cap t.online = {}, OnVolumesChanged(t, deleted)
    PROVE  Hopeless(t)
<1>1. /\ t.primary \in deleted => t.primary \notin t.ok
      /\ t.backup \in deleted => t.backup \notin t.ok
      /\ Named(t)
  BY DEF WellTyped, Firm
<1>2. CASE t.primary \in deleted /\ t.backup \in deleted
  <2>1. db' = RecoveryFailure(t)
    BY <1>2 DEF OnVolumesChanged
  <2>2. PICK p : p = RecoveryFailure(t)
    OBVIOUS
  <2>3. GivenUp(p, t)
    BY <2>2, RecoveryFailureDoes
  <2>4. QED
    BY <1>1, <1>2, <2>1, <2>2, <2>3 DEF Hopeless, GivenUp, SameVolumes
<1>3. CASE t.primary \notin deleted /\ t.backup \in deleted
  BY <1>1, <1>3, BackupGivesUp DEF OnVolumesChanged
<1>4. CASE t.primary \in deleted /\ t.backup \notin deleted
  <2>1. RecoveryRestore(t, TRUE)
    BY <1>4 DEF OnVolumesChanged
  <2>2. QED
    BY <1>1, <1>4, <2>1, RestoreGivesUp
<1>5. CASE t.primary \notin deleted /\ t.backup \notin deleted
  BY <1>5, BackupGivesUp DEF OnVolumesChanged, Hopeless
<1>6. QED
  BY <1>2, <1>3, <1>4, <1>5

LEMMA StepGivesUp ==
    ASSUME NoWindow, VInv, up, ~db.primaryLost, [Next]_vars
    PROVE  Hopeless(db)
<1>1. /\ WellTyped(db) /\ Sound(db) /\ Firm(db) /\ Named(db)
  BY InUseTypes DEF Sound, Firm
<1>2. ASSUME NEW t, NEW s, Hopeless(t), SameNames(t, s) PROVE Hopeless(s)
  BY <1>2 DEF Hopeless, SameNames
<1>3. ASSUME db'.primaryLost = db.primaryLost PROVE Hopeless(db)
  BY <1>3 DEF Hopeless
<1>4. ASSUME NEW n \in Row, Insert(n) PROVE Hopeless(db)
  <2>1. PICK t : t = [db EXCEPT !.rows = @ \cup {n}, !.seq = @ + 1]
    OBVIOUS
  <2>2. SameNames(t, db) /\ t.logOn = db.logOn /\ t.disk = db.disk /\ t.ok = db.ok
    BY <1>1, <2>1 DEF WellTyped, Table, SameNames
  <2>3. CASE db.logOn \in Usable(db)
    <3>1. db' = [t EXCEPT !.disk[db.logOn].log = @ \cup {n}]
      BY <1>4, <2>1, <2>3 DEF Insert
    <3>2. db'.primaryLost = t.primaryLost
      BY <1>1, <2>1, <3>1 DEF WellTyped, Table
    <3>3. QED
      BY <1>3, <2>2, <3>2 DEF SameNames
  <2>4. CASE db.logOn \notin Usable(db)
    <3>1. RecoveryRestore(t, TRUE) /\ db.logOn = db.primary
      BY <1>4, <2>1, <2>4 DEF Insert, NoWindow
    <3>2. t.primary \notin t.ok
      BY <2>2, <2>4, <3>1, InUseTypes DEF SameNames
    <3>3. t.seq \in Nat /\ t.rows \in SUBSET Row
      BY <1>1, <2>1 DEF WellTyped, Table
    <3>4. WellTyped(t)
      BY <1>1, <2>1, <2>2, <3>3 DEF WellTyped, Table, Finite
    <3>5. Named(t)
      BY <1>1, <2>2 DEF Named, SameNames
    <3>6. Hopeless(t)
      BY <2>2, <3>1, <3>2, <3>4, <3>5, RestoreGivesUp DEF SameNames
    <3>7. QED
      BY <1>2, <2>2, <3>6
  <2>5. QED
    BY <2>3, <2>4
<1>5. ASSUME Flush PROVE Hopeless(db)
  BY <1>1, <1>5, SaveGivesUp DEF Flush
<1>6. ASSUME GetDataFails PROVE Hopeless(db)
  <2>1. RecoveryRestore(db, TRUE) /\ ~Behind(db.primary)
    BY <1>6 DEF GetDataFails, ReadFails, NoWindow
  <2>2. QED
    BY <1>1, <2>1, InUseTypes, RestoreGivesUp DEF Behind, InGoodStanding
<1>7. ASSUME NEW r \in Reader, GetRowsRecovers(r) PROVE Hopeless(db)
  <2>1. RecoveryRestore(db, FALSE) /\ ~Behind(db.primary)
    BY <1>7 DEF GetRowsRecovers, NoWindow
  <2>2. QED
    BY <1>1, <2>1, InUseTypes, RestoreGivesUp DEF Behind, InGoodStanding
<1>8. ASSUME ContinueRestore PROVE Hopeless(db)
  <2>1. PICK p : p = RestoreTo(db)
    OBVIOUS
  <2>2. db' = p /\ db.backupLost
    BY <1>1, <1>8, <2>1 DEF ContinueRestore, Firm, Waiting
  <2>3. Restored(p, db, db.primary) \/ (db.primary \notin db.ok /\ GivenUp(p, db))
    BY <1>1, <2>1, RestoreToDoes DEF Named
  <2>4. QED
    BY <2>2, <2>3 DEF Hopeless, Restored, GivenUp, SameVolumes
<1>9. ASSUME Housekeeping PROVE Hopeless(db)
  <2>1. PICK t : /\ t = db \/ (~db.backupNeeded /\ db.backup # None /\ t = Validated(db))
                 /\ db' = t \/ Save(t)
    BY <1>9 DEF Housekeeping
  <2>2. hk = Ready /\ wait = "none"
    BY <1>9 DEF Housekeeping
  <2>3. WellTyped(t) /\ Sound(t) /\ ~t.primaryLost
    BY <1>1, <2>1, <2>2, ValidatedKeeps
  <2>4. t.primary = db.primary /\ t.backup = db.backup /\ t.backupLost = db.backupLost
    BY <1>1, <2>1 DEF Validated, WellTyped, Table
  <2>5. Hopeless(t)
    BY <2>1, <2>3, SaveGivesUp DEF Sound, Firm, Hopeless
  <2>6. QED
    BY <2>4, <2>5 DEF Hopeless
<1>10. ASSUME EndBackup PROVE Hopeless(db)
  <2>1. PICK t : t = BackedUp(db)
    OBVIOUS
  <2>2. /\ WellTyped(t) /\ t.primary = db.primary /\ t.backup = db.backup /\ ~t.primaryLost
        /\ t.ok = db.ok /\ ~t.backupLost
    BY <1>1, <2>1 DEF BackedUp, WellTyped, Table, Finite
  <2>3. hk # Ready /\ (db.primary \in Usable(db) <=> db.primary \in db.ok)
    BY <1>10, InUseTypes, WorkType DEF EndBackup, BackingUp
  <2>4. db' = SaveDesc(t) /\ db.primary \in db.ok
    BY <1>10, <2>1, <2>2, <2>3 DEF EndBackup, RecoveryRestore, NoWindow
  <2>5. PICK p : p = SaveDesc(t)
    OBVIOUS
  <2>6. Described(p, t) \/ Planned(p, t)
    BY <2>2, <2>4, <2>5, SaveDescDoes
  <2>7. QED
    BY <2>2, <2>4, <2>5, <2>6 DEF Hopeless, Described, Planned, SameNames
<1>11. ASSUME NEW v \in Volume, VolumeRemoved(v) PROVE Hopeless(db)
  <2>1. PICK t : t = [db EXCEPT !.online = @ \ {v}]
    OBVIOUS
  <2>2. v \notin db.ok /\ OnVolumesChanged(t, {v})
    BY <1>11, <2>1 DEF VolumeRemoved
  <2>3. /\ WellTyped(t) /\ t.ok = db.ok /\ t.disk = db.disk /\ t.online = db.online \ {v}
        /\ SameNames(t, db) /\ SameRows(t, db)
    BY <1>1, <2>1, <2>2 DEF WellTyped, Table, Finite, SameNames, SameRows
  <2>4. Firm(t)
    BY <1>1, <2>3
    DEF Firm, Named, InUse, Waiting, CopyRight, MergeRight, WorkingOn, Held, Replaced, Overwriting,
        SameNames, SameRows
  <2>5. Hopeless(t)
    BY <2>2, <2>3, <2>4, ChangesGiveUp DEF SameNames
  <2>6. QED
    BY <1>2, <2>3, <2>5
<1>12. ASSUME NEW v \in Volume, VolumeAdded(v) PROVE Hopeless(db)
  <2>1. PICK t : t = [db EXCEPT !.online = @ \cup {v}, !.ok = @ \cup {v}]
    OBVIOUS
  <2>2. OnVolumesChanged(t, {})
    BY <1>12, <2>1 DEF VolumeAdded
  <2>3. /\ WellTyped(t) /\ SameNames(t, db)
    BY <1>1, <2>1 DEF WellTyped, Table, Finite, SameNames
  <2>4. db' = t \/ (t.backupLost /\ db' = RecoveryBackup(t))
    BY <2>2, <2>3 DEF OnVolumesChanged, SameNames
  <2>5. Hopeless(t)
    BY <2>3, <2>4, BackupGivesUp DEF Hopeless, SameNames
  <2>6. QED
    BY <1>2, <2>3, <2>5
<1>13. ASSUME CopyDesc PROVE db'.primaryLost = db.primaryLost
  BY <1>1, <1>13 DEF CopyDesc, WellTyped, Table
<1>14. ASSUME NEW s \in hk.left, CopySegment(s) PROVE db'.primaryLost = db.primaryLost
  BY <1>1, <1>14 DEF CopySegment, WellTyped, Table
<1>15. ASSUME MergeSegments PROVE db'.primaryLost = db.primaryLost
  BY <1>1, <1>15 DEF MergeSegments, WellTyped, Table
<1>16. ASSUME EndMerge PROVE db'.primaryLost = db.primaryLost
  BY <1>1, <1>16 DEF EndMerge, WellTyped, Table
<1>17. ASSUME HousekeepingThread PROVE Hopeless(db)
  BY <1>3, <1>9, <1>10, <1>13, <1>14, <1>15, <1>16, <1>17 DEF HousekeepingThread, CopyVolumeFails
<1>18. ASSUME NEW c \in copies, CopyToBackup(c) PROVE db'.primaryLost = db.primaryLost
  BY <1>1, <1>18 DEF CopyToBackup, WellTyped, Table
<1>19. ASSUME NEW v \in Volume, FailVolume(v) PROVE db'.primaryLost = db.primaryLost
  BY <1>1, <1>19 DEF FailVolume, WellTyped, Table
<1>20. ASSUME Crash PROVE Hopeless(db)
  BY <1>1, <1>20 DEF Crash, Closed, WellTyped, Table, Hopeless
<1>21. QED
  BY <1>3, <1>4, <1>5, <1>6, <1>7, <1>8, <1>11, <1>12, <1>17, <1>18, <1>19, <1>20
  DEF Next, GetRowsFails, Open, vars

(* A table is given up only when its primary volume is broken and its      *)
(* backup is not to be used (the notes on RecoveryFailure).                *)
THEOREM GivenUpOnlyWhenHopeless ==
    ASSUME NoWindow
    PROVE  Spec => GivesUpOnlyWhenLost
<1>1. VInv /\ [Next]_vars =>
        [up /\ ~db.primaryLost /\ db'.primaryLost =>
           /\ db.primary \notin Usable(db')
           /\ db.backupLost \/ db.backup \notin Usable(db')]_vars
  BY StepGivesUp DEF Hopeless, Usable
<1>2. QED
  BY <1>1, VInvAlways, PTL DEF Spec, GivesUpOnlyWhenLost

=============================================================================
