---------------------------- MODULE AeonViewInv -----------------------------
(***************************************************************************)
(* The inductive invariant of AeonView for a process that does not die     *)
(* while a merge is retiring its inputs.  Each named part says what one    *)
(* place must hold for a reopen to find every row.                         *)
(***************************************************************************)
EXTENDS AeonView

Complete == {f \in File : disk[f].state = "complete"}

(* The segments S alone determine that row k has data d: one of them, newer *)
(* than every other holder of k, has it, or none holds k and d is nil.      *)
Gives(S, k, d) ==
    \/ d = Nil /\ \A f \in S : ~Holds(f, k)
    \/ \E f \in S : /\ Holds(f, k)
                    /\ disk[f].rows[k] = d
                    /\ \A g \in S \ {f} : Holds(g, k) => disk[g].seq < disk[f].seq

DistinctSeqs(S) == \A f, g \in S : f # g => disk[f].seq # disk[g].seq

InLog(k) == \E i \in 1..Len(log) : log[i].key = k

(* Record i is the last for its key among the first n records of the log. *)
LastOf(i, n) == \A j \in 1..n : j > i => log[j].key # log[i].key

(* Which files the process may be holding, and in which state. *)
Files ==
    /\ phase # "open" => op = Idle /\ merge = NoMerge /\ retired = {}
    /\ phase \in {"closed", "replay", "failed"} => segments = {}
    /\ segments \subseteq Complete
    /\ retired \subseteq Complete
    /\ segments \cap retired = {}
    /\ phase = "open" =>
          \A f \in Complete : \/ f \in segments \cup retired
                              \/ op.type = "save" /\ f = op.file
                              \/ merge # NoMerge /\ f = merge.new

(* The segment that a save is writing holds exactly the unsaved rows. *)
SaveFile ==
    op.type = "save" =>
        /\ disk[op.file].state # "none"
        /\ op.file \notin segments \cup retired
        /\ merge # NoMerge => op.file # merge.new
        /\ disk[op.file].seq = seq
        /\ disk[op.file].rows = rows
        /\ HasUnsavedRows

(* The segment that a merge is writing can stand in for its two inputs. *)
MergeFile ==
    merge # NoMerge =>
        /\ disk[merge.new].state # "none"
        /\ merge.new \notin segments \cup retired
        /\ merge.newer \in segments
        /\ merge.older \in segments
        /\ Adjacent(merge.newer, merge.older)
        /\ disk[merge.new].seq = disk[merge.newer].seq
        /\ \E oldest \in BOOLEAN :
              /\ oldest => MayBeOldest(merge.newer, merge.older)
              /\ disk[merge.new].rows = MergedRows(merge.newer, merge.older, oldest)

(* Sequence numbers order the segments, and m_Seq is not behind them. *)
Ordering ==
    /\ DistinctSeqs(LiveFiles)
    /\ phase \in {"segments", "open"} => \A f \in segments : disk[f].seq <= seq
    /\ phase = "open" /\ log # <<>> => \A f \in segments : disk[f].seq < seq

(* The log gives each key it mentions the data that the row must have. *)
LogHoldsStore ==
    \A i \in 1..Len(log) : LastOf(i, Len(log)) => log[i].data = store[log[i].key]

(* The segments give every other key the data that the row must have. *)
SegmentsHoldRest ==
    \A k \in Key : ~InLog(k) => Gives(LiveFiles, k, store[k])

(* The number of log records that the memory rows account for. *)
Accounted == IF phase = "open" THEN Len(log) ELSE replayed

(* The memory rows are the log, replayed in order. *)
RowHoldsLog(k) ==
    IF rows[k] = NoRow
    THEN \A i \in 1..Accounted : log[i].key # k
    ELSE \E i \in 1..Accounted : /\ log[i].key = k
                                 /\ log[i].data = rows[k]
                                 /\ LastOf(i, Accounted)

RowsHoldLog ==
    /\ phase # "open" => replayed <= Len(log)
    /\ phase = "segments" => replayed = Len(log)
    /\ \A k \in Key :
          IF op.type = "insert" /\ op.key = k THEN rows[k] = op.data ELSE RowHoldsLog(k)

(* Everything a reopen needs is on the volume, and everything in memory    *)
(* agrees with it.  (Inductive when the process does not die while a merge *)
(* is retiring its inputs.)                                                *)
IInv ==
    /\ Files
    /\ SaveFile
    /\ MergeFile
    /\ Ordering
    /\ LogHoldsStore
    /\ SegmentsHoldRest
    /\ RowsHoldLog
=============================================================================
