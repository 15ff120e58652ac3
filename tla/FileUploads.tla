---------------------------- MODULE FileUploads -----------------------------
(***************************************************************************)
(* Uploads to one file of a file table: CAeonTable::UploadFile and the     *)
(* sessions of CAeonUploadSessions, which put a file together from the     *)
(* parts that a client sends in separate messages.                         *)
(*                                                                         *)
(* A call looks up the file under the lock of the table, gives it up,      *)
(* opens the session under the lock of the sessions, writes with no lock   *)
(* at all, accounts for its part under the lock of the sessions, and in    *)
(* the end, under the lock of the table, looks again and stores the new    *)
(* descriptor.  Each of these is a step.                                   *)
(*                                                                         *)
(* Data is counted in units; the mirror file of the backup volume is left  *)
(* to TableVolumes.                                                        *)
(***************************************************************************)
EXTENDS Integers, Sequences, FiniteSets

CONSTANTS Thread,      \* engine threads in UploadFile
          Upload,      \* clients; a client's session ID is its own
          Length,      \* units of an upload (uploadSize)
          UploadPos,   \* offset of an upload over an existing file
          Modes,       \* kinds of uploads that clients make
          MaxFiles,    \* bound on the files ever created
          MaxCommits,  \* bound on the descriptors ever stored
          MaxCrashes,
          Windows      \* the delicate windows a behaviour may enter

ASSUME UploadsAssumption ==
    /\ Length \in Nat \ {0} /\ UploadPos \in 0..Length
    /\ Modes \subseteq {"whole", "over", "append"}
    /\ MaxFiles \in Nat /\ MaxCommits \in Nat /\ MaxCrashes \in Nat
    /\ Windows \subseteq {"resend", "concurrent", "stale", "append", "abandon", "aba", "open"}

VARIABLES
    row,       \* the file descriptor in the table
    files,     \* files in the order of their creation
    sessions,  \* m_Sessions
    threads,   \* the call that each thread is in
    plan,      \* what each client uploads
    sent,      \* units that a client has sent since its upload began
    commits,   \* number of descriptors stored
    crashes

vars == <<row, files, sessions, threads, plan, sent, commits, crashes>>

Unversioned == -1       \* no version in the upload descriptor (0xFFFFFFFF)
NoFile == 0
NoSession == [file |-> NoFile]
NoPlan == [mode |-> "none", version |-> 0, seen |-> 0]
Idle == [step |-> "idle"]
NoRow == [version |-> 0, file |-> NoFile, size |-> 0, by |-> "nobody", commit |-> 0]

Unit == 0..Length - 1
Hole == <<>>
Part == {part \in Unit \X (1..Length) : part[1] + part[2] <= Length}
Units(part) == part[1]..part[1] + part[2] - 1

(* The type of the table's state: positions and lengths of the ranges may  *)
(* be any integers.                                                        *)
SFileRange == [pos : Int, len : Int]
FileID == 0..MaxFiles + Cardinality(Thread)
TypeOK ==
    /\ row.file \in FileID /\ row.version \in Nat
    /\ \A f \in DOMAIN files : files[f].place \in {"table", "scrap", "deleted"}
    /\ \A u \in Upload : sessions[u] # NoSession =>
          /\ sessions[u].file \in DOMAIN files
          /\ \A i \in DOMAIN sessions[u].expected : sessions[u].expected[i] \in SFileRange
          /\ sessions[u].expected # <<>>
    /\ \A t \in Thread : threads[t] # Idle =>
          threads[t].step \in {"looked", "open", "written", "failed", "commit"}
    /\ \A u \in Upload : plan[u] # NoPlan => plan[u].mode \in Modes /\ plan[u].version \in Nat \cup {Unversioned}
    /\ sent \in [Upload -> SUBSET Unit]

Init ==
    /\ row = NoRow /\ files = <<>>
    /\ sessions = [u \in Upload |-> NoSession]
    /\ threads = [t \in Thread |-> Idle]
    /\ plan = [u \in Upload |-> NoPlan]
    /\ sent = [u \in Upload |-> {}]
    /\ commits = 0 /\ crashes = 0

-----------------------------------------------------------------------------
(* Files.  One that is open cannot be moved, deleted, or opened for        *)
(* writing again: CFile asks for no such sharing.                          *)

HasOpen(t, f) ==
    /\ threads[t].step \in {"open", "written", "failed"}
    /\ threads[t].file = f \/ (threads[t].copy > 0 /\ threads[t].cur = f)
Writes(t, f) == threads[t].step \in {"open", "written", "failed"} /\ threads[t].file = f

InPlace(f) == f \in DOMAIN files /\ files[f].place = "table"
CanOpen(f) == InPlace(f) /\ \A t \in Thread : ~Writes(t, f)

(* fileMove and fileDelete by thread t, which has closed its own handles.  *)
MovedBy(t, f, place) ==
    IF InPlace(f) /\ \A v \in Thread \ {t} : ~HasOpen(v, f)
    THEN [files EXCEPT ![f].place = place] ELSE files

At(text, pos) == IF pos + 1 \in DOMAIN text THEN text[pos + 1] ELSE Hole
LongerOf(m, n) == IF m > n THEN m ELSE n

(* The text with n units of u from the k-th on written at pos. *)
WriteUnits(text, pos, u, k, n) ==
    [i \in 1..LongerOf(Len(text), pos + n) |->
        IF i - 1 \in pos..pos + n - 1 THEN <<u, k + (i - 1 - pos)>> ELSE At(text, i - 1)]

(* The two segments of the old file, as long as it was, around the upload. *)
CopySegments(text, old, oldLength) ==
    [i \in 1..LongerOf(Len(text), oldLength) |->
        IF i <= oldLength /\ i - 1 \notin UploadPos..UploadPos + Length - 1
        THEN At(old, i - 1) ELSE At(text, i - 1)]

-----------------------------------------------------------------------------
(* A client sends a part, and UploadFile looks up the file *)

WorksOn(t, u) == threads[t] # Idle /\ threads[t].upload = u
Begun(u) == sessions[u] # NoSession \/ \E t \in Thread : WorksOn(t, u)
Appending == \E u \in Upload : Begun(u) /\ plan[u].mode = "append"
Flying(t) == threads[t] # Idle
UnversionedFlying == \E t \in Thread : Flying(t) /\ plan[threads[t].upload].version = Unversioned
Copying == \E t \in Thread : Flying(t) /\ plan[threads[t].upload].mode = "over"

(* The windows at the start of a call for upload u with the plan p: the    *)
(* client does not wait for the answer to another part; the client sends a *)
(* part again; the file may change unnoticed during the call; it may be    *)
(* written in place by another upload; it is open for copying.             *)
MayStart(u, p, part) ==
    /\ (\E t \in Thread : WorksOn(t, u)) => "concurrent" \in Windows
    /\ Units(part) \cap sent[u] # {} => "resend" \in Windows
    /\ (\E t \in Thread : Flying(t)) /\ (p.version = Unversioned \/ UnversionedFlying) => "stale" \in Windows
    /\ Appending \/ p.mode = "append" => (\A v \in Upload \ {u} : ~Begun(v)) \/ "append" \in Windows
    /\ (\E t \in Thread : Flying(t)) /\ (p.mode = "over" \/ Copying) => "open" \in Windows

(* The version that a client names is that of the descriptor it has read.  *)
Plans == {[mode |-> mode, version |-> v, seen |-> row.commit] : mode \in Modes, v \in {Unversioned, row.version}}

Look(t) ==
    \E u \in Upload, part \in Part : \E p \in IF plan[u] # NoPlan THEN {plan[u]} ELSE Plans :
        /\ threads[t] = Idle
        /\ commits < MaxCommits /\ Len(files) < MaxFiles
        /\ MayStart(u, p, part)
        /\ plan' = [plan EXCEPT ![u] = p]
        /\ sent' = [sent EXCEPT ![u] = @ \cup Units(part)]
        /\ threads' = [threads EXCEPT ![t] = [step |-> "looked", upload |-> u, part |-> part,
                                              cur |-> row.file]]
        /\ UNCHANGED <<row, files, sessions, commits, crashes>>

(* The client deletes the file: no data and no descriptor. *)
DeleteFile ==
    /\ row # NoRow
    /\ UnversionedFlying => "stale" \in Windows
    /\ Appending => "append" \in Windows
    /\ Copying => "open" \in Windows
    /\ (\E u \in Upload : Begun(u) /\ plan[u].version > 0) => "aba" \in Windows
    /\ row' = NoRow
    /\ files' = MovedBy("nobody", row.file, "scrap")
    /\ UNCHANGED <<sessions, threads, plan, sent, commits, crashes>>

-----------------------------------------------------------------------------
(* CAeonUploadSessions::ProcessUpload, up to the write *)

(* The call returns, and when it failed or was the last the upload is over. *)
Return(t) == threads' = [threads EXCEPT ![t] = Idle]
Over(u) ==
    /\ sessions' = [sessions EXCEPT ![u] = NoSession]
    /\ plan' = [plan EXCEPT ![u] = NoPlan]
    /\ sent' = [sent EXCEPT ![u] = {}]

NewFile == [place |-> "table", text |-> <<>>, safe |-> <<>>]
FirstRange == <<[pos |-> 0, len |-> Length]>>
NewSession(file, new, offset, size, version) ==
    [file |-> file, new |-> new, offset |-> offset, size |-> size, version |-> version,
     expected |-> FirstRange]

Opened(t, u, session, copy) ==
    /\ sessions' = [sessions EXCEPT ![u] = session]
    /\ threads' = [threads EXCEPT ![t] =
                      [step |-> "open", upload |-> u, part |-> @.part, cur |-> @.cur,
                       file |-> session.file, offset |-> session.offset, copy |-> copy]]
    /\ UNCHANGED <<plan, sent>>

CreateSession(t, u) ==
    LET cur == threads[t].cur
        new == Len(files) + 1
        p == plan[u]
        length == Len(files[cur].text)
    IN  \/ /\ p.mode = "whole"
           /\ files' = Append(files, NewFile)
           /\ Opened(t, u, NewSession(new, TRUE, 0, Length, p.version), 0)
        \/ /\ p.mode = "over" /\ InPlace(cur)
           /\ files' = Append(files, NewFile)
           /\ Opened(t, u, NewSession(new, TRUE, UploadPos, LongerOf(length, UploadPos + Length),
                                      p.version), length)
        \/ /\ p.mode = "over" /\ ~InPlace(cur)
           /\ files' = IF cur = NoFile THEN files ELSE Append(files, [NewFile EXCEPT !.place = "deleted"])
           /\ Return(t) /\ Over(u)
        \/ /\ p.mode = "append" /\ CanOpen(cur)
           /\ Opened(t, u, NewSession(cur, FALSE, length, length + Length, p.version), 0)
           /\ UNCHANGED files
        \/ /\ p.mode = "append" /\ ~CanOpen(cur)
           /\ Return(t) /\ Over(u)
           /\ UNCHANGED files

(* DeleteTempFile and Delete. *)
Abort(t, u, file) ==
    /\ files' = IF sessions[u].new THEN MovedBy(t, file, "deleted") ELSE files
    /\ Return(t) /\ Over(u)

OpenSession(t) ==
    LET u == threads[t].upload
        s == sessions[u]
    IN  /\ threads[t].step = "looked"
        /\ \/ s = NoSession /\ CreateSession(t, u)
           \/ s # NoSession /\ CanOpen(s.file) /\ Opened(t, u, s, 0) /\ UNCHANGED files
           \/ s # NoSession /\ ~CanOpen(s.file) /\ Abort(t, u, s.file)
        /\ UNCHANGED <<row, commits, crashes>>

Write(t) ==
    LET c == threads[t]
        k == c.part[1]
        copied == IF c.copy = 0 THEN files[c.file].text
                  ELSE CopySegments(files[c.file].text, files[c.cur].text, c.copy)
    IN  /\ c.step = "open"
        /\ files' = [files EXCEPT ![c.file].text =
                        WriteUnits(copied, c.offset + k, c.upload, k, c.part[2])]
        /\ threads' = [threads EXCEPT ![t].step = "written"]
        /\ UNCHANGED <<row, sessions, plan, sent, commits, crashes>>

(* Window "abandon": the file of the table keeps what an upload that does  *)
(* not come to its end has appended.                                       *)
MayEnd(u) ==
    plan[u].mode = "append" /\ Begun(u) => "abandon" \in Windows

WriteFails(t) ==
    /\ threads[t].step = "open"
    /\ MayEnd(threads[t].upload)
    /\ threads' = [threads EXCEPT ![t].step = "failed"]
    /\ UNCHANGED <<row, files, sessions, plan, sent, commits, crashes>>

-----------------------------------------------------------------------------
(* ProcessUpload after the write *)

EndOf(r) == r.pos + r.len

(* The first range that the loop stops at, or 0. *)
RangeFor(expected, pos) ==
    LET hits == {i \in DOMAIN expected : \/ pos < EndOf(expected[i])
                                         \/ expected[i].len = 0 /\ pos = expected[i].pos}
    IN  IF hits = {} THEN 0 ELSE CHOOSE i \in hits : \A j \in hits : i <= j

Fits(r, part) == r.len = 0 \/ part[1] + part[2] <= EndOf(r)

RestLost(r, part) ==    \* mutant: the range behind a part in the middle is not inserted
    LET before == [pos |-> r.pos, len |-> part[1] - r.pos]
        after == [pos |-> part[1] + part[2], len |-> EndOf(r) - (part[1] + part[2])]
    IN  IF r.len = 0 \/ (part[1] = r.pos /\ part[2] = r.len) THEN <<>>
        ELSE IF part[1] = r.pos THEN <<after>> ELSE <<before>>
(* What is left of range r after a part that fits it, in order. *)
WithoutPart(r, part) ==
    LET before == [pos |-> r.pos, len |-> part[1] - r.pos]
        after == [pos |-> part[1] + part[2], len |-> EndOf(r) - (part[1] + part[2])]
    IN  IF r.len = 0 \/ (part[1] = r.pos /\ part[2] = r.len) THEN <<>>
        ELSE IF part[1] = r.pos THEN <<after>>
        ELSE IF after.len = 0 THEN <<before>>
        ELSE <<before, after>>

Expected(expected, i, part) ==
    SubSeq(expected, 1, i - 1) \o WithoutPart(expected[i], part)
        \o SubSeq(expected, i + 1, Len(expected))

Needed(expected) ==
    LET sum[i \in 0..Len(expected)] == IF i = 0 THEN 0 ELSE sum[i - 1] + expected[i].len
    IN  sum[Len(expected)]

(* CalcUploadCompletion returns 100. *)
LooksComplete(expected) == Needed(expected) = 0

(* The receipt of an upload that is complete, and of one that is not.      *)
Receipt(s, file) == [file |-> file, new |-> s.new, version |-> s.version, size |-> s.size]
EmptyReceipt == [file |-> NoFile, new |-> FALSE, version |-> 0, size |-> 0]

ToCommit(t, receipt) ==
    threads' = [threads EXCEPT ![t] = [step |-> "commit", upload |-> @.upload, cur |-> @.cur,
                                       receipt |-> receipt]]

NotFlushed(f) == files    \* mutant: the file is not flushed
Flushed(f) == [files EXCEPT ![f].safe = files[f].text]

(* Every part is there: the file is flushed and the session deleted. *)
Complete(t, u, file) ==
    /\ files' = Flushed(file)
    /\ ToCommit(t, Receipt(sessions[u], file))
    /\ sessions' = [sessions EXCEPT ![u] = NoSession]
    /\ UNCHANGED <<plan, sent>>

Partial(t, u, expected) ==
    /\ sessions' = [sessions EXCEPT ![u].expected = expected]
    /\ IF LooksComplete(expected) THEN ToCommit(t, EmptyReceipt) ELSE Return(t)
    /\ UNCHANGED <<files, plan, sent>>

(* The session is looked up again: another thread may have deleted it. *)
Account(t) ==
    LET c == threads[t]
        u == c.upload
        s == sessions[u]
        i == RangeFor(s.expected, c.part[1])
        left == Expected(s.expected, i, c.part)
        accepted == c.step = "written" /\ i # 0 /\ Fits(s.expected[i], c.part)
    IN  /\ c.step \in {"written", "failed"}
        /\ \/ s = NoSession /\ Return(t) /\ UNCHANGED <<files, sessions, plan, sent>>
           \/ s # NoSession /\ ~accepted /\ Abort(t, u, c.file)
           \/ /\ s # NoSession /\ accepted
              /\ IF left = <<>> THEN Complete(t, u, c.file) ELSE Partial(t, u, left)
        /\ UNCHANGED <<row, commits, crashes>>

-----------------------------------------------------------------------------
(* UploadFile, the table locked again *)

(* The upload is over, unless its session is still there. *)
EndIfClosed(u) ==
    IF sessions[u] # NoSession THEN UNCHANGED <<plan, sent>>
    ELSE plan' = [plan EXCEPT ![u] = NoPlan] /\ sent' = [sent EXCEPT ![u] = {}]

(* AbortUpload. *)
Refuse(t, u, receipt) ==
    /\ files' = IF receipt.new THEN MovedBy(t, receipt.file, "deleted") ELSE files
    /\ Return(t) /\ EndIfClosed(u)
    /\ UNCHANGED <<row, sessions, commits>>

IgnoreVersion(v) == TRUE    \* mutant: the version is not compared
VersionMatches(v) == v = Unversioned \/ v = row.version

ScrapNothing(t) == files    \* mutant: the replaced file stays
Scrapped(t) == IF threads[t].cur = NoFile THEN files ELSE MovedBy(t, threads[t].cur, "scrap")

Commit(t) ==
    LET u == threads[t].upload
        receipt == threads[t].receipt
    IN  /\ threads[t].step = "commit"
        /\ VersionMatches(receipt.version)
        /\ row' = [version |-> row.version + 1, file |-> receipt.file, size |-> receipt.size,
                   by |-> u, commit |-> commits + 1]
        /\ commits' = commits + 1
        /\ files' = IF receipt.new THEN Scrapped(t) ELSE files
        /\ Return(t) /\ EndIfClosed(u)
        /\ UNCHANGED <<sessions, crashes>>

OutOfDate(t) ==
    /\ threads[t].step = "commit"
    /\ ~VersionMatches(threads[t].receipt.version)
    /\ Refuse(t, threads[t].upload, threads[t].receipt)
    /\ UNCHANGED crashes

InsertFails(t) ==
    /\ threads[t].step = "commit"
    /\ plan[threads[t].upload].mode = "append" => "abandon" \in Windows
    /\ Refuse(t, threads[t].upload, threads[t].receipt)
    /\ UNCHANGED crashes

-----------------------------------------------------------------------------
(* Mark deletes a session that has had no part for 15 minutes; no thread   *)
(* is in a call.                                                           *)
Expire(u) ==
    /\ sessions[u] # NoSession
    /\ \A t \in Thread : threads[t] = Idle
    /\ MayEnd(u)
    /\ files' = IF sessions[u].new THEN MovedBy("nobody", sessions[u].file, "deleted") ELSE files
    /\ Over(u)
    /\ UNCHANGED <<row, threads, commits, crashes>>

(* The machine stops.  Descriptors are on disk, and files are as they were *)
(* or as they were flushed.                                                *)
Crash ==
    /\ crashes < MaxCrashes
    /\ Appending => "abandon" \in Windows
    /\ crashes' = crashes + 1
    /\ \/ UNCHANGED files
       \/ files' = [f \in DOMAIN files |-> [files[f] EXCEPT !.text = files[f].safe]]
    /\ sessions' = [u \in Upload |-> NoSession]
    /\ threads' = [t \in Thread |-> Idle]
    /\ plan' = [u \in Upload |-> NoPlan]
    /\ sent' = [u \in Upload |-> {}]
    /\ UNCHANGED <<row, commits>>

Next ==
    \/ \E t \in Thread : \/ Look(t) \/ OpenSession(t) \/ Write(t) \/ WriteFails(t) \/ Account(t)
                         \/ Commit(t) \/ OutOfDate(t) \/ InsertFails(t)
    \/ \E u \in Upload : Expire(u)
    \/ DeleteFile \/ Crash

Spec == Init /\ [][Next]_vars

-----------------------------------------------------------------------------
(* Properties *)

(* The upload's own data, at the place it was meant for. *)
HasUnit(text, offset, u, k) == At(text, offset + k) = <<u, k>>

(* A descriptor in the table, and so one that was answered with 100 %, has *)
(* a file, and a file as long as it says without a hole in it; a crash     *)
(* takes nothing of it away.                                               *)
Stored ==
    row # NoRow =>
        /\ InPlace(row.file)
        /\ Len(files[row.file].text) >= row.size
        /\ \A i \in 1..row.size : files[row.file].text[i] # Hole
        /\ \E offset \in 0..row.size - Length :
              \A k \in Unit : HasUnit(files[row.file].text, offset, row.by, k)

(* What a session no longer waits for is in its file, and the ranges that  *)
(* it waits for are the others: so the upload is complete when no range is *)
(* left, and it can be completed.                                          *)
Awaited(s) == UNION {s.expected[i].pos..EndOf(s.expected[i]) - 1 : i \in DOMAIN s.expected}
SessionTrue ==
    \A u \in Upload : sessions[u] # NoSession =>
        LET s == sessions[u]
        IN  /\ \A i \in DOMAIN s.expected : s.expected[i].len > 0
            /\ \A k \in Unit \ Awaited(s) : HasUnit(files[s.file].text, s.offset, u, k)
            /\ (\A t \in Thread : ~WorksOn(t, u)) => Awaited(s) = Unit \ sent[u]

(* No file stays in the table's directory that neither the descriptor nor  *)
(* a session knows of.                                                     *)
NoOrphan ==
    crashes = 0 /\ (\A u \in Upload : ~Begun(u)) =>
        {f \in DOMAIN files : files[f].place = "table"} \subseteq {row.file}

(* An upload that names the version it replaces never overwrites one that  *)
(* its client has not seen.                                                *)
NoLostUpdate ==
    [][row' # row /\ row'.by # "nobody" /\ plan[row'.by].version # Unversioned =>
          plan[row'.by].seen = row.commit]_vars
=============================================================================
