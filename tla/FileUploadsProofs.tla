------------------------- MODULE FileUploadsProofs --------------------------
(***************************************************************************)
(* That no upload overwrites a version its client has not seen, that the   *)
(* file of the descriptor holds what was uploaded and outlives a crash,    *)
(* that the ranges of a session say what its file still lacks, and that    *)
(* no file is left behind: for any number of threads, clients, files,      *)
(* parts and crashes.                                                      *)
(***************************************************************************)
EXTENDS FileUploads, TLAPS, SequenceTheorems, WellFoundedInduction

USE UploadsAssumption

Plan == [mode : Modes \cup {"none"}, version : Nat \cup {Unversioned}, seen : Nat]

(* Records that are what their fields are. *)
IsSession(s) ==
    s = [file |-> s.file, new |-> s.new, offset |-> s.offset, size |-> s.size,
         version |-> s.version, expected |-> s.expected]
IsCall(c) ==
    /\ c.step \in {"open", "written", "failed"}
    /\ c = [step |-> c.step, upload |-> c.upload, part |-> c.part, cur |-> c.cur,
            file |-> c.file, offset |-> c.offset, copy |-> c.copy]

(* A thread that is past the start of its call has a session, and one that *)
(* is about to store a descriptor has the version of the upload, or of the *)
(* receipt of an upload that only looks complete.                          *)
CallOK(t) ==
    Flying(t) =>
        LET c == threads[t]
        IN  /\ c.upload \in Upload
            /\ \/ c.step = "looked"
               \/ IsCall(c) /\ sessions[c.upload] # NoSession
               \/ c.step = "commit" /\ c.receipt.version \in {0, plan[c.upload].version}

(* A client has a plan exactly while its upload is under way, and the      *)
(* session keeps its version.                                              *)
UploadOK(u) ==
    /\ plan[u] \in Plan
    /\ plan[u].version = 0 => plan[u].seen = 0
    /\ plan[u] # NoPlan <=> Begun(u)
    /\ sessions[u] # NoSession => IsSession(sessions[u]) /\ sessions[u].version = plan[u].version

(* The version that an upload names is never above that of the table, and  *)
(* while they are equal the descriptor is the one its client has seen.     *)
SeenOK(u) ==
    Begun(u) /\ plan[u].version # Unversioned =>
        /\ plan[u].version <= row.version
        /\ plan[u].version = row.version => plan[u].seen = row.commit

RowOK ==
    /\ row.version \in Nat /\ row.commit \in Nat /\ commits \in Nat
    /\ row.version = 0 => row.commit = 0

OneCall == \A t, v \in Thread, u \in Upload : WorksOn(t, u) /\ WorksOn(v, u) => t = v

UInv ==
    /\ DOMAIN threads = Thread /\ DOMAIN sessions = Upload /\ DOMAIN plan = Upload
    /\ RowOK /\ OneCall
    /\ \A t \in Thread : CallOK(t)
    /\ \A u \in Upload : UploadOK(u) /\ SeenOK(u)

-----------------------------------------------------------------------------
LEMMA InitUInv == Init => UInv
BY DEF Init, UInv, RowOK, NoRow, OneCall, WorksOn, CallOK, Flying, UploadOK, SeenOK, Begun, Plan,
       NoPlan, Unversioned

(* A step of the calls for one upload: of thread t, which works for u or   *)
(* is about to.                                                            *)
Alters(t, u) ==
    /\ DOMAIN threads' = Thread /\ DOMAIN sessions' = Upload /\ DOMAIN plan' = Upload
    /\ \A v \in Thread \ {t} : threads'[v] = threads[v]
    /\ \A w \in Upload \ {u} : sessions'[w] = sessions[w] /\ plan'[w] = plan[w]
    /\ Flying(t)' => threads'[t].upload = u
    /\ IF Flying(t) THEN threads[t].upload = u ELSE \A v \in Thread : ~WorksOn(v, u)

(* Such a step, or one that stores the next version, leaves the others as  *)
(* they were.                                                              *)
LEMMA OneUpload ==
    ASSUME UInv, NEW t \in Thread, NEW u \in Upload, Alters(t, u),
           RowOK', CallOK(t)', UploadOK(u)', SeenOK(u)',
           row' = row \/ row'.version = row.version + 1
    PROVE  UInv'
<1>1. \A v \in Thread \ {t}, w \in Upload : WorksOn(v, w)' <=> WorksOn(v, w)
  BY DEF Alters, WorksOn
<1>2. \A v \in Thread \ {t} : ~WorksOn(v, u)
  BY DEF Alters, WorksOn, Flying, UInv, OneCall
<1>3. \A w \in Upload \ {u} : ~WorksOn(t, w) /\ ~WorksOn(t, w)'
  BY DEF Alters, WorksOn, Flying
<1>4. OneCall'
  BY <1>1, <1>2, <1>3 DEF OneCall, UInv
<1>5. ASSUME NEW v \in Thread \ {t} PROVE CallOK(v)'
  <2>1. CallOK(v) /\ threads'[v] = threads[v]
    BY <1>5 DEF UInv, Alters
  <2>2. Flying(v) => threads[v].upload # u
    BY <1>2, <1>5 DEF WorksOn, Flying
  <2>3. Flying(v) => /\ sessions'[threads[v].upload] = sessions[threads[v].upload]
                     /\ plan'[threads[v].upload] = plan[threads[v].upload]
    BY <2>1, <2>2 DEF CallOK, Alters
  <2>4. QED
    BY <2>1, <2>3 DEF CallOK, Flying
<1>6. ASSUME NEW w \in Upload \ {u} PROVE UploadOK(w)' /\ SeenOK(w)'
  <2>1. /\ UploadOK(w) /\ SeenOK(w) /\ RowOK
        /\ sessions'[w] = sessions[w] /\ plan'[w] = plan[w]
    BY <1>6 DEF UInv, Alters
  <2>2. Begun(w)' <=> Begun(w)
    BY <1>1, <1>3, <1>6, <2>1 DEF Begun
  <2>3. UploadOK(w)'
    BY <2>1, <2>2 DEF UploadOK
  <2>4. SeenOK(w)'
    BY <2>1, <2>2 DEF SeenOK, RowOK, UploadOK, Plan, Unversioned
  <2>5. QED
    BY <2>3, <2>4
<1>7. QED
  BY <1>4, <1>5, <1>6 DEF UInv, Alters

LEMMA LookKeeps ==
    ASSUME UInv, "concurrent" \notin Windows, NEW t \in Thread, Look(t)
    PROVE  UInv'
<1>1. PICK u \in Upload, part \in Part : \E p \in IF plan[u] # NoPlan THEN {plan[u]} ELSE Plans :
          /\ threads[t] = Idle
          /\ MayStart(u, p, part)
          /\ plan' = [plan EXCEPT ![u] = p]
          /\ threads' = [threads EXCEPT ![t] = [step |-> "looked", upload |-> u, part |-> part,
                                                cur |-> row.file]]
          /\ UNCHANGED <<row, sessions, commits>>
  BY DEF Look
<1>2. PICK p \in IF plan[u] # NoPlan THEN {plan[u]} ELSE Plans :
          /\ threads[t] = Idle
          /\ MayStart(u, p, part)
          /\ plan' = [plan EXCEPT ![u] = p]
          /\ threads' = [threads EXCEPT ![t] = [step |-> "looked", upload |-> u, part |-> part,
                                                cur |-> row.file]]
          /\ UNCHANGED <<row, sessions, commits>>
  BY <1>1
<1>3. /\ RowOK /\ CallOK(t) /\ UploadOK(u) /\ SeenOK(u)
      /\ DOMAIN threads = Thread /\ DOMAIN sessions = Upload /\ DOMAIN plan = Upload
  BY DEF UInv
<1>4. threads'[t].step = "looked" /\ threads'[t].upload = u /\ plan'[u] = p
  BY <1>2, <1>3
<1>5. Flying(t)' /\ WorksOn(t, u)' /\ Begun(u)' /\ ~Flying(t)
  BY <1>2, <1>4 DEF Flying, WorksOn, Begun, Idle
<1>6. Alters(t, u)
  BY <1>2, <1>3, <1>4, <1>5 DEF Alters, MayStart
<1>7. CallOK(t)'
  BY <1>4 DEF CallOK
<1>8. CASE plan[u] # NoPlan
  <2>1. p = plan[u] /\ Begun(u)
    BY <1>2, <1>3, <1>8 DEF UploadOK
  <2>2. UploadOK(u)' /\ SeenOK(u)'
    BY <1>2, <1>3, <1>4, <1>5, <1>8, <2>1 DEF UploadOK, SeenOK
  <2>3. QED
    BY <1>2, <1>3, <1>6, <1>7, <2>2, OneUpload DEF RowOK
<1>9. CASE plan[u] = NoPlan
  <2>1. p \in Plans /\ ~Begun(u)
    BY <1>2, <1>3, <1>9 DEF UploadOK
  <2>2. /\ p \in Plan /\ p.mode \in Modes /\ p.seen = row.commit
        /\ p.version \in {Unversioned, row.version}
        /\ p.version = 0 => p.seen = 0
    BY <1>3, <2>1 DEF Plans, Plan, RowOK, Unversioned
  <2>3. p # NoPlan
    BY <2>2 DEF NoPlan
  <2>4. sessions'[u] = NoSession
    BY <1>2, <2>1 DEF Begun
  <2>5. UploadOK(u)' /\ SeenOK(u)'
    BY <1>2, <1>3, <1>4, <1>5, <2>2, <2>3, <2>4 DEF UploadOK, SeenOK, RowOK
  <2>6. QED
    BY <1>2, <1>3, <1>6, <1>7, <2>5, OneUpload DEF RowOK
<1>10. QED
  BY <1>8, <1>9

(* What a thread that is in a call for u may rely on. *)
LEMMA InCall ==
    ASSUME UInv, NEW t \in Thread, NEW u, WorksOn(t, u)
    PROVE  /\ u \in Upload /\ Begun(u)
           /\ \A v \in Thread \ {t} : ~WorksOn(v, u)
           /\ DOMAIN threads = Thread /\ DOMAIN sessions = Upload /\ DOMAIN plan = Upload
           /\ RowOK /\ CallOK(t) /\ UploadOK(u) /\ SeenOK(u)
           /\ plan[u] # NoPlan
BY DEF UInv, OneCall, WorksOn, Flying, CallOK, Begun, UploadOK

(* The call returns and the upload is over. *)
LEMMA OverKeeps ==
    ASSUME UInv, NEW t \in Thread, NEW u, WorksOn(t, u), Return(t), Over(u),
           UNCHANGED <<row, commits>>
    PROVE  UInv'
<1>1. /\ threads'[t] = Idle /\ sessions'[u] = NoSession /\ plan'[u] = NoPlan
      /\ \A v \in Thread \ {t} : threads'[v] = threads[v] /\ ~WorksOn(v, u)
      /\ u \in Upload
  BY InCall DEF Return, Over
<1>2. ~Flying(t)' /\ ~Begun(u)'
  BY <1>1 DEF Flying, Begun, WorksOn
<1>3. Alters(t, u)
  BY <1>1, <1>2, InCall DEF Alters, Return, Over, Flying, WorksOn
<1>4. CallOK(t)' /\ UploadOK(u)' /\ SeenOK(u)'
  BY <1>1, <1>2 DEF CallOK, UploadOK, SeenOK, Plan, NoPlan, Unversioned
<1>5. QED
  BY <1>1, <1>3, <1>4, InCall, OneUpload DEF RowOK

(* The session of upload u is s and the call of thread t is c, or over. *)
BecomesSession(u, s) ==
    /\ DOMAIN sessions' = Upload
    /\ sessions'[u] = s
    /\ \A w \in Upload \ {u} : sessions'[w] = sessions[w]

LEMMA CallKeeps ==
    ASSUME UInv, NEW t \in Thread, NEW u, WorksOn(t, u), NEW c, NEW s,
           threads' = [threads EXCEPT ![t] = c],
           c # Idle => c.upload = u,
           BecomesSession(u, s), UNCHANGED <<row, plan, commits>>,
           \/ c = Idle /\ s # NoSession
           \/ IsCall(c) /\ s # NoSession
           \/ c # Idle /\ c.step = "commit" /\ c.receipt.version \in {0, plan[u].version},
           s # NoSession => IsSession(s) /\ s.version = plan[u].version
    PROVE  UInv'
<1>1. /\ threads'[t] = c /\ sessions'[u] = s /\ plan' = plan /\ row' = row
      /\ \A v \in Thread \ {t} : threads'[v] = threads[v] /\ ~WorksOn(v, u)
      /\ u \in Upload
  BY InCall DEF BecomesSession
<1>2. Begun(u)'
  BY <1>1 DEF Begun, WorksOn, Idle
<1>3. Alters(t, u)
  BY <1>1, InCall DEF Alters, Flying, WorksOn, BecomesSession
<1>4. CallOK(t)'
  BY <1>1 DEF CallOK, Flying
<1>5. UploadOK(u)' /\ SeenOK(u)'
  BY <1>1, <1>2, InCall DEF UploadOK, SeenOK
<1>6. QED
  BY <1>1, <1>3, <1>4, <1>5, InCall, OneUpload DEF RowOK

(* A session is created, or opened for one more part. *)
LEMMA OpenKeeps ==
    ASSUME UInv, NEW t \in Thread, OpenSession(t)
    PROVE  UInv'
<1>1. PICK u : u = threads[t].upload
  OBVIOUS
<1>2. WorksOn(t, u) /\ row' = row /\ commits' = commits
  BY <1>1 DEF OpenSession, WorksOn, Idle
<1>3. UploadOK(u) /\ u \in Upload
  BY <1>2, InCall
<1>4. ASSUME NEW s, NEW copy, IsSession(s), s # NoSession, s.version = plan[u].version,
             Opened(t, u, s, copy)
      PROVE  UInv'
  <2>1. PICK c : c = [step |-> "open", upload |-> u, part |-> threads[t].part,
                      cur |-> threads[t].cur, file |-> s.file, offset |-> s.offset, copy |-> copy]
    OBVIOUS
  <2>2. IsCall(c) /\ c.upload = u
    BY <2>1 DEF IsCall
  <2>3. threads' = [threads EXCEPT ![t] = c] /\ BecomesSession(u, s) /\ plan' = plan
    BY <1>2, <1>4, <2>1, InCall DEF Opened, BecomesSession
  <2>4. QED
    BY <1>2, <1>4, <2>2, <2>3, CallKeeps
<1>5. ASSUME Return(t), Over(u) PROVE UInv'
  BY <1>2, <1>5, OverKeeps
<1>6. CASE sessions[u] = NoSession /\ CreateSession(t, u)
  <2>1. ASSUME NEW file, NEW new, NEW offset, NEW size, NEW s,
               s = NewSession(file, new, offset, size, plan[u].version)
        PROVE  IsSession(s) /\ s # NoSession /\ s.version = plan[u].version
    BY <2>1 DEF NewSession, IsSession, NoSession
  <2>2. ASSUME NEW file, NEW new, NEW offset, NEW size, NEW copy,
               Opened(t, u, NewSession(file, new, offset, size, plan[u].version), copy)
        PROVE  UInv'
    BY <1>4, <2>1, <2>2
  <2>3. QED
    BY <1>5, <1>6, <2>2 DEF CreateSession
<1>7. CASE sessions[u] # NoSession /\ Opened(t, u, sessions[u], 0)
  BY <1>3, <1>4, <1>7 DEF UploadOK
<1>8. CASE sessions[u] # NoSession /\ Abort(t, u, sessions[u].file)
  BY <1>5, <1>8 DEF Abort
<1>9. QED
  BY <1>1, <1>6, <1>7, <1>8 DEF OpenSession

LEMMA WriteKeeps ==
    ASSUME UInv, NEW t \in Thread, Write(t) \/ WriteFails(t)
    PROVE  UInv'
<1>1. PICK u : u = threads[t].upload
  OBVIOUS
<1>2. /\ WorksOn(t, u) /\ threads[t].step = "open"
      /\ UNCHANGED <<row, sessions, plan, commits>>
  BY <1>1 DEF Write, WriteFails, WorksOn, Idle
<1>3. /\ CallOK(t) /\ UploadOK(u) /\ u \in Upload
      /\ DOMAIN threads = Thread /\ DOMAIN sessions = Upload
  BY <1>2, InCall
<1>4. IsCall(threads[t]) /\ sessions[u] # NoSession
  BY <1>1, <1>2, <1>3 DEF CallOK, Flying, WorksOn
<1>5. PICK step \in {"written", "failed"} : threads' = [threads EXCEPT ![t].step = step]
  BY DEF Write, WriteFails
<1>6. PICK c : c = [threads[t] EXCEPT !.step = step]
  OBVIOUS
<1>7. IsCall(c) /\ c.upload = u
  BY <1>1, <1>4, <1>5, <1>6 DEF IsCall
<1>8. threads' = [threads EXCEPT ![t] = c]
  BY <1>3, <1>5, <1>6
<1>9. PICK s : s = sessions[u]
  OBVIOUS
<1>10. s # NoSession /\ IsSession(s) /\ s.version = plan[u].version
  BY <1>3, <1>4, <1>9 DEF UploadOK
<1>11. BecomesSession(u, s)
  BY <1>2, <1>3, <1>9 DEF BecomesSession
<1>12. QED
  BY <1>2, <1>7, <1>8, <1>10, <1>11, CallKeeps

LEMMA AccountKeeps ==
    ASSUME UInv, NEW t \in Thread, Account(t)
    PROVE  UInv'
<1>1. PICK u : u = threads[t].upload
  OBVIOUS
<1>2. WorksOn(t, u) /\ threads[t].step \in {"written", "failed"} /\ UNCHANGED <<row, commits>>
  BY <1>1 DEF Account, WorksOn, Idle
<1>3. /\ CallOK(t) /\ UploadOK(u) /\ u \in Upload
      /\ DOMAIN threads = Thread /\ DOMAIN sessions = Upload
  BY <1>2, InCall
<1>4. sessions[u] # NoSession
  BY <1>1, <1>2, <1>3 DEF CallOK, Flying, WorksOn
<1>5. IsSession(sessions[u]) /\ sessions[u].version = plan[u].version
  BY <1>3, <1>4 DEF UploadOK
<1>6. ASSUME NEW receipt, receipt.version \in {0, plan[u].version}, ToCommit(t, receipt),
             NEW s, BecomesSession(u, s), plan' = plan,
             s # NoSession => IsSession(s) /\ s.version = plan[u].version
      PROVE  UInv'
  <2>1. PICK c : c = [step |-> "commit", upload |-> u, cur |-> threads[t].cur, receipt |-> receipt]
    OBVIOUS
  <2>2. threads' = [threads EXCEPT ![t] = c]
    BY <1>1, <1>6, <2>1 DEF ToCommit
  <2>3. c # Idle /\ c.upload = u /\ c.step = "commit" /\ c.receipt = receipt
    BY <2>1 DEF Idle
  <2>4. QED
    BY <1>2, <1>6, <2>2, <2>3, CallKeeps
<1>7. CASE Abort(t, u, threads[t].file)
  BY <1>2, <1>7, OverKeeps DEF Abort
<1>8. CASE Complete(t, u, threads[t].file)
  <2>1. PICK receipt : receipt = Receipt(sessions[u], threads[t].file)
    OBVIOUS
  <2>2. receipt.version = plan[u].version /\ ToCommit(t, receipt) /\ plan' = plan
    BY <1>5, <1>8, <2>1 DEF Complete, Receipt
  <2>3. BecomesSession(u, NoSession)
    BY <1>3, <1>8 DEF Complete, BecomesSession
  <2>4. QED
    BY <1>6, <2>2, <2>3
<1>9. ASSUME NEW expected, Partial(t, u, expected) PROVE UInv'
  <2>1. PICK s : s = [sessions[u] EXCEPT !.expected = expected]
    OBVIOUS
  <2>2. /\ IsSession(s) /\ s.version = plan[u].version
        /\ s # NoSession
    BY <1>5, <2>1 DEF IsSession, NoSession
  <2>3. BecomesSession(u, s) /\ plan' = plan
    BY <1>3, <1>9, <2>1 DEF Partial, BecomesSession
  <2>4. CASE ToCommit(t, EmptyReceipt)
    <3>1. PICK receipt : receipt = EmptyReceipt
      OBVIOUS
    <3>2. receipt.version = 0 /\ ToCommit(t, receipt)
      BY <2>4, <3>1 DEF EmptyReceipt
    <3>3. QED
      BY <1>6, <2>2, <2>3, <3>2
  <2>5. CASE Return(t)
    BY <1>2, <2>2, <2>3, <2>5, CallKeeps DEF Return
  <2>6. QED
    BY <1>9, <2>4, <2>5 DEF Partial
<1>10. QED
  BY <1>1, <1>4, <1>7, <1>8, <1>9 DEF Account

(* The end of a call, whether or not it stores a descriptor. *)
LEMMA EndKeeps ==
    ASSUME UInv, NEW t \in Thread, NEW u, WorksOn(t, u), Return(t), EndIfClosed(u),
           sessions' = sessions, RowOK', row' = row \/ row'.version = row.version + 1
    PROVE  UInv'
<1>1. /\ UploadOK(u) /\ SeenOK(u) /\ RowOK /\ u \in Upload /\ threads'[t] = Idle
      /\ \A v \in Thread \ {t} : threads'[v] = threads[v] /\ ~WorksOn(v, u)
  BY InCall DEF Return
<1>2. ~Flying(t)'
  BY <1>1 DEF Flying
<1>3. Alters(t, u)
  BY <1>1, <1>2, InCall DEF Alters, Return, EndIfClosed, Flying, WorksOn
<1>4. CallOK(t)'
  BY <1>2 DEF CallOK
<1>5. Begun(u)' <=> sessions[u] # NoSession
  BY <1>1 DEF Begun, WorksOn
<1>6. plan'[u] = IF sessions[u] # NoSession THEN plan[u] ELSE NoPlan
  BY <1>1, InCall DEF EndIfClosed
<1>7. NoPlan \in Plan /\ NoPlan.seen = 0
  BY DEF Plan, NoPlan
<1>8. UploadOK(u)'
  BY <1>1, <1>5, <1>6, <1>7 DEF UploadOK, Begun
<1>9. SeenOK(u)'
  <2>1. SUFFICES ASSUME sessions[u] # NoSession, plan[u].version # Unversioned
                 PROVE  /\ plan[u].version <= row'.version
                        /\ plan[u].version = row'.version => plan[u].seen = row'.commit
    BY <1>5, <1>6 DEF SeenOK
  <2>2. /\ plan[u].version \in Nat /\ plan[u].version <= row.version
        /\ plan[u].version = row.version => plan[u].seen = row.commit
    BY <1>1, <2>1 DEF UploadOK, Plan, SeenOK, Begun
  <2>3. QED
    BY <1>1, <2>2 DEF RowOK
<1>10. QED
  BY <1>1, <1>3, <1>4, <1>8, <1>9, OneUpload

LEMMA CommitKeeps ==
    ASSUME UInv, NEW t \in Thread, Commit(t) \/ OutOfDate(t) \/ InsertFails(t)
    PROVE  UInv'
<1>1. PICK u : u = threads[t].upload
  OBVIOUS
<1>2. WorksOn(t, u) /\ Return(t) /\ EndIfClosed(u) /\ sessions' = sessions
  BY <1>1 DEF Commit, OutOfDate, InsertFails, Refuse, WorksOn, Idle
<1>3. RowOK
  BY DEF UInv
<1>4. RowOK' /\ (row' = row \/ row'.version = row.version + 1)
  BY <1>3 DEF RowOK, Commit, OutOfDate, InsertFails, Refuse
<1>5. QED
  BY <1>2, <1>4, EndKeeps

LEMMA ExpireKeeps ==
    ASSUME UInv, NEW u \in Upload, Expire(u)
    PROVE  UInv'
<1>1. /\ UNCHANGED <<row, threads, commits>> /\ \A t \in Thread : threads[t] = Idle
      /\ DOMAIN sessions' = Upload /\ DOMAIN plan' = Upload
      /\ sessions'[u] = NoSession /\ plan'[u] = NoPlan
      /\ \A w \in Upload \ {u} : sessions'[w] = sessions[w] /\ plan'[w] = plan[w]
  BY DEF Expire, Over, UInv
<1>2. ~Begun(u)' /\ \A w \in Upload \ {u} : Begun(w)' <=> Begun(w)
  BY <1>1 DEF Begun, WorksOn
<1>3. \A w \in Upload : UploadOK(w)' /\ SeenOK(w)'
  <2>1. UploadOK(u)' /\ SeenOK(u)'
    BY <1>1, <1>2 DEF UploadOK, SeenOK, Plan, NoPlan
  <2>2. ASSUME NEW w \in Upload \ {u} PROVE UploadOK(w)' /\ SeenOK(w)'
    BY <1>1, <1>2 DEF UploadOK, SeenOK, UInv
  <2>3. QED
    BY <2>1, <2>2
<1>4. RowOK' /\ OneCall' /\ \A t \in Thread : CallOK(t)'
  BY <1>1 DEF UInv, RowOK, OneCall, WorksOn, CallOK, Flying
<1>5. QED
  BY <1>1, <1>3, <1>4 DEF UInv

(* A file is not deleted under an upload that names a version of it. *)
LEMMA DeleteKeeps ==
    ASSUME UInv, "aba" \notin Windows, DeleteFile
    PROVE  UInv'
<1>1. /\ UNCHANGED <<sessions, threads, plan, commits>> /\ row'.version = 0 /\ row'.commit = 0
      /\ \A u \in Upload : Begun(u) => ~(plan[u].version > 0)
  BY DEF DeleteFile, NoRow
<1>2. ASSUME NEW u \in Upload PROVE UploadOK(u)' /\ SeenOK(u)'
  <2>1. UploadOK(u) /\ SeenOK(u) /\ RowOK
    BY DEF UInv
  <2>2. UploadOK(u)' /\ (Begun(u)' <=> Begun(u))
    BY <1>1, <2>1 DEF UploadOK, Begun, WorksOn
  <2>3. ASSUME Begun(u), plan[u].version # Unversioned PROVE plan[u].version = 0 /\ plan[u].seen = 0
    BY <1>1, <2>1, <2>3 DEF UploadOK, Plan
  <2>4. QED
    BY <1>1, <2>2, <2>3 DEF SeenOK
<1>3. RowOK' /\ OneCall' /\ \A t \in Thread : CallOK(t)'
  BY <1>1 DEF UInv, RowOK, OneCall, WorksOn, CallOK, Flying
<1>4. QED
  BY <1>1, <1>2, <1>3 DEF UInv

LEMMA CrashKeeps ==
    ASSUME UInv, Crash
    PROVE  UInv'
<1>1. /\ UNCHANGED <<row, commits>>
      /\ sessions' = [u \in Upload |-> NoSession] /\ threads' = [t \in Thread |-> Idle]
      /\ plan' = [u \in Upload |-> NoPlan]
  BY DEF Crash
<1>2. \A u \in Upload : ~Begun(u)'
  BY <1>1 DEF Begun, WorksOn
<1>3. QED
  BY <1>1, <1>2 DEF UInv, RowOK, OneCall, WorksOn, CallOK, Flying, UploadOK, SeenOK, Plan, NoPlan

LEMMA NextUInv ==
    ASSUME UInv, [Next]_vars, Windows \cap {"concurrent", "aba"} = {}
    PROVE  UInv'
<1>1. CASE UNCHANGED vars
  BY <1>1 DEF vars, UInv, RowOK, OneCall, WorksOn, CallOK, Flying, UploadOK, SeenOK, Begun
<1>2. CASE Next
  BY <1>2, LookKeeps, OpenKeeps, WriteKeeps, AccountKeeps, CommitKeeps, ExpireKeeps, DeleteKeeps,
     CrashKeeps DEF Next
<1>3. QED
  BY <1>1, <1>2

(* An upload that names the version of the file it replaces never          *)
(* overwrites one that its client has not seen (UploadFile compares the     *)
(* versions when it has the lock again), unless the client sends several    *)
(* parts at a time, or the file was deleted in between, which starts its    *)
(* versions anew.                                                           *)
THEOREM NothingOverwrittenUnseen ==
    ASSUME Windows \cap {"concurrent", "aba"} = {}
    PROVE  Spec => NoLostUpdate
<1> DEFINE Step == row' # row /\ row'.by # "nobody" /\ plan[row'.by].version # Unversioned =>
                       plan[row'.by].seen = row.commit
<1>1. ASSUME UInv, [Next]_vars PROVE [Step]_vars
  <2>1. ASSUME NEW t \in Thread, Commit(t) PROVE Step
    <3>1. PICK u : u = threads[t].upload
      OBVIOUS
    <3>2. /\ row'.by = u /\ threads[t].step = "commit" /\ WorksOn(t, u)
          /\ VersionMatches(threads[t].receipt.version)
      BY <2>1, <3>1 DEF Commit, WorksOn, Idle
    <3>3. /\ RowOK /\ UploadOK(u) /\ SeenOK(u) /\ Begun(u)
          /\ threads[t].receipt.version \in {0, plan[u].version}
      BY <1>1, <3>1, <3>2, InCall DEF CallOK, Flying, WorksOn, IsCall
    <3>4. QED
      BY <3>2, <3>3 DEF VersionMatches, UploadOK, SeenOK, RowOK, Plan, Unversioned
  <2>2. ASSUME DeleteFile PROVE Step
    BY <2>2 DEF DeleteFile, NoRow
  <2>3. ASSUME row' = row PROVE Step
    BY <2>3
  <2>4. CASE UNCHANGED vars
    BY <2>4
  <2>5. CASE Next
    BY <2>1, <2>2, <2>3, <2>5 DEF Next, Look, OpenSession, Write, WriteFails, Account, OutOfDate,
       InsertFails, Refuse, Expire, Crash
  <2>6. QED
    BY <1>1, <2>4, <2>5
<1>2. UInv /\ [Next]_vars => UInv'
  BY NextUInv
<1>3. QED
  BY <1>1, <1>2, InitUInv, PTL DEF Spec, NoLostUpdate

-----------------------------------------------------------------------------
(* What the files hold.  From here on all windows are closed. *)

Cell == {Hole} \cup (Upload \X Unit)
File == [place : {"table", "scrap", "deleted"}, text : Seq(Cell), safe : Seq(Cell)]

HasAll(text, offset, u) == \A k \in Unit : HasUnit(text, offset, u, k)
Solid(text, n) == \A j \in 0..n - 1 : At(text, j) # Hole

(* What a descriptor of size units says of its file, now and after a       *)
(* crash, when the file has no hole behind them either.                    *)
Keeps(text, size, u) ==
    /\ Solid(text, size)
    /\ \E offset \in 0..size - Length : HasAll(text, offset, u)
IsKept(f, size, u) ==
    /\ InPlace(f) /\ size \in Nat
    /\ Keeps(files[f].text, size, u)
    /\ Keeps(files[f].safe, size, u) /\ Solid(files[f].safe, Len(files[f].safe))

HasSession(u) == sessions[u] # NoSession
AppendsNow == \E u \in Upload : HasSession(u) /\ ~sessions[u].new

RowKept ==
    /\ row = NoRow <=> row.version = 0
    /\ row # NoRow =>
          /\ row.by \in Upload /\ IsKept(row.file, row.size, row.by)
          /\ ~AppendsNow => Solid(files[row.file].text, Len(files[row.file].text))

(* The ranges that a session waits for are in order and do not touch. *)
Ranges(expected) ==
    /\ expected \in Seq([pos : Nat, len : Nat \ {0}])
    /\ \A i \in DOMAIN expected : EndOf(expected[i]) <= Length
    /\ \A i, j \in DOMAIN expected : i < j => EndOf(expected[i]) < expected[j].pos

(* All that the file is to hold besides the upload is there. *)
Based(text, s) ==
    \A j \in 0..s.size - 1 : j \in s.offset..s.offset + Length - 1 \/ At(text, j) # Hole

(* A session writes a file of its own, or appends to the table's. *)
SessionOK(u) ==
    HasSession(u) =>
        LET s == sessions[u]
            text == files[s.file].text
        IN  /\ InPlace(s.file)
            /\ s.offset \in Nat /\ s.size \in Nat /\ s.new \in BOOLEAN
            /\ s.offset + Length <= s.size /\ Len(text) <= s.size
            /\ Ranges(s.expected)
            /\ \A k \in Unit \ Awaited(s) : HasUnit(text, s.offset, u, k)
            /\ s.new <=> plan[u].mode # "append"
            /\ IF s.new THEN s.file # row.file
               ELSE row # NoRow /\ s.file = row.file /\ row.size <= s.offset

InPart(t) == threads[t].step \in {"looked", "open", "written", "failed"}
SentOK(u) ==
    /\ sent[u] \subseteq Unit
    /\ ~Begun(u) => sent[u] = {}
    /\ HasSession(u) /\ (\A t \in Thread : ~WorksOn(t, u)) =>
          /\ Awaited(sessions[u]) = Unit \ sent[u]
          /\ Based(files[sessions[u].file].text, sessions[u])

(* The file that a call has seen is that of the table, or has been         *)
(* replaced.                                                               *)
CurOK(t) ==
    LET c == threads[t]
        v == plan[c.upload].version
    IN  /\ c.cur \in 0..Len(files)
        /\ c.cur = row.file \/ ~InPlace(c.cur)
        /\ v \in {Unversioned, row.version} /\ row # NoRow => c.cur = row.file

PartOK(t) ==
    LET c == threads[t]
        u == c.upload
    IN  /\ c.part \in Part /\ Units(c.part) \subseteq sent[u]
        /\ HasSession(u) => Awaited(sessions[u]) = (Unit \ sent[u]) \cup Units(c.part)
        /\ ~HasSession(u) => c.step = "looked" /\ sent[u] = Units(c.part)

LookedOK(t) ==
    LET s == sessions[threads[t].upload]
    IN  s # NoSession => Based(files[s.file].text, s)

(* Only the first part of an upload over a file has that one to copy. *)
Copies(c, s) ==
    /\ s.new /\ c.offset = UploadPos /\ c.cur \in DOMAIN files /\ c.cur # c.file
    /\ c.copy = Len(files[c.cur].text) /\ Solid(files[c.cur].text, c.copy)
    /\ UploadPos <= c.copy /\ s.size = LongerOf(c.copy, UploadPos + Length)

OpenOK(t) ==
    LET c == threads[t]
        s == sessions[c.upload]
        text == files[c.file].text
    IN  /\ c.file = s.file /\ c.offset = s.offset /\ c.copy \in Nat
        /\ c.step = "failed" => s.new
        /\ c.copy > 0 => plan[c.upload].mode = "over"
        /\ c.step = "open" /\ c.copy > 0 => Copies(c, s)
        /\ c.step = "open" /\ c.copy = 0 => Based(text, s)
        /\ c.step = "written" => /\ Based(text, s)
                                 /\ \A k \in Units(c.part) : HasUnit(text, s.offset, c.upload, k)

ReceiptOK(t) ==
    LET c == threads[t]
        r == c.receipt
    IN  /\ ~HasSession(c.upload) /\ r.new \in BOOLEAN /\ r.version = plan[c.upload].version
        /\ r.new <=> plan[c.upload].mode # "append"
        /\ IsKept(r.file, r.size, c.upload) /\ Solid(files[r.file].text, Len(files[r.file].text))
        /\ IF r.new THEN r.file # row.file ELSE row # NoRow /\ r.file = row.file

WorkOK(t) ==
    Flying(t) =>
        /\ CurOK(t)
        /\ InPart(t) \/ threads[t].step = "commit"
        /\ InPart(t) => PartOK(t)
        /\ threads[t].step = "looked" => LookedOK(t)
        /\ threads[t].step \in {"open", "written", "failed"} => OpenOK(t)
        /\ threads[t].step = "commit" => ReceiptOK(t)

(* The files that upload u has made and that are not in the table yet. *)
Own(u, f) ==
    \/ HasSession(u) /\ sessions[u].new /\ sessions[u].file = f
    \/ \E t \in Thread : /\ WorksOn(t, u) /\ threads[t].step = "commit"
                         /\ threads[t].receipt.new /\ threads[t].receipt.file = f
Separate == \A u, w \in Upload : \A f \in DOMAIN files : Own(u, f) /\ Own(w, f) => u = w
NothingElse ==
    crashes = 0 => \A f \in DOMAIN files : InPlace(f) => f = row.file \/ \E u \in Upload : Own(u, f)

(* Who appends has no other upload beside it, and who copies or names no   *)
(* version no other call.                                                  *)
LoneAppend == \A u, w \in Upload : Begun(u) /\ plan[u].mode = "append" /\ Begun(w) => u = w
LoneCall ==
    \A t, v \in Thread : Flying(t) /\ Flying(v) /\ t # v =>
        plan[threads[t].upload].version # Unversioned /\ plan[threads[t].upload].mode # "over"

FInv ==
    /\ UInv /\ files \in Seq(File) /\ DOMAIN sent = Upload /\ crashes \in Nat
    /\ RowKept /\ Separate /\ NothingElse /\ LoneAppend /\ LoneCall
    /\ \A u \in Upload : SessionOK(u) /\ SentOK(u)
    /\ \A t \in Thread : WorkOK(t)

-----------------------------------------------------------------------------
(* Texts *)

(* A function on 1..n is a sequence. *)
LEMMA IsSeq ==
    ASSUME NEW S, NEW n \in Nat, NEW g \in [1..n -> S]
    PROVE  g \in Seq(S) /\ Len(g) = n /\ DOMAIN g = 1..n
OBVIOUS

LEMMA SeqAt == ASSUME NEW S, NEW s \in Seq(S), NEW i \in DOMAIN s PROVE s[i] \in S
OBVIOUS

LEMMA Holes == ASSUME NEW u, NEW k PROVE <<u, k>> # Hole
BY DEF Hole

LEMMA CellAt ==
    ASSUME NEW text \in Seq(Cell), NEW j
    PROVE  At(text, j) \in Cell
BY DEF At, Cell

LEMMA WithinLen ==
    ASSUME NEW text \in Seq(Cell), NEW j \in Nat, At(text, j) # Hole
    PROVE  j < Len(text)
BY DEF At

LEMMA Lengths ==
    ASSUME NEW m \in Nat, NEW n \in Nat
    PROVE  LongerOf(m, n) \in Nat /\ m <= LongerOf(m, n) /\ n <= LongerOf(m, n) /\ LongerOf(m, n) \in {m, n}
BY DEF LongerOf

IsText(text) == text \in Seq(Cell)

(* What a write leaves in the text, and what copying the segments of the   *)
(* old file does.                                                          *)
IsWritten(written, text, pos, u, k, n) ==
    /\ IsText(written) /\ Len(written) = LongerOf(Len(text), pos + n)
    /\ \A j \in Nat : j \in pos..pos + n - 1 => At(written, j) = <<u, k + (j - pos)>>
    /\ \A j \in Nat : j \notin pos..pos + n - 1 => At(written, j) = At(text, j)
IsCopied(copied, text, old, n) ==
    /\ IsText(copied) /\ Len(copied) = LongerOf(Len(text), n)
    /\ \A j \in Nat : j < n /\ j \notin UploadPos..UploadPos + Length - 1 => At(copied, j) = At(old, j)
    /\ \A j \in Nat : j \in UploadPos..UploadPos + Length - 1 => At(copied, j) = At(text, j)

LEMMA WriteUnitsIs ==
    ASSUME NEW text, IsText(text), NEW pos \in Nat, NEW u \in Upload, NEW k \in Nat, NEW n \in Nat,
           k + n <= Length, NEW written, written = WriteUnits(text, pos, u, k, n)
    PROVE  IsWritten(written, text, pos, u, k, n)
<1> USE DEF IsText
<1> DEFINE size == LongerOf(Len(text), pos + n)
           cell(i) == IF i - 1 \in pos..pos + n - 1 THEN <<u, k + (i - 1 - pos)>> ELSE At(text, i - 1)
<1>1. size \in Nat /\ Len(text) <= size /\ pos + n <= size /\ Len(text) \in Nat
  <2>1. Len(text) \in Nat /\ pos + n \in Nat
    OBVIOUS
  <2>2. QED
    BY <2>1, Lengths
<1>2. ASSUME NEW i \in 1..size PROVE cell(i) \in Cell
  <2>1. CASE i - 1 \in pos..pos + n - 1
    <3>1. k + (i - 1 - pos) \in Unit
      BY <2>1, <1>1 DEF Unit
    <3>2. QED
      BY <2>1, <3>1 DEF Cell
  <2>2. CASE i - 1 \notin pos..pos + n - 1
    BY <2>2, CellAt
  <2>3. QED
    BY <2>1, <2>2
<1> HIDE DEF size, cell
<1>3. PICK g : g = [i \in 1..size |-> cell(i)]
  OBVIOUS
<1>4. g \in Seq(Cell) /\ Len(g) = size /\ DOMAIN g = 1..size
  BY <1>1, <1>2, <1>3, IsSeq
<1>5. ASSUME NEW j \in Nat
      PROVE  At(g, j) = IF j \in pos..pos + n - 1 THEN <<u, k + (j - pos)>> ELSE At(text, j)
  <2>1. CASE j + 1 \in 1..size
    <3>1. At(g, j) = cell(j + 1)
      BY <1>3, <1>4, <2>1 DEF At
    <3>2. j + 1 - 1 = j
      OBVIOUS
    <3>3. QED
      BY <3>1, <3>2 DEF cell
  <2>2. CASE j + 1 \notin 1..size
    <3>1. j + 1 \notin DOMAIN text /\ j \notin pos..pos + n - 1
      BY <1>1, <2>2
    <3>2. QED
      BY <1>4, <2>2, <3>1 DEF At
  <2>3. QED
    BY <2>1, <2>2
<1>6. g = written
  BY <1>3 DEF WriteUnits, size, cell
<1>7. QED
  BY <1>4, <1>5, <1>6 DEF size, IsWritten

LEMMA CopySegmentsIs ==
    ASSUME NEW text, IsText(text), NEW old, IsText(old), NEW n \in Nat, NEW copied,
           copied = CopySegments(text, old, n)
    PROVE  IsCopied(copied, text, old, n)
<1> USE DEF IsText
<1> DEFINE size == LongerOf(Len(text), n)
           cell(i) == IF i <= n /\ i - 1 \notin UploadPos..UploadPos + Length - 1
                      THEN At(old, i - 1) ELSE At(text, i - 1)
<1>1. size \in Nat /\ Len(text) <= size /\ n <= size /\ Len(text) \in Nat
  <2>1. Len(text) \in Nat
    OBVIOUS
  <2>2. QED
    BY <2>1, Lengths
<1>2. ASSUME NEW i \in 1..size PROVE cell(i) \in Cell
  BY CellAt
<1> HIDE DEF size, cell
<1>3. PICK g : g = [i \in 1..size |-> cell(i)]
  OBVIOUS
<1>4. g \in Seq(Cell) /\ Len(g) = size /\ DOMAIN g = 1..size
  BY <1>1, <1>2, <1>3, IsSeq
<1>5. ASSUME NEW j \in Nat
      PROVE  At(g, j) = IF j < n /\ j \notin UploadPos..UploadPos + Length - 1
                        THEN At(old, j) ELSE At(text, j)
  <2>1. CASE j + 1 \in 1..size
    <3>1. At(g, j) = cell(j + 1)
      BY <1>3, <1>4, <2>1 DEF At
    <3>2. j + 1 - 1 = j /\ (j + 1 <= n <=> j < n)
      OBVIOUS
    <3>3. QED
      BY <3>1, <3>2 DEF cell
  <2>2. CASE j + 1 \notin 1..size
    <3>1. j + 1 \notin DOMAIN text /\ ~(j < n)
      BY <1>1, <2>2
    <3>2. QED
      BY <1>4, <2>2, <3>1 DEF At
  <2>3. QED
    BY <2>1, <2>2
<1>6. g = copied
  BY <1>3 DEF CopySegments, size, cell
<1>7. QED
  BY <1>4, <1>5, <1>6 DEF size, IsCopied

-----------------------------------------------------------------------------
(* The ranges that a session waits for *)

Within(k, r) == r.pos <= k /\ k < EndOf(r)
Covers(expected, k) == \E i \in DOMAIN expected : Within(k, expected[i])

LEMMA RangeAt ==
    ASSUME NEW E, Ranges(E), NEW i \in DOMAIN E
    PROVE  E[i].pos \in Nat /\ E[i].len \in Nat \ {0} /\ EndOf(E[i]) = E[i].pos + E[i].len
           /\ EndOf(E[i]) \in Nat /\ E[i].pos < EndOf(E[i]) /\ EndOf(E[i]) <= Length
<1>1. E[i] \in [pos : Nat, len : Nat \ {0}]
  BY SeqAt DEF Ranges
<1>2. QED
  BY <1>1 DEF Ranges, EndOf

LEMMA AwaitedIs ==
    ASSUME NEW s, Ranges(s.expected)
    PROVE  Awaited(s) = {k \in Unit : Covers(s.expected, k)}
<1>1. ASSUME NEW i \in DOMAIN s.expected
      PROVE  s.expected[i].pos..EndOf(s.expected[i]) - 1 = {k \in Unit : Within(k, s.expected[i])}
  BY <1>1, RangeAt DEF Within, Unit
<1>2. QED
  BY <1>1 DEF Awaited, Covers

LEMMA PartIs ==
    ASSUME NEW part \in Part
    PROVE  /\ part[1] \in Unit /\ part[1] \in Nat /\ part[2] \in Nat \ {0} /\ part[1] + part[2] <= Length
           /\ Units(part) = {k \in Unit : part[1] <= k /\ k < part[1] + part[2]}
           /\ Units(part) \subseteq Unit /\ part[1] \in Units(part)
BY DEF Part, Unit, Units

(* The accounting finds the range that a part lies in. *)
LEMMA RangeForIs ==
    ASSUME NEW E, Ranges(E), NEW part \in Part, \A k \in Units(part) : Covers(E, k),
           NEW i, i = RangeFor(E, part[1])
    PROVE  /\ i \in DOMAIN E /\ i # 0 /\ Fits(E[i], part)
           /\ E[i].pos <= part[1] /\ part[1] + part[2] <= EndOf(E[i])
<1> DEFINE k == part[1]
           Hits == {j \in DOMAIN E : k < EndOf(E[j]) \/ (E[j].len = 0 /\ k = E[j].pos)}
<1>1. k \in Nat /\ part[2] \in Nat \ {0} /\ k \in Units(part)
  BY PartIs
<1>2. E \in Seq([pos : Nat, len : Nat \ {0}]) /\ DOMAIN E = 1..Len(E) /\ Len(E) \in Nat
  BY DEF Ranges
<1>3. PICK j \in DOMAIN E : Within(k, E[j])
  BY <1>1 DEF Covers
<1> HIDE DEF k
<1>4. Hits = {h \in DOMAIN E : k < EndOf(E[h])}
  <2>1. \A h \in DOMAIN E : E[h].len # 0
    BY RangeAt
  <2>2. QED
    BY <2>1
<1>5. j \in Hits /\ \A h \in Hits : j <= h
  <2>1. ASSUME NEW h \in Hits, h < j PROVE FALSE
    <3>1. EndOf(E[h]) < E[j].pos /\ k < EndOf(E[h]) /\ h \in DOMAIN E
      BY <1>4, <2>1 DEF Ranges
    <3>2. EndOf(E[h]) \in Nat /\ E[j].pos \in Nat /\ E[j].pos <= k
      BY <1>3, <3>1, RangeAt DEF Within
    <3>3. QED
      BY <1>1, <3>1, <3>2
  <2>2. \A h \in Hits : h \in Nat /\ j \in Nat
    BY <1>2
  <2>3. QED
    BY <1>3, <1>4, <2>1, <2>2 DEF Within
<1>6. i = j
  <2>1. \A h \in Hits : h \in Nat /\ j \in Nat
    BY <1>2
  <2>2. Hits # {} /\ RangeFor(E, k) = CHOOSE g \in Hits : \A h \in Hits : g <= h
    BY <1>5 DEF RangeFor, Hits
  <2> HIDE DEF Hits
  <2>3. i \in Hits /\ \A h \in Hits : i <= h
    BY <1>5, <2>2 DEF k
  <2>4. QED
    BY <1>5, <2>1, <2>3
<1>7. k + part[2] <= EndOf(E[j])
  <2> DEFINE e == EndOf(E[j])
  <2>1. SUFFICES ASSUME e < k + part[2] PROVE FALSE
    BY <1>1, RangeAt
  <2>2. e \in Nat /\ k < e
    BY <1>3, RangeAt DEF Within
  <2>3. e \in Units(part)
    BY <1>1, <2>1, <2>2, PartIs DEF Units, k
  <2>4. PICK h \in DOMAIN E : Within(e, E[h])
    BY <2>3 DEF Covers
  <2>5. E[h].pos \in Nat /\ EndOf(E[h]) \in Nat /\ E[h].pos <= e /\ e < EndOf(E[h])
    BY <2>4, RangeAt DEF Within
  <2>6. CASE j < h
    BY <2>2, <2>5, <2>6 DEF Ranges
  <2>7. CASE h < j
    <3>1. EndOf(E[h]) < E[j].pos
      BY <2>7 DEF Ranges
    <3>2. E[j].pos \in Nat /\ E[j].pos <= k
      BY <1>3, RangeAt DEF Within
    <3>3. QED
      BY <1>1, <2>2, <2>5, <3>1, <3>2
  <2>8. CASE h = j
    BY <2>2, <2>5, <2>8
  <2>9. QED
    BY <1>2, <2>6, <2>7, <2>8
<1>8. QED
  BY <1>2, <1>3, <1>6, <1>7 DEF Within, Fits, k

AllInside(W, r) == \A j \in DOMAIN W : r.pos <= W[j].pos /\ EndOf(W[j]) <= EndOf(r)
IsRange(r) == r.pos \in Nat /\ r.len \in Nat \ {0} /\ EndOf(r) <= Length

(* What is left of a range without a part of it. *)
LEMMA WithoutPartIs ==
    ASSUME NEW r, IsRange(r), NEW part \in Part,
           r.pos <= part[1], part[1] + part[2] <= EndOf(r), NEW W, W = WithoutPart(r, part)
    PROVE  /\ Ranges(W)
           /\ AllInside(W, r)
           /\ \A k \in Nat : Covers(W, k) <=> Within(k, r) /\ ~(part[1] <= k /\ k < part[1] + part[2])
<1> DEFINE R == [pos : Nat, len : Nat \ {0}]
<1>1. PICK p, n, e : p = part[1] /\ n = part[2] /\ e = r.pos + r.len
  OBVIOUS
<1>2. /\ p \in Nat /\ n \in Nat \ {0} /\ r.pos \in Nat /\ r.pos <= p /\ p + n <= e /\ e \in Nat /\ e <= Length
      /\ r.len \in Nat \ {0} /\ r.len = e - r.pos /\ EndOf(r) = e
  BY <1>1, PartIs DEF IsRange, EndOf
<1>3. PICK A, B : A = [pos |-> p + n, len |-> e - (p + n)] /\ B = [pos |-> r.pos, len |-> p - r.pos]
  OBVIOUS
<1>4. /\ A.pos = p + n /\ EndOf(A) = e /\ B.pos = r.pos /\ EndOf(B) = p
      /\ p + n # e => A \in R
      /\ p # r.pos => B \in R
  BY <1>2, <1>3 DEF EndOf
<1>5. W = IF p = r.pos /\ n = r.len THEN <<>>
          ELSE IF p = r.pos THEN <<A>>
          ELSE IF p + n = e THEN <<B>> ELSE <<B, A>>
  <2>1. A.len = 0 <=> p + n = e
    BY <1>2, <1>3
  <2>2. r.len # 0
    BY <1>2
  <2>3. W = IF p = r.pos /\ n = r.len THEN <<>>
            ELSE IF p = r.pos THEN <<A>>
            ELSE IF A.len = 0 THEN <<B>> ELSE <<B, A>>
    BY <1>1, <1>2, <1>3, <2>2 DEF WithoutPart
  <2>4. QED
    BY <2>1, <2>3
<1>6. p + n \in Nat /\ p + n <= Length /\ p <= Length
  BY <1>2
(* W is in order, its units those of r that are not of the part. *)
<1> DEFINE Rest(k) == r.pos <= k /\ k < e /\ ~(p <= k /\ k < p + n)
<1>7. SUFFICES /\ W \in Seq(R)
               /\ \A j \in DOMAIN W : EndOf(W[j]) <= Length /\ r.pos <= W[j].pos /\ EndOf(W[j]) <= e
               /\ \A i, j \in DOMAIN W : i < j => EndOf(W[i]) < W[j].pos
               /\ \A k \in Nat : Covers(W, k) <=> Rest(k)
  BY <1>1, <1>2 DEF Ranges, Within, AllInside
<1>8. CASE p = r.pos /\ n = r.len
  <2>1. W \in Seq(R) /\ DOMAIN W = {}
    BY <1>5, <1>8
  <2>2. \A k \in Nat : ~Rest(k)
    BY <1>2, <1>8
  <2>3. QED
    BY <2>1, <2>2 DEF Covers
<1>9. CASE p = r.pos /\ n # r.len
  <2>1. p + n # e
    BY <1>2, <1>9
  <2>2. W = <<A>> /\ A \in R
    BY <1>4, <1>5, <1>9, <2>1
  <2>3. W \in Seq(R) /\ DOMAIN W = {1} /\ W[1] = A
    BY <2>2
  <2>4. \A k \in Nat : (A.pos <= k /\ k < EndOf(A)) <=> Rest(k)
    BY <1>2, <1>4, <1>9
  <2>5. EndOf(A) <= Length /\ r.pos <= A.pos /\ EndOf(A) <= e
    BY <1>2, <1>4, <1>6
  <2> HIDE DEF R, Rest
  <2>6. QED
    BY <2>3, <2>4, <2>5 DEF Covers, Within
<1>10. CASE p # r.pos /\ p + n = e
  <2>1. W = <<B>> /\ B \in R
    BY <1>4, <1>5, <1>10
  <2>2. W \in Seq(R) /\ DOMAIN W = {1} /\ W[1] = B
    BY <2>1
  <2>3. \A k \in Nat : (B.pos <= k /\ k < EndOf(B)) <=> Rest(k)
    BY <1>2, <1>4, <1>10
  <2>4. EndOf(B) <= Length /\ r.pos <= B.pos /\ EndOf(B) <= e
    BY <1>2, <1>4, <1>6
  <2> HIDE DEF R, Rest
  <2>5. QED
    BY <2>2, <2>3, <2>4 DEF Covers, Within
<1>11. CASE p # r.pos /\ p + n # e
  <2>1. W = <<B, A>> /\ A \in R /\ B \in R
    BY <1>4, <1>5, <1>11
  <2>2. W \in Seq(R) /\ DOMAIN W = {1, 2} /\ W[1] = B /\ W[2] = A
    BY <2>1
  <2>3. \A k \in Nat : (B.pos <= k /\ k < EndOf(B)) \/ (A.pos <= k /\ k < EndOf(A)) <=> Rest(k)
    BY <1>2, <1>4, <1>11
  <2>4. /\ EndOf(A) <= Length /\ r.pos <= A.pos /\ EndOf(A) <= e
        /\ EndOf(B) <= Length /\ r.pos <= B.pos /\ EndOf(B) <= e
        /\ EndOf(B) < A.pos
    BY <1>2, <1>4, <1>6
  <2> HIDE DEF R, Rest
  <2>5. \A i, j \in DOMAIN W : i < j => EndOf(W[i]) < W[j].pos
    BY <2>2, <2>4
  <2>6. \A j \in DOMAIN W : EndOf(W[j]) <= Length /\ r.pos <= W[j].pos /\ EndOf(W[j]) <= e
    BY <2>2, <2>4
  <2>7. \A k \in Nat : Covers(W, k) <=> Rest(k)
    BY <2>2, <2>3 DEF Covers, Within
  <2>8. QED
    BY <2>2, <2>5, <2>6, <2>7
<1>12. QED
  BY <1>5, <1>8, <1>9, <1>10, <1>11

(* Sequence E with the elements of W in the place of the i-th. *)
Spliced(E, i, W) == SubSeq(E, 1, i - 1) \o W \o SubSeq(E, i + 1, Len(E))
IsSpliced(L, E, i, W) ==
    /\ Len(L) = Len(E) - 1 + Len(W)
    /\ \A j \in 1..i - 1 : L[j] = E[j]
    /\ \A j \in i..i - 1 + Len(W) : L[j] = W[j - (i - 1)]
    /\ \A j \in i + Len(W)..Len(E) - 1 + Len(W) : L[j] = E[j + 1 - Len(W)]

LEMMA SplicedIs ==
    ASSUME NEW R, NEW E \in Seq(R), NEW i \in 1..Len(E), NEW W \in Seq(R)
    PROVE  Spliced(E, i, W) \in Seq(R) /\ IsSpliced(Spliced(E, i, W), E, i, W)
<1>1. PICK A, C : A = SubSeq(E, 1, i - 1) /\ C = SubSeq(E, i + 1, Len(E))
  OBVIOUS
<1>2. PICK D, L : D = A \o W /\ L = D \o C
  OBVIOUS
<1>3. A \in Seq(R) /\ Len(A) = i - 1 /\ \A j \in 1..i - 1 : A[j] = E[j]
  <2>1. 1 \in Int /\ i - 1 \in Int /\ \A j \in 1..i - 1 : E[j] \in R
    BY ElementOfSeq
  <2>2. /\ A \in Seq(R) /\ Len(A) = IF 1 <= i - 1 THEN i - 1 - 1 + 1 ELSE 0
        /\ \A j \in 1..i - 1 - 1 + 1 : A[j] = E[1 + j - 1]
    BY <1>1, <2>1, SubSeqProperties
  <2>3. QED
    BY <2>2
<1>4. C \in Seq(R) /\ Len(C) = Len(E) - i /\ \A j \in 1..Len(E) - i : C[j] = E[i + j]
  <2>1. i + 1 \in Int /\ Len(E) \in Int /\ \A j \in i + 1..Len(E) : E[j] \in R
    BY ElementOfSeq
  <2>2. /\ C \in Seq(R) /\ Len(C) = IF i + 1 <= Len(E) THEN Len(E) - (i + 1) + 1 ELSE 0
        /\ \A j \in 1..Len(E) - (i + 1) + 1 : C[j] = E[i + 1 + j - 1]
    BY <1>1, <2>1, SubSeqProperties
  <2>3. Len(E) - (i + 1) + 1 = Len(E) - i /\ \A j \in 1..Len(E) - i : i + 1 + j - 1 = i + j
    OBVIOUS
  <2>4. \A j \in 1..Len(E) - i : C[j] = E[i + j]
    BY <2>2, <2>3
  <2>5. Len(C) = Len(E) - i
    BY <2>2
  <2>6. QED
    BY <2>2, <2>4, <2>5
<1>5. /\ D \in Seq(R) /\ Len(D) = Len(A) + Len(W)
      /\ \A j \in 1..Len(A) + Len(W) : D[j] = IF j <= Len(A) THEN A[j] ELSE W[j - Len(A)]
  BY <1>2, <1>3, ConcatProperties
<1>6. /\ L \in Seq(R) /\ Len(L) = Len(D) + Len(C)
      /\ \A j \in 1..Len(D) + Len(C) : L[j] = IF j <= Len(D) THEN D[j] ELSE C[j - Len(D)]
  <2>1. D \in Seq(R) /\ C \in Seq(R) /\ L = D \o C
    BY <1>2, <1>4, <1>5
  <2>2. QED
    BY <2>1, ConcatProperties
<1>7. PICK n, m : n = Len(E) /\ m = Len(W)
  OBVIOUS
<1>8. n \in Nat /\ m \in Nat /\ i \in 1..n
  BY <1>7
<1>9. Len(A) = i - 1 /\ Len(C) = n - i /\ Len(D) = i - 1 + m /\ Len(L) = i - 1 + m + (n - i)
  BY <1>3, <1>4, <1>5, <1>6, <1>7
<1>10. /\ \A j \in 1..i - 1 + m : D[j] = IF j <= i - 1 THEN A[j] ELSE W[j - (i - 1)]
       /\ \A j \in 1..i - 1 + m + (n - i) : L[j] = IF j <= i - 1 + m THEN D[j] ELSE C[j - (i - 1 + m)]
  BY <1>5, <1>6, <1>7, <1>9
<1>11. \A j \in 1..i - 1 : L[j] = E[j]
  BY <1>3, <1>8, <1>10
<1>12. ASSUME NEW j \in i..i - 1 + m PROVE L[j] = W[j - (i - 1)]
  <2>1. j \in 1..i - 1 + m /\ j \in 1..i - 1 + m + (n - i) /\ ~(j <= i - 1) /\ j <= i - 1 + m
    BY <1>8
  <2>2. QED
    BY <1>10, <2>1
<1>13. ASSUME NEW j \in i + m..n - 1 + m PROVE L[j] = E[j + 1 - m]
  <2>1. /\ j \in 1..i - 1 + m + (n - i) /\ ~(j <= i - 1 + m)
        /\ j - (i - 1 + m) \in 1..n - i /\ i + (j - (i - 1 + m)) = j + 1 - m
    BY <1>8
  <2>2. QED
    BY <1>4, <1>7, <1>10, <2>1
<1>14. Len(L) = n - 1 + m
  BY <1>8, <1>9
<1>15. IsSpliced(L, E, i, W)
  BY <1>7, <1>11, <1>12, <1>13, <1>14 DEF IsSpliced
<1>16. L = Spliced(E, i, W)
  BY <1>1, <1>2 DEF Spliced
<1>17. QED
  BY <1>6, <1>15, <1>16

(* Ranges with one of them replaced by some within it. *)
LEMMA SplicedRanges ==
    ASSUME NEW E, Ranges(E), NEW i \in DOMAIN E, NEW W, Ranges(W), AllInside(W, E[i]), NEW L,
           L = Spliced(E, i, W)
    PROVE  /\ Ranges(L)
           /\ \A k : Covers(L, k) <=> Covers(W, k) \/ \E j \in DOMAIN E \ {i} : Within(k, E[j])
<1> DEFINE R == [pos : Nat, len : Nat \ {0}]
<1>1. E \in Seq(R) /\ W \in Seq(R)
  BY DEF Ranges
<1> HIDE DEF R
<1>2. PICK n, m : n = Len(E) /\ m = Len(W)
  OBVIOUS
<1>3. /\ n \in Nat /\ m \in Nat /\ i \in 1..n /\ DOMAIN E = 1..n /\ DOMAIN W = 1..m
  BY <1>1, <1>2
<1>4. L \in Seq(R) /\ IsSpliced(L, E, i, W)
  BY <1>1, <1>2, <1>3, SplicedIs
<1>5. Len(L) = n - 1 + m
  BY <1>2, <1>4 DEF IsSpliced
<1>6. DOMAIN L = 1..n - 1 + m
  BY <1>4, <1>5
(* Each range of L is one of E before or behind the i-th, or one of W. *)
<1> DEFINE Old(j, a) == a \in DOMAIN E /\ L[j] = E[a] /\ ((j < i /\ a = j) \/ (i < a /\ i + m <= j /\ a = j + 1 - m))
           New(j, a) == a \in DOMAIN W /\ L[j] = W[a] /\ a = j - (i - 1)
<1>7. \A j \in 1..i - 1 : Old(j, j)
  BY <1>3, <1>4 DEF IsSpliced
<1>8. \A j \in i..i - 1 + m : New(j, j - (i - 1))
  BY <1>2, <1>3, <1>4 DEF IsSpliced
<1>9. \A j \in i + m..n - 1 + m : Old(j, j + 1 - m)
  BY <1>2, <1>3, <1>4 DEF IsSpliced
<1>10. ASSUME NEW j \in DOMAIN L PROVE \E a : Old(j, a) \/ New(j, a)
  <2>1. j \in 1..i - 1 \/ j \in i..i - 1 + m \/ j \in i + m..n - 1 + m
    BY <1>3, <1>6
  <2> HIDE DEF Old, New
  <2>2. QED
    BY <1>7, <1>8, <1>9, <2>1
<1>11. \A a \in DOMAIN E : E[a].pos \in Nat /\ EndOf(E[a]) \in Nat /\ EndOf(E[a]) <= Length /\ E[a].pos < EndOf(E[a])
  BY RangeAt
<1>12. \A a \in DOMAIN W : W[a].pos \in Nat /\ EndOf(W[a]) \in Nat /\ EndOf(W[a]) <= Length /\ W[a].pos < EndOf(W[a])
  BY RangeAt
<1>13. ASSUME NEW j \in DOMAIN L PROVE EndOf(L[j]) <= Length
  BY <1>10, <1>11, <1>12
<1>14. /\ \A a, b \in DOMAIN E : a < b => EndOf(E[a]) < E[b].pos
       /\ \A a, b \in DOMAIN W : a < b => EndOf(W[a]) < W[b].pos
       /\ \A a \in DOMAIN W : E[i].pos <= W[a].pos /\ EndOf(W[a]) <= EndOf(E[i])
  BY DEF Ranges, AllInside
<1>15. ASSUME NEW g \in DOMAIN L, NEW h \in DOMAIN L, g < h PROVE EndOf(L[g]) < L[h].pos
  <2>1. PICK a : Old(g, a) \/ New(g, a)
    BY <1>10
  <2>2. PICK b : Old(h, b) \/ New(h, b)
    BY <1>10
  <2>3. g \in Nat /\ h \in Nat
    BY <1>6
  <2>4. CASE Old(g, a) /\ Old(h, b)
    <3>1. a < b
      BY <1>3, <1>15, <2>3, <2>4
    <3>2. EndOf(E[a]) < E[b].pos
      BY <1>14, <2>4, <3>1
    <3>3. QED
      BY <2>4, <3>2
  <2>5. CASE New(g, a) /\ New(h, b)
    <3>1. a < b
      BY <1>3, <1>15, <2>3, <2>5
    <3>2. EndOf(W[a]) < W[b].pos
      BY <1>14, <2>5, <3>1
    <3>3. QED
      BY <2>5, <3>2
  <2>6. CASE Old(g, a) /\ New(h, b)
    <3>1. a < i
      BY <1>3, <1>15, <2>3, <2>6
    <3>2. EndOf(E[a]) < E[i].pos /\ E[i].pos <= W[b].pos
      BY <1>14, <2>6, <3>1
    <3>3. EndOf(E[a]) \in Nat /\ E[i].pos \in Nat /\ W[b].pos \in Nat
      BY <1>11, <1>12, <2>6
    <3>4. EndOf(E[a]) < W[b].pos
      BY <3>2, <3>3
    <3>5. QED
      BY <2>6, <3>4
  <2>7. CASE New(g, a) /\ Old(h, b)
    <3>1. i < b
      BY <1>3, <1>15, <2>3, <2>7
    <3>2. EndOf(W[a]) <= EndOf(E[i]) /\ EndOf(E[i]) < E[b].pos
      BY <1>14, <2>7, <3>1
    <3>3. EndOf(W[a]) \in Nat /\ EndOf(E[i]) \in Nat /\ E[b].pos \in Nat
      BY <1>11, <1>12, <2>7
    <3>4. EndOf(W[a]) < E[b].pos
      BY <3>2, <3>3
    <3>5. QED
      BY <2>7, <3>4
  <2>8. QED
    BY <2>1, <2>2, <2>4, <2>5, <2>6, <2>7
<1>16. Ranges(L)
  BY <1>4, <1>13, <1>15 DEF Ranges, R
<1>17. ASSUME NEW k, Covers(L, k)
       PROVE  Covers(W, k) \/ \E j \in DOMAIN E \ {i} : Within(k, E[j])
  <2>1. PICK j \in DOMAIN L : Within(k, L[j])
    BY <1>17 DEF Covers
  <2>2. PICK a : Old(j, a) \/ New(j, a)
    BY <1>10
  <2>3. Old(j, a) => a # i
    BY <1>3, <1>6
  <2>4. QED
    BY <2>1, <2>2, <2>3 DEF Covers
<1>18. ASSUME NEW k, Covers(W, k) PROVE Covers(L, k)
  <2>1. PICK a \in DOMAIN W : Within(k, W[a])
    BY <1>18 DEF Covers
  <2>2. PICK j : j = a + (i - 1)
    OBVIOUS
  <2>3. j \in i..i - 1 + m /\ j - (i - 1) = a /\ j \in DOMAIN L
    BY <1>3, <1>6, <2>2
  <2>4. L[j] = W[a]
    BY <1>8, <2>3
  <2>5. QED
    BY <2>1, <2>3, <2>4 DEF Covers
<1>19. ASSUME NEW k, NEW a \in DOMAIN E \ {i}, Within(k, E[a]) PROVE Covers(L, k)
  <2>1. CASE a < i
    <3>1. a \in 1..i - 1 /\ a \in DOMAIN L
      BY <1>3, <1>6, <2>1
    <3>2. L[a] = E[a]
      BY <1>7, <3>1
    <3>3. QED
      BY <1>19, <3>1, <3>2 DEF Covers
  <2>2. CASE i < a
    <3>1. PICK j : j = a - 1 + m
      OBVIOUS
    <3>2. j \in i + m..n - 1 + m /\ j \in DOMAIN L /\ j + 1 - m = a
      BY <1>3, <1>6, <2>2, <3>1
    <3>3. L[j] = E[a]
      BY <1>9, <3>2
    <3>4. QED
      BY <1>19, <3>2, <3>3 DEF Covers
  <2>3. QED
    BY <1>3, <2>1, <2>2
<1>20. QED
  BY <1>16, <1>17, <1>18, <1>19

(* What the session waits for once a part has been accounted for. *)
LEMMA ExpectedIs ==
    ASSUME NEW E, Ranges(E), NEW part \in Part, \A k \in Units(part) : Covers(E, k),
           NEW i, i = RangeFor(E, part[1]), NEW L, L = Expected(E, i, part)
    PROVE  Ranges(L) /\ {k \in Unit : Covers(L, k)} = {k \in Unit : Covers(E, k)} \ Units(part)
<1>1. /\ i \in DOMAIN E /\ E[i].pos <= part[1] /\ part[1] + part[2] <= EndOf(E[i])
  BY RangeForIs
<1>2. PICK W : W = WithoutPart(E[i], part)
  OBVIOUS
<1>3. IsRange(E[i])
  BY <1>1, RangeAt DEF IsRange
<1>4. /\ Ranges(W) /\ AllInside(W, E[i])
      /\ \A k \in Nat : Covers(W, k) <=> Within(k, E[i]) /\ ~(part[1] <= k /\ k < part[1] + part[2])
  BY <1>1, <1>2, <1>3, WithoutPartIs
<1>5. L = Spliced(E, i, W)
  BY <1>2 DEF Expected, Spliced
<1>6. /\ Ranges(L)
      /\ \A k : Covers(L, k) <=> Covers(W, k) \/ \E j \in DOMAIN E \ {i} : Within(k, E[j])
  BY <1>1, <1>4, <1>5, SplicedRanges
<1>7. ASSUME NEW k \in Units(part), NEW j \in DOMAIN E \ {i}, Within(k, E[j]) PROVE FALSE
  <2>1. k \in Nat /\ part[1] <= k /\ k < part[1] + part[2] /\ part[1] \in Nat /\ part[2] \in Nat
    BY PartIs DEF Unit
  <2>2. /\ E[i].pos \in Nat /\ EndOf(E[i]) \in Nat /\ E[j].pos \in Nat /\ EndOf(E[j]) \in Nat
        /\ E[j].pos <= k /\ k < EndOf(E[j])
    BY <1>1, <1>7, RangeAt DEF Within
  <2>3. i \in Nat /\ j \in Nat /\ i # j
    BY <1>1 DEF Ranges
  <2>4. (i < j => EndOf(E[i]) < E[j].pos) /\ (j < i => EndOf(E[j]) < E[i].pos)
    BY <1>1 DEF Ranges
  <2>5. QED
    BY <1>1, <2>1, <2>2, <2>3, <2>4
<1>8. ASSUME NEW k \in Unit PROVE Covers(L, k) <=> Covers(E, k) /\ k \notin Units(part)
  <2>1. k \in Nat /\ (k \in Units(part) <=> part[1] <= k /\ k < part[1] + part[2])
    BY <1>8, PartIs DEF Unit
  <2>2. Covers(E, k) <=> Within(k, E[i]) \/ \E j \in DOMAIN E \ {i} : Within(k, E[j])
    BY <1>1 DEF Covers
  <2>3. k \in Units(part) => ~\E j \in DOMAIN E \ {i} : Within(k, E[j])
    BY <1>7
  <2>4. QED
    BY <1>4, <1>6, <2>1, <2>2, <2>3
<1>9. QED
  BY <1>6, <1>8

LEMMA LeastOf ==
    ASSUME NEW S, S \subseteq Nat, S # {}
    PROVE  \E m \in S : \A k \in S : m <= k
<1>1. PICK m \in S : \A k \in S : ~(<<k, m>> \in OpToRel(<, Nat))
  BY WFMin, NatLessThanWellFounded
<1>2. \A k \in S : k \in Nat /\ m \in Nat /\ ~(k < m)
  BY <1>1 DEF OpToRel
<1>3. ASSUME NEW k \in S PROVE m <= k
  <2>1. k \in Nat /\ m \in Nat /\ ~(k < m)
    BY <1>2
  <2>2. QED
    BY <2>1
<1>4. QED
  BY <1>3

(* The recursion of Needed has a solution, and a sum of lengths above zero *)
(* is above zero: an upload that waits for something never looks complete. *)
Sums(E, n, f) == f = [i \in 0..n |-> IF i = 0 THEN 0 ELSE f[i - 1] + E[i].len]

LEMMA SummedUp ==
    ASSUME NEW E, NEW n \in Nat, \A i \in 1..n : E[i].len \in Nat \ {0}
    PROVE  \E f : Sums(E, n, f) /\ f[n] \in Nat /\ (n > 0 => f[n] > 0)
<1> DEFINE Good(m) == \E f : Sums(E, m, f) /\ f[m] \in Nat /\ (m > 0 => f[m] > 0)
           Without == {m \in 0..n : ~Good(m)}
<1>1. SUFFICES ASSUME Without # {} PROVE FALSE
  OBVIOUS
<1>2. Without \subseteq Nat
  OBVIOUS
<1>3. PICK m \in 0..n : ~Good(m) /\ \A k \in 0..n : k < m => Good(k)
  <2>1. PICK m \in Without : \A k \in Without : m <= k
    BY <1>1, <1>2, LeastOf
  <2>2. \A k \in 0..n : k < m => k \notin Without
    BY <2>1
  <2>3. QED
    BY <2>1, <2>2
<1>4. CASE m = 0
  <2>1. PICK g : g = [i \in 0..0 |-> 0]
    OBVIOUS
  <2>2. g = [i \in 0..0 |-> IF i = 0 THEN 0 ELSE g[i - 1] + E[i].len] /\ g[0] = 0
    BY <2>1
  <2>3. QED
    BY <1>3, <1>4, <2>2 DEF Sums
<1>5. CASE m # 0
  <2>1. m - 1 \in 0..n /\ m - 1 < m /\ m \in Nat /\ m \in 1..n
    BY <1>3, <1>5
  <2>2. PICK f : Sums(E, m - 1, f) /\ f[m - 1] \in Nat
    BY <1>3, <2>1
  <2>3. PICK g : g = [i \in 0..m |-> IF i = m THEN f[m - 1] + E[m].len ELSE f[i]]
    OBVIOUS
  <2>4. \A i \in 0..m - 1 : f[i] = IF i = 0 THEN 0 ELSE f[i - 1] + E[i].len
    BY <2>2 DEF Sums
  <2>5. ASSUME NEW i \in 0..m PROVE g[i] = IF i = 0 THEN 0 ELSE g[i - 1] + E[i].len
    <3>1. CASE i = m
      <4>1. g[i - 1] = f[m - 1] /\ g[i] = f[m - 1] + E[m].len
        BY <2>1, <2>3, <3>1
      <4>2. QED
        BY <1>5, <3>1, <4>1
    <3>2. CASE i # m
      <4>1. i \in 0..m - 1 /\ g[i] = f[i]
        BY <2>1, <2>3, <3>2
      <4>2. i # 0 => g[i - 1] = f[i - 1]
        BY <2>1, <2>3, <3>2
      <4>3. QED
        BY <2>4, <4>1, <4>2
    <3>3. QED
      BY <3>1, <3>2
  <2>6. g = [i \in 0..m |-> g[i]]
    BY <2>3
  <2>7. g = [i \in 0..m |-> IF i = 0 THEN 0 ELSE g[i - 1] + E[i].len]
    BY <2>5, <2>6
  <2>8. g[m] = f[m - 1] + E[m].len
    BY <2>1, <2>3
  <2>9. g[m] \in Nat /\ g[m] > 0
    BY <2>1, <2>2, <2>8
  <2>10. QED
    BY <1>3, <2>7, <2>9 DEF Sums
<1>6. QED
  BY <1>4, <1>5

LEMMA SumsAgree ==
    ASSUME NEW E, NEW n \in Nat, NEW f, NEW g, Sums(E, n, f), Sums(E, n, g)
    PROVE  f[n] = g[n]
<1> DEFINE Differ == {m \in 0..n : f[m] # g[m]}
<1>1. SUFFICES ASSUME Differ # {} PROVE FALSE
  OBVIOUS
<1>2. Differ \subseteq Nat
  OBVIOUS
<1>3. PICK m \in 0..n : f[m] # g[m] /\ \A k \in 0..n : k < m => f[k] = g[k]
  <2>1. PICK m \in Differ : \A k \in Differ : m <= k
    BY <1>1, <1>2, LeastOf
  <2>2. \A k \in 0..n : k < m => k \notin Differ
    BY <2>1
  <2>3. QED
    BY <2>1, <2>2
<1>4. /\ f[m] = IF m = 0 THEN 0 ELSE f[m - 1] + E[m].len
      /\ g[m] = IF m = 0 THEN 0 ELSE g[m - 1] + E[m].len
  BY <1>3 DEF Sums
<1>5. m # 0 => m - 1 \in 0..n /\ m - 1 < m
  BY <1>3
<1>6. QED
  BY <1>3, <1>4, <1>5

LEMMA StillNeeded ==
    ASSUME NEW E, Ranges(E), E # <<>>
    PROVE  ~LooksComplete(E)
<1>1. /\ Len(E) \in Nat /\ Len(E) > 0 /\ DOMAIN E = 1..Len(E)
  BY DEF Ranges
<1>2. \A i \in 1..Len(E) : E[i].len \in Nat \ {0}
  BY <1>1, RangeAt
<1>3. PICK f : Sums(E, Len(E), f) /\ f[Len(E)] > 0
  BY <1>1, <1>2, SummedUp
<1> DEFINE g == CHOOSE f1 : Sums(E, Len(E), f1)
<1>4. Sums(E, Len(E), g)
  BY <1>3
<1>5. Needed(E) = g[Len(E)]
  BY DEF Needed, Sums
<1>6. g[Len(E)] = f[Len(E)]
  BY <1>1, <1>3, <1>4, SumsAgree
<1>7. f[Len(E)] # 0
  BY <1>3, <1>1, <1>2
<1>8. QED
  BY <1>5, <1>6, <1>7 DEF LooksComplete

-----------------------------------------------------------------------------
(* A step leaves alone what belongs to others *)

(* Those other than the uploads U do not append, and the threads other     *)
(* than T neither copy nor upload without a version.                       *)
Beside(T, U) ==
    /\ \A w \in Upload \ U : Begun(w) => plan[w].mode # "append"
    /\ \A v \in Thread \ T : Flying(v) => /\ plan[threads[v].upload].version # Unversioned
                                          /\ plan[threads[v].upload].mode # "over"

(* A step of the threads T for the uploads U. *)
Touches(T, U) ==
    /\ T \subseteq Thread /\ U \subseteq Upload
    /\ \A v \in Thread \ T : threads'[v] = threads[v] /\ \A u \in U : ~WorksOn(v, u)
    /\ \A t \in T, w \in Upload \ U : ~WorksOn(t, w) /\ ~WorksOn(t, w)'
    /\ \A w \in Upload \ U : sessions'[w] = sessions[w] /\ plan'[w] = plan[w] /\ sent'[w] = sent[w]
FilesMove(U) ==
    /\ files' \in Seq(File) /\ Len(files) <= Len(files')
    /\ \A f \in DOMAIN files : InPlace(f)' => InPlace(f)
    /\ \A f \in DOMAIN files : files'[f] = files[f] \/ f = row.file \/ \E u \in U : Own(u, f)
Leaves(f) == ~(f \in DOMAIN files' /\ files'[f].place = "table")
RowMoves(U) ==
    \/ row' = row
    \/ /\ \/ row' = NoRow
          \/ row'.version = row.version + 1 /\ (row'.file = row.file \/ \E u \in U : Own(u, row'.file))
       /\ row'.file = row.file \/ Leaves(row.file)

LEMMA FilesType ==
    ASSUME FInv
    PROVE  /\ files \in Seq(File) /\ Len(files) \in Nat /\ DOMAIN files = 1..Len(files)
           /\ NoFile \notin DOMAIN files
           /\ \A f \in DOMAIN files : files[f] \in File
<1>1. files \in Seq(File)
  BY DEF FInv
<1> HIDE DEF File
<1>2. Len(files) \in Nat /\ DOMAIN files = 1..Len(files) /\ \A f \in DOMAIN files : files[f] \in File
  BY <1>1
<1>3. QED
  BY <1>1, <1>2 DEF NoFile

LEMMA OwnIs ==
    ASSUME FInv, NEW w \in Upload, NEW f, Own(w, f)
    PROVE  /\ f \in DOMAIN files /\ InPlace(f) /\ f # row.file
           /\ Begun(w) /\ plan[w].mode # "append"
<1>1. SessionOK(w)
  BY DEF FInv
<1>2. CASE HasSession(w) /\ sessions[w].new /\ sessions[w].file = f
  BY <1>1, <1>2 DEF SessionOK, HasSession, Begun, InPlace
<1>3. CASE \E t \in Thread : /\ WorksOn(t, w) /\ threads[t].step = "commit"
                             /\ threads[t].receipt.new /\ threads[t].receipt.file = f
  <2>1. PICK t \in Thread : /\ WorksOn(t, w) /\ threads[t].step = "commit"
                            /\ threads[t].receipt.new /\ threads[t].receipt.file = f
    BY <1>3
  <2>2. WorkOK(t)
    BY DEF FInv
  <2>3. ReceiptOK(t) /\ threads[t].upload = w
    BY <2>1, <2>2 DEF WorkOK, WorksOn, Flying
  <2>4. QED
    BY <2>1, <2>3 DEF ReceiptOK, IsKept, Begun, InPlace
<1>4. QED
  BY <1>2, <1>3 DEF Own

(* What the uploads other than U rely on is there after the step. *)
LEMMA OwnStays ==
    ASSUME FInv, NEW T, NEW U, Touches(T, U), FilesMove(U), RowMoves(U), NEW w \in Upload \ U
    PROVE  /\ Begun(w)' <=> Begun(w)
           /\ \A f : Own(w, f)' <=> Own(w, f)
           /\ \A f : Own(w, f) => f \in DOMAIN files /\ files'[f] = files[f] /\ f # row'.file /\ f \in DOMAIN files'
<1>1. sessions'[w] = sessions[w] /\ w \in Upload
  BY DEF Touches
<1>2. ASSUME NEW v \in Thread
      PROVE  (WorksOn(v, w)' <=> WorksOn(v, w)) /\ (WorksOn(v, w) => threads'[v] = threads[v])
  <2>1. CASE v \in T
    BY <2>1 DEF Touches
  <2>2. CASE v \notin T
    BY <2>2 DEF Touches, WorksOn
  <2>3. QED
    BY <2>1, <2>2
<1>3. Begun(w)' <=> Begun(w)
  BY <1>1, <1>2 DEF Begun
<1>4. ASSUME NEW f PROVE Own(w, f)' <=> Own(w, f)
  BY <1>1, <1>2 DEF Own, HasSession
<1>5. ASSUME NEW f, Own(w, f)
      PROVE  f \in DOMAIN files /\ files'[f] = files[f] /\ f # row'.file /\ f \in DOMAIN files'
  <2>1. f \in DOMAIN files /\ f # row.file
    BY <1>5, OwnIs
  <2>2. \A u \in U : ~Own(u, f)
    BY <1>5, <2>1 DEF FInv, Separate, Touches
  <2>3. files'[f] = files[f]
    BY <2>1, <2>2 DEF FilesMove
  <2>4. f # row'.file
    <3>1. CASE row' = row
      BY <2>1, <3>1
    <3>2. CASE row' = NoRow
      BY <2>1, <3>2, FilesType DEF NoRow
    <3>3. CASE row'.file = row.file \/ \E u \in U : Own(u, row'.file)
      BY <2>1, <2>2, <3>3
    <3>4. QED
      BY <3>1, <3>2, <3>3 DEF RowMoves
  <2>5. f \in DOMAIN files'
    <3>1. f \in 1..Len(files) /\ Len(files) \in Nat
      BY <2>1, FilesType
    <3>2. files' \in Seq(File) /\ Len(files) <= Len(files')
      BY DEF FilesMove
    <3> HIDE DEF File
    <3>3. Len(files') \in Nat /\ DOMAIN files' = 1..Len(files')
      BY <3>2
    <3>4. QED
      BY <3>1, <3>2, <3>3
  <2>6. QED
    BY <2>1, <2>3, <2>4, <2>5
<1>6. QED
  BY <1>3, <1>4, <1>5

LEMMA OtherSessions ==
    ASSUME FInv, NEW T, NEW U, Touches(T, U), FilesMove(U), RowMoves(U), Beside(T, U),
           NEW w \in Upload \ U
    PROVE  SessionOK(w)' /\ SentOK(w)'
<1>1. /\ SessionOK(w) /\ SentOK(w)
      /\ sessions'[w] = sessions[w] /\ plan'[w] = plan[w] /\ sent'[w] = sent[w]
  BY DEF FInv, Touches
<1>2. (Begun(w)' <=> Begun(w)) /\ \A v \in Thread : WorksOn(v, w)' <=> WorksOn(v, w)
  <2>1. ASSUME NEW v \in Thread PROVE WorksOn(v, w)' <=> WorksOn(v, w)
    <3>1. CASE v \in T
      BY <3>1 DEF Touches
    <3>2. CASE v \notin T
      BY <3>2 DEF Touches, WorksOn
    <3>3. QED
      BY <3>1, <3>2
  <2>2. QED
    BY <2>1, OwnStays
<1>3. CASE ~HasSession(w)
  BY <1>1, <1>2, <1>3 DEF SessionOK, SentOK, HasSession
<1>4. CASE HasSession(w)
  <2>1. PICK s : s = sessions[w]
    OBVIOUS
  <2>2. s.new
    BY <1>1, <1>4, <2>1 DEF SessionOK, Beside, Begun, HasSession
  <2>3. Own(w, s.file)
    BY <1>4, <2>1, <2>2 DEF Own
  <2>4. /\ s.file \in DOMAIN files /\ files'[s.file] = files[s.file] /\ s.file # row'.file
        /\ s.file \in DOMAIN files'
    BY <2>3, OwnStays
  <2>5. SessionOK(w)'
    BY <1>1, <1>4, <2>1, <2>2, <2>4 DEF SessionOK, HasSession, InPlace
  <2>6. SentOK(w)'
    BY <1>1, <1>2, <1>4, <2>1, <2>4 DEF SentOK, HasSession
  <2>7. QED
    BY <2>5, <2>6
<1>5. QED
  BY <1>3, <1>4

LEMMA OtherCalls ==
    ASSUME FInv, NEW T, NEW U, Touches(T, U), FilesMove(U), RowMoves(U), Beside(T, U),
           NEW v \in Thread \ T
    PROVE  WorkOK(v)'
<1>1. SUFFICES ASSUME Flying(v)' PROVE WorkOK(v)'
  BY DEF WorkOK
<1>2. PICK c : c = threads[v]
  OBVIOUS
<1>3. PICK w : w = c.upload
  OBVIOUS
<1>4. /\ threads'[v] = c /\ Flying(v) /\ v \in Thread
  BY <1>1, <1>2 DEF Touches, Flying
<1>5. WorksOn(v, w) /\ w \in Upload
  BY <1>2, <1>3, <1>4 DEF FInv, UInv, CallOK, WorksOn, Flying
<1>6. w \in Upload \ U
  BY <1>4, <1>5 DEF Touches
<1>7. /\ sessions'[w] = sessions[w] /\ plan'[w] = plan[w] /\ sent'[w] = sent[w]
      /\ SessionOK(w) /\ WorkOK(v) /\ UploadOK(w) /\ SeenOK(w) /\ RowOK
  BY <1>6 DEF Touches, FInv, UInv
<1>8. /\ plan[w].version # Unversioned /\ plan[w].mode # "over" /\ plan[w].mode # "append"
      /\ Begun(w)
  BY <1>2, <1>3, <1>4, <1>5, <1>6 DEF Beside, Begun
<1>9. \A f : Own(w, f) => f \in DOMAIN files /\ files'[f] = files[f] /\ f # row'.file /\ f \in DOMAIN files'
  BY <1>6, OwnStays
<1>10. HasSession(w) => LET s == sessions[w]
                        IN  s.new /\ s.file \in DOMAIN files /\ files'[s.file] = files[s.file]
  BY <1>7, <1>8, <1>9 DEF SessionOK, HasSession, Own
<1>11. CurOK(v)'
  <2>1. CurOK(v)
    BY <1>4, <1>7 DEF WorkOK
  <2>2. /\ c.cur \in 0..Len(files) /\ (c.cur = row.file \/ ~InPlace(c.cur))
    BY <1>2, <2>1 DEF CurOK
  <2>3. Len(files) \in Nat /\ Len(files') \in Nat /\ Len(files) <= Len(files')
    <3>1. files' \in Seq(File) /\ Len(files) <= Len(files')
      BY DEF FilesMove
    <3> HIDE DEF File
    <3>2. QED
      BY <3>1, FilesType
  <2>4. c.cur \in 0..Len(files')
    BY <2>2, <2>3
  <2>5. InPlace(c.cur)' => InPlace(c.cur)
    <3>1. CASE c.cur \in DOMAIN files
      BY <3>1 DEF FilesMove
    <3>2. CASE c.cur \notin DOMAIN files
      <4>1. c.cur = 0
        BY <2>2, <2>3, <3>2, FilesType
      <4>2. 0 \notin DOMAIN files'
        <5>1. files' \in Seq(File)
          BY DEF FilesMove
        <5> HIDE DEF File
        <5>2. QED
          BY <5>1
      <4>3. QED
        BY <4>1, <4>2 DEF InPlace
    <3>3. QED
      BY <3>1, <3>2
  <2>6. c.cur = row'.file \/ ~InPlace(c.cur)'
    <3>1. CASE row' = row
      BY <2>2, <2>5, <3>1
    <3>2. CASE row'.file = row.file \/ Leaves(row.file)
      BY <2>2, <2>5, <3>2 DEF Leaves, InPlace
    <3>3. QED
      BY <3>1, <3>2 DEF RowMoves
  <2>7. ASSUME plan[w].version \in {Unversioned, row'.version}, row' # NoRow PROVE c.cur = row'.file
    <3>1. plan[w].version = row'.version /\ plan[w].version <= row.version /\ row.version \in Nat
      BY <1>7, <1>8, <2>7 DEF SeenOK, RowOK
    <3>2. row' = row
      BY <2>7, <3>1 DEF RowMoves
    <3>3. QED
      BY <1>2, <1>3, <2>1, <2>7, <3>2 DEF CurOK
  <2>8. QED
    BY <1>2, <1>3, <1>4, <1>7, <2>4, <2>6, <2>7 DEF CurOK
<1>12. InPart(v) \/ c.step = "commit"
  BY <1>2, <1>4, <1>7 DEF WorkOK
<1>13. InPart(v)' => PartOK(v)'
  BY <1>2, <1>3, <1>4, <1>7 DEF WorkOK, InPart, PartOK, HasSession
<1>14. c.step = "looked" => LookedOK(v)'
  BY <1>2, <1>3, <1>4, <1>7, <1>10 DEF WorkOK, LookedOK, HasSession
<1>15. c.step \in {"open", "written", "failed"} => OpenOK(v)'
  <2>1. SUFFICES ASSUME c.step \in {"open", "written", "failed"} PROVE OpenOK(v)'
    OBVIOUS
  <2>2. OpenOK(v) /\ HasSession(w)
    BY <1>2, <1>3, <1>4, <1>7, <2>1 DEF WorkOK, InPart, PartOK
  <2>3. c.file = sessions[w].file /\ files'[c.file] = files[c.file]
    BY <1>2, <1>3, <1>10, <2>2 DEF OpenOK
  <2>4. QED
    BY <1>2, <1>3, <1>4, <1>7, <1>8, <2>2, <2>3 DEF OpenOK
<1>16. c.step = "commit" => ReceiptOK(v)'
  <2>1. SUFFICES ASSUME c.step = "commit" PROVE ReceiptOK(v)'
    OBVIOUS
  <2>2. ReceiptOK(v)
    BY <1>2, <1>4, <1>7, <2>1 DEF WorkOK
  <2>3. c.receipt.new
    BY <1>2, <1>3, <1>8, <2>2 DEF ReceiptOK
  <2>4. Own(w, c.receipt.file)
    BY <1>2, <1>5, <2>1, <2>3 DEF Own
  <2>5. /\ files'[c.receipt.file] = files[c.receipt.file] /\ c.receipt.file # row'.file
        /\ c.receipt.file \in DOMAIN files'
    BY <1>9, <2>4
  <2>6. QED
    BY <1>2, <1>3, <1>4, <1>7, <2>2, <2>3, <2>5 DEF ReceiptOK, IsKept, InPlace, HasSession
<1>17. QED
  <2>1. threads'[v].step = c.step /\ (InPart(v)' <=> InPart(v))
    BY <1>2, <1>4 DEF InPart
  <2>2. QED
    BY <1>11, <1>12, <1>13, <1>14, <1>15, <1>16, <2>1 DEF WorkOK

(* A step of at most one thread and one upload leaves FInv true when it    *)
(* does for these.                                                         *)
OnlyOne(S) == \A x, y \in S : x = y
Fresh(U) == \A u \in U : \A f \in DOMAIN files : Own(u, f)' => Own(u, f)
Kept(U) ==
    \A f \in DOMAIN files' :
        InPlace(f)' /\ (f \in DOMAIN files => f = row.file \/ \E u \in U : Own(u, f)) =>
            f = row'.file \/ \E u \in U : Own(u, f)'
AppendsAlone(U) ==
    \A u \in U : Begun(u)' /\ plan'[u].mode = "append" => \A w \in Upload \ U : ~Begun(w)
CallsAlone(T) ==
    \A t \in T : /\ Flying(t)'
                 /\ plan'[threads'[t].upload].version = Unversioned \/ plan'[threads'[t].upload].mode = "over"
                 => \A v \in Thread \ T : ~Flying(v)

LEMMA StepKeeps ==
    ASSUME FInv, NEW T, NEW U, Touches(T, U), FilesMove(U), RowMoves(U), Beside(T, U),
           OnlyOne(T), OnlyOne(U), Fresh(U), Kept(U), AppendsAlone(U), CallsAlone(T),
           UInv', DOMAIN sent' = Upload, crashes' = crashes, RowKept',
           \A u \in U : SessionOK(u)' /\ SentOK(u)', \A t \in T : WorkOK(t)'
    PROVE  FInv'
<1>1. T \subseteq Thread /\ U \subseteq Upload
  BY DEF Touches
<1>2. \A u \in Upload : SessionOK(u)' /\ SentOK(u)'
  BY OtherSessions
<1>3. \A t \in Thread : WorkOK(t)'
  BY OtherCalls
<1>4. ASSUME NEW w \in Upload \ U
      PROVE  /\ Begun(w)' <=> Begun(w)
             /\ plan'[w] = plan[w]
             /\ \A f : (Own(w, f)' <=> Own(w, f)) /\ (Own(w, f) => f \in DOMAIN files)
  BY OwnStays DEF Touches
<1>5. ASSUME NEW u \in Upload, NEW w \in Upload, NEW f \in DOMAIN files', Own(u, f)', Own(w, f)'
      PROVE  u = w
  <2>1. CASE u \in U /\ w \in U
    BY <2>1 DEF OnlyOne
  <2>2. CASE f \in DOMAIN files
    <3>1. Own(u, f) /\ Own(w, f)
      BY <1>4, <1>5, <2>2 DEF Fresh
    <3>2. QED
      BY <2>2, <3>1 DEF FInv, Separate
  <2>3. QED
    BY <1>4, <1>5, <2>1, <2>2
<1>6. ASSUME crashes = 0, NEW f \in DOMAIN files', InPlace(f)'
      PROVE  f = row'.file \/ \E u \in Upload : Own(u, f)'
  <2>1. CASE f \in DOMAIN files => f = row.file \/ \E u \in U : Own(u, f)
    BY <1>1, <1>6, <2>1 DEF Kept
  <2>2. CASE f \in DOMAIN files /\ ~(f = row.file \/ \E u \in U : Own(u, f))
    <3>1. InPlace(f)
      BY <1>6, <2>2 DEF FilesMove
    <3>2. PICK w \in Upload : Own(w, f)
      BY <1>6, <2>2, <3>1 DEF FInv, NothingElse
    <3>3. w \in Upload \ U
      BY <2>2, <3>2
    <3>4. QED
      BY <1>4, <3>2, <3>3
  <2>3. QED
    BY <2>1, <2>2
<1>7. ASSUME NEW u \in Upload, NEW w \in Upload, Begun(u)', plan'[u].mode = "append", Begun(w)'
      PROVE  u = w
  <2>1. CASE u \in U /\ w \in U
    BY <2>1 DEF OnlyOne
  <2>2. CASE u \in U /\ w \notin U
    BY <1>4, <1>7, <2>2 DEF AppendsAlone
  <2>3. CASE u \notin U
    BY <1>4, <1>7, <2>3 DEF Beside
  <2>4. QED
    BY <2>1, <2>2, <2>3
<1>8. ASSUME NEW t \in Thread, NEW v \in Thread, Flying(t)', Flying(v)', t # v
      PROVE  /\ plan'[threads'[t].upload].version # Unversioned
             /\ plan'[threads'[t].upload].mode # "over"
  <2>1. CASE t \in T
    <3>1. v \in Thread \ T
      BY <1>8, <2>1 DEF OnlyOne
    <3>2. Flying(v)
      BY <1>8, <3>1 DEF Touches, Flying
    <3>3. QED
      BY <1>8, <2>1, <3>1, <3>2 DEF CallsAlone
  <2>2. CASE t \notin T
    <3>1. threads'[t] = threads[t] /\ \A u \in U : ~WorksOn(t, u)
      BY <2>2 DEF Touches
    <3>2. Flying(t)
      BY <1>8, <3>1 DEF Flying
    <3>3. threads[t].upload \in Upload
      BY <3>2 DEF FInv, UInv, CallOK
    <3>4. threads[t].upload \in Upload \ U
      BY <3>1, <3>2, <3>3 DEF WorksOn, Flying
    <3>5. plan'[threads[t].upload] = plan[threads[t].upload]
      BY <1>4, <3>4
    <3>6. QED
      BY <2>2, <3>1, <3>2, <3>5 DEF Beside
  <2>3. QED
    BY <2>1, <2>2
<1>9. Separate' /\ LoneAppend' /\ LoneCall'
  BY <1>5, <1>7, <1>8 DEF Separate, LoneAppend, LoneCall
<1>10. NothingElse'
  BY <1>6 DEF NothingElse
<1>11. files' \in Seq(File) /\ crashes' \in Nat
  BY DEF FilesMove, FInv
<1>12. QED
  BY <1>2, <1>3, <1>9, <1>10, <1>11 DEF FInv

-----------------------------------------------------------------------------
(* The steps of a call *)

LEMMA OneCallKeeps ==
    ASSUME FInv, NEW t \in Thread, NEW u, WorksOn(t, u), NEW c,
           threads' = [threads EXCEPT ![t] = c], c # Idle => c.upload = u,
           \A w \in Upload \ {u} : sessions'[w] = sessions[w] /\ plan'[w] = plan[w] /\ sent'[w] = sent[w],
           FilesMove({u}), RowMoves({u}), Fresh({u}), Kept({u}), Begun(u)' => plan'[u] = plan[u],
           UInv', DOMAIN sent' = Upload, crashes' = crashes, RowKept',
           SessionOK(u)', SentOK(u)', WorkOK(t)'
    PROVE  FInv'
<1>1. UInv /\ LoneAppend /\ LoneCall
  BY DEF FInv
<1>2. /\ u \in Upload /\ Begun(u) /\ threads'[t] = c /\ Flying(t) /\ threads[t].upload = u
      /\ \A v \in Thread \ {t} : threads'[v] = threads[v] /\ ~WorksOn(v, u)
  BY <1>1, InCall DEF WorksOn, Flying
<1>3. Touches({t}, {u})
  <2>1. \A w \in Upload \ {u} : ~WorksOn(t, w) /\ ~WorksOn(t, w)'
    BY <1>2 DEF WorksOn
  <2>2. QED
    BY <1>2, <2>1 DEF Touches
<1>4. Beside({t}, {u})
  BY <1>1, <1>2 DEF Beside, LoneAppend, LoneCall
<1>5. AppendsAlone({u})
  BY <1>1, <1>2 DEF AppendsAlone, LoneAppend
<1>6. CallsAlone({t})
  <2>1. Flying(t)' => Begun(u)' /\ threads'[t].upload = u
    BY <1>2 DEF Flying, Begun, WorksOn
  <2>2. QED
    BY <1>1, <1>2, <2>1 DEF CallsAlone, LoneCall
<1>7. OnlyOne({t}) /\ OnlyOne({u})
  BY DEF OnlyOne
<1>8. (\A x \in {u} : SessionOK(x)' /\ SentOK(x)') /\ \A x \in {t} : WorkOK(x)'
  OBVIOUS
<1>9. QED
  BY <1>3, <1>4, <1>5, <1>6, <1>7, <1>8, StepKeeps

LEMMA RowStays ==
    ASSUME FInv, row' = row, AppendsNow => AppendsNow',
           row # NoRow => row.file \in DOMAIN files' /\ files'[row.file] = files[row.file]
    PROVE  RowKept'
BY DEF FInv, RowKept, IsKept, InPlace

LEMMA NoFilesMove ==
    ASSUME FInv, files' = files, NEW U
    PROVE  FilesMove(U) /\ (row' = row => RowMoves(U))
<1>1. files \in Seq(File) /\ Len(files) \in Nat
  BY FilesType
<1>2. QED
  BY <1>1 DEF FilesMove, RowMoves, InPlace

(* What the calls and the uploads under way are like. *)
LEMMA InUpload ==
    ASSUME FInv, NEW t \in Thread, NEW u, WorksOn(t, u)
    PROVE  /\ UInv /\ u \in Upload /\ Begun(u) /\ threads[t].upload = u /\ Flying(t)
           /\ \A v \in Thread \ {t} : ~WorksOn(v, u)
           /\ DOMAIN threads = Thread /\ DOMAIN sessions = Upload /\ DOMAIN plan = Upload
           /\ DOMAIN sent = Upload
           /\ SessionOK(u) /\ SentOK(u) /\ WorkOK(t) /\ CurOK(t) /\ UploadOK(u) /\ RowOK
           /\ InPart(t) => PartOK(t)
           /\ threads[t].step = "looked" => LookedOK(t)
           /\ threads[t].step \in {"open", "written", "failed"} => OpenOK(t)
           /\ threads[t].step = "commit" => ReceiptOK(t)
<1>1. UInv /\ WorkOK(t)
  BY DEF FInv
<1>2. Flying(t) /\ threads[t].upload = u
  BY DEF WorksOn, Flying
<1>3. u \in Upload
  BY <1>1, InCall
<1>4. QED
  BY <1>1, <1>2, <1>3, InCall DEF FInv, WorkOK

LEMMA RowFile ==
    ASSUME FInv
    PROVE  /\ row.file \in 0..Len(files) /\ RowKept
           /\ row # NoRow => row.file \in DOMAIN files /\ InPlace(row.file)
           /\ row = NoRow => row.file \notin DOMAIN files
<1>1. RowKept /\ Len(files) \in Nat /\ DOMAIN files = 1..Len(files)
  BY FilesType DEF FInv
<1>2. row # NoRow => row.file \in DOMAIN files /\ InPlace(row.file)
  BY <1>1 DEF RowKept, IsKept, InPlace
<1>3. row = NoRow => row.file = 0
  BY DEF NoRow, NoFile
<1>4. QED
  BY <1>1, <1>2, <1>3

LEMMA LookSound ==
    ASSUME FInv, Windows = {}, NEW t \in Thread, Look(t)
    PROVE  FInv'
<1>1. UInv /\ UInv'
  BY LookKeeps DEF FInv
<1>2. PICK u \in Upload, part \in Part : \E p \in IF plan[u] # NoPlan THEN {plan[u]} ELSE Plans :
          /\ threads[t] = Idle
          /\ MayStart(u, p, part)
          /\ plan' = [plan EXCEPT ![u] = p]
          /\ sent' = [sent EXCEPT ![u] = @ \cup Units(part)]
          /\ threads' = [threads EXCEPT ![t] = [step |-> "looked", upload |-> u, part |-> part,
                                                cur |-> row.file]]
          /\ UNCHANGED <<row, files, sessions, crashes>>
  BY DEF Look
<1>3. PICK p \in IF plan[u] # NoPlan THEN {plan[u]} ELSE Plans :
          /\ threads[t] = Idle
          /\ MayStart(u, p, part)
          /\ plan' = [plan EXCEPT ![u] = p]
          /\ sent' = [sent EXCEPT ![u] = @ \cup Units(part)]
          /\ threads' = [threads EXCEPT ![t] = [step |-> "looked", upload |-> u, part |-> part,
                                                cur |-> row.file]]
          /\ UNCHANGED <<row, files, sessions, crashes>>
  BY <1>2
<1>4. PICK c : c = [step |-> "looked", upload |-> u, part |-> part, cur |-> row.file]
  OBVIOUS
<1>5. /\ DOMAIN threads = Thread /\ DOMAIN plan = Upload /\ DOMAIN sent = Upload
      /\ UploadOK(u) /\ SessionOK(u) /\ SentOK(u)
  BY <1>1 DEF UInv, FInv
<1>6. /\ threads'[t] = c /\ c # Idle /\ c.step = "looked" /\ c.upload = u /\ c.part = part /\ c.cur = row.file
      /\ \A v \in Thread \ {t} : threads'[v] = threads[v]
      /\ plan'[u] = p /\ \A w \in Upload \ {u} : plan'[w] = plan[w]
      /\ sent'[u] = sent[u] \cup Units(part) /\ \A w \in Upload \ {u} : sent'[w] = sent[w]
      /\ DOMAIN sent' = Upload
      /\ row' = row /\ files' = files /\ sessions' = sessions /\ crashes' = crashes
  BY <1>3, <1>4, <1>5 DEF Idle
<1>7. /\ \A v \in Thread : ~WorksOn(v, u)
      /\ Units(part) \cap sent[u] = {}
      /\ \A v \in Thread : Flying(v) => /\ p.version # Unversioned /\ p.mode # "over"
                                        /\ plan[threads[v].upload].version # Unversioned
                                        /\ plan[threads[v].upload].mode # "over"
      /\ Appending \/ p.mode = "append" => \A w \in Upload \ {u} : ~Begun(w)
  BY <1>3 DEF MayStart, UnversionedFlying, Copying
<1>8. Flying(t)' /\ WorksOn(t, u)' /\ Begun(u)' /\ ~Flying(t)
  BY <1>3, <1>6 DEF Flying, WorksOn, Begun
<1>9. Touches({t}, {u})
  <2>1. \A w \in Upload \ {u} : ~WorksOn(t, w) /\ ~WorksOn(t, w)'
    BY <1>3, <1>6 DEF WorksOn
  <2>2. QED
    BY <1>6, <1>7, <2>1 DEF Touches
<1>10. Beside({t}, {u})
  BY <1>7 DEF Beside, Appending
<1>11. FilesMove({u}) /\ RowMoves({u})
  BY <1>6, NoFilesMove
<1>12. Fresh({u}) /\ Kept({u})
  <2>1. \A f : Own(u, f)' <=> Own(u, f)
    BY <1>3, <1>6, <1>7 DEF Own, HasSession, WorksOn
  <2>2. QED
    BY <1>6, <2>1 DEF Fresh, Kept
<1>13. AppendsAlone({u}) /\ CallsAlone({t})
  BY <1>6, <1>7 DEF AppendsAlone, CallsAlone
<1>14. HasSession(u) => p = plan[u]
  BY <1>3, <1>5 DEF UploadOK, HasSession, Begun
<1>15. RowKept'
  <2>1. AppendsNow' <=> AppendsNow
    BY <1>6 DEF AppendsNow, HasSession
  <2>2. QED
    BY <1>6, <2>1, RowStays, RowFile
<1>16. SessionOK(u)'
  BY <1>5, <1>6, <1>14 DEF SessionOK, HasSession, InPlace
<1>17. Units(part) \subseteq Unit
  BY PartIs
<1>18. SentOK(u)'
  BY <1>5, <1>6, <1>8, <1>17 DEF SentOK
<1>19. /\ HasSession(u) => /\ Awaited(sessions[u]) = Unit \ sent[u]
                           /\ Based(files[sessions[u].file].text, sessions[u])
       /\ ~HasSession(u) => sent[u] = {}
  BY <1>5, <1>7 DEF SentOK, Begun, HasSession
<1>20. WorkOK(t)'
  <2>1. CurOK(t)'
    BY <1>6, RowFile DEF CurOK
  <2>2. PartOK(t)'
    <3>1. HasSession(u) => Awaited(sessions[u]) = (Unit \ sent'[u]) \cup Units(part)
      BY <1>6, <1>7, <1>17, <1>19
    <3>2. ~HasSession(u) => sent'[u] = Units(part)
      BY <1>6, <1>19
    <3>3. QED
      BY <1>6, <3>1, <3>2 DEF PartOK, HasSession
  <2>3. LookedOK(t)'
    BY <1>6, <1>19 DEF LookedOK, HasSession
  <2>4. InPart(t)'
    BY <1>6 DEF InPart
  <2>5. QED
    BY <1>6, <2>1, <2>2, <2>3, <2>4 DEF WorkOK
<1>21. OnlyOne({t}) /\ OnlyOne({u})
  BY DEF OnlyOne
<1>22. (\A x \in {u} : SessionOK(x)' /\ SentOK(x)') /\ \A x \in {t} : WorkOK(x)'
  BY <1>16, <1>18, <1>20
<1>23. QED
  BY <1>1, <1>6, <1>9, <1>10, <1>11, <1>12, <1>13, <1>15, <1>21, <1>22, StepKeeps

LEMMA CurStays ==
    ASSUME FInv, NEW t \in Thread, NEW u, WorksOn(t, u), row' = row, NEW U, FilesMove(U),
           threads'[t].cur = threads[t].cur, threads'[t].upload = u, plan'[u] = plan[u]
    PROVE  CurOK(t)'
<1>1. CurOK(t) /\ threads[t].upload = u
  BY InUpload
<1>2. PICK cur : cur = threads[t].cur
  OBVIOUS
<1>3. Len(files) \in Nat /\ Len(files') \in Nat /\ Len(files) <= Len(files') /\ DOMAIN files' = 1..Len(files')
  <2>1. files' \in Seq(File) /\ Len(files) <= Len(files')
    BY DEF FilesMove
  <2> HIDE DEF File
  <2>2. QED
    BY <2>1, FilesType
<1>4. cur \in 0..Len(files') /\ (cur \in DOMAIN files \/ cur \notin DOMAIN files')
  BY <1>1, <1>2, <1>3, FilesType DEF CurOK
<1>5. InPlace(cur)' => InPlace(cur)
  BY <1>4 DEF FilesMove, InPlace
<1>6. QED
  BY <1>1, <1>2, <1>4, <1>5 DEF CurOK

(* The call returns, and what the upload has made is removed. *)
LEMMA OverSound ==
    ASSUME FInv, NEW t \in Thread, NEW u, WorksOn(t, u), Return(t), Over(u),
           UNCHANGED <<row, commits, crashes>>, FilesMove({u}), RowKept',
           \A f \in DOMAIN files' : f \in DOMAIN files => ~Own(u, f) \/ Leaves(f),
           \A f \in DOMAIN files' \ DOMAIN files : Leaves(f)
    PROVE  FInv'
<1>1. UInv'
  BY OverKeeps DEF FInv
<1>2. PICK c : c = Idle
  OBVIOUS
<1>3. /\ threads' = [threads EXCEPT ![t] = c] /\ threads'[t] = Idle
      /\ sessions'[u] = NoSession /\ sent'[u] = {}
      /\ \A w \in Upload \ {u} : sessions'[w] = sessions[w] /\ plan'[w] = plan[w] /\ sent'[w] = sent[w]
      /\ DOMAIN sent' = Upload
      /\ \A v \in Thread \ {t} : threads'[v] = threads[v] /\ ~WorksOn(v, u)
  BY <1>2, InUpload DEF Return, Over
<1>4. ~Begun(u)' /\ \A f : ~Own(u, f)'
  BY <1>3 DEF Begun, Own, HasSession, WorksOn
<1>5. Fresh({u})
  BY <1>4 DEF Fresh
<1>6. Kept({u})
  BY <1>4 DEF Kept, Leaves, InPlace
<1>7. SessionOK(u)' /\ SentOK(u)'
  BY <1>3 DEF SessionOK, SentOK, HasSession
<1>8. WorkOK(t)'
  BY <1>3 DEF WorkOK, Flying
<1>9. RowMoves({u})
  BY DEF RowMoves
<1>10. QED
  BY <1>1, <1>2, <1>3, <1>4, <1>5, <1>6, <1>7, <1>8, <1>9, OneCallKeeps

(* The session is opened for the part that thread t has. *)
LEMMA OpenedSound ==
    ASSUME FInv, NEW t \in Thread, NEW u, WorksOn(t, u), threads[t].step = "looked",
           NEW s, NEW copy, Opened(t, u, s, copy), s # NoSession, UInv',
           UNCHANGED <<row, commits, crashes>>, FilesMove({u}), RowKept',
           Awaited(s) = (Unit \ sent[u]) \cup Units(threads[t].part),
           \A f \in DOMAIN files : s.new /\ s.file = f => Own(u, f),
           \A f \in DOMAIN files' : f \notin DOMAIN files \/ Own(u, f) => s.new /\ s.file = f,
           SessionOK(u)', OpenOK(t)'
    PROVE  FInv'
<1>1. PICK c : c = [step |-> "open", upload |-> u, part |-> threads[t].part,
                    cur |-> threads[t].cur, file |-> s.file, offset |-> s.offset, copy |-> copy]
  OBVIOUS
<1>2. /\ threads' = [threads EXCEPT ![t] = c] /\ threads'[t] = c /\ c # Idle /\ c.upload = u
      /\ c.step = "open" /\ c.part = threads[t].part /\ c.cur = threads[t].cur
      /\ sessions'[u] = s /\ plan' = plan /\ sent' = sent /\ DOMAIN sent = Upload /\ u \in Upload
      /\ \A w \in Upload \ {u} : sessions'[w] = sessions[w]
      /\ \A v \in Thread \ {t} : threads'[v] = threads[v] /\ ~WorksOn(v, u)
  BY <1>1, InUpload DEF Opened, Idle
<1>3. Begun(u)' /\ WorksOn(t, u)' /\ \A f : Own(u, f)' <=> s.new /\ s.file = f
  BY <1>2 DEF Begun, Own, HasSession, WorksOn
<1>4. Fresh({u}) /\ Kept({u})
  BY <1>3 DEF Fresh, Kept
<1>5. SentOK(u)'
  BY <1>2, <1>3, InUpload DEF SentOK
<1>6. WorkOK(t)'
  <2>1. CurOK(t)'
    BY <1>2, CurStays
  <2>2. PartOK(t) /\ threads[t].upload = u
    BY InUpload DEF InPart
  <2>3. PartOK(t)'
    BY <1>2, <2>2 DEF PartOK, HasSession
  <2>4. InPart(t)' /\ c.step # "looked" /\ c.step # "commit"
    BY <1>2 DEF InPart
  <2>5. QED
    BY <1>2, <2>1, <2>3, <2>4 DEF WorkOK
<1>7. RowMoves({u})
  BY DEF RowMoves
<1>8. /\ \A w \in Upload \ {u} : sessions'[w] = sessions[w] /\ plan'[w] = plan[w] /\ sent'[w] = sent[w]
      /\ DOMAIN sent' = Upload /\ crashes' = crashes /\ plan'[u] = plan[u]
  BY <1>2
<1>9. threads' = [threads EXCEPT ![t] = c] /\ (c # Idle => c.upload = u)
  BY <1>2
<1>10. QED
  BY <1>4, <1>5, <1>6, <1>7, <1>8, <1>9, OneCallKeeps

LEMMA AppendFile ==
    ASSUME FInv, NEW g \in File, files' = Append(files, g), NEW U
    PROVE  /\ FilesMove(U)
           /\ DOMAIN files' = DOMAIN files \cup {Len(files) + 1} /\ Len(files) + 1 \notin DOMAIN files
           /\ files'[Len(files) + 1] = g
           /\ \A f \in DOMAIN files : files'[f] = files[f] /\ f \in DOMAIN files'
<1>1. /\ files \in Seq(File) /\ Len(files) \in Nat /\ DOMAIN files = 1..Len(files)
  BY FilesType
<1> HIDE DEF File
<1>2. /\ files' \in Seq(File) /\ Len(files') = Len(files) + 1 /\ DOMAIN files' = 1..Len(files) + 1
      /\ files'[Len(files) + 1] = g /\ \A f \in 1..Len(files) : files'[f] = files[f]
  BY <1>1
<1>3. \A f \in DOMAIN files : files'[f] = files[f] /\ f \in DOMAIN files'
  BY <1>1, <1>2
<1>4. FilesMove(U)
  <2>1. Len(files) <= Len(files')
    BY <1>1, <1>2
  <2>2. QED
    BY <1>2, <1>3, <2>1 DEF FilesMove, InPlace
<1>5. QED
  BY <1>1, <1>2, <1>3, <1>4

LEMMA FirstRangeIs == Ranges(FirstRange) /\ \A k \in Unit : Covers(FirstRange, k)
<1> DEFINE r == [pos |-> 0, len |-> Length]
           R == [pos : Nat, len : Nat \ {0}]
<1>1. r \in R /\ r.pos = 0 /\ EndOf(r) = Length
  BY DEF EndOf
<1>2. FirstRange = <<r>>
  BY DEF FirstRange
<1> HIDE DEF r, R
<1>3. FirstRange \in Seq(R) /\ DOMAIN FirstRange = {1} /\ FirstRange[1] = r
  BY <1>1, <1>2
<1>4. Ranges(FirstRange)
  BY <1>1, <1>3 DEF Ranges, R
<1>5. \A k \in Unit : Covers(FirstRange, k)
  BY <1>1, <1>3 DEF Covers, Within, Unit
<1>6. QED
  BY <1>4, <1>5

(* A session that is created waits for everything. *)
LEMMA NewSessionIs ==
    ASSUME NEW file, NEW new, NEW offset, NEW size, NEW version, NEW s,
           s = NewSession(file, new, offset, size, version)
    PROVE  /\ s # NoSession /\ s.file = file /\ s.new = new /\ s.offset = offset /\ s.size = size
           /\ Ranges(s.expected) /\ Awaited(s) = Unit
<1>1. /\ s # NoSession /\ s.file = file /\ s.new = new /\ s.offset = offset /\ s.size = size
      /\ s.expected = FirstRange
  BY DEF NewSession, NoSession
<1>2. QED
  BY <1>1, FirstRangeIs, AwaitedIs

LEMMA FirstPart ==
    ASSUME FInv, NEW t \in Thread, NEW u, WorksOn(t, u), threads[t].step = "looked", ~HasSession(u)
    PROVE  /\ (Unit \ sent[u]) \cup Units(threads[t].part) = Unit
           /\ \A f : ~Own(u, f)
<1>1. PartOK(t) /\ threads[t].upload = u /\ \A v \in Thread \ {t} : ~WorksOn(v, u)
  BY InUpload DEF InPart
<1>2. sent[u] = Units(threads[t].part) /\ Units(threads[t].part) \subseteq Unit
  BY <1>1, PartIs DEF PartOK
<1>3. QED
  BY <1>1, <1>2 DEF Own

LEMMA FileParts ==
    ASSUME NEW g \in File
    PROVE  /\ g.place \in {"table", "scrap", "deleted"} /\ g.text \in Seq(Cell) /\ g.safe \in Seq(Cell)
           /\ Len(g.text) \in Nat
<1>1. g.place \in {"table", "scrap", "deleted"} /\ g.text \in Seq(Cell) /\ g.safe \in Seq(Cell)
  BY DEF File
<1> HIDE DEF Cell
<1>2. QED
  BY <1>1

LEMMA NewFileIs ==
    /\ NewFile \in File /\ NewFile.place = "table" /\ NewFile.text = <<>>
    /\ [NewFile EXCEPT !.place = "deleted"] \in File
    /\ [NewFile EXCEPT !.place = "deleted"].place = "deleted"
<1>1. <<>> \in Seq(Cell)
  OBVIOUS
<1> HIDE DEF Cell
<1>2. QED
  BY <1>1 DEF NewFile, File

(* While an upload of another kind is under way nobody appends, and the    *)
(* file of the table has no hole.                                          *)
LEMMA NoneAppends ==
    ASSUME FInv, NEW u \in Upload, Begun(u), plan[u].mode # "append" \/ ~HasSession(u)
    PROVE  /\ ~AppendsNow
           /\ row # NoRow => Solid(files[row.file].text, Len(files[row.file].text))
<1>1. ASSUME NEW w \in Upload, HasSession(w), ~sessions[w].new PROVE FALSE
  <2>1. SessionOK(w) /\ Begun(w)
    BY <1>1 DEF FInv, Begun, HasSession
  <2>2. plan[w].mode = "append"
    BY <1>1, <2>1 DEF SessionOK
  <2>3. w = u
    BY <2>1, <2>2 DEF FInv, LoneAppend
  <2>4. QED
    BY <1>1, <2>2, <2>3
<1>2. ~AppendsNow
  BY <1>1 DEF AppendsNow
<1>3. QED
  BY <1>2, RowFile DEF RowKept

LEMMA WholeIsBased ==
    ASSUME NEW s, s.offset = 0, s.size = Length, NEW text
    PROVE  Based(text, s)
BY DEF Based

(* A session with a file of its own. *)
LEMMA CreatesFile ==
    ASSUME FInv, NEW t \in Thread, NEW u, WorksOn(t, u), threads[t].step = "looked", ~HasSession(u),
           plan[u].mode # "append", UNCHANGED <<row, commits, crashes>>, UInv',
           NEW offset \in Nat, NEW size \in Nat, NEW copy \in Nat, offset + Length <= size,
           NEW s, s # NoSession, s.file = Len(files) + 1, s.new = TRUE, s.offset = offset, s.size = size,
           Ranges(s.expected), Awaited(s) = Unit,
           files' = Append(files, NewFile), Opened(t, u, s, copy),
           copy = 0 => offset = 0 /\ size = Length,
           copy > 0 => /\ plan[u].mode = "over" /\ offset = UploadPos
                       /\ threads[t].cur \in DOMAIN files
                       /\ copy = Len(files[threads[t].cur].text)
                       /\ Solid(files[threads[t].cur].text, copy)
                       /\ UploadPos <= copy /\ size = LongerOf(copy, UploadPos + Length)
    PROVE  FInv'
<1>1. PICK new : new = Len(files) + 1
  OBVIOUS
<1>2. /\ s # NoSession /\ s.file = new /\ s.new = TRUE /\ s.offset = offset /\ s.size = size
      /\ Ranges(s.expected) /\ Awaited(s) = Unit
  BY <1>1
<1>3. /\ FilesMove({u}) /\ DOMAIN files' = DOMAIN files \cup {new} /\ new \notin DOMAIN files
      /\ files'[new] = NewFile /\ \A f \in DOMAIN files : files'[f] = files[f] /\ f \in DOMAIN files'
  BY <1>1, AppendFile, NewFileIs
<1>4. u \in Upload /\ DOMAIN sessions = Upload /\ DOMAIN threads = Thread /\ Begun(u)
  BY InUpload
<1>5. /\ sessions'[u] = s /\ \A w \in Upload \ {u} : sessions'[w] = sessions[w]
      /\ plan' = plan /\ sent' = sent
  BY <1>4 DEF Opened
<1>6. new # row.file /\ new \in Nat
  BY <1>1, RowFile, FilesType
<1>7. RowKept'
  <2>1. AppendsNow => AppendsNow'
    BY <1>4, NoneAppends
  <2>2. QED
    BY <1>3, <2>1, RowStays, RowFile
<1>8. SessionOK(u)'
  <2>1. files'[new].place = "table" /\ Len(files'[new].text) = 0
    BY <1>3, NewFileIs
  <2>2. InPlace(new)'
    BY <1>3, <2>1 DEF InPlace
  <2>3. Len(files'[new].text) <= size
    BY <2>1
  <2>4. QED
    BY <1>2, <1>5, <1>6, <2>2, <2>3 DEF SessionOK, HasSession
<1>9. OpenOK(t)'
  <2>1. PICK c : c = threads'[t]
    OBVIOUS
  <2>2. /\ c.step = "open" /\ c.upload = u /\ c.cur = threads[t].cur /\ c.file = new
        /\ c.offset = offset /\ c.copy = copy
    BY <1>2, <1>4, <2>1 DEF Opened
  <2>3. copy = 0 => Based(files'[new].text, s)
    <3>1. SUFFICES ASSUME copy = 0 PROVE Based(files'[new].text, s)
      OBVIOUS
    <3>2. s.offset = 0 /\ s.size = Length
      BY <1>2, <3>1
    <3>3. PICK text : text = files'[new].text
      OBVIOUS
    <3>4. Based(text, s)
      BY <3>2, WholeIsBased
    <3>5. QED
      BY <3>3, <3>4
  <2>4. copy > 0 => Copies(c, s)'
    BY <1>2, <1>3, <2>2 DEF Copies
  <2>5. QED
    BY <1>2, <1>5, <2>1, <2>2, <2>3, <2>4 DEF OpenOK
<1>10. (Unit \ sent[u]) \cup Units(threads[t].part) = Unit /\ \A f : ~Own(u, f)
  BY FirstPart
<1>11. /\ \A f \in DOMAIN files : s.new /\ s.file = f => Own(u, f)
       /\ \A f \in DOMAIN files' : f \notin DOMAIN files \/ Own(u, f) => s.new /\ s.file = f
  BY <1>2, <1>3, <1>10
<1>12. Awaited(s) = (Unit \ sent[u]) \cup Units(threads[t].part) /\ s # NoSession /\ FilesMove({u})
  BY <1>2, <1>3, <1>10
<1>13. QED
  BY <1>7, <1>8, <1>9, <1>11, <1>12, OpenedSound

(* The sessions that uploads of a whole file, and over one, create. *)
LEMMA WholeCreates ==
    ASSUME FInv, NEW t \in Thread, NEW u, WorksOn(t, u), threads[t].step = "looked", ~HasSession(u),
           plan[u].mode # "append", UNCHANGED <<row, commits, crashes>>, UInv',
           NEW s, s # NoSession, s.file = Len(files) + 1, s.new = TRUE, s.offset = 0, s.size = Length,
           Ranges(s.expected), Awaited(s) = Unit,
           files' = Append(files, NewFile), Opened(t, u, s, 0)
    PROVE  FInv'
<1>1. PICK zero : zero = 0
  OBVIOUS
<1>2. PICK size : size = Length
  OBVIOUS
<1>3. zero \in Nat /\ size \in Nat /\ zero + Length <= size /\ ~(zero > 0)
  BY <1>1, <1>2
<1>4. s.offset = zero /\ s.size = size /\ Opened(t, u, s, zero)
  BY <1>1, <1>2
<1>5. zero > 0 => /\ plan[u].mode = "over" /\ zero = UploadPos
                  /\ threads[t].cur \in DOMAIN files
                  /\ zero = Len(files[threads[t].cur].text)
                  /\ Solid(files[threads[t].cur].text, zero)
                  /\ UploadPos <= zero /\ size = LongerOf(zero, UploadPos + Length)
  BY <1>3
<1>6. QED
  BY <1>1, <1>2, <1>3, <1>4, <1>5, CreatesFile

LEMMA OverCreates ==
    ASSUME FInv, NEW t \in Thread, NEW u, WorksOn(t, u), threads[t].step = "looked", ~HasSession(u),
           plan[u].mode = "over", UNCHANGED <<row, commits, crashes>>, UInv',
           NEW copy \in Nat \ {0}, NEW size \in Nat, size = LongerOf(copy, UploadPos + Length),
           UploadPos + Length <= size,
           threads[t].cur \in DOMAIN files, copy = Len(files[threads[t].cur].text),
           Solid(files[threads[t].cur].text, copy), UploadPos <= copy,
           NEW s, s # NoSession, s.file = Len(files) + 1, s.new = TRUE, s.offset = UploadPos, s.size = size,
           Ranges(s.expected), Awaited(s) = Unit,
           files' = Append(files, NewFile), Opened(t, u, s, copy)
    PROVE  FInv'
<1>1. PICK offset : offset = UploadPos
  OBVIOUS
<1>2. offset \in Nat /\ offset + Length <= size /\ copy # 0 /\ copy \in Nat /\ s.offset = offset
  BY <1>1
<1>3. plan[u].mode # "append"
  OBVIOUS
<1>4. copy > 0 => /\ plan[u].mode = "over" /\ offset = UploadPos
                  /\ threads[t].cur \in DOMAIN files
                  /\ copy = Len(files[threads[t].cur].text)
                  /\ Solid(files[threads[t].cur].text, copy)
                  /\ UploadPos <= copy /\ size = LongerOf(copy, UploadPos + Length)
  BY <1>1
<1>5. copy = 0 => offset = 0 /\ size = Length
  BY <1>2
<1>6. offset \in Nat /\ offset + Length <= size /\ s.offset = offset
  BY <1>2
<1>7. \A z \in Nat : z = copy => FInv'
  <2>1. SUFFICES ASSUME NEW z \in Nat, z = copy PROVE FInv'
    OBVIOUS
  <2>2. Opened(t, u, s, z)
    BY <2>1
  <2>3. z = 0 => offset = 0 /\ size = Length
    BY <1>5, <2>1
  <2>4. z > 0 => /\ plan[u].mode = "over" /\ offset = UploadPos
                 /\ threads[t].cur \in DOMAIN files
                 /\ z = Len(files[threads[t].cur].text)
                 /\ Solid(files[threads[t].cur].text, z)
                 /\ UploadPos <= z /\ size = LongerOf(z, UploadPos + Length)
    BY <1>4, <2>1
  <2>5. QED
    BY <1>3, <1>6, <2>2, <2>3, <2>4, CreatesFile
<1>8. QED
  BY <1>2, <1>7

LEMMA CreateSound ==
    ASSUME FInv, NEW t \in Thread, NEW u, WorksOn(t, u), threads[t].step = "looked", ~HasSession(u),
           CreateSession(t, u), UNCHANGED <<row, commits, crashes>>, UInv'
    PROVE  FInv'
<1>1. /\ u \in Upload /\ Begun(u) /\ CurOK(t) /\ DOMAIN sessions = Upload /\ DOMAIN threads = Thread
      /\ threads[t].upload = u
  BY InUpload
<1>2. PICK cur, length, version :
          cur = threads[t].cur /\ length = Len(files[cur].text) /\ version = plan[u].version
  OBVIOUS
<1>3. /\ ~AppendsNow
      /\ row # NoRow => Solid(files[row.file].text, Len(files[row.file].text))
  BY <1>1, NoneAppends
<1>4. InPlace(cur) => /\ cur \in DOMAIN files /\ cur = row.file /\ row # NoRow
                      /\ Solid(files[cur].text, length) /\ length \in Nat
                      /\ row.size \in Nat /\ row.size <= length /\ Length <= row.size
  <2>1. SUFFICES ASSUME InPlace(cur)
                 PROVE  /\ cur \in DOMAIN files /\ cur = row.file /\ row # NoRow
                        /\ Solid(files[cur].text, length) /\ length \in Nat
                        /\ row.size \in Nat /\ row.size <= length /\ Length <= row.size
    OBVIOUS
  <2>2. cur \in DOMAIN files /\ cur = row.file
    BY <1>1, <1>2, <2>1 DEF InPlace, CurOK
  <2>3. row # NoRow /\ RowKept
    BY <2>2, RowFile
  <2>4. IsKept(cur, row.size, row.by)
    BY <2>2, <2>3 DEF RowKept
  <2>5. files[cur].text \in Seq(Cell) /\ length \in Nat
    BY <1>2, <2>2, FilesType, FileParts
  <2>6. row.size \in Nat /\ Keeps(files[cur].text, row.size, row.by)
    BY <2>4 DEF IsKept
  <2>7. Length <= row.size /\ Length \in Nat \ {0}
    BY <2>6 DEF Keeps
  <2>8. row.size <= length
    <3>1. At(files[cur].text, row.size - 1) # Hole /\ row.size - 1 \in Nat
      BY <2>6, <2>7 DEF Keeps, Solid
    <3>2. QED
      BY <1>2, <2>5, <2>6, <3>1, WithinLen
  <2>9. QED
    BY <1>2, <1>3, <2>2, <2>3, <2>5, <2>6, <2>7, <2>8
<1>5. CASE plan[u].mode = "whole" /\ files' = Append(files, NewFile)
           /\ Opened(t, u, NewSession(Len(files) + 1, TRUE, 0, Length, version), 0)
  <2>1. PICK s : s = NewSession(Len(files) + 1, TRUE, 0, Length, version)
    OBVIOUS
  <2>2. /\ s # NoSession /\ s.file = Len(files) + 1 /\ s.new = TRUE /\ s.offset = 0 /\ s.size = Length
        /\ Ranges(s.expected) /\ Awaited(s) = Unit
    <3>1. PICK zero : zero = 0
      OBVIOUS
    <3>2. PICK yes : yes = TRUE
      OBVIOUS
    <3>3. s = NewSession(Len(files) + 1, yes, zero, Length, version)
      BY <2>1, <3>1, <3>2
    <3>4. s.new = yes
      BY <3>3, NewSessionIs
    <3>5. s.offset = zero
      BY <3>3, NewSessionIs
    <3>6. /\ s # NoSession /\ s.file = Len(files) + 1 /\ s.size = Length
          /\ Ranges(s.expected) /\ Awaited(s) = Unit
      BY <3>3, NewSessionIs
    <3>7. QED
      BY <3>1, <3>2, <3>4, <3>5, <3>6
  <2>3. Opened(t, u, s, 0) /\ plan[u].mode # "append" /\ files' = Append(files, NewFile)
    BY <1>5, <2>1
  <2>4. QED
    BY <2>2, <2>3, WholeCreates
<1>6. CASE /\ plan[u].mode = "over" /\ InPlace(cur) /\ files' = Append(files, NewFile)
           /\ Opened(t, u, NewSession(Len(files) + 1, TRUE, UploadPos, LongerOf(length, UploadPos + Length),
                                      version), length)
  <2>1. PICK size, yes : size = LongerOf(length, UploadPos + Length) /\ yes = TRUE
    OBVIOUS
  <2>2. length \in Nat /\ UploadPos + Length \in Nat /\ UploadPos <= length /\ length > 0
    BY <1>4, <1>6
  <2>3. size \in Nat /\ UploadPos + Length <= size
    BY <2>1, <2>2, Lengths
  <2>4. UploadPos \in Nat /\ length # 0
    BY <2>2
  <2>5. QED
    <3>1. PICK s : s = NewSession(Len(files) + 1, yes, UploadPos, size, version)
      OBVIOUS
    <3>2. Opened(t, u, s, length) /\ plan[u].mode # "append" /\ files' = Append(files, NewFile)
      BY <1>6, <2>1, <3>1
    <3>3. /\ s # NoSession /\ s.file = Len(files) + 1 /\ s.new = yes /\ s.offset = UploadPos /\ s.size = size
          /\ Ranges(s.expected) /\ Awaited(s) = Unit
      BY <3>1, NewSessionIs
    <3>4. s.new = TRUE
      BY <2>1, <3>3
    <3>5. /\ threads[t].cur \in DOMAIN files /\ length = Len(files[threads[t].cur].text)
          /\ Solid(files[threads[t].cur].text, length) /\ UploadPos <= length
      BY <1>2, <1>4, <1>6, <2>2
    <3>6. length \in Nat \ {0}
      BY <2>2, <2>4
    <3>7. QED
      BY <1>6, <2>1, <2>3, <3>2, <3>3, <3>4, <3>5, <3>6, OverCreates
<1>7. CASE /\ plan[u].mode = "over" /\ ~InPlace(cur) /\ Return(t) /\ Over(u)
           /\ files' = IF cur = NoFile THEN files ELSE Append(files, [NewFile EXCEPT !.place = "deleted"])
  <2>1. AppendsNow => AppendsNow'
    BY <1>3
  <2>2. \A f : ~Own(u, f)
    BY FirstPart
  <2>3. CASE files' = files
    <3>1. FilesMove({u}) /\ RowKept'
      BY <2>1, <2>3, NoFilesMove, RowStays, RowFile
    <3>2. QED
      BY <1>7, <2>2, <2>3, <3>1, OverSound
  <2>4. CASE files' = Append(files, [NewFile EXCEPT !.place = "deleted"])
    <3>1. /\ FilesMove({u}) /\ DOMAIN files' = DOMAIN files \cup {Len(files) + 1}
          /\ files'[Len(files) + 1].place = "deleted"
          /\ \A f \in DOMAIN files : files'[f] = files[f] /\ f \in DOMAIN files'
      BY <2>4, AppendFile, NewFileIs
    <3>2. RowKept'
      BY <2>1, <3>1, RowStays, RowFile
    <3>3. \A f \in DOMAIN files' \ DOMAIN files : Leaves(f)
      BY <3>1 DEF Leaves
    <3>4. QED
      BY <1>7, <2>2, <3>1, <3>2, <3>3, OverSound
  <2>5. QED
    BY <1>7, <2>3, <2>4
<1>8. CASE /\ plan[u].mode = "append" /\ CanOpen(cur) /\ UNCHANGED files
           /\ Opened(t, u, NewSession(cur, FALSE, length, length + Length, version), 0)
  <2>1. PICK s : s = NewSession(cur, FALSE, length, length + Length, version)
    OBVIOUS
  <2>2. /\ s # NoSession /\ s.file = cur /\ s.new = FALSE /\ s.offset = length /\ s.size = length + Length
        /\ Ranges(s.expected) /\ Awaited(s) = Unit
    <3>1. PICK no, size : no = FALSE /\ size = length + Length
      OBVIOUS
    <3>2. s = NewSession(cur, no, length, size, version)
      BY <2>1, <3>1
    <3>3. QED
      BY <3>1, <3>2, NewSessionIs
  <2>3. InPlace(cur)
    BY <1>8 DEF CanOpen
  <2>4. /\ cur \in DOMAIN files /\ cur = row.file /\ row # NoRow
        /\ Solid(files[cur].text, length) /\ length \in Nat
        /\ row.size \in Nat /\ row.size <= length
    BY <1>4, <2>3
  <2>5. sessions'[u] = s /\ plan' = plan /\ sent' = sent
    BY <1>1, <1>8, <2>1 DEF Opened
  <2>6. FilesMove({u})
    BY <1>8, NoFilesMove
  <2>7. RowKept'
    BY <1>3, <1>8, RowStays, RowFile
  <2>8. SessionOK(u)'
    <3>1. length <= length + Length /\ length + Length <= length + Length /\ length + Length \in Nat
      BY <2>4
    <3>2. InPlace(cur)'
      BY <1>8, <2>3 DEF InPlace
    <3>3. QED
      BY <1>2, <1>8, <2>2, <2>4, <2>5, <3>1, <3>2 DEF SessionOK, HasSession
  <2>9. Based(files[cur].text, s)
    <3>1. ASSUME NEW j \in 0..length + Length - 1, j \notin length..length + Length - 1
          PROVE  j \in 0..length - 1
      BY <2>4, <3>1
    <3>2. QED
      BY <2>2, <2>4, <3>1 DEF Based, Solid
  <2>10. OpenOK(t)'
    <3>1. PICK c : c = threads'[t]
      OBVIOUS
    <3>2. /\ c.step = "open" /\ c.upload = u /\ c.cur = cur /\ c.file = cur
          /\ c.offset = length /\ c.copy = 0
      BY <1>1, <1>2, <1>8, <2>1, <2>2, <3>1 DEF Opened
    <3>3. QED
      BY <1>8, <2>2, <2>5, <2>9, <3>1, <3>2 DEF OpenOK
  <2>11. (Unit \ sent[u]) \cup Units(threads[t].part) = Unit /\ \A f : ~Own(u, f)
    BY FirstPart
  <2>12. QED
    BY <1>8, <2>1, <2>2, <2>6, <2>7, <2>8, <2>10, <2>11, OpenedSound
<1>9. CASE /\ plan[u].mode = "append" /\ ~CanOpen(cur) /\ UNCHANGED files
           /\ Return(t) /\ Over(u)
  <2>1. FilesMove({u}) /\ RowKept'
    BY <1>3, <1>9, NoFilesMove, RowStays, RowFile
  <2>2. \A f : ~Own(u, f)
    BY FirstPart
  <2>3. QED
    BY <1>9, <2>1, <2>2, OverSound
<1>10. QED
  BY <1>2, <1>5, <1>6, <1>7, <1>8, <1>9 DEF CreateSession

(* What an upload makes is open only for its own calls, and while it       *)
(* appends so is the file of the table.                                    *)
LEMMA OthersOpen ==
    ASSUME FInv, NEW u \in Upload, NEW f, Own(u, f) \/ (Begun(u) /\ plan[u].mode = "append"),
           InPlace(f), NEW v \in Thread, ~WorksOn(v, u)
    PROVE  ~HasOpen(v, f)
<1>1. SUFFICES ASSUME HasOpen(v, f) PROVE FALSE
  OBVIOUS
<1>2. PICK w : w = threads[v].upload
  OBVIOUS
<1>3. WorksOn(v, w) /\ w # u
  BY <1>1, <1>2 DEF HasOpen, WorksOn, Idle
<1>4. /\ w \in Upload /\ Begun(w) /\ CurOK(v) /\ OpenOK(v) /\ SessionOK(w) /\ PartOK(v)
      /\ threads[v].upload = w /\ threads[v].step # "looked"
  BY <1>1, <1>3, InUpload DEF HasOpen, InPart
<1>5. ~(Begun(u) /\ plan[u].mode = "append")
  BY <1>3, <1>4 DEF FInv, LoneAppend
<1>6. Own(u, f) /\ f # row.file
  BY <1>5, OwnIs
<1>7. HasSession(w)
  BY <1>4 DEF PartOK
<1>8. CASE threads[v].file = f
  <2>1. sessions[w].file = f
    BY <1>4, <1>8 DEF OpenOK
  <2>2. sessions[w].new
    BY <1>4, <1>6, <1>7, <2>1 DEF SessionOK
  <2>3. Own(w, f)
    BY <1>7, <2>1, <2>2 DEF Own
  <2>4. QED
    BY <1>3, <1>4, <1>6, <2>3, OwnIs DEF FInv, Separate
<1>9. CASE threads[v].cur = f
  BY <1>4, <1>6, <1>9 DEF CurOK
<1>10. QED
  BY <1>1, <1>8, <1>9 DEF HasOpen

LEMMA OpenSound ==
    ASSUME FInv, NEW t \in Thread, OpenSession(t)
    PROVE  FInv'
<1>1. PICK u : u = threads[t].upload
  OBVIOUS
<1>2. PICK s : s = sessions[u]
  OBVIOUS
<1>3. /\ threads[t].step = "looked" /\ WorksOn(t, u) /\ UNCHANGED <<row, commits, crashes>>
      /\ \/ s = NoSession /\ CreateSession(t, u)
         \/ s # NoSession /\ CanOpen(s.file) /\ Opened(t, u, s, 0) /\ UNCHANGED files
         \/ s # NoSession /\ ~CanOpen(s.file)
  BY <1>1, <1>2 DEF OpenSession, WorksOn, Idle
<1>4. UInv'
  BY OpenKeeps DEF FInv
<1>5. /\ u \in Upload /\ DOMAIN sessions = Upload /\ DOMAIN threads = Thread /\ threads[t].upload = u
      /\ SessionOK(u) /\ CurOK(t) /\ LookedOK(t) /\ PartOK(t) /\ Begun(u)
      /\ \A v \in Thread \ {t} : ~WorksOn(v, u)
  BY <1>3, InUpload DEF InPart
<1>6. CASE s = NoSession /\ CreateSession(t, u)
  <2>1. ~HasSession(u)
    BY <1>2, <1>6 DEF HasSession
  <2>2. QED
    BY <1>3, <1>4, <1>6, <2>1, CreateSound
<1>7. CASE s # NoSession /\ Opened(t, u, s, 0) /\ UNCHANGED files
  <2>1. HasSession(u)
    BY <1>2, <1>7 DEF HasSession
  <2>2. FilesMove({u})
    BY <1>7, NoFilesMove
  <2>3. (\A w \in Upload : sessions'[w] = sessions[w]) /\ plan' = plan /\ sent' = sent
    <3>1. sessions' = [sessions EXCEPT ![u] = s] /\ plan' = plan /\ sent' = sent
      BY <1>7 DEF Opened
    <3>2. QED
      BY <1>2, <1>5, <3>1
  <2>4. RowKept'
    <3>1. AppendsNow => AppendsNow'
      BY <2>3, <1>5 DEF AppendsNow, HasSession
    <3>2. QED
      BY <1>3, <1>7, <3>1, RowStays, RowFile
  <2>5. SessionOK(u)'
    BY <1>3, <1>5, <1>7, <2>3 DEF SessionOK, HasSession, InPlace, Begun
  <2>6. Based(files[s.file].text, s)
    BY <1>2, <1>5, <1>7 DEF LookedOK
  <2>7. OpenOK(t)'
    <3>1. PICK c : c = threads'[t]
      OBVIOUS
    <3>2. /\ c.step = "open" /\ c.upload = u /\ c.file = s.file
          /\ c.offset = s.offset /\ c.copy = 0
      BY <1>5, <1>7, <3>1 DEF Opened
    <3>3. sessions'[u] = s /\ files' = files /\ ~(c.copy > 0) /\ c.copy \in Nat
      BY <1>2, <1>5, <1>7, <2>3, <3>2
    <3>4. QED
      BY <2>6, <3>1, <3>2, <3>3 DEF OpenOK
  <2>8. Awaited(s) = (Unit \ sent[u]) \cup Units(threads[t].part)
    BY <1>2, <1>5, <2>1 DEF PartOK
  <2>9. ASSUME NEW f PROVE Own(u, f) <=> s.new /\ s.file = f
    <3>1. \A v \in Thread : WorksOn(v, u) => threads[v].step # "commit"
      BY <1>3, <1>5
    <3>2. QED
      BY <1>2, <2>1, <3>1 DEF Own
  <2>10. \A f \in DOMAIN files' : f \in DOMAIN files
    BY <1>7
  <2>11. QED
    BY <1>3, <1>4, <1>7, <2>2, <2>4, <2>5, <2>7, <2>8, <2>9, <2>10, OpenedSound
<1>8. CASE s # NoSession /\ ~CanOpen(s.file)
  <2>1. HasSession(u)
    BY <1>2, <1>8 DEF HasSession
  <2>2. InPlace(s.file)
    BY <1>2, <1>5, <2>1 DEF SessionOK
  <2>3. Own(u, s.file) \/ (Begun(u) /\ plan[u].mode = "append")
    BY <1>2, <1>5, <2>1 DEF SessionOK, Own
  <2>4. ASSUME NEW v \in Thread PROVE ~Writes(v, s.file)
    <3>1. CASE v = t
      BY <1>3, <3>1 DEF Writes
    <3>2. CASE v # t
      <4>1. ~HasOpen(v, s.file)
        BY <1>5, <2>2, <2>3, <3>2, OthersOpen
      <4>2. QED
        BY <4>1 DEF HasOpen, Writes
    <3>3. QED
      BY <3>1, <3>2
  <2>5. QED
    BY <1>8, <2>2, <2>4 DEF CanOpen
<1>9. QED
  BY <1>3, <1>6, <1>7, <1>8

(* A file whose text changes. *)
LEMMA PutText ==
    ASSUME FInv, NEW f \in DOMAIN files, NEW text \in Seq(Cell),
           files' = [files EXCEPT ![f].text = text], NEW U, f = row.file \/ \E u \in U : Own(u, f)
    PROVE  /\ FilesMove(U) /\ DOMAIN files' = DOMAIN files
           /\ files'[f].text = text /\ files'[f].place = files[f].place /\ files'[f].safe = files[f].safe
           /\ \A g \in DOMAIN files : g # f => files'[g] = files[g]
           /\ \A g : InPlace(g)' <=> InPlace(g)
<1>1. /\ files \in Seq(File) /\ Len(files) \in Nat /\ DOMAIN files = 1..Len(files)
      /\ \A g \in DOMAIN files : files[g] \in File
  BY FilesType
<1>2. PICK file : file = [files[f] EXCEPT !.text = text]
  OBVIOUS
<1>3. file \in File /\ file.text = text /\ file.place = files[f].place /\ file.safe = files[f].safe
  <2>1. files[f] \in File
    BY <1>1
  <2> HIDE DEF Cell
  <2>2. QED
    BY <1>2, <2>1 DEF File
<1>4. files' = [files EXCEPT ![f] = file]
  BY <1>2
<1> HIDE DEF File
<1>5. files' \in Seq(File) /\ Len(files') = Len(files) /\ DOMAIN files' = DOMAIN files
  BY <1>1, <1>3, <1>4
<1>6. files'[f] = file /\ \A g \in DOMAIN files : g # f => files'[g] = files[g]
  BY <1>1, <1>4
<1>7. \A g : InPlace(g)' <=> InPlace(g)
  BY <1>3, <1>5, <1>6 DEF InPlace
<1>8. FilesMove(U)
  BY <1>1, <1>5, <1>6, <1>7 DEF FilesMove
<1>9. QED
  BY <1>3, <1>5, <1>6, <1>7, <1>8

(* The text in which the upload is to be written has all the rest. *)
LEMMA CopiedIs ==
    ASSUME NEW text, IsText(text), NEW old, IsText(old), NEW copy \in Nat, NEW s,
           s.offset \in Nat, s.size \in Nat, s.offset + Length <= s.size, Len(text) <= s.size,
           NEW copied, copied = IF copy = 0 THEN text ELSE CopySegments(text, old, copy),
           copy = 0 => Based(text, s),
           copy > 0 => /\ s.offset = UploadPos /\ Solid(old, copy) /\ UploadPos <= copy
                       /\ s.size = LongerOf(copy, UploadPos + Length)
    PROVE  /\ IsText(copied) /\ Len(copied) <= s.size /\ Based(copied, s)
           /\ \A k \in Unit : At(copied, s.offset + k) = At(text, s.offset + k)
           /\ copy = 0 => copied = text
<1>1. CASE copy = 0
  BY <1>1
<1>2. CASE copy > 0
  <2>1. /\ IsText(copied) /\ Len(copied) = LongerOf(Len(text), copy)
        /\ \A j \in Nat : j < copy /\ j \notin UploadPos..UploadPos + Length - 1 => At(copied, j) = At(old, j)
        /\ \A j \in Nat : j \in UploadPos..UploadPos + Length - 1 => At(copied, j) = At(text, j)
    <3>1. copied = CopySegments(text, old, copy)
      BY <1>2
    <3>2. IsCopied(copied, text, old, copy)
      BY <3>1, CopySegmentsIs
    <3>3. QED
      BY <3>2 DEF IsCopied
  <2>2. Len(text) \in Nat
    BY DEF IsText
  <2>3. Len(copied) <= s.size
    BY <1>2, <2>1, <2>2 DEF LongerOf
  <2>4. ASSUME NEW j \in 0..s.size - 1, j \notin s.offset..s.offset + Length - 1 PROVE At(copied, j) # Hole
    <3>1. j \in Nat /\ j < copy /\ j \notin UploadPos..UploadPos + Length - 1
      BY <1>2, <2>4 DEF LongerOf
    <3>2. At(copied, j) = At(old, j)
      BY <2>1, <3>1
    <3>3. QED
      BY <1>2, <3>1, <3>2 DEF Solid
  <2>5. ASSUME NEW k \in Unit PROVE At(copied, s.offset + k) = At(text, s.offset + k)
    <3>1. s.offset + k \in Nat /\ s.offset + k \in UploadPos..UploadPos + Length - 1
      BY <1>2 DEF Unit
    <3>2. QED
      BY <2>1, <3>1
  <2>6. QED
    BY <1>2, <2>1, <2>3, <2>4, <2>5 DEF Based
<1>3. QED
  BY <1>1, <1>2

(* A part written over it leaves all but its units alone. *)
PartIn(text, copied, s, u, part) ==
    /\ IsText(text) /\ Len(text) <= s.size /\ Based(text, s)
    /\ \A k \in Units(part) : HasUnit(text, s.offset, u, k)
    /\ \A k \in Unit \ Units(part) : At(text, s.offset + k) = At(copied, s.offset + k)
    /\ \A j \in Nat : j < s.offset => At(text, j) = At(copied, j)

LEMMA WrittenIs ==
    ASSUME NEW copied, IsText(copied), NEW u \in Upload, NEW part \in Part, NEW s,
           s.offset \in Nat, s.size \in Nat, s.offset + Length <= s.size, Len(copied) <= s.size,
           Based(copied, s), NEW text,
           text = WriteUnits(copied, s.offset + part[1], u, part[1], part[2])
    PROVE  PartIn(text, copied, s, u, part)
<1>1. PICK k0 : k0 = part[1]
  OBVIOUS
<1>2. PICK n : n = part[2]
  OBVIOUS
<1>3. PICK offset : offset = s.offset
  OBVIOUS
<1>4. PICK size : size = s.size
  OBVIOUS
<1>5. PICK pos : pos = offset + k0
  OBVIOUS
<1>6. offset \in Nat /\ size \in Nat /\ offset + Length <= size /\ Len(copied) <= size
  BY <1>3, <1>4
<1>7. /\ k0 \in Nat /\ n \in Nat \ {0} /\ k0 + n <= Length
      /\ Units(part) = {k \in Unit : k0 <= k /\ k < k0 + n}
  BY <1>1, <1>2, PartIs
<1>8. pos \in Nat /\ n \in Nat
  BY <1>5, <1>6, <1>7
<1>9. text = WriteUnits(copied, pos, u, k0, n)
  BY <1>1, <1>2, <1>3, <1>5
<1>10. /\ IsText(text) /\ Len(text) = LongerOf(Len(copied), pos + n)
       /\ \A j \in Nat : j \in pos..pos + n - 1 => At(text, j) = <<u, k0 + (j - pos)>>
       /\ \A j \in Nat : j \notin pos..pos + n - 1 => At(text, j) = At(copied, j)
  <2>1. k0 \in Nat /\ k0 + n <= Length
    BY <1>7
  <2>2. IsWritten(text, copied, pos, u, k0, n)
    BY <1>8, <1>9, <2>1, WriteUnitsIs
  <2>3. QED
    BY <2>2 DEF IsWritten
<1>11. Len(text) <= size
  <2>1. Len(copied) \in Nat /\ pos + n \in Nat /\ pos + n <= size
    BY <1>5, <1>6, <1>7 DEF IsText
  <2>2. QED
    BY <1>6, <1>10, <2>1, Lengths
<1>12. ASSUME NEW k \in Units(part) PROVE HasUnit(text, offset, u, k)
  <2>1. k \in Nat /\ k0 <= k /\ k < k0 + n
    BY <1>7, <1>12 DEF Unit
  <2>2. PICK j : j = offset + k
    OBVIOUS
  <2>3. j \in Nat /\ j \in pos..pos + n - 1 /\ k0 + (j - pos) = k
    BY <1>5, <1>6, <1>7, <2>1, <2>2
  <2>4. At(text, j) = <<u, k0 + (j - pos)>>
    BY <1>10, <2>3
  <2>5. QED
    BY <2>2, <2>3, <2>4 DEF HasUnit
<1>13. ASSUME NEW k \in Unit \ Units(part) PROVE At(text, offset + k) = At(copied, offset + k)
  <2>1. k \in Nat /\ ~(k0 <= k /\ k < k0 + n)
    BY <1>7, <1>13 DEF Unit
  <2>2. offset + k \in Nat /\ offset + k \notin pos..pos + n - 1
    BY <1>5, <1>6, <1>7, <2>1
  <2>3. QED
    BY <1>10, <2>2
<1>14. ASSUME NEW j \in Nat, j < offset \/ offset + Length <= j PROVE At(text, j) = At(copied, j)
  <2>1. j \notin pos..pos + n - 1
    BY <1>5, <1>6, <1>7, <1>14
  <2>2. QED
    BY <1>10, <2>1
<1>15. Based(text, s)
  <2>1. ASSUME NEW j \in 0..size - 1, j \notin offset..offset + Length - 1 PROVE At(text, j) # Hole
    <3>1. j \in Nat /\ (j < offset \/ offset + Length <= j)
      BY <1>6, <2>1
    <3>2. At(copied, j) # Hole
      BY <1>3, <1>4, <2>1 DEF Based
    <3>3. QED
      BY <1>14, <3>1, <3>2
  <2>2. QED
    BY <1>3, <1>4, <2>1 DEF Based
<1>16. QED
  BY <1>3, <1>4, <1>10, <1>11, <1>12, <1>13, <1>14, <1>15 DEF PartIn

(* What the text of a session's file is when its part has been written. *)
Grows(text, old, s) ==
    /\ IsText(text) /\ Len(text) <= s.size /\ Based(text, s)
    /\ ~s.new => \A j \in Nat : j < s.offset => At(text, j) = At(old, j)
HasPart(text, old, s, u, part) ==
    /\ \A k \in Units(part) : HasUnit(text, s.offset, u, k)
    /\ \A k \in Unit \ Units(part) : At(text, s.offset + k) = At(old, s.offset + k)

LEMMA PartWritten ==
    ASSUME FInv, NEW t \in Thread, NEW u, WorksOn(t, u), Write(t), NEW s, s = sessions[u]
    PROVE  \E text : /\ files' = [files EXCEPT ![s.file].text = text]
                     /\ Grows(text, files[s.file].text, s)
                     /\ HasPart(text, files[s.file].text, s, u, threads[t].part)
<1>1. PICK c : c = threads[t]
  OBVIOUS
<1>2. /\ u \in Upload /\ c.upload = u /\ SessionOK(u) /\ PartOK(t) /\ OpenOK(t) /\ c.step = "open"
  BY <1>1, InUpload DEF Write, InPart
<1>3. HasSession(u) /\ c.part \in Part
  BY <1>1, <1>2 DEF PartOK
<1>4. /\ s.file \in DOMAIN files /\ c.file = s.file /\ c.offset = s.offset /\ c.copy \in Nat
      /\ s.offset \in Nat /\ s.size \in Nat /\ s.offset + Length <= s.size
      /\ Len(files[s.file].text) <= s.size
  BY <1>1, <1>2, <1>3 DEF SessionOK, OpenOK, InPlace
<1>5. PICK old : old = files[s.file].text
  OBVIOUS
<1>6. IsText(old)
  BY <1>4, <1>5, FilesType, FileParts DEF IsText
<1>7. PICK copied : copied = IF c.copy = 0 THEN old ELSE CopySegments(old, files[c.cur].text, c.copy)
  OBVIOUS
<1>8. /\ IsText(copied) /\ Len(copied) <= s.size /\ Based(copied, s)
      /\ \A k \in Unit : At(copied, s.offset + k) = At(old, s.offset + k)
      /\ c.copy = 0 => copied = old
  <2>1. CASE c.copy = 0
    BY <1>1, <1>2, <1>4, <1>5, <1>6, <1>7, <2>1 DEF OpenOK
  <2>2. CASE c.copy > 0
    <3>1. Copies(c, s)
      BY <1>1, <1>2, <2>2 DEF OpenOK
    <3>2. /\ s.offset = UploadPos /\ c.cur \in DOMAIN files /\ UploadPos <= c.copy
          /\ Solid(files[c.cur].text, c.copy) /\ s.size = LongerOf(c.copy, UploadPos + Length)
      BY <1>4, <3>1 DEF Copies
    <3>3. PICK base : base = files[c.cur].text
      OBVIOUS
    <3>4. IsText(base)
      BY <3>2, <3>3, FilesType, FileParts DEF IsText
    <3>5. PICK copy \in Nat : copy = c.copy
      BY <1>4
    <3>6. copied = IF copy = 0 THEN old ELSE CopySegments(old, base, copy)
      BY <1>7, <3>3, <3>5
    <3>7. /\ copy = 0 => Based(old, s)
          /\ copy > 0 => /\ s.offset = UploadPos /\ Solid(base, copy) /\ UploadPos <= copy
                         /\ s.size = LongerOf(copy, UploadPos + Length)
      BY <2>2, <3>2, <3>3, <3>5
    <3>8. Len(old) <= s.size
      BY <1>4, <1>5
    <3>9. /\ IsText(copied) /\ Len(copied) <= s.size /\ Based(copied, s)
          /\ \A k \in Unit : At(copied, s.offset + k) = At(old, s.offset + k)
          /\ copy = 0 => copied = old
      BY <1>4, <1>6, <3>4, <3>6, <3>7, <3>8, CopiedIs
    <3>10. QED
      BY <3>5, <3>9
  <2>3. QED
    BY <1>4, <2>1, <2>2
<1>9. PICK text : text = WriteUnits(copied, s.offset + c.part[1], u, c.part[1], c.part[2])
  OBVIOUS
<1>10. /\ IsText(text) /\ Len(text) <= s.size /\ Based(text, s)
       /\ \A k \in Units(c.part) : HasUnit(text, s.offset, u, k)
       /\ \A k \in Unit \ Units(c.part) : At(text, s.offset + k) = At(copied, s.offset + k)
       /\ \A j \in Nat : j < s.offset => At(text, j) = At(copied, j)
  <2>1. PartIn(text, copied, s, u, c.part)
    BY <1>2, <1>3, <1>4, <1>8, <1>9, WrittenIs
  <2>2. QED
    BY <2>1 DEF PartIn
<1>11. HasPart(text, old, s, u, c.part)
  BY <1>8, <1>10 DEF HasPart
<1>12. ~s.new => c.copy = 0
  <2>1. ~s.new => ~(c.copy > 0)
    BY <1>1, <1>2, <1>3 DEF OpenOK, Copies
  <2>2. QED
    BY <1>4, <2>1
<1>13. Grows(text, old, s)
  BY <1>8, <1>10, <1>12 DEF Grows
<1>14. files' = [files EXCEPT ![s.file].text = text]
  BY <1>1, <1>2, <1>4, <1>5, <1>7, <1>9 DEF Write
<1>15. QED
  BY <1>1, <1>5, <1>11, <1>13, <1>14

(* What the table's file keeps while a session appends to it. *)
LEMMA AppendKeeps ==
    ASSUME NEW text, NEW old, NEW offset \in Nat, NEW size \in Nat, size <= offset, NEW u,
           \A j \in Nat : j < offset => At(text, j) = At(old, j), Keeps(old, size, u)
    PROVE  Keeps(text, size, u)
<1>1. Solid(text, size)
  BY DEF Keeps, Solid
<1>2. PICK at \in 0..size - Length : HasAll(old, at, u)
  BY DEF Keeps
<1>3. ASSUME NEW k \in Unit PROVE HasUnit(text, at, u, k)
  <2>1. at + k \in Nat /\ at + k < offset
    BY <1>2, <1>3 DEF Unit
  <2>2. HasUnit(old, at, u, k)
    BY <1>2, <1>3 DEF HasAll
  <2>3. At(text, at + k) = At(old, at + k)
    BY <2>1
  <2>4. QED
    BY <2>2, <2>3 DEF HasUnit
<1>4. HasAll(text, at, u)
  BY <1>3 DEF HasAll
<1>5. QED
  BY <1>1, <1>2, <1>4 DEF Keeps

(* The call goes on after the write. *)
LEMMA GoesOn ==
    ASSUME FInv, NEW t \in Thread, NEW u, WorksOn(t, u), threads[t].step = "open",
           NEW step \in {"written", "failed"}, threads' = [threads EXCEPT ![t].step = step],
           UNCHANGED <<row, sessions, plan, sent, commits, crashes>>, UInv', FilesMove({u}),
           DOMAIN files' = DOMAIN files, \A g : InPlace(g)' <=> InPlace(g),
           RowKept', SessionOK(u)', OpenOK(t)'
    PROVE  FInv'
<1>1. PICK c : c = [threads[t] EXCEPT !.step = step]
  OBVIOUS
<1>2. /\ u \in Upload /\ DOMAIN threads = Thread /\ DOMAIN sent = Upload /\ threads[t].upload = u
      /\ Flying(t) /\ SessionOK(u) /\ SentOK(u) /\ PartOK(t) /\ CurOK(t) /\ Begun(u)
      /\ \A v \in Thread \ {t} : ~WorksOn(v, u)
  BY InUpload DEF InPart
<1>3. IsCall(threads[t])
  BY <1>2 DEF FInv, UInv, CallOK
<1>4. c.step = step /\ c.upload = u /\ c.part = threads[t].part /\ c.cur = threads[t].cur
  BY <1>1, <1>2, <1>3 DEF IsCall
<1>5. threads' = [threads EXCEPT ![t] = c] /\ threads'[t] = c
  BY <1>1, <1>2
<1>6. c # Idle /\ WorksOn(t, u)' /\ Flying(t)' /\ HasSession(u)
  BY <1>2, <1>4, <1>5 DEF Idle, WorksOn, Flying, PartOK
<1>7. \A f : Own(u, f)' <=> Own(u, f)
  BY <1>2, <1>4, <1>5, <1>6 DEF Own, HasSession, WorksOn
<1>8. Fresh({u}) /\ Kept({u})
  BY <1>7 DEF Fresh, Kept
<1>9. RowMoves({u})
  BY DEF RowMoves
<1>10. SentOK(u)'
  BY <1>2, <1>6 DEF SentOK, Begun
<1>11. PartOK(t)'
  BY <1>2, <1>4, <1>5, <1>6 DEF PartOK, HasSession
<1>12. CurOK(t)'
  <2>1. threads'[t].cur = threads[t].cur /\ threads'[t].upload = u /\ plan'[u] = plan[u] /\ row' = row
    BY <1>4, <1>5
  <2>2. QED
    BY <2>1, CurStays
<1>13. WorkOK(t)'
  BY <1>4, <1>5, <1>11, <1>12 DEF WorkOK, InPart
<1>14. /\ \A w \in Upload \ {u} : sessions'[w] = sessions[w] /\ plan'[w] = plan[w] /\ sent'[w] = sent[w]
       /\ DOMAIN sent' = Upload /\ crashes' = crashes /\ plan'[u] = plan[u] /\ (c # Idle => c.upload = u)
  BY <1>2, <1>4
<1>15. QED
  BY <1>5, <1>8, <1>9, <1>10, <1>13, <1>14, OneCallKeeps

LEMMA WriteSound ==
    ASSUME FInv, NEW t \in Thread, Write(t)
    PROVE  FInv'
<1>1. PICK u : u = threads[t].upload
  OBVIOUS
<1>2. PICK s : s = sessions[u]
  OBVIOUS
<1>3. PICK f : f = s.file
  OBVIOUS
<1>4. /\ threads[t].step = "open" /\ WorksOn(t, u)
      /\ threads' = [threads EXCEPT ![t].step = "written"]
      /\ UNCHANGED <<row, sessions, plan, sent, commits, crashes>>
  BY <1>1 DEF Write, WorksOn, Idle
<1>5. UInv'
  BY WriteKeeps DEF FInv
<1>6. /\ u \in Upload /\ SessionOK(u) /\ PartOK(t) /\ OpenOK(t) /\ threads[t].upload = u
      /\ DOMAIN threads = Thread
  BY <1>4, InUpload DEF InPart
<1>7. HasSession(u) /\ threads[t].part \in Part
  BY <1>4, <1>6 DEF PartOK
<1>8. /\ f \in DOMAIN files /\ InPlace(f) /\ s.offset \in Nat /\ s.size \in Nat /\ s.new \in BOOLEAN
      /\ IF s.new THEN f # row.file ELSE row # NoRow /\ f = row.file /\ row.size <= s.offset
  BY <1>2, <1>3, <1>6, <1>7 DEF SessionOK, InPlace
<1>9. PICK old : old = files[f].text
  OBVIOUS
<1>10. PICK text : /\ files' = [files EXCEPT ![f].text = text]
                   /\ Grows(text, old, s) /\ HasPart(text, old, s, u, threads[t].part)
  BY <1>2, <1>3, <1>4, <1>9, PartWritten
<1>11. text \in Seq(Cell) /\ (f = row.file \/ Own(u, f))
  BY <1>2, <1>3, <1>7, <1>8, <1>10 DEF Grows, IsText, Own
<1>12. /\ FilesMove({u}) /\ DOMAIN files' = DOMAIN files
       /\ files'[f].text = text /\ files'[f].place = files[f].place /\ files'[f].safe = files[f].safe
       /\ \A g \in DOMAIN files : g # f => files'[g] = files[g]
       /\ \A g : InPlace(g)' <=> InPlace(g)
  BY <1>8, <1>10, <1>11, PutText
<1>13. RowKept'
  <2>1. AppendsNow' <=> AppendsNow
    BY <1>4 DEF AppendsNow, HasSession
  <2>2. CASE s.new
    <3>1. row # NoRow => row.file \in DOMAIN files' /\ files'[row.file] = files[row.file]
      BY <1>8, <1>12, <2>2, RowFile
    <3>2. QED
      BY <1>4, <2>1, <3>1, RowStays
  <2>3. CASE ~s.new
    <3>1. row # NoRow /\ f = row.file /\ row.size <= s.offset /\ AppendsNow
      BY <1>2, <1>6, <1>7, <1>8, <2>3 DEF AppendsNow
    <3>2. /\ row.by \in Upload /\ row.size \in Nat /\ (row = NoRow <=> row.version = 0)
          /\ Keeps(old, row.size, row.by)
          /\ Keeps(files[f].safe, row.size, row.by) /\ Solid(files[f].safe, Len(files[f].safe))
      BY <1>9, <3>1, RowFile DEF RowKept, IsKept
    <3>3. \A j \in Nat : j < s.offset => At(text, j) = At(old, j)
      BY <1>10, <2>3 DEF Grows
    <3>4. Keeps(text, row.size, row.by)
      BY <1>8, <3>1, <3>2, <3>3, AppendKeeps
    <3>5. IsKept(f, row.size, row.by)'
      BY <1>4, <1>8, <1>12, <3>2, <3>4 DEF IsKept
    <3>6. QED
      BY <1>4, <2>1, <3>1, <3>2, <3>5 DEF RowKept
  <2>4. QED
    BY <1>8, <2>2, <2>3
<1>14. SessionOK(u)'
  <2>1. ASSUME NEW k \in Unit \ Awaited(s) PROVE HasUnit(text, s.offset, u, k)
    <3>1. CASE k \in Units(threads[t].part)
      BY <1>10, <3>1 DEF HasPart
    <3>2. CASE k \notin Units(threads[t].part)
      <4>1. HasUnit(old, s.offset, u, k)
        BY <1>2, <1>3, <1>6, <1>7, <1>9, <2>1 DEF SessionOK
      <4>2. At(text, s.offset + k) = At(old, s.offset + k)
        BY <1>10, <2>1, <3>2 DEF HasPart
      <4>3. QED
        BY <4>1, <4>2 DEF HasUnit
    <3>3. QED
      BY <3>1, <3>2
  <2>2. Len(text) <= s.size
    BY <1>10 DEF Grows
  <2>3. sessions'[u] = s /\ plan' = plan /\ row' = row /\ InPlace(f)'
    BY <1>2, <1>4, <1>8, <1>12
  <2>4. QED
    BY <1>2, <1>3, <1>6, <1>7, <1>12, <2>1, <2>2, <2>3 DEF SessionOK
<1>15. OpenOK(t)'
  <2>1. PICK c : c = threads'[t]
    OBVIOUS
  <2>2. IsCall(threads[t])
    BY <1>4, <1>6 DEF FInv, UInv, CallOK, WorksOn, Flying
  <2>3. /\ c.step = "written" /\ c.upload = u /\ c.file = threads[t].file /\ c.offset = threads[t].offset
        /\ c.copy = threads[t].copy /\ c.part = threads[t].part
    BY <1>4, <1>6, <2>1, <2>2 DEF IsCall
  <2>4. /\ c.file = f /\ c.offset = s.offset /\ c.copy \in Nat /\ (c.copy > 0 => plan[u].mode = "over")
    BY <1>2, <1>3, <1>6, <2>3 DEF OpenOK
  <2>5. Based(text, s) /\ \A k \in Units(c.part) : HasUnit(text, s.offset, u, k)
    BY <1>10, <2>3 DEF Grows, HasPart
  <2>6. sessions'[u] = s /\ plan' = plan
    BY <1>2, <1>4
  <2>7. QED
    BY <1>3, <1>12, <2>1, <2>3, <2>4, <2>5, <2>6 DEF OpenOK
<1>16. QED
  BY <1>4, <1>5, <1>12, <1>13, <1>14, <1>15, GoesOn

LEMMA WriteFailsSound ==
    ASSUME FInv, Windows = {}, NEW t \in Thread, WriteFails(t)
    PROVE  FInv'
<1>1. PICK u : u = threads[t].upload
  OBVIOUS
<1>2. /\ threads[t].step = "open" /\ WorksOn(t, u) /\ MayEnd(u)
      /\ threads' = [threads EXCEPT ![t].step = "failed"]
      /\ UNCHANGED <<row, files, sessions, plan, sent, commits, crashes>>
  BY <1>1 DEF WriteFails, WorksOn, Idle
<1>3. UInv'
  BY WriteKeeps DEF FInv
<1>4. /\ u \in Upload /\ SessionOK(u) /\ PartOK(t) /\ OpenOK(t) /\ threads[t].upload = u
      /\ DOMAIN threads = Thread /\ Begun(u)
  BY <1>2, InUpload DEF InPart
<1>5. HasSession(u)
  BY <1>2, <1>4 DEF PartOK
<1>6. sessions[u].new
  <2>1. plan[u].mode # "append"
    BY <1>2, <1>4 DEF MayEnd
  <2>2. QED
    BY <1>4, <1>5, <2>1 DEF SessionOK
<1>7. FilesMove({u}) /\ DOMAIN files' = DOMAIN files /\ \A g : InPlace(g)' <=> InPlace(g)
  BY <1>2, NoFilesMove DEF InPlace
<1>8. RowKept'
  <2>1. AppendsNow' <=> AppendsNow
    BY <1>2 DEF AppendsNow, HasSession
  <2>2. QED
    BY <1>2, <2>1, RowStays, RowFile
<1>9. SessionOK(u)'
  BY <1>2, <1>4 DEF SessionOK, HasSession, InPlace
<1>10. OpenOK(t)'
  <2>1. PICK c : c = threads'[t]
    OBVIOUS
  <2>2. IsCall(threads[t])
    BY <1>2, <1>4 DEF FInv, UInv, CallOK, WorksOn, Flying
  <2>3. /\ c.step = "failed" /\ c.upload = u /\ c.file = threads[t].file /\ c.offset = threads[t].offset
        /\ c.copy = threads[t].copy
    BY <1>2, <1>4, <2>1, <2>2 DEF IsCall
  <2>4. /\ c.file = sessions[u].file /\ c.offset = sessions[u].offset /\ c.copy \in Nat
        /\ (c.copy > 0 => plan[u].mode = "over")
    BY <1>4, <2>3 DEF OpenOK
  <2>5. sessions' = sessions /\ plan' = plan
    BY <1>2
  <2>6. QED
    BY <1>6, <2>1, <2>3, <2>4, <2>5 DEF OpenOK
<1>11. QED
  BY <1>2, <1>3, <1>7, <1>8, <1>9, <1>10, GoesOn

LEMMA PutFile ==
    ASSUME NEW S, NEW seq \in Seq(S), NEW x \in S, NEW i \in DOMAIN seq, NEW put,
           put = [seq EXCEPT ![i] = x]
    PROVE  /\ put \in Seq(S) /\ Len(put) = Len(seq) /\ DOMAIN put = DOMAIN seq
           /\ put[i] = x /\ \A j \in DOMAIN seq : j # i => put[j] = seq[j]
OBVIOUS

(* A file of which the data is flushed, and one that is moved away. *)
LEMMA PutSafe ==
    ASSUME FInv, NEW f \in DOMAIN files, files' = Flushed(f), NEW U, f = row.file \/ \E u \in U : Own(u, f)
    PROVE  /\ FilesMove(U) /\ DOMAIN files' = DOMAIN files
           /\ files'[f].text = files[f].text /\ files'[f].place = files[f].place
           /\ files'[f].safe = files[f].text
           /\ \A g \in DOMAIN files : g # f => files'[g] = files[g]
           /\ \A g : InPlace(g)' <=> InPlace(g)
<1>1. /\ files \in Seq(File) /\ Len(files) \in Nat /\ DOMAIN files = 1..Len(files)
      /\ \A g \in DOMAIN files : files[g] \in File
  BY FilesType
<1>2. PICK file : file = [files[f] EXCEPT !.safe = files[f].text]
  OBVIOUS
<1>3. file \in File /\ file.text = files[f].text /\ file.place = files[f].place /\ file.safe = files[f].text
  <2>1. files[f] \in File /\ files[f].text \in Seq(Cell)
    BY <1>1, FileParts
  <2> HIDE DEF Cell
  <2>2. QED
    BY <1>2, <2>1 DEF File
<1>4. files' = [files EXCEPT ![f] = file]
  BY <1>2 DEF Flushed
<1> HIDE DEF File
<1>5. files' \in Seq(File) /\ Len(files') = Len(files) /\ DOMAIN files' = DOMAIN files
  BY <1>1, <1>3, <1>4
<1>6. files'[f] = file /\ \A g \in DOMAIN files : g # f => files'[g] = files[g]
  BY <1>1, <1>4
<1>7. \A g : InPlace(g)' <=> InPlace(g)
  BY <1>3, <1>5, <1>6 DEF InPlace
<1>8. FilesMove(U)
  BY <1>1, <1>5, <1>6, <1>7 DEF FilesMove
<1>9. QED
  BY <1>3, <1>5, <1>6, <1>7, <1>8

LEMMA MovesAway ==
    ASSUME FInv, NEW by, NEW f, InPlace(f), NEW place \in {"scrap", "deleted"},
           files' = MovedBy(by, f, place), \A v \in Thread \ {by} : ~HasOpen(v, f),
           NEW U, f = row.file \/ \E u \in U : Own(u, f)
    PROVE  /\ FilesMove(U) /\ DOMAIN files' = DOMAIN files /\ Leaves(f)
           /\ \A g \in DOMAIN files : g # f => files'[g] = files[g]
<1>1. /\ files \in Seq(File) /\ Len(files) \in Nat /\ DOMAIN files = 1..Len(files)
      /\ \A g \in DOMAIN files : files[g] \in File
  BY FilesType
<1>2. f \in DOMAIN files
  BY DEF InPlace
<1>3. PICK file : file = [files[f] EXCEPT !.place = place]
  OBVIOUS
<1>4. file \in File /\ file.place = place
  <2>1. files[f] \in File
    BY <1>1, <1>2
  <2> HIDE DEF Cell
  <2>2. QED
    BY <1>3, <2>1 DEF File
<1>5. files' = [files EXCEPT ![f] = file]
  BY <1>3 DEF MovedBy
<1> HIDE DEF File
<1>6. files' \in Seq(File) /\ Len(files') = Len(files) /\ DOMAIN files' = DOMAIN files
      /\ files'[f] = file /\ \A g \in DOMAIN files : g # f => files'[g] = files[g]
  BY <1>1, <1>2, <1>4, <1>5, PutFile
<1>7. files'[f] = file /\ \A g \in DOMAIN files : g # f => files'[g] = files[g]
  BY <1>6
<1>8. Leaves(f)
  BY <1>4, <1>7 DEF Leaves
<1>9. \A g \in DOMAIN files : InPlace(g)' => InPlace(g)
  BY <1>6, <1>7, <1>2 DEF InPlace
<1>10. FilesMove(U)
  BY <1>1, <1>6, <1>7, <1>9 DEF FilesMove
<1>11. QED
  BY <1>6, <1>7, <1>8, <1>10

(* The part that fails ends the upload. *)
LEMMA AbortSound ==
    ASSUME FInv, NEW t \in Thread, NEW u, WorksOn(t, u), threads[t].step = "failed",
           Abort(t, u, threads[t].file), UNCHANGED <<row, commits, crashes>>
    PROVE  FInv'
<1>1. /\ u \in Upload /\ SessionOK(u) /\ PartOK(t) /\ OpenOK(t) /\ threads[t].upload = u /\ Begun(u)
      /\ \A v \in Thread \ {t} : ~WorksOn(v, u)
  BY InUpload DEF InPart
<1>2. PICK f : f = sessions[u].file
  OBVIOUS
<1>3. HasSession(u) /\ sessions[u].new /\ threads[t].file = f
  BY <1>1, <1>2 DEF PartOK, OpenOK
<1>4. Own(u, f) /\ InPlace(f) /\ f # row.file /\ f \in DOMAIN files /\ plan[u].mode # "append"
  BY <1>1, <1>2, <1>3, OwnIs DEF Own
<1>5. \A v \in Thread \ {t} : ~HasOpen(v, f)
  BY <1>1, <1>4, OthersOpen
<1>6. files' = MovedBy(t, f, "deleted") /\ Return(t) /\ Over(u)
  BY <1>3 DEF Abort
<1>7. /\ FilesMove({u}) /\ DOMAIN files' = DOMAIN files /\ Leaves(f)
      /\ \A g \in DOMAIN files : g # f => files'[g] = files[g]
  BY <1>4, <1>5, <1>6, MovesAway
<1>8. RowKept'
  <2>1. ~AppendsNow
    BY <1>1, <1>4, NoneAppends
  <2>2. QED
    BY <1>4, <1>7, <2>1, RowStays, RowFile
<1>9. ASSUME NEW g, Own(u, g) PROVE g = f
  <2>1. \A v \in Thread : WorksOn(v, u) => threads[v].step # "commit"
    BY <1>1
  <2>2. QED
    BY <1>2, <1>9, <2>1 DEF Own
<1>10. /\ \A g \in DOMAIN files' : g \in DOMAIN files => ~Own(u, g) \/ Leaves(g)
       /\ \A g \in DOMAIN files' \ DOMAIN files : Leaves(g)
  BY <1>7, <1>9
<1>11. QED
  BY <1>6, <1>7, <1>8, <1>10, OverSound

(* A text that has all of an upload is kept. *)
LEMMA AllThere ==
    ASSUME NEW text, IsText(text), NEW s, s.offset \in Nat, s.size \in Nat, s.offset + Length <= s.size,
           Len(text) <= s.size, Based(text, s), NEW u, HasAll(text, s.offset, u)
    PROVE  Keeps(text, s.size, u) /\ Solid(text, Len(text))
<1>1. PICK offset \in Nat : offset = s.offset
  OBVIOUS
<1>2. PICK size \in Nat : size = s.size
  OBVIOUS
<1>3. offset + Length <= size /\ Len(text) \in Nat /\ Len(text) <= size
  BY <1>1, <1>2 DEF IsText
<1>4. ASSUME NEW j \in 0..size - 1 PROVE At(text, j) # Hole
  <2>1. CASE j \in offset..offset + Length - 1
    <3>1. PICK k \in Unit : j = offset + k
      <4>1. j - offset \in Unit /\ j = offset + (j - offset)
        BY <2>1 DEF Unit
      <4>2. QED
        BY <4>1
    <3>2. At(text, j) = <<u, k>>
      BY <1>1, <3>1 DEF HasAll, HasUnit
    <3>3. QED
      BY <3>2, Holes
  <2>2. CASE j \notin offset..offset + Length - 1
    BY <1>1, <1>2, <1>4, <2>2 DEF Based
  <2>3. QED
    BY <2>1, <2>2
<1>5. Solid(text, size)
  BY <1>4 DEF Solid
<1>6. Solid(text, Len(text))
  BY <1>3, <1>4 DEF Solid
<1>7. offset \in 0..size - Length
  BY <1>3
<1>8. QED
  BY <1>1, <1>2, <1>5, <1>6, <1>7 DEF Keeps

(* The last part completes the upload. *)
LEMMA CompleteSound ==
    ASSUME FInv, NEW t \in Thread, NEW u, WorksOn(t, u), threads[t].step = "written",
           Awaited(sessions[u]) = Units(threads[t].part), Complete(t, u, threads[t].file),
           UNCHANGED <<row, commits, crashes>>, UInv'
    PROVE  FInv'
<1>1. /\ u \in Upload /\ SessionOK(u) /\ PartOK(t) /\ OpenOK(t) /\ UploadOK(u) /\ SentOK(u)
      /\ threads[t].upload = u /\ Begun(u) /\ Flying(t)
      /\ DOMAIN threads = Thread /\ DOMAIN sessions = Upload /\ DOMAIN sent = Upload
      /\ \A v \in Thread \ {t} : ~WorksOn(v, u)
  BY InUpload DEF InPart
<1>2. PICK s : s = sessions[u]
  OBVIOUS
<1>3. PICK f : f = s.file
  OBVIOUS
<1>4. HasSession(u) /\ threads[t].file = f /\ s.version = plan[u].version
  BY <1>1, <1>2, <1>3 DEF PartOK, OpenOK, UploadOK, HasSession
<1>5. PICK text : text = files[f].text
  OBVIOUS
<1>6. /\ f \in DOMAIN files /\ InPlace(f) /\ s.offset \in Nat /\ s.size \in Nat /\ s.new \in BOOLEAN
      /\ s.offset + Length <= s.size /\ Len(text) <= s.size
      /\ s.new <=> plan[u].mode # "append"
      /\ IF s.new THEN f # row.file ELSE row # NoRow /\ f = row.file
  BY <1>1, <1>2, <1>3, <1>4, <1>5 DEF SessionOK, InPlace
<1>7. IsText(text)
  BY <1>5, <1>6, FilesType, FileParts DEF IsText
<1>8. Based(text, s)
  BY <1>1, <1>2, <1>3, <1>4, <1>5 DEF OpenOK
<1>9. HasAll(text, s.offset, u)
  <2>1. ASSUME NEW k \in Unit PROVE HasUnit(text, s.offset, u, k)
    <3>1. CASE k \in Units(threads[t].part)
      BY <1>1, <1>2, <1>3, <1>4, <1>5, <3>1 DEF OpenOK
    <3>2. CASE k \notin Units(threads[t].part)
      BY <1>1, <1>2, <1>3, <1>4, <1>5, <3>2 DEF SessionOK
    <3>3. QED
      BY <3>1, <3>2
  <2>2. QED
    BY <2>1 DEF HasAll
<1>10. Keeps(text, s.size, u) /\ Solid(text, Len(text))
  BY <1>6, <1>7, <1>8, <1>9, AllThere
<1>11. PICK r : r = [file |-> f, new |-> s.new, version |-> s.version, size |-> s.size]
  OBVIOUS
<1>12. PICK c : c = [step |-> "commit", upload |-> u, cur |-> threads[t].cur, receipt |-> r]
  OBVIOUS
<1>13. /\ threads' = [threads EXCEPT ![t] = c] /\ threads'[t] = c /\ c # Idle
       /\ c.step = "commit" /\ c.upload = u /\ c.cur = threads[t].cur /\ c.receipt = r
       /\ \A v \in Thread \ {t} : threads'[v] = threads[v]
       /\ sessions'[u] = NoSession /\ \A w \in Upload \ {u} : sessions'[w] = sessions[w]
       /\ plan' = plan /\ sent' = sent /\ files' = Flushed(f)
  BY <1>1, <1>2, <1>4, <1>11, <1>12 DEF Complete, ToCommit, Receipt, Idle
<1>14. /\ FilesMove({u}) /\ DOMAIN files' = DOMAIN files
       /\ files'[f].text = text /\ files'[f].safe = text /\ files'[f].place = files[f].place
       /\ \A g \in DOMAIN files : g # f => files'[g] = files[g]
       /\ \A g : InPlace(g)' <=> InPlace(g)
  <2>1. f = row.file \/ \E x \in {u} : Own(x, f)
    BY <1>2, <1>3, <1>4, <1>6 DEF Own
  <2>2. QED
    BY <1>5, <1>6, <1>13, <2>1, PutSafe
<1>15. ~HasSession(u)' /\ WorksOn(t, u)' /\ Flying(t)' /\ Begun(u)'
  BY <1>1, <1>13 DEF HasSession, WorksOn, Flying, Begun
<1>16. ASSUME NEW g PROVE Own(u, g)' <=> Own(u, g)
  <2>1. Own(u, g) <=> s.new /\ f = g
    <3>1. \A v \in Thread : WorksOn(v, u) => threads[v].step # "commit"
      BY <1>1
    <3>2. QED
      BY <1>2, <1>3, <1>4, <3>1 DEF Own
  <2>2. \A v \in Thread \ {t} : ~WorksOn(v, u)'
    BY <1>1, <1>13 DEF WorksOn
  <2>3. Own(u, g)' <=> s.new /\ f = g
    BY <1>11, <1>13, <1>15, <2>2 DEF Own
  <2>4. QED
    BY <2>1, <2>3
<1>17. Fresh({u}) /\ Kept({u})
  BY <1>14, <1>16 DEF Fresh, Kept
<1>18. IsKept(f, s.size, u)'
  BY <1>6, <1>10, <1>14 DEF IsKept
<1>19. RowKept'
  <2>1. CASE s.new
    <3>1. ~AppendsNow
      BY <1>1, <1>6, <2>1, NoneAppends
    <3>2. row # NoRow => row.file \in DOMAIN files' /\ files'[row.file] = files[row.file]
      BY <1>6, <1>14, <2>1, RowFile
    <3>3. QED
      BY <3>1, <3>2, RowStays
  <2>2. CASE ~s.new
    <3>1. row # NoRow /\ f = row.file
      BY <1>6, <2>2
    <3>2. /\ row.by \in Upload /\ row.size \in Nat /\ (row = NoRow <=> row.version = 0)
          /\ Keeps(text, row.size, row.by)
      BY <1>5, <3>1, RowFile DEF RowKept, IsKept
    <3>3. IsKept(f, row.size, row.by)'
      BY <1>6, <1>10, <1>14, <3>2 DEF IsKept
    <3>4. QED
      BY <1>10, <1>14, <3>1, <3>2, <3>3 DEF RowKept
  <2>3. QED
    BY <1>6, <2>1, <2>2
<1>20. SessionOK(u)' /\ SentOK(u)'
  BY <1>1, <1>13, <1>15 DEF SessionOK, SentOK
<1>21. ReceiptOK(t)'
  <2>1. r.file = f /\ r.new = s.new /\ r.version = plan[u].version /\ r.size = s.size
    BY <1>4, <1>11
  <2>2. QED
    BY <1>6, <1>10, <1>13, <1>14, <1>15, <1>18, <2>1 DEF ReceiptOK
<1>22. CurOK(t)'
  <2>1. threads'[t].cur = threads[t].cur /\ threads'[t].upload = u /\ plan'[u] = plan[u] /\ row' = row
    BY <1>13
  <2>2. QED
    BY <1>14, <2>1, CurStays
<1>23. WorkOK(t)'
  BY <1>13, <1>21, <1>22 DEF WorkOK, InPart
<1>24. /\ \A w \in Upload \ {u} : sessions'[w] = sessions[w] /\ plan'[w] = plan[w] /\ sent'[w] = sent[w]
       /\ DOMAIN sent' = Upload /\ crashes' = crashes /\ plan'[u] = plan[u] /\ (c # Idle => c.upload = u)
  BY <1>1, <1>13
<1>25. RowMoves({u})
  BY DEF RowMoves
<1>26. QED
  BY <1>13, <1>14, <1>17, <1>19, <1>20, <1>23, <1>24, <1>25, OneCallKeeps

(* After another part the session waits for the rest. *)
LEMMA PartialSound ==
    ASSUME FInv, NEW t \in Thread, NEW u, WorksOn(t, u), threads[t].step = "written",
           NEW left, Ranges(left), Return(t), sessions' = [sessions EXCEPT ![u].expected = left],
           {k \in Unit : Covers(left, k)} = Awaited(sessions[u]) \ Units(threads[t].part),
           UNCHANGED <<row, files, plan, sent, commits, crashes>>, UInv'
    PROVE  FInv'
<1>1. /\ u \in Upload /\ SessionOK(u) /\ PartOK(t) /\ OpenOK(t) /\ UploadOK(u) /\ SentOK(u)
      /\ threads[t].upload = u /\ Begun(u) /\ Flying(t)
      /\ DOMAIN threads = Thread /\ DOMAIN sessions = Upload /\ DOMAIN sent = Upload
      /\ \A v \in Thread \ {t} : ~WorksOn(v, u)
  BY InUpload DEF InPart
<1>2. PICK s : s = sessions[u]
  OBVIOUS
<1>3. PICK r : r = [s EXCEPT !.expected = left]
  OBVIOUS
<1>4. HasSession(u) /\ threads[t].file = s.file /\ IsSession(s)
  BY <1>1, <1>2 DEF PartOK, OpenOK, UploadOK, HasSession
<1>5. /\ r.file = s.file /\ r.new = s.new /\ r.offset = s.offset /\ r.size = s.size /\ r.expected = left
      /\ r # NoSession
  BY <1>3, <1>4 DEF IsSession, NoSession
<1>6. PICK c : c = Idle
  OBVIOUS
<1>7. /\ threads' = [threads EXCEPT ![t] = c] /\ threads'[t] = Idle
      /\ sessions'[u] = r /\ \A w \in Upload \ {u} : sessions'[w] = sessions[w]
      /\ \A v \in Thread \ {t} : threads'[v] = threads[v]
  BY <1>1, <1>2, <1>3, <1>6 DEF Return
<1>8. HasSession(u)' /\ ~Flying(t)' /\ Begun(u)' /\ \A v \in Thread : ~WorksOn(v, u)'
  BY <1>1, <1>5, <1>7 DEF HasSession, Flying, Begun, WorksOn
<1>9. ASSUME NEW g PROVE Own(u, g)' <=> Own(u, g)
  <2>1. \A v \in Thread : WorksOn(v, u) => threads[v].step # "commit"
    BY <1>1
  <2>2. QED
    BY <1>2, <1>4, <1>5, <1>7, <1>8, <2>1 DEF Own
<1>10. Fresh({u}) /\ Kept({u}) /\ FilesMove({u}) /\ RowMoves({u})
  BY <1>9, NoFilesMove DEF Fresh, Kept
<1>11. RowKept'
  <2>1. AppendsNow => AppendsNow'
    BY <1>2, <1>4, <1>5, <1>7, <1>8 DEF AppendsNow, HasSession
  <2>2. QED
    BY <2>1, RowStays, RowFile
<1>12. Awaited(r) = Awaited(s) \ Units(threads[t].part)
  BY <1>2, <1>5, AwaitedIs
<1>13. PICK text : text = files[s.file].text
  OBVIOUS
<1>14. ASSUME NEW k \in Unit \ Awaited(r) PROVE HasUnit(text, s.offset, u, k)
  <2>1. CASE k \in Units(threads[t].part)
    BY <1>1, <1>2, <1>4, <1>13, <2>1 DEF OpenOK
  <2>2. CASE k \notin Units(threads[t].part)
    <3>1. k \in Unit \ Awaited(s)
      BY <1>12, <1>14, <2>2
    <3>2. QED
      BY <1>1, <1>2, <1>4, <1>13, <3>1 DEF SessionOK
  <2>3. QED
    BY <2>1, <2>2
<1>15. SessionOK(u)'
  <2>1. /\ InPlace(s.file)
        /\ s.offset \in Nat /\ s.size \in Nat /\ s.new \in BOOLEAN
        /\ s.offset + Length <= s.size /\ Len(text) <= s.size
        /\ s.new <=> plan[u].mode # "append"
        /\ IF s.new THEN s.file # row.file
           ELSE row # NoRow /\ s.file = row.file /\ row.size <= s.offset
    BY <1>1, <1>2, <1>4, <1>13 DEF SessionOK
  <2>2. InPlace(s.file)'
    BY <2>1 DEF InPlace
  <2>3. QED
    BY <1>5, <1>7, <1>13, <1>14, <2>1, <2>2 DEF SessionOK
<1>16. SentOK(u)'
  <2>1. Awaited(r) = Unit \ sent[u]
    BY <1>1, <1>2, <1>4, <1>12 DEF PartOK
  <2>2. Based(text, r)
    BY <1>1, <1>2, <1>4, <1>5, <1>13 DEF OpenOK, Based
  <2>3. sent'[u] = sent[u] /\ sent[u] \subseteq Unit
    BY <1>1 DEF SentOK
  <2>4. files'[sessions'[u].file].text = text /\ sessions'[u] = r
    BY <1>5, <1>7, <1>13
  <2>5. QED
    BY <1>8, <2>1, <2>2, <2>3, <2>4 DEF SentOK
<1>17. WorkOK(t)'
  BY <1>8 DEF WorkOK
<1>18. /\ \A w \in Upload \ {u} : sessions'[w] = sessions[w] /\ plan'[w] = plan[w] /\ sent'[w] = sent[w]
       /\ DOMAIN sent' = Upload /\ crashes' = crashes /\ plan'[u] = plan[u] /\ (c # Idle => c.upload = u)
  BY <1>1, <1>6, <1>7
<1>19. QED
  BY <1>7, <1>10, <1>11, <1>15, <1>16, <1>17, <1>18, OneCallKeeps

LEMMA AccountSound ==
    ASSUME FInv, NEW t \in Thread, Account(t)
    PROVE  FInv'
<1>1. PICK u : u = threads[t].upload
  OBVIOUS
<1>2. PICK s : s = sessions[u]
  OBVIOUS
<1>3. PICK part : part = threads[t].part
  OBVIOUS
<1>4. PICK i : i = RangeFor(s.expected, part[1])
  OBVIOUS
<1>5. PICK left : left = Expected(s.expected, i, part)
  OBVIOUS
<1>6. threads[t].step \in {"written", "failed"} /\ WorksOn(t, u) /\ UNCHANGED <<row, commits, crashes>>
  BY <1>1 DEF Account, WorksOn, Idle
<1>7. /\ \/ s = NoSession
         \/ s # NoSession /\ ~(threads[t].step = "written" /\ i # 0 /\ Fits(s.expected[i], part))
                          /\ Abort(t, u, threads[t].file)
         \/ /\ s # NoSession /\ threads[t].step = "written"
            /\ IF left = <<>> THEN Complete(t, u, threads[t].file) ELSE Partial(t, u, left)
  BY <1>1, <1>2, <1>3, <1>4, <1>5 DEF Account
<1>8. UInv'
  BY AccountKeeps DEF FInv
<1>9. SessionOK(u) /\ PartOK(t) /\ threads[t].upload = u
  BY <1>6, InUpload DEF InPart
<1>10. HasSession(u) /\ s # NoSession
  BY <1>2, <1>6, <1>9 DEF PartOK, HasSession
<1>11. /\ part \in Part /\ Ranges(s.expected) /\ Units(part) \subseteq Awaited(s)
  BY <1>2, <1>3, <1>9, <1>10 DEF PartOK, SessionOK
<1>12. Awaited(s) = {k \in Unit : Covers(s.expected, k)}
  BY <1>11, AwaitedIs
<1>13. \A k \in Units(part) : Covers(s.expected, k)
  BY <1>11, <1>12
<1>14. i # 0 /\ Fits(s.expected[i], part)
  BY <1>4, <1>11, <1>13, RangeForIs
<1>15. Ranges(left) /\ {k \in Unit : Covers(left, k)} = Awaited(s) \ Units(part)
  BY <1>4, <1>5, <1>11, <1>12, <1>13, ExpectedIs
<1>16. CASE threads[t].step = "failed"
  BY <1>6, <1>7, <1>10, <1>16, AbortSound
<1>17. CASE threads[t].step = "written" /\ left = <<>>
  <2>1. Complete(t, u, threads[t].file)
    BY <1>7, <1>10, <1>14, <1>17
  <2>2. {k \in Unit : Covers(left, k)} = {}
    BY <1>17 DEF Covers
  <2>3. Awaited(sessions[u]) = Units(threads[t].part)
    BY <1>2, <1>3, <1>11, <1>15, <2>2
  <2>4. QED
    BY <1>6, <1>8, <1>17, <2>1, <2>3, CompleteSound
<1>18. CASE threads[t].step = "written" /\ left # <<>>
  <2>1. Partial(t, u, left)
    BY <1>7, <1>10, <1>14, <1>18
  <2>2. ~LooksComplete(left)
    BY <1>15, <1>18, StillNeeded
  <2>3. /\ Return(t) /\ sessions' = [sessions EXCEPT ![u].expected = left]
        /\ UNCHANGED <<row, files, plan, sent, commits, crashes>>
    BY <1>6, <2>1, <2>2 DEF Partial
  <2>4. {k \in Unit : Covers(left, k)} = Awaited(sessions[u]) \ Units(threads[t].part)
    BY <1>2, <1>3, <1>15
  <2>5. QED
    BY <1>6, <1>8, <1>15, <1>18, <2>3, <2>4, PartialSound
<1>19. QED
  BY <1>6, <1>16, <1>17, <1>18

(* The call ends and with it the upload, which has its receipt. *)
LEMMA Receipted ==
    ASSUME FInv, NEW t \in Thread, NEW u, WorksOn(t, u), threads[t].step = "commit",
           NEW r, r = threads[t].receipt
    PROVE  /\ u \in Upload /\ Begun(u) /\ threads[t].upload = u /\ Flying(t) /\ CurOK(t)
           /\ ~HasSession(u) /\ r.new \in BOOLEAN /\ r.version = plan[u].version
           /\ r.new <=> plan[u].mode # "append"
           /\ IsKept(r.file, r.size, u) /\ Solid(files[r.file].text, Len(files[r.file].text))
           /\ IF r.new THEN r.file # row.file ELSE row # NoRow /\ r.file = row.file
           /\ \A f : Own(u, f) <=> r.new /\ r.file = f
<1>1. /\ u \in Upload /\ Begun(u) /\ threads[t].upload = u /\ Flying(t) /\ CurOK(t) /\ ReceiptOK(t)
      /\ \A v \in Thread \ {t} : ~WorksOn(v, u)
  BY InUpload
<1>2. /\ ~HasSession(u) /\ r.new \in BOOLEAN /\ r.version = plan[u].version
      /\ r.new <=> plan[u].mode # "append"
      /\ IsKept(r.file, r.size, u) /\ Solid(files[r.file].text, Len(files[r.file].text))
      /\ IF r.new THEN r.file # row.file ELSE row # NoRow /\ r.file = row.file
  BY <1>1 DEF ReceiptOK
<1>3. \A f : Own(u, f) <=> r.new /\ r.file = f
  BY <1>1, <1>2 DEF Own
<1>4. QED
  BY <1>1, <1>2, <1>3

LEMMA CallEnds ==
    ASSUME FInv, NEW t \in Thread, NEW u, WorksOn(t, u), threads[t].step = "commit",
           Return(t), EndIfClosed(u), sessions' = sessions, crashes' = crashes, UInv',
           FilesMove({u}), RowMoves({u}), RowKept',
           \A f \in DOMAIN files' : f \in DOMAIN files,
           \A f \in DOMAIN files : InPlace(f)' /\ (f = row.file \/ Own(u, f)) => f = row'.file
    PROVE  FInv'
<1>1. PICK c : c = Idle
  OBVIOUS
<1>2. /\ u \in Upload /\ ~HasSession(u) /\ DOMAIN plan = Upload /\ DOMAIN sent = Upload
      /\ DOMAIN threads = Thread /\ \A v \in Thread \ {t} : ~WorksOn(v, u)
  BY Receipted, InUpload
<1>3. /\ threads' = [threads EXCEPT ![t] = c] /\ threads'[t] = Idle
      /\ sessions'[u] = NoSession /\ sent'[u] = {} /\ DOMAIN sent' = Upload
      /\ \A w \in Upload \ {u} : sessions'[w] = sessions[w] /\ plan'[w] = plan[w] /\ sent'[w] = sent[w]
      /\ \A v \in Thread \ {t} : threads'[v] = threads[v]
  BY <1>1, <1>2 DEF Return, EndIfClosed, HasSession
<1>4. ~Begun(u)' /\ ~HasSession(u)' /\ \A f : ~Own(u, f)'
  BY <1>2, <1>3 DEF Begun, Own, WorksOn, HasSession
<1>5. Fresh({u}) /\ Kept({u})
  BY <1>4 DEF Fresh, Kept
<1>6. SessionOK(u)' /\ SentOK(u)' /\ WorkOK(t)'
  BY <1>3, <1>4 DEF SessionOK, SentOK, WorkOK, Flying
<1>7. c # Idle => c.upload = u
  BY <1>1
<1>8. QED
  BY <1>3, <1>4, <1>5, <1>6, <1>7, OneCallKeeps

(* The file of the table is open only for who appends to it or copies it. *)
LEMMA RowOpen ==
    ASSUME FInv, NEW v \in Thread, HasOpen(v, row.file), row # NoRow
    PROVE  /\ Flying(v) /\ threads[v].upload \in Upload /\ WorksOn(v, threads[v].upload)
           /\ Begun(threads[v].upload) /\ plan[threads[v].upload].mode \in {"append", "over"}
<1>1. PICK w : w = threads[v].upload
  OBVIOUS
<1>2. WorksOn(v, w)
  BY <1>1 DEF HasOpen, WorksOn, Idle
<1>3. /\ w \in Upload /\ Begun(w) /\ Flying(v) /\ OpenOK(v) /\ SessionOK(w) /\ PartOK(v)
      /\ threads[v].upload = w /\ threads[v].step # "looked"
  BY <1>2, InUpload DEF HasOpen, InPart
<1>4. HasSession(w) /\ sessions[w].new \in BOOLEAN
  BY <1>3 DEF PartOK, SessionOK
<1>5. CASE threads[v].file = row.file
  <2>1. sessions[w].file = row.file
    BY <1>3, <1>5 DEF OpenOK
  <2>2. ~sessions[w].new
    BY <1>3, <1>4, <2>1 DEF SessionOK
  <2>3. plan[w].mode = "append"
    BY <1>3, <1>4, <2>2 DEF SessionOK
  <2>4. QED
    BY <1>1, <1>2, <1>3, <2>3
<1>6. CASE threads[v].copy > 0
  <2>1. plan[w].mode = "over"
    BY <1>3, <1>6 DEF OpenOK
  <2>2. QED
    BY <1>1, <1>2, <1>3, <2>1
<1>7. QED
  BY <1>5, <1>6 DEF HasOpen

LEMMA CommitSound ==
    ASSUME FInv, NEW t \in Thread, Commit(t)
    PROVE  FInv'
<1>1. PICK u : u = threads[t].upload
  OBVIOUS
<1>2. PICK r : r = threads[t].receipt
  OBVIOUS
<1>3. PICK cur : cur = threads[t].cur
  OBVIOUS
<1>4. /\ threads[t].step = "commit" /\ WorksOn(t, u) /\ VersionMatches(r.version)
      /\ row' = [version |-> row.version + 1, file |-> r.file, size |-> r.size, by |-> u,
                 commit |-> commits + 1]
      /\ files' = IF r.new THEN Scrapped(t) ELSE files
      /\ Return(t) /\ EndIfClosed(u) /\ sessions' = sessions /\ crashes' = crashes
  BY <1>1, <1>2 DEF Commit, WorksOn, Idle
<1>5. UInv'
  BY CommitKeeps DEF FInv
<1>6. /\ u \in Upload /\ Begun(u) /\ threads[t].upload = u /\ Flying(t) /\ CurOK(t)
      /\ ~HasSession(u) /\ r.new \in BOOLEAN /\ r.version = plan[u].version
      /\ r.new <=> plan[u].mode # "append"
      /\ IsKept(r.file, r.size, u) /\ Solid(files[r.file].text, Len(files[r.file].text))
      /\ IF r.new THEN r.file # row.file ELSE row # NoRow /\ r.file = row.file
      /\ \A f : Own(u, f) <=> r.new /\ r.file = f
  BY <1>2, <1>4, Receipted
<1>7. \A v \in Thread \ {t} : ~WorksOn(v, u)
  BY <1>4, InUpload
<1>8. row.version \in Nat
  BY DEF FInv, UInv, RowOK
<1>9. /\ row'.file = r.file /\ row'.size = r.size /\ row'.by = u /\ row'.version = row.version + 1
      /\ row' # NoRow /\ row'.version # 0
  BY <1>4, <1>8 DEF NoRow
<1>10. /\ cur = row.file \/ ~InPlace(cur)
       /\ row # NoRow => cur = row.file
  BY <1>3, <1>4, <1>6 DEF CurOK, VersionMatches
<1>11. ASSUME r.new, row # NoRow, NEW v \in Thread \ {t} PROVE ~HasOpen(v, row.file)
  <2>1. SUFFICES ASSUME HasOpen(v, row.file) PROVE FALSE
    OBVIOUS
  <2>2. PICK w : w = threads[v].upload
    OBVIOUS
  <2>3. Flying(v) /\ w \in Upload /\ WorksOn(v, w) /\ Begun(w) /\ plan[w].mode \in {"append", "over"}
    BY <1>11, <2>1, <2>2, RowOpen
  <2>4. plan[w].mode # "append"
    BY <1>6, <1>7, <1>11, <2>3 DEF FInv, LoneAppend
  <2>5. plan[w].mode # "over"
    BY <1>6, <1>11, <2>2, <2>3 DEF FInv, LoneCall
  <2>6. QED
    BY <2>3, <2>4, <2>5
<1>12. /\ FilesMove({u}) /\ DOMAIN files' = DOMAIN files
       /\ r.file = row.file \/ Leaves(row.file)
       /\ r.file \in DOMAIN files /\ files'[r.file] = files[r.file]
  <2>1. r.file \in DOMAIN files
    BY <1>6 DEF IsKept, InPlace
  <2>2. CASE ~r.new
    BY <1>4, <1>6, <2>1, <2>2, NoFilesMove
  <2>3. CASE r.new /\ row = NoRow
    <3>1. cur = NoFile \/ ~InPlace(cur)
      BY <1>10, <2>3 DEF NoRow
    <3>2. files' = files
      BY <1>3, <1>4, <2>3, <3>1 DEF Scrapped, MovedBy
    <3>3. Leaves(row.file)
      BY <2>3, <3>2, RowFile DEF Leaves
    <3>4. QED
      BY <2>1, <3>2, <3>3, NoFilesMove
  <2>4. CASE r.new /\ row # NoRow
    <3>1. cur = row.file /\ InPlace(row.file) /\ cur # NoFile
      BY <1>10, <2>4, RowFile, FilesType
    <3>2. files' = MovedBy(t, row.file, "scrap")
      BY <1>3, <1>4, <2>4, <3>1 DEF Scrapped
    <3>3. /\ FilesMove({u}) /\ DOMAIN files' = DOMAIN files /\ Leaves(row.file)
          /\ \A g \in DOMAIN files : g # row.file => files'[g] = files[g]
      BY <1>11, <2>4, <3>1, <3>2, MovesAway
    <3>4. QED
      BY <1>6, <2>1, <2>4, <3>3
  <2>5. QED
    BY <1>6, <2>2, <2>3, <2>4
<1>13. RowMoves({u})
  BY <1>6, <1>9, <1>12 DEF RowMoves
<1>14. RowKept'
  <2>1. IsKept(r.file, r.size, u)'
    BY <1>6, <1>12 DEF IsKept, InPlace
  <2>2. Solid(files'[r.file].text, Len(files'[r.file].text))
    BY <1>6, <1>12
  <2>3. QED
    BY <1>6, <1>9, <2>1, <2>2 DEF RowKept
<1>15. ASSUME NEW f \in DOMAIN files, InPlace(f)', f = row.file \/ Own(u, f) PROVE f = row'.file
  BY <1>6, <1>9, <1>12, <1>15 DEF Leaves, InPlace
<1>16. \A f \in DOMAIN files' : f \in DOMAIN files
  BY <1>12
<1>17. QED
  BY <1>4, <1>5, <1>12, <1>13, <1>14, <1>15, <1>16, CallEnds

LEMMA RefuseSound ==
    ASSUME FInv, NEW t \in Thread, OutOfDate(t) \/ InsertFails(t)
    PROVE  FInv'
<1>1. PICK u : u = threads[t].upload
  OBVIOUS
<1>2. PICK r : r = threads[t].receipt
  OBVIOUS
<1>3. /\ threads[t].step = "commit" /\ WorksOn(t, u)
      /\ files' = IF r.new THEN MovedBy(t, r.file, "deleted") ELSE files
      /\ Return(t) /\ EndIfClosed(u) /\ sessions' = sessions /\ crashes' = crashes /\ row' = row
  BY <1>1, <1>2 DEF OutOfDate, InsertFails, Refuse, WorksOn, Idle
<1>4. UInv'
  BY CommitKeeps DEF FInv
<1>5. /\ u \in Upload /\ Begun(u) /\ r.new \in BOOLEAN
      /\ IsKept(r.file, r.size, u)
      /\ r.new => r.file # row.file
      /\ \A f : Own(u, f) <=> r.new /\ r.file = f
  BY <1>2, <1>3, Receipted
<1>6. \A v \in Thread \ {t} : ~WorksOn(v, u)
  BY <1>3, InUpload
<1>7. RowMoves({u})
  BY <1>3 DEF RowMoves
<1>8. AppendsNow => AppendsNow'
  BY <1>3 DEF AppendsNow, HasSession
<1>9. CASE r.new
  <2>1. Own(u, r.file) /\ InPlace(r.file)
    BY <1>5, <1>9 DEF IsKept
  <2>2. \A v \in Thread \ {t} : ~HasOpen(v, r.file)
    BY <1>5, <1>6, <2>1, OthersOpen
  <2>3. files' = MovedBy(t, r.file, "deleted")
    BY <1>3, <1>9
  <2>4. /\ FilesMove({u}) /\ DOMAIN files' = DOMAIN files /\ Leaves(r.file)
        /\ \A g \in DOMAIN files : g # r.file => files'[g] = files[g]
    BY <2>1, <2>2, <2>3, MovesAway
  <2>5. RowKept'
    BY <1>3, <1>5, <1>8, <1>9, <2>4, RowStays, RowFile
  <2>6. ASSUME NEW f \in DOMAIN files, InPlace(f)', f = row.file \/ Own(u, f) PROVE f = row'.file
    BY <1>3, <1>5, <2>4, <2>6 DEF Leaves, InPlace
  <2>7. QED
    BY <1>3, <1>4, <1>7, <2>4, <2>5, <2>6, CallEnds
<1>10. CASE ~r.new
  <2>1. files' = files
    BY <1>3, <1>10
  <2>2. FilesMove({u}) /\ RowKept'
    BY <1>3, <1>8, <2>1, NoFilesMove, RowStays, RowFile
  <2>3. \A f \in DOMAIN files : InPlace(f)' /\ (f = row.file \/ Own(u, f)) => f = row'.file
    BY <1>3, <1>5, <1>10
  <2>4. QED
    BY <1>3, <1>4, <1>7, <2>1, <2>2, <2>3, CallEnds
<1>11. QED
  BY <1>9, <1>10

-----------------------------------------------------------------------------
(* The other steps *)

LEMMA ExpireSound ==
    ASSUME FInv, Windows = {}, NEW u \in Upload, Expire(u)
    PROVE  FInv'
<1>1. PICK f : f = sessions[u].file
  OBVIOUS
<1>2. /\ HasSession(u) /\ Begun(u) /\ MayEnd(u) /\ \A t \in Thread : threads[t] = Idle
      /\ files' = IF sessions[u].new THEN MovedBy("nobody", f, "deleted") ELSE files
      /\ Over(u) /\ UNCHANGED <<row, threads, commits, crashes>>
  BY <1>1 DEF Expire, HasSession, Begun
<1>3. UInv' /\ UInv
  BY ExpireKeeps DEF FInv
<1>4. /\ DOMAIN sessions = Upload /\ DOMAIN plan = Upload /\ DOMAIN sent = Upload /\ SessionOK(u)
  BY <1>3 DEF UInv, FInv
<1>5. plan[u].mode # "append" /\ sessions[u].new
  BY <1>2, <1>4 DEF MayEnd, SessionOK
<1>6. Own(u, f) /\ InPlace(f) /\ f # row.file
  BY <1>1, <1>2, <1>5, OwnIs DEF Own
<1>7. \A v \in Thread : ~WorksOn(v, u) /\ ~Flying(v) /\ ~HasOpen(v, f)
  BY <1>2 DEF WorksOn, Flying, HasOpen, Idle
<1>8. files' = MovedBy("nobody", f, "deleted")
  BY <1>2, <1>5
<1>9. /\ FilesMove({u}) /\ DOMAIN files' = DOMAIN files /\ Leaves(f)
      /\ \A g \in DOMAIN files : g # f => files'[g] = files[g]
  <2>1. \E x \in {u} : Own(x, f)
    BY <1>6
  <2>2. QED
    BY <1>6, <1>7, <1>8, <2>1, MovesAway
<1>10. /\ sessions'[u] = NoSession /\ sent'[u] = {} /\ DOMAIN sent' = Upload
       /\ \A w \in Upload \ {u} : sessions'[w] = sessions[w] /\ plan'[w] = plan[w] /\ sent'[w] = sent[w]
  BY <1>2, <1>4 DEF Over
<1>11. ~Begun(u)' /\ ~HasSession(u)' /\ \A g : ~Own(u, g)'
  BY <1>2, <1>7, <1>10 DEF Begun, HasSession, Own, WorksOn, Flying
<1>12. Touches({}, {u})
  BY <1>2, <1>7, <1>10 DEF Touches
<1>13. Beside({}, {u})
  BY <1>2, <1>7 DEF Beside, FInv, LoneAppend
<1>14. RowMoves({u})
  BY <1>2 DEF RowMoves
<1>15. ASSUME NEW g, Own(u, g) PROVE g = f
  BY <1>1, <1>7, <1>15 DEF Own
<1>16. Fresh({u}) /\ Kept({u})
  BY <1>2, <1>9, <1>11, <1>15 DEF Fresh, Kept, Leaves, InPlace
<1>17. AppendsAlone({u}) /\ CallsAlone({}) /\ OnlyOne({}) /\ OnlyOne({u})
  BY <1>11 DEF AppendsAlone, CallsAlone, OnlyOne
<1>18. RowKept'
  <2>1. ~AppendsNow
    BY <1>2, <1>5, NoneAppends
  <2>2. QED
    BY <1>2, <1>6, <1>9, <2>1, RowStays, RowFile
<1>19. \A x \in {u} : SessionOK(x)' /\ SentOK(x)'
  BY <1>10, <1>11 DEF SessionOK, SentOK
<1>20. (\A x \in {} : WorkOK(x)') /\ crashes' = crashes
  BY <1>2
<1>21. QED
  BY <1>3, <1>9, <1>10, <1>12, <1>13, <1>14, <1>16, <1>17, <1>18, <1>19, <1>20, StepKeeps

LEMMA DeleteSound ==
    ASSUME FInv, Windows = {}, DeleteFile
    PROVE  FInv'
<1>1. /\ row # NoRow /\ row' = NoRow /\ files' = MovedBy("nobody", row.file, "scrap")
      /\ ~UnversionedFlying /\ ~Appending /\ ~Copying
      /\ UNCHANGED <<sessions, threads, plan, sent, commits, crashes>>
  BY DEF DeleteFile
<1>2. UInv'
  BY DeleteKeeps DEF FInv
<1>3. InPlace(row.file)
  BY <1>1, RowFile
<1>4. ASSUME NEW v \in Thread PROVE ~HasOpen(v, row.file)
  <2>1. SUFFICES ASSUME HasOpen(v, row.file) PROVE FALSE
    OBVIOUS
  <2>2. /\ Flying(v) /\ threads[v].upload \in Upload
        /\ Begun(threads[v].upload) /\ plan[threads[v].upload].mode \in {"append", "over"}
    BY <1>1, <2>1, RowOpen
  <2>3. QED
    BY <1>1, <2>2 DEF Appending, Copying
<1>5. /\ FilesMove({}) /\ DOMAIN files' = DOMAIN files /\ Leaves(row.file)
      /\ \A g \in DOMAIN files : g # row.file => files'[g] = files[g]
  BY <1>1, <1>3, <1>4, MovesAway
<1>6. Touches({}, {})
  BY <1>1 DEF Touches
<1>7. Beside({}, {})
  <2>1. \A w \in Upload : Begun(w) => plan[w].mode # "append"
    BY <1>1 DEF Appending
  <2>2. \A v \in Thread : Flying(v) => /\ plan[threads[v].upload].version # Unversioned
                                      /\ plan[threads[v].upload].mode # "over"
    BY <1>1 DEF UnversionedFlying, Copying
  <2>3. QED
    BY <2>1, <2>2 DEF Beside
<1>8. RowMoves({})
  BY <1>1, <1>5 DEF RowMoves
<1>9. Fresh({}) /\ Kept({}) /\ AppendsAlone({}) /\ CallsAlone({}) /\ OnlyOne({})
  BY <1>5 DEF Fresh, Kept, AppendsAlone, CallsAlone, OnlyOne, Leaves, InPlace
<1>10. RowKept'
  BY <1>1 DEF RowKept, NoRow
<1>11. DOMAIN sent' = Upload /\ crashes' = crashes
  BY <1>1 DEF FInv
<1>12. (\A x \in {} : SessionOK(x)' /\ SentOK(x)') /\ \A x \in {} : WorkOK(x)'
  OBVIOUS
<1>13. QED
  BY <1>2, <1>5, <1>6, <1>7, <1>8, <1>9, <1>10, <1>11, <1>12, StepKeeps

(* The files as they were flushed. *)
AfterCrash(fs) == [f \in DOMAIN fs |-> [fs[f] EXCEPT !.text = fs[f].safe]]
SafeOnly(gs, fs) ==
    /\ gs \in Seq(File) /\ DOMAIN gs = DOMAIN fs
    /\ \A f \in DOMAIN fs : /\ gs[f].text = fs[f].safe /\ gs[f].safe = fs[f].safe
                            /\ gs[f].place = fs[f].place

LEMMA FlushedFiles ==
    ASSUME NEW fs \in Seq(File)
    PROVE  SafeOnly(AfterCrash(fs), fs)
<1> DEFINE gs == AfterCrash(fs)
<1>1. ASSUME NEW f \in DOMAIN fs
      PROVE  LET g == [fs[f] EXCEPT !.text = fs[f].safe]
             IN  g \in File /\ g.text = fs[f].safe /\ g.safe = fs[f].safe /\ g.place = fs[f].place
  <2>1. fs[f] \in File
    BY SeqAt
  <2>2. fs[f].safe \in Seq(Cell)
    BY <2>1, FileParts
  <2> HIDE DEF Cell
  <2>3. QED
    BY <2>1, <2>2 DEF File
<1> HIDE DEF File
<1>2. Len(fs) \in Nat /\ DOMAIN fs = 1..Len(fs)
  OBVIOUS
<1>3. gs \in [1..Len(fs) -> File]
  BY <1>1, <1>2 DEF AfterCrash
<1>4. gs \in Seq(File)
  BY <1>2, <1>3, IsSeq
<1>5. QED
  BY <1>1, <1>4 DEF AfterCrash, SafeOnly

LEMMA CrashSound ==
    ASSUME FInv, Windows = {}, Crash
    PROVE  FInv'
<1>1. /\ ~Appending /\ crashes' = crashes + 1 /\ row' = row
      /\ files' = files \/ files' = [f \in DOMAIN files |-> [files[f] EXCEPT !.text = files[f].safe]]
      /\ sessions' = [u \in Upload |-> NoSession] /\ threads' = [t \in Thread |-> Idle]
      /\ sent' = [u \in Upload |-> {}]
  BY DEF Crash
<1>2. UInv'
  BY CrashKeeps DEF FInv
<1>3. /\ files' \in Seq(File) /\ DOMAIN files' = DOMAIN files
      /\ \A f \in DOMAIN files : /\ files'[f].safe = files[f].safe /\ files'[f].place = files[f].place
                                 /\ files'[f].text \in {files[f].text, files[f].safe}
  <2>1. files \in Seq(File)
    BY FilesType
  <2>2. CASE files' = files
    BY <2>1, <2>2
  <2>3. CASE files' = [f \in DOMAIN files |-> [files[f] EXCEPT !.text = files[f].safe]]
    <3>1. SafeOnly(AfterCrash(files), files)
      BY <2>1, FlushedFiles
    <3>2. files' = AfterCrash(files)
      BY <2>3 DEF AfterCrash
    <3>3. QED
      BY <3>1, <3>2 DEF SafeOnly
  <2>4. QED
    BY <1>1, <2>2, <2>3
<1>4. ~AppendsNow
  BY <1>1 DEF AppendsNow, Appending, FInv, SessionOK, HasSession, Begun
<1>5. RowKept'
  <2>1. RowKept
    BY DEF FInv
  <2>2. row # NoRow => /\ row.by \in Upload /\ IsKept(row.file, row.size, row.by)
                       /\ Solid(files[row.file].text, Len(files[row.file].text))
    BY <1>4, <2>1 DEF RowKept
  <2>3. row # NoRow => /\ IsKept(row.file, row.size, row.by)'
                       /\ Solid(files'[row.file].text, Len(files'[row.file].text))
    BY <1>1, <1>3, <2>2 DEF IsKept, InPlace
  <2>4. QED
    BY <1>1, <2>1, <2>2, <2>3 DEF RowKept
<1>6. /\ \A u \in Upload : ~Begun(u)' /\ ~HasSession(u)' /\ sent'[u] = {} /\ \A f : ~Own(u, f)'
      /\ \A t \in Thread : ~Flying(t)'
  BY <1>1 DEF Begun, HasSession, Own, WorksOn, Flying
<1>7. Separate' /\ LoneAppend' /\ LoneCall'
  BY <1>6 DEF Separate, LoneAppend, LoneCall
<1>8. crashes' \in Nat /\ NothingElse'
  BY <1>1 DEF FInv, NothingElse
<1>9. \A u \in Upload : SessionOK(u)' /\ SentOK(u)'
  BY <1>6 DEF SessionOK, SentOK
<1>10. \A t \in Thread : WorkOK(t)'
  BY <1>6 DEF WorkOK
<1>11. QED
  BY <1>1, <1>2, <1>3, <1>5, <1>7, <1>8, <1>9, <1>10 DEF FInv

LEMMA StutterSound ==
    ASSUME FInv, UNCHANGED vars
    PROVE  FInv'
<1>1. UInv'
  BY NextUInv, CrashKeeps DEF FInv, vars, UInv, RowOK, OneCall, WorksOn, CallOK, Flying, UploadOK,
     SeenOK, Begun
<1>2. /\ row' = row /\ files' = files /\ sessions' = sessions /\ threads' = threads
      /\ plan' = plan /\ sent' = sent /\ crashes' = crashes
  BY DEF vars
<1>3. RowKept'
  <2>1. AppendsNow => AppendsNow'
    BY <1>2 DEF AppendsNow, HasSession
  <2>2. QED
    BY <1>2, <2>1, RowStays, RowFile
<1>4. \A u \in Upload : /\ Begun(u)' <=> Begun(u)
                        /\ HasSession(u)' <=> HasSession(u)
                        /\ \A f : Own(u, f)' <=> Own(u, f)
  BY <1>2 DEF Begun, HasSession, Own, WorksOn
<1>5. Separate' /\ NothingElse' /\ LoneAppend' /\ LoneCall'
  <2>1. Separate /\ NothingElse /\ LoneAppend /\ LoneCall
    BY DEF FInv
  <2>2. Separate' /\ NothingElse'
    BY <1>2, <1>4, <2>1 DEF Separate, NothingElse, InPlace
  <2>3. LoneAppend' /\ LoneCall'
    BY <1>2, <1>4, <2>1 DEF LoneAppend, LoneCall, Flying
  <2>4. QED
    BY <2>2, <2>3
<1>6. ASSUME NEW u \in Upload PROVE SessionOK(u)' /\ SentOK(u)'
  <2>1. SessionOK(u) /\ SentOK(u)
    BY DEF FInv
  <2>2. QED
    BY <1>2, <2>1 DEF SessionOK, SentOK, HasSession, Begun, WorksOn, InPlace
<1>7. ASSUME NEW t \in Thread PROVE WorkOK(t)'
  <2>1. WorkOK(t)
    BY DEF FInv
  <2>2. (Flying(t)' <=> Flying(t)) /\ (InPart(t)' <=> InPart(t))
    BY <1>2 DEF Flying, InPart
  <2>3. (CurOK(t)' <=> CurOK(t)) /\ (PartOK(t)' <=> PartOK(t)) /\ (LookedOK(t)' <=> LookedOK(t))
    BY <1>2 DEF CurOK, PartOK, LookedOK, InPlace, HasSession
  <2>4. OpenOK(t)' <=> OpenOK(t)
    BY <1>2 DEF OpenOK, Copies
  <2>5. ReceiptOK(t)' <=> ReceiptOK(t)
    BY <1>2 DEF ReceiptOK, IsKept, InPlace, HasSession
  <2>6. QED
    BY <1>2, <2>1, <2>2, <2>3, <2>4, <2>5 DEF WorkOK
<1>8. files' \in Seq(File) /\ DOMAIN sent' = Upload /\ crashes' \in Nat
  BY <1>2 DEF FInv
<1>9. QED
  BY <1>1, <1>3, <1>5, <1>6, <1>7, <1>8 DEF FInv

LEMMA InitFInv == Init => FInv
<1>1. SUFFICES ASSUME Init PROVE FInv
  OBVIOUS
<1>2. UInv
  BY <1>1, InitUInv
<1>3. /\ row = NoRow /\ row.version = 0 /\ crashes = 0 /\ DOMAIN sent = Upload
      /\ files \in Seq(File) /\ DOMAIN files = {}
      /\ \A u \in Upload : ~HasSession(u) /\ sent[u] = {}
      /\ \A t \in Thread : ~Flying(t)
  BY <1>1 DEF Init, NoRow, HasSession, Flying
<1>4. \A u \in Upload : ~Begun(u)
  BY <1>3 DEF Begun, HasSession, WorksOn, Flying
<1>5. RowKept /\ Separate /\ NothingElse /\ LoneAppend /\ LoneCall
  BY <1>3, <1>4 DEF RowKept, Separate, NothingElse, LoneAppend, LoneCall
<1>6. (\A u \in Upload : SessionOK(u) /\ SentOK(u)) /\ \A t \in Thread : WorkOK(t)
  BY <1>3, <1>4 DEF SessionOK, SentOK, WorkOK
<1>7. QED
  BY <1>2, <1>3, <1>5, <1>6 DEF FInv

LEMMA NextFInv ==
    ASSUME Windows = {}, FInv, [Next]_vars
    PROVE  FInv'
<1>1. CASE UNCHANGED vars
  BY <1>1, StutterSound
<1>2. CASE Next
  BY <1>2, LookSound, OpenSound, WriteSound, WriteFailsSound, AccountSound, CommitSound, RefuseSound,
     ExpireSound, DeleteSound, CrashSound DEF Next
<1>3. QED
  BY <1>1, <1>2

LEMMA Uploads ==
    ASSUME Windows = {}
    PROVE  Spec => []FInv
<1>1. FInv /\ [Next]_vars => FInv'
  BY NextFInv
<1>2. QED
  BY <1>1, InitFInv, PTL DEF Spec

-----------------------------------------------------------------------------
(* A descriptor in the table has a file in its place that holds the data   *)
(* the upload sent, with no hole in it, whatever was uploaded, refused,    *)
(* given up, deleted or lost in a crash beside it: the data is flushed     *)
(* before UploadFile stores the descriptor, and only a file that another   *)
(* descriptor has replaced is scrapped.                                    *)
THEOREM DescriptorIsStored ==
    ASSUME Windows = {}
    PROVE  Spec => []Stored
<1>1. ASSUME FInv PROVE Stored
  <2>1. SUFFICES ASSUME row # NoRow
                 PROVE  /\ InPlace(row.file)
                        /\ Len(files[row.file].text) >= row.size
                        /\ \A i \in 1..row.size : files[row.file].text[i] # Hole
                        /\ \E offset \in 0..row.size - Length :
                              \A k \in Unit : HasUnit(files[row.file].text, offset, row.by, k)
    BY DEF Stored
  <2>2. PICK text : text = files[row.file].text
    OBVIOUS
  <2>3. /\ InPlace(row.file) /\ row.file \in DOMAIN files /\ row.size \in Nat
        /\ Keeps(text, row.size, row.by)
    BY <1>1, <2>1, <2>2, RowFile DEF RowKept, IsKept
  <2>4. text \in Seq(Cell)
    BY <1>1, <2>2, <2>3, FilesType, FileParts
  <2>5. PICK size \in Nat : size = row.size
    BY <2>3
  <2>6. PICK offset \in 0..size - Length : HasAll(text, offset, row.by)
    BY <2>3, <2>5 DEF Keeps
  <2>7. Solid(text, size) /\ size > 0
    BY <2>3, <2>5, <2>6 DEF Keeps
  <2>8. ASSUME NEW i \in 1..size PROVE i <= Len(text) /\ text[i] # Hole
    <3>1. i - 1 \in Nat /\ At(text, i - 1) # Hole
      BY <2>5, <2>7, <2>8 DEF Solid
    <3>2. i - 1 < Len(text)
      BY <2>4, <3>1, WithinLen
    <3>3. i \in DOMAIN text /\ i <= Len(text)
      BY <2>4, <3>2
    <3>4. QED
      BY <3>1, <3>3 DEF At
  <2>9. Len(text) >= size
    BY <2>5, <2>7, <2>8
  <2>10. QED
    BY <2>2, <2>3, <2>5, <2>6, <2>8, <2>9 DEF HasAll
<1>2. Spec => []FInv
  BY Uploads
<1>3. QED
  BY <1>1, <1>2, PTL

(* The ranges that CAeonUploadSessions keeps are never empty, what they do *)
(* not cover is in the file, and between calls they are exactly what the   *)
(* client has not sent: an upload that has sent everything is complete,    *)
(* and no other is.                                                        *)
THEOREM RangesAreTrue ==
    ASSUME Windows = {}
    PROVE  Spec => []SessionTrue
<1>1. ASSUME FInv PROVE SessionTrue
  <2>1. SUFFICES ASSUME NEW u \in Upload, HasSession(u)
                 PROVE  LET s == sessions[u]
                        IN  /\ \A i \in DOMAIN s.expected : s.expected[i].len > 0
                            /\ \A k \in Unit \ Awaited(s) : HasUnit(files[s.file].text, s.offset, u, k)
                            /\ (\A t \in Thread : ~WorksOn(t, u)) => Awaited(s) = Unit \ sent[u]
    BY DEF SessionTrue, HasSession
  <2>2. PICK s : s = sessions[u]
    OBVIOUS
  <2>3. SessionOK(u) /\ SentOK(u)
    BY <1>1 DEF FInv
  <2>4. Ranges(s.expected) /\ \A k \in Unit \ Awaited(s) : HasUnit(files[s.file].text, s.offset, u, k)
    BY <2>1, <2>2, <2>3 DEF SessionOK
  <2>5. \A i \in DOMAIN s.expected : s.expected[i].len > 0
    BY <2>4, RangeAt
  <2>6. (\A t \in Thread : ~WorksOn(t, u)) => Awaited(s) = Unit \ sent[u]
    BY <2>1, <2>2, <2>3 DEF SentOK
  <2>7. QED
    BY <2>2, <2>4, <2>5, <2>6
<1>2. Spec => []FInv
  BY Uploads
<1>3. QED
  BY <1>1, <1>2, PTL

(* When no upload is under way, and the machine has not stopped, every     *)
(* file in the table's directory is the one that the descriptor names:     *)
(* uploads that fail, expire or are refused remove what they have made,    *)
(* and the file that is replaced is moved away.                            *)
THEOREM NoFileIsOrphaned ==
    ASSUME Windows = {}
    PROVE  Spec => []NoOrphan
<1>1. ASSUME FInv PROVE NoOrphan
  <2>1. SUFFICES ASSUME crashes = 0, \A u \in Upload : ~Begun(u),
                        NEW f \in DOMAIN files, files[f].place = "table"
                 PROVE  f = row.file
    BY DEF NoOrphan
  <2>2. InPlace(f)
    BY <2>1 DEF InPlace
  <2>3. \A u \in Upload : ~Own(u, f)
    BY <1>1, <2>1, OwnIs
  <2>4. QED
    BY <1>1, <2>1, <2>2, <2>3 DEF FInv, NothingElse
<1>2. Spec => []FInv
  BY Uploads
<1>3. QED
  BY <1>1, <1>2, PTL
=============================================================================
