--------------------------- MODULE SessionsProofs ---------------------------
(***************************************************************************)
(* Proofs about Sessions, for any number of threads, sessions and          *)
(* commands: that a session is answered once, and that its timers are      *)
(* whole and its own.                                                      *)
(***************************************************************************)
EXTENDS Sessions, TLAPS, FiniteSetTheorems, WellFoundedInduction

-----------------------------------------------------------------------------
(* The methods of CTimedMessageQueue keep its type and its pool of numbers. *)
(* Each is a composition of assignments to one field.                       *)

SetNext(q, i, n) == [q EXCEPT !.pool[i].next = n]
SetPrev(q, i, n) == [q EXCEPT !.pool[i].prev = n]
SetBusy(q, i) == [q EXCEPT !.pool[i].busy = TRUE]
SetFree(q, i) == [q EXCEPT !.pool[i].busy = FALSE]
SetFirst(q, n) == [q EXCEPT !.first = n]
SetLast(q, n) == [q EXCEPT !.last = n]
SetFreeList(q, n) == [q EXCEPT !.free = n]

Same(r, q, T, C) == IsQueue(r, T, C) /\ DOMAIN r.pool = DOMAIN q.pool

LEMMA SetEntry ==
    ASSUME NEW T, NEW C, NEW q, IsQueue(q, T, C), NEW p, DOMAIN p = DOMAIN q.pool,
           \A i \in DOMAIN q.pool : p[i] \in Entry(DOMAIN q.pool, T, C),
           p = [i \in DOMAIN q.pool |-> p[i]]
    PROVE  Same([q EXCEPT !.pool = p], q, T, C)
<1> DEFINE ID == DOMAIN q.pool
           E == Entry(ID, T, C)
           r == [q EXCEPT !.pool = p]
<1>1. q.pool \in Seq(E) /\ DOMAIN q.pool = 1..Len(q.pool) /\ Len(q.pool) \in Nat
  BY DEF IsQueue
<1>2. p \in [1..Len(q.pool) -> E]
  BY <1>1
<1>3. p \in Seq(E)
  BY <1>1, <1>2
<1>4. r.pool = p
  BY DEF IsQueue
<1>5. r \in [pool : Seq(E), event : BOOLEAN, first : ID \cup {NoID}, last : ID \cup {NoID},
             free : ID \cup {NoID}]
  <2>1. q \in [pool : Seq(E), event : BOOLEAN, first : ID \cup {NoID}, last : ID \cup {NoID},
               free : ID \cup {NoID}]
    BY DEF IsQueue
  <2> HIDE DEF E, ID
  <2>2. QED
    BY <1>3, <2>1
<1>6. DOMAIN r.pool = ID
  BY <1>4
<1>7. ASSUME NEW s, DOMAIN s.pool = ID,
             s \in [pool : Seq(E), event : BOOLEAN, first : ID \cup {NoID}, last : ID \cup {NoID},
                    free : ID \cup {NoID}]
      PROVE  Same(s, q, T, C)
  BY <1>7 DEF Same, IsQueue
<1> HIDE DEF r, ID, E
<1>8. QED
  BY <1>5, <1>6, <1>7 DEF r

(* The numbers that the entries and the ends of a list hold. *)
LEMMA LinksAreIDs ==
    ASSUME NEW T, NEW C, NEW q, IsQueue(q, T, C)
    PROVE  /\ \A i \in DOMAIN q.pool : /\ q.pool[i].next \in DOMAIN q.pool \cup {NoID}
                                       /\ q.pool[i].prev \in DOMAIN q.pool \cup {NoID}
                                       /\ q.pool[i].ticket \in T /\ q.pool[i].cmd \in C
           /\ q.first \in DOMAIN q.pool \cup {NoID}
           /\ q.last \in DOMAIN q.pool \cup {NoID}
           /\ q.free \in DOMAIN q.pool \cup {NoID}
           /\ Places(q) \subseteq DOMAIN q.pool \cup {NoID}
<1>1. \A i \in DOMAIN q.pool : q.pool[i] \in Entry(DOMAIN q.pool, T, C)
  BY DEF IsQueue
<1>2. QED
  BY <1>1 DEF IsQueue, Entry, Places, Busy

LEMMA SetFieldTypes ==
    ASSUME NEW T, NEW C, NEW q, IsQueue(q, T, C), NEW i \in DOMAIN q.pool,
           NEW n \in DOMAIN q.pool \cup {NoID}
    PROVE  /\ Same(SetNext(q, i, n), q, T, C) /\ Same(SetPrev(q, i, n), q, T, C)
           /\ Same(SetBusy(q, i), q, T, C) /\ Same(SetFree(q, i), q, T, C)
<1> DEFINE ID == DOMAIN q.pool
           next == [q.pool EXCEPT ![i].next = n]
           prev == [q.pool EXCEPT ![i].prev = n]
           busy == [q.pool EXCEPT ![i].busy = TRUE]
           free == [q.pool EXCEPT ![i].busy = FALSE]
<1>1. \A j \in DOMAIN q.pool : q.pool[j] \in Entry(DOMAIN q.pool, T, C)
  BY DEF IsQueue
<1>2. Same([q EXCEPT !.pool = next], q, T, C)
  <2>1. /\ DOMAIN next = ID /\ next = [j \in ID |-> next[j]]
        /\ \A j \in ID : next[j] \in Entry(ID, T, C)
    BY <1>1 DEF Entry
  <2> HIDE DEF next
  <2>2. QED
    BY <2>1, SetEntry
<1>3. Same([q EXCEPT !.pool = prev], q, T, C)
  <2>1. /\ DOMAIN prev = ID /\ prev = [j \in ID |-> prev[j]]
        /\ \A j \in ID : prev[j] \in Entry(ID, T, C)
    BY <1>1 DEF Entry
  <2> HIDE DEF prev
  <2>2. QED
    BY <2>1, SetEntry
<1>4. Same([q EXCEPT !.pool = busy], q, T, C)
  <2>1. /\ DOMAIN busy = ID /\ busy = [j \in ID |-> busy[j]]
        /\ \A j \in ID : busy[j] \in Entry(ID, T, C)
    BY <1>1 DEF Entry
  <2> HIDE DEF busy
  <2>2. QED
    BY <2>1, SetEntry
<1>5. Same([q EXCEPT !.pool = free], q, T, C)
  <2>1. /\ DOMAIN free = ID /\ free = [j \in ID |-> free[j]]
        /\ \A j \in ID : free[j] \in Entry(ID, T, C)
    BY <1>1 DEF Entry
  <2> HIDE DEF free
  <2>2. QED
    BY <2>1, SetEntry
<1>6. /\ SetNext(q, i, n) = [q EXCEPT !.pool = next] /\ SetPrev(q, i, n) = [q EXCEPT !.pool = prev]
      /\ SetBusy(q, i) = [q EXCEPT !.pool = busy] /\ SetFree(q, i) = [q EXCEPT !.pool = free]
  BY DEF SetNext, SetPrev, SetBusy, SetFree
<1> HIDE DEF next, prev, busy, free
<1>7. QED
  BY <1>2, <1>3, <1>4, <1>5, <1>6

LEMMA SetFlatTypes ==
    ASSUME NEW T, NEW C, NEW q, IsQueue(q, T, C), NEW n \in DOMAIN q.pool \cup {NoID}
    PROVE  /\ Same([q EXCEPT !.first = n], q, T, C) /\ Same([q EXCEPT !.last = n], q, T, C)
           /\ Same([q EXCEPT !.free = n], q, T, C)
           /\ Same([q EXCEPT !.event = TRUE], q, T, C) /\ Same([q EXCEPT !.event = FALSE], q, T, C)
<1> DEFINE Q(D) == [pool : Seq(Entry(D, T, C)), event : BOOLEAN,
                    first : D \cup {NoID}, last : D \cup {NoID}, free : D \cup {NoID}]
<1>1. \A r : IsQueue(r, T, C) <=> r \in Q(DOMAIN r.pool)
  BY DEF IsQueue
<1>2. q \in Q(DOMAIN q.pool)
  BY <1>1
<1>3. /\ [q EXCEPT !.first = n] \in Q(DOMAIN q.pool) /\ [q EXCEPT !.first = n].pool = q.pool
      /\ [q EXCEPT !.last = n] \in Q(DOMAIN q.pool) /\ [q EXCEPT !.last = n].pool = q.pool
      /\ [q EXCEPT !.free = n] \in Q(DOMAIN q.pool) /\ [q EXCEPT !.free = n].pool = q.pool
      /\ [q EXCEPT !.event = TRUE] \in Q(DOMAIN q.pool) /\ [q EXCEPT !.event = TRUE].pool = q.pool
      /\ [q EXCEPT !.event = FALSE] \in Q(DOMAIN q.pool) /\ [q EXCEPT !.event = FALSE].pool = q.pool
  BY <1>2
<1> HIDE DEF Q
<1>4. \A r : r \in Q(DOMAIN q.pool) /\ r.pool = q.pool => Same(r, q, T, C)
  BY <1>1 DEF Same
<1>5. QED
  BY <1>3, <1>4

LEMMA SetEndTypes ==
    ASSUME NEW T, NEW C, NEW q, IsQueue(q, T, C), NEW n \in DOMAIN q.pool \cup {NoID}
    PROVE  /\ Same(SetFirst(q, n), q, T, C) /\ Same(SetLast(q, n), q, T, C)
           /\ Same(SetFreeList(q, n), q, T, C)
BY SetFlatTypes DEF SetFirst, SetLast, SetFreeList

LEMMA SignalType ==
    ASSUME NEW T, NEW C, NEW q, IsQueue(q, T, C), NEW b
    PROVE  Same(Signal(q, b), q, T, C)
<1>1. Same([q EXCEPT !.event = TRUE], q, T, C)
  BY SetFlatTypes
<1>2. Same(q, q, T, C)
  BY DEF Same
<1>3. QED
  BY <1>1, <1>2 DEF Signal

LEMMA RemoveType ==
    ASSUME NEW T, NEW C, NEW q, IsQueue(q, T, C), NEW i \in DOMAIN q.pool
    PROVE  Same(RemoveFromList(q, i), q, T, C)
<1> DEFINE next == q.pool[i].next
           prev == q.pool[i].prev
           before == IF prev # NoID THEN SetNext(q, prev, next) ELSE SetFirst(q, next)
           after == IF next # NoID THEN SetPrev(before, next, prev) ELSE SetLast(before, prev)
           unlinked == SetPrev(after, i, NoID)
<1>1. next \in DOMAIN q.pool \cup {NoID} /\ prev \in DOMAIN q.pool \cup {NoID}
  BY LinksAreIDs
<1>6. RemoveFromList(q, i) = SetNext(unlinked, i, NoID)
  BY DEF RemoveFromList, SetPrev, SetNext, SetLast, SetFirst
<1> HIDE DEF next, prev
<1>2. Same(before, q, T, C)
  BY <1>1, SetFieldTypes, SetEndTypes
<1> HIDE DEF before
<1>3. Same(after, q, T, C)
  BY <1>1, <1>2, SetFieldTypes, SetEndTypes DEF Same
<1> HIDE DEF after
<1>4. Same(unlinked, q, T, C)
  BY <1>3, SetFieldTypes DEF Same
<1> HIDE DEF unlinked
<1>5. Same(SetNext(unlinked, i, NoID), q, T, C)
  BY <1>4, SetFieldTypes DEF Same
<1>7. QED
  BY <1>5, <1>6

LEMMA InsertType ==
    ASSUME NEW T, NEW C, NEW q, IsQueue(q, T, C), NEW i \in DOMAIN q.pool,
           NEW after \in DOMAIN q.pool \cup {NoID}
    PROVE  Same(InsertToList(q, i, after), q, T, C)
<1> DEFINE next == IF after = NoID THEN q.first ELSE q.pool[after].next
           linked == SetNext(SetPrev(q, i, after), i, next)
           behind == IF after = NoID THEN SetFirst(linked, i) ELSE SetNext(linked, after, i)
<1>1. next \in DOMAIN q.pool \cup {NoID}
  BY LinksAreIDs
<1>2. InsertToList(q, i, after) = IF next = NoID THEN SetLast(behind, i) ELSE SetPrev(behind, next, i)
  BY DEF InsertToList, SetPrev, SetNext, SetLast, SetFirst
<1> HIDE DEF next
<1>3. Same(SetPrev(q, i, after), q, T, C)
  BY SetFieldTypes
<1>4. Same(linked, q, T, C)
  BY <1>1, <1>3, SetFieldTypes DEF Same
<1> HIDE DEF linked
<1>5. Same(behind, q, T, C)
  BY <1>4, SetFieldTypes, SetEndTypes DEF Same
<1> HIDE DEF behind
<1>6. QED
  BY <1>1, <1>2, <1>5, SetFieldTypes, SetEndTypes DEF Same

LEMMA FreeType ==
    ASSUME NEW T, NEW C, NEW q, IsQueue(q, T, C), NEW i \in DOMAIN q.pool
    PROVE  Same(Free(q, i), q, T, C)
<1> DEFINE idle == SetFree(q, i)
           linked == SetNext(idle, i, q.free)
<1>1. Free(q, i) = SetFreeList(linked, i)
  BY DEF Free, SetFree, SetNext, SetFreeList
<1>2. Same(idle, q, T, C)
  BY SetFieldTypes
<1> HIDE DEF idle
<1>3. Same(linked, q, T, C)
  BY <1>2, LinksAreIDs, SetFieldTypes DEF Same
<1> HIDE DEF linked
<1>4. QED
  BY <1>1, <1>3, SetEndTypes DEF Same

LEMMA DeleteMessageType ==
    ASSUME NEW T, NEW C, NEW q, IsQueue(q, T, C), NEW i \in DOMAIN q.pool
    PROVE  Same(DeleteMessage(q, i), q, T, C)
<1>1. Same(Signal(q, q.first = i), q, T, C)
  BY SignalType
<1>2. Same(RemoveFromList(Signal(q, q.first = i), i), q, T, C)
  BY <1>1, RemoveType DEF Same
<1>3. Same(Free(RemoveFromList(Signal(q, q.first = i), i), i), q, T, C)
  BY <1>2, FreeType DEF Same
<1>4. QED
  BY <1>3 DEF DeleteMessage, Same

LEMMA KeepAliveType ==
    ASSUME NEW T, NEW C, NEW q, IsQueue(q, T, C), NEW i \in DOMAIN q.pool,
           NEW after \in KeepAlivePlaces(q, i)
    PROVE  Same(KeepAliveMessage(q, i, after), q, T, C)
<1> DEFINE out == RemoveFromList(Signal(q, q.first = i), i)
           busy == SetBusy(out, i)
<1>1. KeepAliveMessage(q, i, after) = InsertToList(busy, i, after)
  BY DEF KeepAliveMessage, SetBusy
<1>2. Same(Signal(q, q.first = i), q, T, C)
  BY SignalType
<1>3. Same(out, q, T, C)
  BY <1>2, RemoveType DEF Same
<1>4. Same(RemoveFromList(q, i), q, T, C)
  BY RemoveType
<1>5. after \in DOMAIN q.pool \cup {NoID}
  BY <1>4, LinksAreIDs DEF Same, KeepAlivePlaces
<1> HIDE DEF out
<1>6. Same(busy, q, T, C)
  BY <1>3, SetFieldTypes DEF Same
<1> HIDE DEF busy
<1>7. QED
  BY <1>1, <1>5, <1>6, InsertType DEF Same

LEMMA AllocateType ==
    ASSUME NEW T, NEW C, NEW q, IsQueue(q, T, C), NEW t \in T, NEW c \in C
    PROVE  /\ IsQueue(Allocate(q, t, c), T, C)
           /\ DOMAIN q.pool \subseteq DOMAIN Allocate(q, t, c).pool
           /\ NextID(q) \in DOMAIN Allocate(q, t, c).pool
<1> DEFINE new == [busy |-> TRUE, next |-> NoID, prev |-> NoID, ticket |-> t, cmd |-> c]
           ID == DOMAIN q.pool
           put == [q.pool EXCEPT ![q.free] = new]
<1>1. q.pool \in Seq(Entry(ID, T, C)) /\ ID = 1..Len(q.pool) /\ Len(q.pool) \in Nat
  BY DEF IsQueue
<1>2. new \in Entry(ID, T, C)
  BY DEF Entry
<1>3. CASE q.free # NoID
  <2>1. q.free \in ID
    BY <1>3, LinksAreIDs
  <2>2. /\ DOMAIN put = ID /\ put = [j \in ID |-> put[j]]
        /\ \A j \in ID : put[j] \in Entry(ID, T, C)
    <3> HIDE DEF new
    <3>1. \A j \in ID : q.pool[j] \in Entry(ID, T, C)
      BY <1>1
    <3>2. QED
      BY <1>2, <3>1
  <2> DEFINE n == q.pool[q.free].next
  <2>3. n \in ID \cup {NoID}
    BY <2>1, LinksAreIDs
  <2>4. Allocate(q, t, c) = [[q EXCEPT !.free = n] EXCEPT !.pool[q.free] = new]
    BY <1>3 DEF Allocate, NextID
  <2> HIDE DEF n, put, new
  <2>5. Same([q EXCEPT !.free = n], q, T, C) /\ [q EXCEPT !.free = n].pool = q.pool
    <3>1. Same([q EXCEPT !.free = n], q, T, C)
      BY <2>3, SetFlatTypes
    <3>2. [q EXCEPT !.free = n].pool = q.pool
      BY DEF IsQueue
    <3>3. QED
      BY <3>1, <3>2
  <2> DEFINE r == [q EXCEPT !.free = n]
  <2>6. [r EXCEPT !.pool[q.free] = new] = [r EXCEPT !.pool = put]
    BY <2>5 DEF put
  <2> HIDE DEF r
  <2>7. Same([r EXCEPT !.pool = put], r, T, C)
    BY <2>2, <2>5, SetEntry DEF Same, r
  <2>8. Same(Allocate(q, t, c), q, T, C)
    BY <2>4, <2>5, <2>6, <2>7 DEF Same, r
  <2>9. QED
    BY <1>3, <2>1, <2>8 DEF Same, NextID
<1>4. CASE q.free = NoID
  <2> DEFINE N == Len(q.pool) + 1
             longer == Append(q.pool, new)
             r == [q EXCEPT !.pool = longer]
  <2>1. Allocate(q, t, c) = r /\ NextID(q) = N
    BY <1>4 DEF Allocate, NextID
  <2>2. \A j \in ID : q.pool[j] \in Entry(1..N, T, C)
    <3>1. \A e \in Entry(ID, T, C) : e \in Entry(1..N, T, C)
      BY <1>1 DEF Entry
    <3>2. QED
      BY <1>1, <3>1
  <2>3. q.pool \in Seq(Entry(1..N, T, C))
    BY <1>1, <2>2
  <2>4. new \in Entry(1..N, T, C)
    BY DEF Entry
  <2> HIDE DEF new
  <2>5. longer \in Seq(Entry(1..N, T, C)) /\ DOMAIN longer = 1..N
    BY <2>3, <2>4, <1>1
  <2>6. q \in [pool : Seq(Entry(ID, T, C)), event : BOOLEAN,
               first : ID \cup {NoID}, last : ID \cup {NoID}, free : ID \cup {NoID}]
    BY DEF IsQueue
  <2>7. ID \subseteq 1..N /\ N \in 1..N
    BY <1>1
  <2> HIDE DEF longer, N
  <2>8. r \in [pool : Seq(Entry(1..N, T, C)), event : BOOLEAN, first : (1..N) \cup {NoID},
               last : (1..N) \cup {NoID}, free : (1..N) \cup {NoID}]
    <3> HIDE DEF ID
    <3>1. QED
      BY <2>5, <2>6, <2>7
  <2>9. DOMAIN r.pool = 1..N
    <3>1. r.pool = longer
      BY <2>6
    <3>2. QED
      BY <3>1, <2>5
  <2> HIDE DEF r
  <2>10. IsQueue(r, T, C)
    BY <2>8, <2>9 DEF IsQueue
  <2>11. QED
    BY <2>1, <2>7, <2>9, <2>10
<1>5. QED
  BY <1>3, <1>4

LEMMA AddType ==
    ASSUME NEW T, NEW C, NEW q, IsQueue(q, T, C), NEW t \in T, NEW c \in C,
           NEW after \in Places(q)
    PROVE  /\ IsQueue(AddTimeoutMessage(q, t, c, after), T, C)
           /\ DOMAIN q.pool \subseteq DOMAIN AddTimeoutMessage(q, t, c, after).pool
           /\ NextID(q) \in DOMAIN AddTimeoutMessage(q, t, c, after).pool
<1> DEFINE r == Allocate(q, t, c)
           added == InsertToList(r, NextID(q), after)
<1>1. /\ IsQueue(r, T, C) /\ DOMAIN q.pool \subseteq DOMAIN r.pool
      /\ NextID(q) \in DOMAIN r.pool
  BY AllocateType
<1>2. after \in DOMAIN r.pool \cup {NoID}
  BY <1>1, LinksAreIDs
<1>3. AddTimeoutMessage(q, t, c, after) = Signal(added, added.first = NextID(q))
  BY DEF AddTimeoutMessage
<1> HIDE DEF r
<1>4. Same(added, r, T, C)
  BY <1>1, <1>2, InsertType
<1> HIDE DEF added
<1>5. Same(Signal(added, added.first = NextID(q)), added, T, C)
  BY <1>4, SignalType DEF Same
<1>6. QED
  BY <1>1, <1>3, <1>4, <1>5 DEF Same

-----------------------------------------------------------------------------
(* Type correctness.  A thread keeps the ticket it looked up, whose slot   *)
(* was in the table, and the table never gets shorter: without that, the   *)
(* slot that Delete looks at need not exist.                               *)

SlotKnown == \A w \in Worker : workers[w] # Idle => workers[w].msg.ticket.slot \in DOMAIN table
TypeInv == TypeOK /\ SlotKnown

SlotRec == [counter : 1..Counters, sess : Started] \cup {FreeSlot}
SessionRec == [ticket : Ticket, pos : 1..NumCommands + 1, timeoutID : TimerID \cup {NoID},
               answers : Nat, ended : BOOLEAN]

LEMMA SeqMonotone ==
    ASSUME NEW S, NEW U, S \subseteq U
    PROVE  Seq(S) \subseteq Seq(U)
<1>1. \A s \in Seq(S) : s \in [1..Len(s) -> U] /\ Len(s) \in Nat
  OBVIOUS
<1>2. QED
  BY <1>1

LEMMA SeqExcept ==
    ASSUME NEW S, NEW s \in Seq(S), NEW i, NEW v, i \in DOMAIN s => v \in S
    PROVE  /\ [s EXCEPT ![i] = v] \in Seq(S) /\ DOMAIN [s EXCEPT ![i] = v] = DOMAIN s
           /\ Len([s EXCEPT ![i] = v]) = Len(s)
<1>1. s \in [1..Len(s) -> S] /\ Len(s) \in Nat /\ DOMAIN s = 1..Len(s)
  OBVIOUS
<1>2. [s EXCEPT ![i] = v] \in [1..Len(s) -> S]
  BY <1>1
<1>3. \A p \in [1..Len(s) -> S] : p \in Seq(S) /\ DOMAIN p = 1..Len(s) /\ Len(p) = Len(s)
  BY <1>1
<1>4. QED
  BY <1>1, <1>2, <1>3

(* What is typed stays so when there are more timers and more sessions. *)
LEMMA Grow ==
    ASSUME TypeOK, TimerID \subseteq TimerID', Started \subseteq Started'
    PROVE  /\ SessionRec \subseteq SessionRec' /\ SlotRec \subseteq SlotRec'
           /\ Message \subseteq Message' /\ Work \subseteq Work'
           /\ table \in Seq(SlotRec') /\ sessions \in Seq(SessionRec')
           /\ deleted \subseteq Started' /\ freed \subseteq Started'
           /\ queue \subseteq Message' /\ workers \in [Worker -> {Idle} \cup Work']
           /\ armed \in TimerID' \cup {NoID, Awake}
<1>1. SessionRec \subseteq SessionRec'
  BY DEF SessionRec
<1>2. SlotRec \subseteq SlotRec'
  BY DEF SlotRec
<1>3. Message \subseteq Message'
  BY DEF Message
<1>4. Work \subseteq Work'
  BY <1>3 DEF Work
<1>5. table \in Seq(SlotRec) /\ sessions \in Seq(SessionRec)
  BY DEF TypeOK, SlotRec, SessionRec
<1>6. table \in Seq(SlotRec') /\ sessions \in Seq(SessionRec')
  <2> HIDE DEF SlotRec, SessionRec
  <2>1. QED
    BY <1>1, <1>2, <1>5, SeqMonotone
<1>7. /\ deleted \subseteq Started' /\ freed \subseteq Started'
      /\ queue \subseteq Message' /\ armed \in TimerID' \cup {NoID, Awake}
  BY <1>3 DEF TypeOK
<1>8. workers \in [Worker -> {Idle} \cup Work']
  BY <1>4 DEF TypeOK
<1>9. QED
  BY <1>1, <1>2, <1>3, <1>4, <1>6, <1>7, <1>8

(* What a thread that is not idle holds. *)
LEMMA Holds ==
    ASSUME TypeInv, NEW w \in Worker, workers[w] # Idle
    PROVE  /\ workers[w] \in Work /\ workers[w].msg \in Message
           /\ workers[w].sess \in Started /\ workers[w].msg.ticket \in Ticket
           /\ workers[w].msg.ticket.slot \in DOMAIN table
<1>1. workers[w] \in Work
  BY DEF TypeInv, TypeOK
<1>2. QED
  BY <1>1 DEF TypeInv, SlotKnown, Work, Message

LEMMA BusyStep ==
    ASSUME NEW w, workers[w].step # "idle"
    PROVE  workers[w] # Idle
BY DEF Idle

(* The type of the state that a step leaves, part by part. *)
LEMMA TypeParts ==
    ASSUME table' \in Seq(SlotRec'), Len(table') <= Len(sessions'), Len(sessions') <= MaxSessions,
           freeIDs' \in Seq(Ticket), sessions' \in Seq(SessionRec'),
           deleted' \subseteq Started', freed' \subseteq Started', queue' \subseteq Message',
           calls' \subseteq [ticket : Ticket, cmd : Cmd, kept : 0..MaxKeepAlive],
           workers' \in [Worker -> {Idle} \cup Work'], IsQueue(timers', Ticket, Cmd),
           armed' \in TimerID' \cup {NoID, Awake}
    PROVE  TypeOK'
BY DEF TypeOK, SlotRec, SessionRec

LEMMA TypeInit == Init => TypeInv
<1> SUFFICES ASSUME Init PROVE TypeInv
  OBVIOUS
<1>1. SlotKnown
  BY DEF Init, SlotKnown
<1>2. IsQueue(timers, Ticket, Cmd)
  <2>1. timers = EmptyQueue
    BY DEF Init
  <2>2. timers.pool = <<>>
    BY <2>1 DEF EmptyQueue
  <2>3. QED
    BY <2>1, <2>2 DEF EmptyQueue, IsQueue
<1>3. workers \in [Worker -> {Idle} \cup Work]
  BY DEF Init
<1>4. MaxSessions \in Nat
  BY SessionsAssumption
<1>5. TypeOK
  BY <1>2, <1>3, <1>4 DEF Init, TypeOK
<1>6. QED
  BY <1>1, <1>5 DEF TypeInv

(* SlotKnown is kept by a thread that goes on with its message, or stops. *)
LEMMA SlotKept ==
    ASSUME TypeInv, DOMAIN table \subseteq DOMAIN table',
           \A w \in Worker : workers'[w] # Idle =>
               \/ workers[w] # Idle /\ workers'[w].msg = workers[w].msg
               \/ workers'[w].msg.ticket.slot \in DOMAIN table
    PROVE  SlotKnown'
BY DEF TypeInv, SlotKnown

LEMMA FinishType ==
    ASSUME TypeInv, NEW w \in Worker, Finish(w), Work \subseteq Work'
    PROVE  /\ workers' \in [Worker -> {Idle} \cup Work']
           /\ \A v \in Worker : workers'[v] # Idle => workers'[v] = workers[v]
BY DEF TypeInv, TypeOK, Finish

LEMMA ToDeleteType ==
    ASSUME TypeInv, NEW w \in Worker, ToDelete(w), workers[w] # Idle, Work \subseteq Work'
    PROVE  /\ workers' \in [Worker -> {Idle} \cup Work']
           /\ \A v \in Worker : workers'[v] # Idle => workers[v] # Idle /\ workers'[v].msg = workers[v].msg
<1>1. workers[w] \in Work
  BY Holds
<1>2. [workers[w] EXCEPT !.step = "delete"] \in Work /\ [workers[w] EXCEPT !.step = "delete"].msg = workers[w].msg
  BY <1>1 DEF Work
<1>3. workers' = [workers EXCEPT ![w] = [workers[w] EXCEPT !.step = "delete"]]
  BY DEF ToDelete, TypeInv, TypeOK
<1> DEFINE new == [workers[w] EXCEPT !.step = "delete"]
<1> HIDE DEF new
<1>4. QED
  BY <1>2, <1>3 DEF TypeInv, TypeOK, new

LEMMA SendCommandType ==
    ASSUME NEW q, IsQueue(q, Ticket, Cmd), NEW t \in Ticket, NEW cmd \in Cmd, TypeOK,
           SendCommand(q, t, cmd)
    PROVE  /\ IsQueue(timers', Ticket, Cmd) /\ DOMAIN q.pool \subseteq TimerID'
           /\ NextID(q) \in TimerID'
           /\ calls' \subseteq [ticket : Ticket, cmd : Cmd, kept : 0..MaxKeepAlive]
<1>1. PICK after \in Places(q) : timers' = AddTimeoutMessage(q, t, cmd, after)
  BY DEF SendCommand
<1>2. calls' \subseteq [ticket : Ticket, cmd : Cmd, kept : 0..MaxKeepAlive]
  <2>1. calls' = calls \cup {[ticket |-> t, cmd |-> cmd, kept |-> 0]}
    BY DEF SendCommand
  <2>2. 0 \in 0..MaxKeepAlive
    BY SessionsAssumption
  <2>3. QED
    BY <2>1, <2>2 DEF TypeOK
<1>3. QED
  BY <1>1, <1>2, AddType DEF TimerID

LEMMA TicketForInsertType ==
    ASSUME TypeOK, Len(sessions) < MaxSessions
    PROVE  TicketForInsert \in Ticket
<1>1. CASE freeIDs # <<>>
  <2>1. freeIDs[Len(freeIDs)] \in Ticket
    BY <1>1 DEF TypeOK
  <2>2. \A t \in Ticket : NextTicket(t) \in Ticket
    <3>1. ASSUME NEW c \in Nat PROVE (c % Counters) + 1 \in 1..Counters
      BY SessionsAssumption
    <3>2. QED
      BY <3>1, SessionsAssumption DEF Ticket, NextTicket
  <2>3. QED
    BY <1>1, <2>1, <2>2 DEF TicketForInsert
<1>2. CASE freeIDs = <<>>
  <2>1. Len(table) + 1 \in 1..MaxSessions
    BY SessionsAssumption DEF TypeOK
  <2>2. 1 \in 1..Counters
    BY SessionsAssumption
  <2>3. QED
    BY <1>2, <2>1, <2>2 DEF TicketForInsert, Ticket
<1>3. QED
  BY <1>1, <1>2

LEMMA TypeStartSession == TypeInv /\ StartSession => TypeInv'
<1> SUFFICES ASSUME TypeInv, StartSession PROVE TypeInv'
  OBVIOUS
<1> DEFINE t == TicketForInsert
           n == Len(sessions) + 1
           new == [ticket |-> t, pos |-> 1, timeoutID |-> NextID(timers),
                   answers |-> 0, ended |-> FALSE]
           entry == [counter |-> t.counter, sess |-> n]
<1>0. TypeOK /\ Len(sessions) < MaxSessions
  BY DEF TypeInv, StartSession
<1>1. t \in Ticket
  BY <1>0, TicketForInsertType
<1>2. 1 \in Cmd /\ 1 \in 1..NumCommands + 1
  BY SessionsAssumption DEF Cmd
<1>3. /\ IsQueue(timers', Ticket, Cmd) /\ TimerID \subseteq TimerID' /\ NextID(timers) \in TimerID'
      /\ calls' \subseteq [ticket : Ticket, cmd : Cmd, kept : 0..MaxKeepAlive]
  <2>1. SendCommand(timers, t, 1)
    BY DEF StartSession
  <2>2. IsQueue(timers, Ticket, Cmd)
    BY <1>0 DEF TypeOK
  <2> HIDE DEF t
  <2>3. QED
    BY <1>0, <1>1, <1>2, <2>1, <2>2, SendCommandType DEF TimerID
<1>4. sessions' = Append(sessions, new)
  BY DEF StartSession
<1>5. sessions \in Seq(SessionRec)
  BY <1>0 DEF TypeOK, SessionRec
<1>6. DOMAIN sessions = 1..Len(sessions) /\ Len(sessions) \in Nat
  BY <1>5
<1>7. /\ Started' = 1..n /\ Len(sessions') = n /\ n <= MaxSessions /\ n \in Started'
      /\ Started \subseteq Started'
  <2> HIDE DEF new
  <2>1. QED
    BY <1>0, <1>4, <1>5, <1>6, SessionsAssumption DEF Started
<1>8. new \in SessionRec'
  <2>1. 0 \in Nat
    OBVIOUS
  <2> HIDE DEF t
  <2>2. QED
    BY <1>1, <1>2, <1>3, <2>1 DEF SessionRec
<1>9. /\ table \in Seq(SlotRec') /\ sessions \in Seq(SessionRec')
      /\ deleted \subseteq Started' /\ freed \subseteq Started'
      /\ queue \subseteq Message' /\ workers \in [Worker -> {Idle} \cup Work']
      /\ armed \in TimerID' \cup {NoID, Awake}
  BY <1>0, <1>3, <1>7, Grow
<1>10. entry \in SlotRec'
  <2>1. t.counter \in 1..Counters
    BY <1>1 DEF Ticket
  <2> HIDE DEF t, n
  <2>2. QED
    BY <1>7, <2>1 DEF SlotRec
<1>11. sessions' \in Seq(SessionRec')
  <2> HIDE DEF new
  <2>1. QED
    BY <1>4, <1>8, <1>9
<1>12. InsertSession(n)
  BY DEF StartSession
<1>13. /\ table' \in Seq(SlotRec') /\ Len(table') <= n /\ freeIDs' \in Seq(Ticket)
       /\ DOMAIN table \subseteq DOMAIN table'
  <2>1. freeIDs \in Seq(Ticket) /\ Len(table) <= Len(sessions) /\ Len(table) \in Nat
    BY <1>0 DEF TypeOK
  <2>2. CASE freeIDs # <<>>
    <3>1. table' = [table EXCEPT ![t.slot] = entry]
      BY <1>12, <2>2 DEF InsertSession
    <3>2. freeIDs' = SubSeq(freeIDs, 1, Len(freeIDs) - 1)
      BY <1>12, <2>2 DEF InsertSession
    <3>3. freeIDs' \in Seq(Ticket)
      BY <2>1, <2>2, <3>2
    <3> HIDE DEF entry, t
    <3>4. QED
      BY <1>6, <1>9, <1>10, <2>1, <3>1, <3>3, SeqExcept
  <2>3. CASE freeIDs = <<>>
    <3>1. table' = Append(table, entry) /\ freeIDs' = freeIDs
      BY <1>12, <2>3 DEF InsertSession
    <3> HIDE DEF entry, t
    <3>2. QED
      BY <1>6, <1>9, <1>10, <2>1, <3>1
  <2>4. QED
    BY <2>2, <2>3
<1>14. UNCHANGED <<deleted, freed, queue, workers, armed>>
  BY DEF StartSession
<1>15. TypeOK'
  <2> HIDE DEF n, t, entry, new
  <2>1. QED
    BY <1>3, <1>7, <1>9, <1>11, <1>13, <1>14, TypeParts
<1>16. SlotKnown'
  BY <1>13, <1>14, SlotKept
<1>17. QED
  BY <1>15, <1>16 DEF TypeInv

LEMMA TypeAnswer == TypeInv /\ Answer => TypeInv'
<1> SUFFICES ASSUME TypeInv, Answer PROVE TypeInv'
  OBVIOUS
<1>1. UNCHANGED <<table, freeIDs, sessions, deleted, freed, workers, timers, armed>>
  BY DEF Answer
<1>2. TypeOK
  BY DEF TypeInv
<1>3. TimerID' = TimerID /\ Started' = Started
  BY <1>1 DEF TimerID, Started
<1>4. PICK c \in calls, type \in {"reply", "error"} :
          calls' = calls \ {c} /\ queue' = queue \cup {Reply(c.ticket, type, c.cmd)}
  BY DEF Answer
<1>5. c.ticket \in Ticket /\ c.cmd \in Cmd
  BY <1>2, <1>4 DEF TypeOK
<1>6. Reply(c.ticket, type, c.cmd) \in Message
  BY <1>5 DEF Reply, Message
<1>7. queue' \subseteq Message' /\ calls' \subseteq [ticket : Ticket, cmd : Cmd, kept : 0..MaxKeepAlive]
  BY <1>2, <1>3, <1>4, <1>6 DEF TypeOK, Message
<1>8. TypeOK'
  BY <1>1, <1>2, <1>3, <1>7 DEF TypeOK, Work, Message, TimerID, Started
<1>9. SlotKnown'
  BY <1>1, SlotKept
<1>10. QED
  BY <1>8, <1>9 DEF TypeInv

LEMMA TypeKeepAlive == TypeInv /\ KeepAlive => TypeInv'
<1> SUFFICES ASSUME TypeInv, KeepAlive PROVE TypeInv'
  OBVIOUS
<1>1. UNCHANGED <<table, freeIDs, sessions, deleted, freed, workers, timers, armed>>
  BY DEF KeepAlive
<1>2. TypeOK
  BY DEF TypeInv
<1>3. TimerID' = TimerID /\ Started' = Started
  BY <1>1 DEF TimerID, Started
<1>4. PICK c \in calls :
          /\ c.kept < MaxKeepAlive
          /\ calls' = (calls \ {c}) \cup {[c EXCEPT !.kept = @ + 1]}
          /\ queue' = queue \cup {Reply(c.ticket, "keepAlive", c.cmd)}
  BY DEF KeepAlive
<1>5. c \in [ticket : Ticket, cmd : Cmd, kept : 0..MaxKeepAlive]
  BY <1>2, <1>4 DEF TypeOK
<1>6. Reply(c.ticket, "keepAlive", c.cmd) \in Message
  BY <1>5 DEF Reply, Message
<1>7. [c EXCEPT !.kept = @ + 1] \in [ticket : Ticket, cmd : Cmd, kept : 0..MaxKeepAlive]
  BY <1>4, <1>5, SessionsAssumption
<1>8. queue' \subseteq Message' /\ calls' \subseteq [ticket : Ticket, cmd : Cmd, kept : 0..MaxKeepAlive]
  BY <1>2, <1>3, <1>4, <1>6, <1>7 DEF TypeOK, Message
<1>9. TypeOK'
  BY <1>1, <1>2, <1>3, <1>8 DEF TypeOK, Work, Message, TimerID, Started
<1>10. SlotKnown'
  BY <1>1, SlotKept
<1>11. QED
  BY <1>9, <1>10 DEF TypeInv

LEMMA TypeTake ==
    ASSUME TypeInv, NEW w \in Worker, Take(w)
    PROVE  TypeInv'
<1>1. UNCHANGED <<table, freeIDs, sessions, deleted, freed, calls, timers, armed>>
  BY DEF Take
<1>2. TypeOK
  BY DEF TypeInv
<1>3. PICK m \in queue :
          /\ queue' = queue \ {m}
          /\ workers' = IF IsValid(m.ticket)
                        THEN [workers EXCEPT ![w] = [step |-> "process", msg |-> m,
                                                     sess |-> table[m.ticket.slot].sess]]
                        ELSE workers
  BY DEF Take
<1>4. m \in Message /\ m.ticket \in Ticket /\ m.ticket.counter \in 1..Counters
  BY <1>2 DEF TypeOK, Message, Ticket
<1> DEFINE new == [step |-> "process", msg |-> m, sess |-> table[m.ticket.slot].sess]
<1>5. ASSUME IsValid(m.ticket) PROVE m.ticket.slot \in DOMAIN table /\ table[m.ticket.slot].sess \in Started
  <2>1. m.ticket.slot \in DOMAIN table /\ table[m.ticket.slot].counter # 0
    BY <1>4, <1>5, SessionsAssumption DEF IsValid
  <2>2. table[m.ticket.slot] \in SlotRec
    BY <1>2, <2>1 DEF TypeOK, SlotRec
  <2>3. QED
    BY <2>1, <2>2 DEF SlotRec, FreeSlot
<1>6. IsValid(m.ticket) => new \in Work
  BY <1>4, <1>5 DEF Work
<1>7. workers' \in [Worker -> {Idle} \cup Work]
  BY <1>2, <1>3, <1>6 DEF TypeOK
<1>8. TypeOK'
  BY <1>1, <1>2, <1>3, <1>7 DEF TypeOK, Work, Message, TimerID, Started
<1>9. SlotKnown'
  <2>1. \A v \in Worker : workers'[v] # Idle =>
               \/ workers[v] # Idle /\ workers'[v].msg = workers[v].msg
               \/ workers'[v].msg.ticket.slot \in DOMAIN table
    BY <1>2, <1>3, <1>5 DEF TypeOK
  <2>2. QED
    BY <1>1, <2>1, SlotKept
<1>10. QED
  BY <1>8, <1>9 DEF TypeInv

LEMMA SessionOf ==
    ASSUME TypeOK, NEW s \in Started
    PROVE  /\ sessions \in Seq(SessionRec) /\ sessions[s] \in SessionRec
           /\ sessions[s].timeoutID \in TimerID \cup {NoID} /\ sessions[s].ticket \in Ticket
           /\ sessions[s].pos \in 1..NumCommands + 1 /\ sessions[s].answers \in Nat
<1>1. sessions \in Seq(SessionRec)
  BY DEF TypeOK, SessionRec
<1>2. sessions[s] \in SessionRec
  <2> HIDE DEF SessionRec
  <2>1. QED
    BY <1>1 DEF Started
<1>3. QED
  BY <1>1, <1>2 DEF SessionRec

LEMMA TypeProcessKeepAlive ==
    ASSUME TypeInv, NEW w \in Worker, ProcessKeepAlive(w)
    PROVE  TypeInv'
<1> DEFINE s == workers[w].sess
           i == sessions[s].timeoutID
<1>1. UNCHANGED <<table, freeIDs, sessions, deleted, freed, queue, calls, armed>> /\ Finish(w)
  BY DEF ProcessKeepAlive
<1>2. TypeOK
  BY DEF TypeInv
<1>3. s \in Started
  BY Holds, BusyStep DEF ProcessKeepAlive
<1>4. i \in TimerID \cup {NoID}
  BY <1>2, <1>3, SessionOf
<1>5. IsQueue(timers', Ticket, Cmd) /\ TimerID' = TimerID
  <2>1. IsQueue(timers, Ticket, Cmd)
    BY <1>2 DEF TypeOK
  <2>2. CASE i = NoID
    BY <2>1, <2>2 DEF ProcessKeepAlive, TimerID
  <2>3. CASE i # NoID
    <3>1. PICK after \in KeepAlivePlaces(timers, i) : timers' = KeepAliveMessage(timers, i, after)
      BY <2>3 DEF ProcessKeepAlive
    <3> HIDE DEF i
    <3>2. QED
      BY <1>4, <2>1, <2>3, <3>1, KeepAliveType DEF TimerID, Same
  <2>4. QED
    BY <2>2, <2>3
<1>6. Started' = Started
  BY <1>1 DEF Started
<1>7. /\ workers' \in [Worker -> {Idle} \cup Work']
      /\ \A v \in Worker : workers'[v] # Idle => workers'[v] = workers[v]
  <2>1. Work' = Work
    BY <1>5, <1>6 DEF Work, Message
  <2>2. QED
    BY <1>1, <2>1, FinishType
<1>8. TypeOK'
  BY <1>1, <1>2, <1>5, <1>6, <1>7 DEF TypeOK, Message
<1>9. SlotKnown'
  BY <1>1, <1>7, SlotKept
<1>10. QED
  BY <1>8, <1>9 DEF TypeInv

(* The session of a thread after its fields have been assigned. *)
LEMMA SessionExcept ==
    ASSUME sessions \in Seq(SessionRec'), NEW s \in Started, NEW r \in SessionRec',
           sessions' = [sessions EXCEPT ![s] = r]
    PROVE  sessions' \in Seq(SessionRec') /\ Started' = Started /\ Len(sessions') = Len(sessions)
BY SeqExcept DEF Started

LEMMA AnswerClientType ==
    ASSUME TypeInv, NEW w \in Worker, workers[w] # Idle, AnswerClient(w, workers[w].sess),
           TimerID' = TimerID
    PROVE  /\ sessions' \in Seq(SessionRec') /\ Started' = Started /\ Len(sessions') = Len(sessions)
           /\ workers' \in [Worker -> {Idle} \cup Work']
           /\ \A v \in Worker : workers'[v] # Idle =>
                  workers[v] # Idle /\ workers'[v].msg = workers[v].msg
<1> DEFINE s == workers[w].sess
           r == [sessions[s] EXCEPT !.timeoutID = NoID, !.answers = @ + 1]
<1>1. s \in Started
  BY Holds
<1>2. sessions[s] \in SessionRec /\ sessions \in Seq(SessionRec)
  BY <1>1, SessionOf DEF TypeInv
<1>3. SessionRec' = SessionRec
  BY DEF SessionRec
<1>4. r \in SessionRec
  <2>1. ASSUME NEW x \in SessionRec
        PROVE  [x EXCEPT !.timeoutID = NoID, !.answers = @ + 1] \in SessionRec
    <3>1. x.answers + 1 \in Nat
      BY DEF SessionRec
    <3> DEFINE n == x.answers + 1
    <3> HIDE DEF n
    <3>2. [x EXCEPT !.timeoutID = NoID, !.answers = n] \in SessionRec
      BY <3>1 DEF SessionRec, n
    <3>3. QED
      BY <3>2 DEF n
  <2> HIDE DEF s
  <2>2. QED
    BY <1>2, <2>1
<1>5. sessions' = [sessions EXCEPT ![s] = r]
  <2> HIDE DEF s
  <2>1. sessions' = [sessions EXCEPT ![s].timeoutID = NoID, ![s].answers = @ + 1]
    BY DEF AnswerClient, s
  <2>2. QED
    BY <1>1, <1>2, <2>1 DEF Started
<1>6. sessions' \in Seq(SessionRec') /\ Started' = Started /\ Len(sessions') = Len(sessions)
  <2> HIDE DEF s, r
  <2>1. QED
    BY <1>1, <1>2, <1>3, <1>4, <1>5, SessionExcept
<1>7. Work' = Work
  BY <1>6 DEF Work, Message
<1>8. ToDelete(w)
  BY DEF AnswerClient
<1>9. QED
  BY <1>6, <1>7, <1>8, ToDeleteType

LEMMA TypeProcessTimeout ==
    ASSUME TypeInv, NEW w \in Worker, ProcessTimeout(w)
    PROVE  TypeInv'
<1>1. UNCHANGED <<table, freeIDs, deleted, freed, queue, timers, armed>>
  BY DEF ProcessTimeout
<1>2. TypeOK /\ TimerID' = TimerID
  BY <1>1 DEF TypeInv, TimerID
<1>3. workers[w] # Idle
  BY BusyStep DEF ProcessTimeout
<1>4. CASE AnswerClient(w, workers[w].sess)
  <2>1. calls' = calls
    BY <1>4 DEF AnswerClient
  <2>2. /\ sessions' \in Seq(SessionRec') /\ Started' = Started /\ Len(sessions') = Len(sessions)
        /\ workers' \in [Worker -> {Idle} \cup Work']
        /\ \A v \in Worker : workers'[v] # Idle =>
                  workers[v] # Idle /\ workers'[v].msg = workers[v].msg
    BY <1>2, <1>3, <1>4, AnswerClientType
  <2>3. TypeOK'
    BY <1>1, <1>2, <2>1, <2>2, TypeParts DEF TypeOK, Message, SlotRec
  <2>4. SlotKnown'
    BY <1>1, <2>2, SlotKept
  <2>5. QED
    BY <2>3, <2>4 DEF TypeInv
<1>5. CASE Finish(w) /\ UNCHANGED <<sessions, calls>>
  <2>1. Started' = Started
    BY <1>5 DEF Started
  <2>2. Work' = Work
    BY <1>2, <2>1 DEF Work, Message
  <2>3. /\ workers' \in [Worker -> {Idle} \cup Work']
        /\ \A v \in Worker : workers'[v] # Idle => workers'[v] = workers[v]
    BY <1>5, <2>2, FinishType
  <2>4. TypeOK'
    BY <1>1, <1>2, <1>5, <2>1, <2>3 DEF TypeOK, Message
  <2>5. SlotKnown'
    BY <1>1, <2>3, SlotKept
  <2>6. QED
    BY <2>4, <2>5 DEF TypeInv
<1>6. QED
  BY <1>4, <1>5 DEF ProcessTimeout

LEMMA TimeoutDeletedType ==
    ASSUME TypeOK, NEW s \in Started
    PROVE  IsQueue(TimeoutDeleted(s), Ticket, Cmd) /\ DOMAIN TimeoutDeleted(s).pool = TimerID
<1>1. sessions[s].timeoutID \in TimerID \cup {NoID}
  BY SessionOf
<1>2. IsQueue(timers, Ticket, Cmd)
  BY DEF TypeOK
<1> DEFINE i == sessions[s].timeoutID
<1>3. TimeoutDeleted(s) = IF i = NoID THEN timers ELSE DeleteMessage(timers, i)
  BY DEF TimeoutDeleted
<1>4. i \in TimerID \cup {NoID}
  BY <1>1
<1> HIDE DEF i
<1>5. QED
  BY <1>2, <1>3, <1>4, DeleteMessageType DEF TimerID, Same

(* What NextCommand and Complete leave: a thread that is idle or deletes. *)
Processed(w) ==
    /\ sessions' \in Seq(SessionRec') /\ Started' = Started /\ Len(sessions') = Len(sessions)
    /\ IsQueue(timers', Ticket, Cmd) /\ TimerID \subseteq TimerID'
    /\ calls' \subseteq [ticket : Ticket, cmd : Cmd, kept : 0..MaxKeepAlive]
    /\ workers' \in [Worker -> {Idle} \cup Work']
    /\ \A v \in Worker : workers'[v] # Idle =>
            workers[v] # Idle /\ workers'[v].msg = workers[v].msg

LEMMA NextCommandType ==
    ASSUME TypeInv, NEW w \in Worker, workers[w] # Idle, NEW s \in Started,
           sessions[s].pos < NumCommands, NextCommand(w, s)
    PROVE  Processed(w)
<1> DEFINE q == TimeoutDeleted(s)
           p == sessions[s].pos + 1
           n == NextID(q)
           r == [sessions[s] EXCEPT !.pos = p, !.timeoutID = n]
<1>1. TypeOK /\ IsQueue(q, Ticket, Cmd) /\ DOMAIN q.pool = TimerID
  BY TimeoutDeletedType DEF TypeInv
<1>2. /\ sessions \in Seq(SessionRec) /\ sessions[s] \in SessionRec /\ sessions[s].ticket \in Ticket
      /\ sessions[s].pos \in 1..NumCommands + 1
  BY <1>1, SessionOf
<1>3. p \in Cmd /\ p \in 1..NumCommands + 1
  BY <1>2, SessionsAssumption DEF Cmd
<1>4. SendCommand(q, sessions[s].ticket, p) /\ Finish(w)
  BY DEF NextCommand
<1> HIDE DEF q, p
<1>5. /\ IsQueue(timers', Ticket, Cmd) /\ TimerID \subseteq TimerID' /\ n \in TimerID'
      /\ calls' \subseteq [ticket : Ticket, cmd : Cmd, kept : 0..MaxKeepAlive]
  BY <1>1, <1>2, <1>3, <1>4, SendCommandType
<1>6. sessions' = [sessions EXCEPT ![s] = r]
  <2>1. sessions' = [sessions EXCEPT ![s].pos = p, ![s].timeoutID = n]
    BY DEF NextCommand, q, p
  <2>2. QED
    BY <1>2, <2>1 DEF Started
<1> HIDE DEF n
<1>7. r \in SessionRec'
  BY <1>2, <1>3, <1>5 DEF SessionRec
<1>8. Len(sessions') = Len(sessions) /\ Started' = Started
  <2> HIDE DEF r
  <2>1. QED
    BY <1>2, <1>6, SeqExcept DEF Started
<1>9. sessions \in Seq(SessionRec') /\ Work \subseteq Work'
  BY <1>1, <1>5, <1>8, Grow
<1>10. sessions' \in Seq(SessionRec')
  <2> HIDE DEF r
  <2>1. QED
    BY <1>6, <1>7, <1>9, SeqExcept
<1>11. /\ workers' \in [Worker -> {Idle} \cup Work']
       /\ \A v \in Worker : workers'[v] # Idle => workers'[v] = workers[v]
  BY <1>4, <1>9, FinishType
<1>12. QED
  BY <1>5, <1>8, <1>10, <1>11 DEF Processed

LEMMA CompleteType ==
    ASSUME TypeInv, NEW w \in Worker, workers[w] # Idle, NEW s \in Started, Complete(w, s)
    PROVE  Processed(w)
<1> DEFINE r == [sessions[s] EXCEPT !.pos = NumCommands + 1, !.timeoutID = NoID, !.answers = @ + 1]
<1>1. TypeOK /\ IsQueue(timers', Ticket, Cmd) /\ TimerID' = TimerID /\ calls' = calls
  BY TimeoutDeletedType DEF TypeInv, Complete, TimerID
<1>2. /\ sessions \in Seq(SessionRec) /\ sessions[s] \in SessionRec /\ sessions[s].answers \in Nat
  BY <1>1, SessionOf
<1>3. sessions' = [sessions EXCEPT ![s] = r]
  BY <1>2 DEF Complete, Started
<1>4. r \in SessionRec
  <2> DEFINE n == sessions[s].answers + 1
             z == sessions[s]
  <2>1. n \in Nat /\ NumCommands + 1 \in 1..NumCommands + 1
    BY <1>2, SessionsAssumption
  <2> HIDE DEF n
  <2>2. [z EXCEPT !.pos = NumCommands + 1, !.timeoutID = NoID, !.answers = n] \in SessionRec
    BY <1>2, <2>1 DEF SessionRec
  <2>3. QED
    BY <2>2 DEF n
<1>5. Len(sessions') = Len(sessions) /\ Started' = Started /\ sessions' \in Seq(SessionRec)
  <2> HIDE DEF r
  <2>1. QED
    BY <1>2, <1>3, <1>4, SeqExcept DEF Started
<1>6. SessionRec' = SessionRec /\ Work' = Work
  BY <1>1, <1>5 DEF SessionRec, Work, Message
<1>7. ToDelete(w)
  BY DEF Complete
<1>8. /\ workers' \in [Worker -> {Idle} \cup Work']
      /\ \A v \in Worker : workers'[v] # Idle => workers[v] # Idle /\ workers'[v].msg = workers[v].msg
  BY <1>6, <1>7, ToDeleteType
<1>9. QED
  BY <1>1, <1>5, <1>6, <1>8 DEF Processed, TypeOK

LEMMA TypeProcessMessage ==
    ASSUME TypeInv, NEW w \in Worker, ProcessMessage(w)
    PROVE  TypeInv'
<1> DEFINE s == workers[w].sess
<1>1. UNCHANGED <<table, freeIDs, deleted, freed, queue, armed>>
  BY DEF ProcessMessage
<1>2. TypeOK /\ workers[w] # Idle
  BY BusyStep DEF TypeInv, ProcessMessage
<1>3. s \in Started
  BY <1>2, Holds
<1>4. Processed(w)
  <2>1. CASE AnswerClient(w, s) /\ timers' = TimeoutDeleted(s)
    <3>1. IsQueue(timers', Ticket, Cmd) /\ TimerID' = TimerID /\ calls' = calls
      BY <1>2, <1>3, <2>1, TimeoutDeletedType DEF AnswerClient, TimerID
    <3>2. QED
      BY <1>2, <2>1, <3>1, AnswerClientType DEF Processed, TypeOK
  <2>2. CASE sessions[s].pos < NumCommands /\ NextCommand(w, s)
    BY <1>2, <1>3, <2>2, NextCommandType
  <2>3. CASE Complete(w, s)
    BY <1>2, <1>3, <2>3, CompleteType
  <2>4. CASE Finish(w) /\ UNCHANGED <<sessions, calls, timers>>
    <3>1. Started' = Started /\ TimerID' = TimerID
      BY <2>4 DEF Started, TimerID
    <3>2. sessions \in Seq(SessionRec') /\ Work \subseteq Work'
      BY <1>2, <3>1, Grow
    <3>3. /\ workers' \in [Worker -> {Idle} \cup Work']
          /\ \A v \in Worker : workers'[v] # Idle => workers'[v] = workers[v]
      BY <2>4, <3>2, FinishType
    <3>4. QED
      BY <1>2, <2>4, <3>1, <3>2, <3>3 DEF Processed, TypeOK
  <2>5. QED
    BY <2>1, <2>2, <2>3, <2>4 DEF ProcessMessage, PastTheEnd
<1>5. TypeOK'
  <2>1. /\ table \in Seq(SlotRec') /\ deleted \subseteq Started' /\ freed \subseteq Started'
        /\ queue \subseteq Message' /\ armed \in TimerID' \cup {NoID, Awake}
    BY <1>2, <1>4, Grow DEF Processed
  <2>2. /\ Len(table) <= Len(sessions) /\ Len(sessions) <= MaxSessions /\ freeIDs \in Seq(Ticket)
    BY <1>2 DEF TypeOK
  <2>3. QED
    BY <1>1, <1>4, <2>1, <2>2, TypeParts DEF Processed
<1>6. SlotKnown'
  BY <1>1, <1>4, SlotKept DEF Processed
<1>7. QED
  BY <1>5, <1>6 DEF TypeInv

LEMMA TypeDelete ==
    ASSUME TypeInv, NEW w \in Worker, Delete(w)
    PROVE  TypeInv'
<1> DEFINE t == workers[w].msg.ticket
           s == table[t.slot].sess
<1>1. UNCHANGED <<freed, queue, calls, timers, armed>> /\ Finish(w)
  BY DEF Delete
<1>2. TypeOK /\ TimerID' = TimerID
  BY <1>1 DEF TypeInv, TimerID
<1>3. t \in Ticket /\ t.slot \in DOMAIN table
  BY Holds, BusyStep DEF Delete
<1>4. table \in Seq(SlotRec) /\ table[t.slot] \in SlotRec
  <2>1. table \in Seq(SlotRec)
    BY <1>2 DEF TypeOK, SlotRec
  <2> HIDE DEF t, SlotRec
  <2>2. QED
    BY <1>3, <2>1
<1>5. s \in Started \cup {NoSession}
  BY <1>4 DEF SlotRec, FreeSlot
<1>6. /\ sessions' \in Seq(SessionRec) /\ Started' = Started /\ Len(sessions') = Len(sessions)
      /\ deleted' \subseteq Started
  <2>1. sessions \in Seq(SessionRec) /\ deleted \subseteq Started
    BY <1>2 DEF TypeOK, SessionRec
  <2>2. CASE s = NoSession
    <3>1. sessions' = sessions /\ deleted' = deleted
      BY <2>2 DEF Delete
    <3>2. QED
      BY <2>1, <3>1 DEF Started
  <2>3. CASE s # NoSession
    <3>1. sessions' = [sessions EXCEPT ![s].ended = TRUE] /\ deleted' = deleted \cup {s}
      BY <2>3 DEF Delete
    <3>2. s \in Started
      BY <1>5, <2>3
    <3> HIDE DEF s
    <3> DEFINE r == [sessions[s] EXCEPT !.ended = TRUE]
    <3>3. r \in SessionRec
      <4>1. sessions[s] \in SessionRec
        BY <1>2, <3>2, SessionOf
      <4>2. QED
        BY <4>1 DEF SessionRec
    <3>4. sessions' = [sessions EXCEPT ![s] = r]
      BY <3>1
    <3> HIDE DEF r
    <3>5. /\ sessions' \in Seq(SessionRec) /\ DOMAIN sessions' = DOMAIN sessions
          /\ Len(sessions') = Len(sessions)
      BY <2>1, <3>3, <3>4, SeqExcept
    <3>6. QED
      BY <2>1, <3>1, <3>2, <3>5 DEF Started
  <2>4. QED
    BY <2>2, <2>3
<1>7. table' \in Seq(SlotRec) /\ Len(table') = Len(table) /\ DOMAIN table' = DOMAIN table /\ freeIDs' \in Seq(Ticket)
  <2>1. freeIDs \in Seq(Ticket)
    BY <1>2 DEF TypeOK
  <2>2. CASE table' = [table EXCEPT ![t.slot] = FreeSlot] /\ freeIDs' = Append(freeIDs, t)
    <3>1. FreeSlot \in SlotRec
      BY DEF SlotRec
    <3> HIDE DEF t, SlotRec
    <3>2. QED
      BY <1>3, <1>4, <2>1, <2>2, <3>1, SeqExcept
  <2>3. CASE table' = table /\ freeIDs' = freeIDs
    BY <1>4, <2>1, <2>3
  <2>4. QED
    BY <2>2, <2>3 DEF Delete
<1>8. SlotRec' = SlotRec /\ SessionRec' = SessionRec /\ Message' = Message /\ Work' = Work
  BY <1>2, <1>6 DEF SlotRec, SessionRec, Message, Work
<1>9. /\ workers' \in [Worker -> {Idle} \cup Work']
      /\ \A v \in Worker : workers'[v] # Idle => workers'[v] = workers[v]
  BY <1>1, <1>8, FinishType
<1>10. TypeOK'
  <2>1. /\ Len(table) <= Len(sessions) /\ Len(sessions) <= MaxSessions /\ freed \subseteq Started
        /\ queue \subseteq Message /\ IsQueue(timers, Ticket, Cmd)
        /\ calls \subseteq [ticket : Ticket, cmd : Cmd, kept : 0..MaxKeepAlive]
        /\ armed \in TimerID \cup {NoID, Awake}
    BY <1>2 DEF TypeOK
  <2> HIDE DEF s, t
  <2>2. QED
    BY <1>1, <1>2, <1>6, <1>7, <1>8, <1>9, <2>1, TypeParts
<1>11. SlotKnown'
  BY <1>7, <1>9, SlotKept
<1>12. QED
  BY <1>10, <1>11 DEF TypeInv

LEMMA TypeMark == TypeInv /\ Mark => TypeInv'
<1> SUFFICES ASSUME TypeInv, Mark PROVE TypeInv'
  OBVIOUS
<1>1. UNCHANGED <<table, freeIDs, sessions, queue, calls, workers, timers, armed>>
  BY DEF Mark
<1>2. deleted' \subseteq Started' /\ freed' \subseteq Started' /\ Started' = Started /\ TimerID' = TimerID
  BY <1>1 DEF TypeInv, TypeOK, Mark, Started, TimerID
<1>3. TypeOK'
  BY <1>1, <1>2 DEF TypeInv, TypeOK, Work, Message
<1>4. SlotKnown'
  BY <1>1, SlotKept
<1>5. QED
  BY <1>3, <1>4 DEF TypeInv

LEMMA TypeEvent == TypeInv /\ (Arm \/ Wake \/ Fire) => TypeInv'
<1> SUFFICES ASSUME TypeInv, Arm \/ Wake \/ Fire PROVE TypeInv'
  OBVIOUS
<1>1. UNCHANGED <<table, freeIDs, sessions, deleted, freed, calls, workers>>
  BY DEF Arm, Wake, Fire
<1>2. TypeOK /\ IsQueue(timers, Ticket, Cmd) /\ timers.first \in TimerID \cup {NoID}
  BY LinksAreIDs DEF TypeInv, TypeOK, TimerID
<1>3. /\ IsQueue(timers', Ticket, Cmd) /\ TimerID' = TimerID /\ queue' \subseteq Message
      /\ armed' \in TimerID \cup {NoID, Awake}
  <2>1. CASE Arm
    <3>1. Same([timers EXCEPT !.event = FALSE], timers, Ticket, Cmd)
      BY <1>2, SetFlatTypes
    <3>2. timers' = [timers EXCEPT !.event = FALSE] /\ armed' = timers.first /\ queue' = queue
      BY <2>1 DEF Arm
    <3>3. DOMAIN timers'.pool = DOMAIN timers.pool /\ IsQueue(timers', Ticket, Cmd)
      <4> DEFINE r == [timers EXCEPT !.event = FALSE]
      <4> HIDE DEF r
      <4>1. Same(r, timers, Ticket, Cmd) /\ timers' = r
        BY <3>1, <3>2 DEF r
      <4>2. QED
        BY <4>1 DEF Same
    <3>4. queue \subseteq Message
      BY <1>2 DEF TypeOK
    <3>5. QED
      BY <1>2, <3>2, <3>3, <3>4 DEF TimerID
  <2>2. CASE Wake
    BY <1>2, <2>2 DEF Wake, TypeOK, TimerID
  <2>3. CASE Fire
    <3> DEFINE f == timers.first
    <3>1. armed' = Awake
      BY <2>3 DEF Fire
    <3>2. CASE f = NoID
      BY <1>2, <2>3, <3>1, <3>2 DEF Fire, TypeOK, TimerID
    <3>3. CASE f # NoID
      <4>1. queue' = queue \cup {Timeout(f)} /\ timers' = Free(RemoveFromList(timers, f), f)
        BY <2>3, <3>3 DEF Fire
      <4>2. f \in DOMAIN timers.pool
        BY <1>2, <3>3 DEF TimerID
      <4> HIDE DEF f
      <4>3. Same(RemoveFromList(timers, f), timers, Ticket, Cmd)
        BY <1>2, <4>2, RemoveType
      <4>4. Same(timers', timers, Ticket, Cmd)
        BY <4>1, <4>2, <4>3, FreeType DEF Same
      <4>5. timers.pool[f].ticket \in Ticket /\ timers.pool[f].cmd \in Cmd
        BY <1>2, <4>2, LinksAreIDs
      <4>6. Timeout(f) \in Message
        BY <4>2, <4>5 DEF Timeout, Message, TimerID
      <4>7. QED
        BY <1>2, <3>1, <4>1, <4>4, <4>6 DEF Same, TimerID, TypeOK
    <3>4. QED
      BY <3>2, <3>3
  <2>4. QED
    BY <2>1, <2>2, <2>3
<1>4. Started' = Started
  BY <1>1 DEF Started
<1>5. TypeOK'
  BY <1>1, <1>2, <1>3, <1>4 DEF TypeOK, Message, Work
<1>6. SlotKnown'
  BY <1>1, SlotKept
<1>7. QED
  BY <1>5, <1>6 DEF TypeInv

LEMMA TypeNext == TypeInv /\ [Next]_vars => TypeInv'
<1> SUFFICES ASSUME TypeInv, [Next]_vars PROVE TypeInv'
  OBVIOUS
<1>1. CASE UNCHANGED vars
  <2>1. TypeOK'
    BY <1>1 DEF vars, TypeInv, TypeOK, Message, Work, Started, TimerID
  <2>2. SlotKnown'
    BY <1>1, SlotKept DEF vars
  <2>3. QED
    BY <2>1, <2>2 DEF TypeInv
<1>2. CASE StartSession
  BY <1>2, TypeStartSession
<1>3. CASE Answer
  BY <1>3, TypeAnswer
<1>4. CASE KeepAlive
  BY <1>4, TypeKeepAlive
<1>5. CASE Mark
  BY <1>5, TypeMark
<1>6. ASSUME NEW w \in Worker,
             Take(w) \/ ProcessKeepAlive(w) \/ ProcessTimeout(w) \/ ProcessMessage(w) \/ Delete(w)
      PROVE  TypeInv'
  BY <1>6, TypeTake, TypeProcessKeepAlive, TypeProcessTimeout, TypeProcessMessage, TypeDelete
<1>7. CASE Arm \/ Wake \/ Fire
  BY <1>7, TypeEvent
<1>8. QED
  BY <1>1, <1>2, <1>3, <1>4, <1>5, <1>6, <1>7 DEF Next

(* The engine's state has the type that TypeOK gives it, for any number of *)
(* threads, sessions and commands: a timer's number is always one of the   *)
(* pool, a thread holds a message only with a session that was started.    *)
THEOREM TypeCorrect == Spec => []TypeOK
<1>1. Spec => []TypeInv
  BY TypeInit, TypeNext, PTL DEF Spec
<1>2. TypeInv => TypeOK
  BY DEF TypeInv
<1>3. QED
  BY <1>1, <1>2, PTL

-----------------------------------------------------------------------------
(* The memory of sessions and the answers to their clients, when no thread *)
(* processes a message for a session that another is about to delete: the  *)
(* window "ended" is closed, and the others may be open.                   *)

(* A ticket in use is that of its session, which has not ended. *)
TableSound ==
    \A i \in DOMAIN table : table[i].counter # 0 =>
        /\ sessions[table[i].sess].ticket = [slot |-> i, counter |-> table[i].counter]
        /\ ~sessions[table[i].sess].ended

(* A session that has not ended is found with its ticket. *)
SessionsListed ==
    \A s \in Started : ~sessions[s].ended =>
        IsValid(sessions[s].ticket) /\ table[sessions[s].ticket.slot].sess = s

(* A slot is on the list of free ones at most once, and is not in use. *)
FreeSlots ==
    \A i \in DOMAIN freeIDs :
        /\ freeIDs[i].slot \in DOMAIN table /\ table[freeIDs[i].slot].counter = 0
        /\ \A j \in DOMAIN freeIDs : freeIDs[i].slot = freeIDs[j].slot => i = j

EndedGone == \A s \in deleted \cup freed : sessions[s].ended

(* A thread has the ticket of the session it works for, which is not freed *)
(* and which it deletes before anybody else.                               *)
Held ==
    \A w \in Worker : workers[w] # Idle =>
        /\ workers[w].sess \notin freed
        /\ workers[w].msg.ticket = sessions[workers[w].sess].ticket
        /\ workers[w].msg.type = "timeout" => workers[w].msg.id # NoID
        /\ workers[w].step = "delete" => ~sessions[workers[w].sess].ended

OneDeletes ==
    \A v, w \in Worker : workers[v].step = "delete" /\ workers[w].step = "delete"
                         /\ workers[v].sess = workers[w].sess => v = w

Answered ==
    \A s \in Started : IF Ending(s) THEN sessions[s].timeoutID = NoID /\ sessions[s].answers = 1
                       ELSE sessions[s].answers = 0

TimeoutIDs == \A m \in queue : m.type = "timeout" => m.id # NoID

SInv == /\ TypeInv /\ TableSound /\ SessionsListed /\ FreeSlots /\ EndedGone
        /\ Held /\ OneDeletes /\ Answered /\ TimeoutIDs

(* The steps that leave the table, the tickets and the ends of sessions. *)
SameSessions ==
    /\ Started' = Started
    /\ \A s \in Started : /\ sessions'[s].ticket = sessions[s].ticket
                          /\ sessions'[s].ended = sessions[s].ended

LEMMA UsedSlot ==
    ASSUME TypeInv, NEW i \in DOMAIN table
    PROVE  /\ table[i].counter # 0 => table[i].sess \in Started
           /\ table[i].counter = 0 => table[i].sess = NoSession
           /\ NoSession \notin Started
<1>1. table[i] \in SlotRec
  BY DEF TypeInv, TypeOK, SlotRec
<1>2. 0 \notin 1..Counters /\ NoSession \notin Started
  BY DEF TypeInv, TypeOK, NoSession, Started
<1>3. QED
  BY <1>1, <1>2 DEF SlotRec, FreeSlot

LEMMA TableKept ==
    ASSUME SInv, SameSessions, UNCHANGED <<table, freeIDs>>,
           deleted' \cup freed' = deleted \cup freed
    PROVE  TableSound' /\ SessionsListed' /\ FreeSlots' /\ EndedGone'
<1>1. TypeInv /\ deleted \cup freed \subseteq Started
  BY DEF SInv, TypeInv, TypeOK
<1>2. TableSound'
  BY <1>1, UsedSlot DEF SInv, TableSound, SameSessions
<1>3. SessionsListed'
  BY DEF SInv, SessionsListed, SameSessions, IsValid
<1>4. FreeSlots'
  BY DEF SInv, FreeSlots
<1>5. EndedGone'
  BY <1>1 DEF SInv, EndedGone, SameSessions
<1>6. QED
  BY <1>2, <1>3, <1>4, <1>5

LEMMA FinishKeeps ==
    ASSUME SInv, NEW w \in Worker, workers[w].step = "process", Finish(w), SameSessions, freed' = freed
    PROVE  Held' /\ OneDeletes' /\ \A s \in Started : Ending(s)' = Ending(s)
<1>1. TypeInv /\ Held /\ OneDeletes
  BY DEF SInv
<1>2. \A v \in Worker : workers'[v] = IF v = w THEN Idle ELSE workers[v]
  BY <1>1 DEF Finish, TypeInv, TypeOK
<1>3. Idle.step = "idle"
  BY DEF Idle
<1>4. Held'
  <2>1. ASSUME NEW v \in Worker, workers'[v] # Idle
        PROVE  workers'[v] = workers[v] /\ workers[v] # Idle /\ workers[v].sess \in Started
    BY <1>1, <1>2, <2>1, Holds
  <2>2. QED
    BY <1>1, <2>1 DEF Held, SameSessions
<1>5. OneDeletes'
  BY <1>1, <1>2, <1>3 DEF OneDeletes
<1>6. ASSUME NEW s \in Started PROVE Ending(s)' = Ending(s)
  BY <1>2, <1>3 DEF Ending, SameSessions
<1>7. QED
  BY <1>4, <1>5, <1>6

LEMMA ToDeleteKeeps ==
    ASSUME SInv, NEW w \in Worker, workers[w].step = "process", ToDelete(w), SameSessions,
           freed' = freed, ~Ending(workers[w].sess)
    PROVE  /\ Held' /\ OneDeletes'
           /\ \A s \in Started : Ending(s)' <=> Ending(s) \/ s = workers[w].sess
<1>1. TypeInv /\ Held /\ OneDeletes
  BY DEF SInv
<1>2. workers[w] \in Work /\ workers[w] # Idle
  BY <1>1, BusyStep, Holds
<1>3. /\ workers'[w].step = "delete" /\ workers'[w].msg = workers[w].msg
      /\ workers'[w].sess = workers[w].sess
      /\ \A v \in Worker : v # w => workers'[v] = workers[v]
  BY <1>1, <1>2 DEF ToDelete, TypeInv, TypeOK, Work
<1>4. ~sessions[workers[w].sess].ended
      /\ \A v \in Worker : workers[v].step = "delete" => workers[v].sess # workers[w].sess
  BY DEF Ending
<1>5. Held'
  <2>1. ASSUME NEW v \in Worker, workers'[v] # Idle
        PROVE  /\ workers[v] # Idle /\ workers[v].sess \in Started
               /\ workers'[v].msg = workers[v].msg /\ workers'[v].sess = workers[v].sess
    BY <1>1, <1>2, <1>3, <2>1, Holds
  <2>2. ASSUME NEW v \in Worker, workers'[v] # Idle, workers'[v].step = "delete"
        PROVE  ~sessions[workers[v].sess].ended
    BY <1>1, <1>3, <1>4, <2>1, <2>2 DEF Held
  <2>3. QED
    BY <1>1, <2>1, <2>2 DEF Held, SameSessions
<1>6. OneDeletes'
  BY <1>1, <1>3, <1>4 DEF OneDeletes
<1>7. ASSUME NEW s \in Started PROVE Ending(s)' <=> Ending(s) \/ s = workers[w].sess
  BY <1>1, <1>2, <1>3 DEF Ending, SameSessions
<1>8. QED
  BY <1>5, <1>6, <1>7

(* Steps that touch no session, table or thread. *)
LEMMA QuietKeeps ==
    ASSUME SInv, UNCHANGED <<table, freeIDs, sessions, deleted, freed, workers>>, TypeInv',
           \A m \in queue' : m \in queue \/ m.type # "timeout" \/ m.id # NoID
    PROVE  SInv'
<1>1. SameSessions
  BY DEF SameSessions, Started
<1>2. TableSound' /\ SessionsListed' /\ FreeSlots' /\ EndedGone'
  BY <1>1, TableKept
<1>3. Held' /\ OneDeletes'
  BY DEF SInv, Held, OneDeletes
<1>4. Answered'
  BY DEF SInv, Answered, Ending, Started
<1>5. TimeoutIDs'
  BY DEF SInv, TimeoutIDs
<1>6. QED
  BY <1>2, <1>3, <1>4, <1>5 DEF SInv

LEMMA QuietSteps == SInv /\ TypeInv' /\ (Answer \/ KeepAlive \/ Arm \/ Wake \/ Fire) => SInv'
<1> SUFFICES ASSUME SInv, TypeInv', Answer \/ KeepAlive \/ Arm \/ Wake \/ Fire PROVE SInv'
  OBVIOUS
<1>1. UNCHANGED <<table, freeIDs, sessions, deleted, freed, workers>>
  BY DEF Answer, KeepAlive, Arm, Wake, Fire
<1>2. \A m \in queue' : m \in queue \/ m.type # "timeout" \/ m.id # NoID
  <2>1. CASE Answer \/ KeepAlive
    BY <2>1 DEF Answer, KeepAlive, Reply
  <2>2. CASE Arm \/ Wake
    BY <2>2 DEF Arm, Wake
  <2>3. CASE Fire
    BY <2>3 DEF Fire, Timeout
  <2>4. QED
    BY <2>1, <2>2, <2>3
<1>3. QED
  BY <1>1, <1>2, QuietKeeps

LEMMA MarkKeeps == SInv /\ TypeInv' /\ Mark => SInv'
<1> SUFFICES ASSUME SInv, TypeInv', Mark PROVE SInv'
  OBVIOUS
<1>1. UNCHANGED <<table, freeIDs, sessions, queue, workers>>
  BY DEF Mark
<1>2. \A w \in Worker : workers[w] = Idle
  BY DEF Mark
<1>3. SameSessions
  BY <1>1 DEF SameSessions, Started
<1>4. deleted' \cup freed' = deleted \cup freed
  BY DEF Mark
<1>5. TableSound' /\ SessionsListed' /\ FreeSlots' /\ EndedGone'
  BY <1>1, <1>3, <1>4, TableKept
<1>6. Held' /\ OneDeletes'
  BY <1>1, <1>2 DEF SInv, Held, OneDeletes
<1>7. Answered' /\ TimeoutIDs'
  BY <1>1 DEF SInv, Answered, Ending, Started, TimeoutIDs
<1>8. QED
  BY <1>5, <1>6, <1>7 DEF SInv

LEMMA TakeKeeps ==
    ASSUME SInv, TypeInv', NEW w \in Worker, Take(w)
    PROVE  SInv'
<1>1. UNCHANGED <<table, freeIDs, sessions, deleted, freed>> /\ workers[w] = Idle
  BY DEF Take
<1>2. TypeInv /\ Held /\ OneDeletes
  BY DEF SInv
<1>3. PICK m \in queue :
          /\ queue' = queue \ {m}
          /\ workers' = IF IsValid(m.ticket)
                        THEN [workers EXCEPT ![w] = [step |-> "process", msg |-> m,
                                                     sess |-> table[m.ticket.slot].sess]]
                        ELSE workers
  BY DEF Take
<1>4. SameSessions
  BY <1>1 DEF SameSessions, Started
<1>5. TableSound' /\ SessionsListed' /\ FreeSlots' /\ EndedGone'
  BY <1>1, <1>4, TableKept
<1>6. TimeoutIDs'
  BY <1>3 DEF SInv, TimeoutIDs
<1>7. CASE ~IsValid(m.ticket)
  <2>1. workers' = workers
    BY <1>3, <1>7
  <2>2. Held' /\ OneDeletes' /\ Answered'
    BY <1>1, <2>1 DEF SInv, Held, OneDeletes, Answered, Ending, Started
  <2>3. QED
    BY <1>5, <1>6, <2>2 DEF SInv
<1>8. CASE IsValid(m.ticket)
  <2> DEFINE s == table[m.ticket.slot].sess
  <2>1. m.ticket \in Ticket
    BY <1>2 DEF TypeInv, TypeOK, Message
  <2>2. /\ m.ticket = [slot |-> m.ticket.slot, counter |-> m.ticket.counter]
        /\ m.ticket.counter # 0
    BY <2>1, SessionsAssumption DEF Ticket
  <2>3. s \in Started /\ sessions[s].ticket = m.ticket /\ ~sessions[s].ended
    <3>1. m.ticket.slot \in DOMAIN table /\ table[m.ticket.slot].counter = m.ticket.counter
      BY <1>8 DEF IsValid
    <3>2. QED
      BY <1>2, <2>2, <3>1, UsedSlot DEF SInv, TableSound
  <2>4. s \notin freed
    BY <2>3 DEF SInv, EndedGone
  <2>5. m.type = "timeout" => m.id # NoID
    BY DEF SInv, TimeoutIDs
  <2> HIDE DEF s
  <2>6. \A v \in Worker : workers'[v] = IF v = w THEN [step |-> "process", msg |-> m, sess |-> s]
                                        ELSE workers[v]
    BY <1>2, <1>3, <1>8 DEF TypeInv, TypeOK, s
  <2>7. Held'
    BY <1>1, <1>2, <2>3, <2>4, <2>5, <2>6 DEF Held
  <2>8. OneDeletes'
    BY <1>2, <2>6 DEF OneDeletes
  <2>9. \A x : Ending(x)' <=> Ending(x)
    <3>1. Idle.step # "delete"
      BY DEF Idle
    <3>2. QED
      BY <1>1, <2>6, <3>1 DEF Ending
  <2>10. Answered'
    BY <1>1, <2>9 DEF SInv, Answered, Started
  <2>11. QED
    BY <1>5, <1>6, <2>7, <2>8, <2>10 DEF SInv
<1>9. QED
  BY <1>7, <1>8

(* A thread stops, and its session is at most at another command. *)
LEMMA FinishSteps ==
    ASSUME SInv, TypeInv', NEW w \in Worker, workers[w].step = "process", Finish(w),
           UNCHANGED <<table, freeIDs, deleted, freed, queue>>, SameSessions,
           \A s \in Started : /\ sessions'[s].answers = sessions[s].answers
                              /\ Ending(s) => sessions'[s].timeoutID = sessions[s].timeoutID
    PROVE  SInv'
<1>1. TableSound' /\ SessionsListed' /\ FreeSlots' /\ EndedGone'
  BY TableKept
<1>2. Held' /\ OneDeletes' /\ \A s \in Started : Ending(s)' = Ending(s)
  BY FinishKeeps
<1>3. Answered'
  <2>1. Started' = Started
    BY DEF SameSessions
  <2>2. QED
    BY <1>2, <2>1 DEF SInv, Answered
<1>4. TimeoutIDs'
  BY DEF SInv, TimeoutIDs
<1>5. QED
  BY <1>1, <1>2, <1>3, <1>4 DEF SInv

(* A thread answers the client of a session that nobody has answered. *)
LEMMA AnswerSteps ==
    ASSUME SInv, TypeInv', NEW w \in Worker, workers[w].step = "process", ToDelete(w),
           UNCHANGED <<table, freeIDs, deleted, freed, queue>>, SameSessions,
           ~Ending(workers[w].sess), sessions'[workers[w].sess].timeoutID = NoID,
           sessions'[workers[w].sess].answers = sessions[workers[w].sess].answers + 1,
           \A s \in Started \ {workers[w].sess} : sessions'[s] = sessions[s]
    PROVE  SInv'
<1>1. TableSound' /\ SessionsListed' /\ FreeSlots' /\ EndedGone'
  BY TableKept
<1>2. /\ Held' /\ OneDeletes'
      /\ \A s \in Started : Ending(s)' <=> Ending(s) \/ s = workers[w].sess
  BY ToDeleteKeeps
<1>3. workers[w].sess \in Started
  BY Holds, BusyStep DEF SInv
<1>4. sessions[workers[w].sess].answers = 0
  BY <1>3 DEF SInv, Answered
<1>5. Answered'
  <2>1. Started' = Started
    BY DEF SameSessions
  <2>2. ASSUME NEW s \in Started
        PROVE  IF Ending(s)' THEN sessions'[s].timeoutID = NoID /\ sessions'[s].answers = 1
               ELSE sessions'[s].answers = 0
    <3>1. CASE s = workers[w].sess
      BY <1>2, <1>4, <3>1
    <3>2. CASE s # workers[w].sess
      BY <1>2, <3>2 DEF SInv, Answered
    <3>3. QED
      BY <3>1, <3>2
  <2>3. QED
    BY <2>1, <2>2 DEF Answered
<1>6. TimeoutIDs'
  BY DEF SInv, TimeoutIDs
<1>7. QED
  BY <1>1, <1>2, <1>5, <1>6 DEF SInv

LEMMA KeepAliveKeeps ==
    ASSUME SInv, TypeInv', NEW w \in Worker, ProcessKeepAlive(w)
    PROVE  SInv'
<1>1. /\ UNCHANGED <<table, freeIDs, sessions, deleted, freed, queue>>
      /\ workers[w].step = "process" /\ Finish(w)
  BY DEF ProcessKeepAlive
<1>2. SameSessions
  BY <1>1 DEF SameSessions, Started
<1>3. QED
  BY <1>1, <1>2, FinishSteps

(* AnswerClient is the step of AnswerSteps. *)
LEMMA AnswerClientKeeps ==
    ASSUME SInv, TypeInv', NEW w \in Worker, workers[w].step = "process",
           UNCHANGED <<table, freeIDs, deleted, freed, queue>>,
           AnswerClient(w, workers[w].sess), ~Ending(workers[w].sess)
    PROVE  SInv'
<1> DEFINE s == workers[w].sess
<1>1. TypeOK /\ s \in Started
  BY Holds, BusyStep DEF SInv, TypeInv
<1>2. sessions[s] \in SessionRec /\ sessions \in Seq(SessionRec)
  BY <1>1, SessionOf
<1> HIDE DEF s
<1>3. /\ DOMAIN sessions' = DOMAIN sessions
      /\ sessions'[s] = [sessions[s] EXCEPT !.timeoutID = NoID, !.answers = @ + 1]
      /\ \A x \in Started \ {s} : sessions'[x] = sessions[x]
  <2>1. sessions' = [sessions EXCEPT ![s].timeoutID = NoID, ![s].answers = @ + 1]
    BY DEF AnswerClient, s
  <2>2. QED
    BY <1>1, <1>2, <2>1 DEF Started
<1>4. /\ sessions'[s].timeoutID = NoID /\ sessions'[s].answers = sessions[s].answers + 1
      /\ sessions'[s].ticket = sessions[s].ticket /\ sessions'[s].ended = sessions[s].ended
  <2> DEFINE x == sessions[s]
  <2>1. x \in SessionRec
    BY <1>2
  <2> HIDE DEF x
  <2>2. LET y == [x EXCEPT !.timeoutID = NoID, !.answers = @ + 1]
        IN  y.timeoutID = NoID /\ y.answers = x.answers + 1 /\ y.ticket = x.ticket /\ y.ended = x.ended
    BY <2>1 DEF SessionRec
  <2>3. QED
    BY <1>3, <2>2 DEF x
<1>5. SameSessions
  BY <1>3, <1>4 DEF SameSessions, Started
<1>6. ToDelete(w)
  BY DEF AnswerClient
<1>7. QED
  BY <1>3, <1>4, <1>5, <1>6, AnswerSteps DEF s

LEMMA TimeoutKeeps ==
    ASSUME SInv, TypeInv', NEW w \in Worker, ProcessTimeout(w)
    PROVE  SInv'
<1> DEFINE s == workers[w].sess
<1>1. /\ UNCHANGED <<table, freeIDs, deleted, freed, queue>>
      /\ workers[w].step = "process" /\ workers[w].msg.type = "timeout"
  BY DEF ProcessTimeout
<1>2. s \in Started /\ workers[w].msg.id # NoID
  BY <1>1, Holds, BusyStep DEF SInv, Held
<1>3. CASE sessions[s].timeoutID = workers[w].msg.id
  <2>1. ~Ending(s)
    BY <1>2, <1>3 DEF SInv, Answered
  <2>2. AnswerClient(w, s)
    BY <1>3 DEF ProcessTimeout
  <2>3. QED
    BY <1>1, <2>1, <2>2, AnswerClientKeeps
<1>4. CASE sessions[s].timeoutID # workers[w].msg.id
  <2>1. Finish(w) /\ sessions' = sessions
    BY <1>4 DEF ProcessTimeout
  <2>2. SameSessions
    BY <2>1 DEF SameSessions, Started
  <2>3. QED
    BY <1>1, <2>1, <2>2, FinishSteps
<1>5. QED
  BY <1>3, <1>4

LEMMA MessageKeeps ==
    ASSUME SInv, TypeInv', NEW w \in Worker, ProcessMessage(w), "ended" \notin Windows
    PROVE  SInv'
<1> DEFINE s == workers[w].sess
<1>1. /\ UNCHANGED <<table, freeIDs, deleted, freed, queue>>
      /\ workers[w].step = "process" /\ ~Ending(s)
  BY DEF ProcessMessage
<1>2. TypeOK /\ s \in Started
  BY <1>1, Holds, BusyStep DEF SInv, TypeInv
<1>3. sessions[s] \in SessionRec /\ sessions \in Seq(SessionRec)
  BY <1>2, SessionOf
<1>4. CASE AnswerClient(w, s)
  BY <1>1, <1>4, AnswerClientKeeps
<1>5. CASE NextCommand(w, s)
  <2> DEFINE n == NextID(TimeoutDeleted(s))
             x == sessions[s]
             y == [x EXCEPT !.pos = @ + 1, !.timeoutID = n]
  <2>1. sessions' = [sessions EXCEPT ![s].pos = @ + 1, ![s].timeoutID = n] /\ Finish(w)
    BY <1>5 DEF NextCommand
  <2> HIDE DEF n
  <2>2. /\ DOMAIN sessions' = DOMAIN sessions /\ sessions'[s] = y
        /\ \A z \in Started \ {s} : sessions'[z] = sessions[z]
    <3> HIDE DEF s
    <3>1. QED
      BY <1>2, <1>3, <2>1 DEF Started
  <2>3. y.answers = x.answers /\ y.ticket = x.ticket /\ y.ended = x.ended
    <3>1. x \in SessionRec
      BY <1>3
    <3> HIDE DEF x
    <3>2. QED
      BY <3>1 DEF SessionRec
  <2> HIDE DEF y, s
  <2>4. SameSessions
    BY <2>2, <2>3 DEF SameSessions, Started
  <2>5. \A z \in Started : /\ sessions'[z].answers = sessions[z].answers
                           /\ Ending(z) => sessions'[z].timeoutID = sessions[z].timeoutID
    BY <1>1, <2>2, <2>3
  <2>6. QED
    BY <1>1, <2>1, <2>4, <2>5, FinishSteps
<1>6. CASE Complete(w, s)
  <2> DEFINE x == sessions[s]
             y == [x EXCEPT !.pos = NumCommands + 1, !.timeoutID = NoID, !.answers = @ + 1]
  <2>1. /\ sessions' = [sessions EXCEPT ![s].pos = NumCommands + 1, ![s].timeoutID = NoID,
                                        ![s].answers = @ + 1]
        /\ ToDelete(w)
    BY <1>6 DEF Complete
  <2>2. /\ DOMAIN sessions' = DOMAIN sessions /\ sessions'[s] = y
        /\ \A z \in Started \ {s} : sessions'[z] = sessions[z]
    <3> HIDE DEF s
    <3>1. QED
      BY <1>2, <1>3, <2>1 DEF Started
  <2>3. y.timeoutID = NoID /\ y.answers = x.answers + 1 /\ y.ticket = x.ticket /\ y.ended = x.ended
    <3>1. x \in SessionRec
      BY <1>3
    <3> HIDE DEF x
    <3>2. QED
      BY <3>1 DEF SessionRec
  <2> HIDE DEF y
  <2>4. SameSessions
    BY <2>2, <2>3 DEF SameSessions, Started
  <2>5. QED
    BY <1>1, <2>1, <2>2, <2>3, <2>4, AnswerSteps
<1>7. CASE Finish(w) /\ sessions' = sessions
  <2>1. SameSessions
    BY <1>7 DEF SameSessions, Started
  <2>2. QED
    BY <1>1, <1>7, <2>1, FinishSteps
<1>8. QED
  BY <1>4, <1>5, <1>6, <1>7 DEF ProcessMessage, PastTheEnd

LEMMA StartKeeps == SInv /\ TypeInv' /\ StartSession => SInv'
<1> SUFFICES ASSUME SInv, TypeInv', StartSession PROVE SInv'
  OBVIOUS
<1> DEFINE t == TicketForInsert
           n == Len(sessions) + 1
           new == [ticket |-> t, pos |-> 1, timeoutID |-> NextID(timers),
                   answers |-> 0, ended |-> FALSE]
           entry == [counter |-> t.counter, sess |-> n]
<1>1. /\ UNCHANGED <<deleted, freed, queue, workers>>
      /\ sessions' = Append(sessions, new) /\ InsertSession(n)
  BY DEF StartSession
<1>2. TypeInv /\ TypeOK
  BY DEF SInv, TypeInv
<1>3. t \in Ticket
  BY <1>2, TicketForInsertType DEF StartSession
<1>4. sessions \in Seq(SessionRec) /\ Len(sessions) \in Nat /\ Started = 1..Len(sessions)
  BY <1>2 DEF TypeOK, SessionRec, Started
<1>5. /\ Started' = Started \cup {n} /\ n \notin Started /\ sessions'[n] = new
      /\ \A s \in Started : sessions'[s] = sessions[s]
  <2> HIDE DEF new
  <2>1. QED
    BY <1>1, <1>4 DEF Started
<1>6. /\ new.ticket = t /\ new.answers = 0 /\ ~new.ended
      /\ t = [slot |-> t.slot, counter |-> t.counter] /\ t.counter # 0
  <2>1. t = [slot |-> t.slot, counter |-> t.counter] /\ t.counter # 0
    BY <1>3, SessionsAssumption DEF Ticket
  <2>2. QED
    BY <2>1
<1> HIDE DEF new
<1>7. /\ DOMAIN table \subseteq DOMAIN table' /\ t.slot \in DOMAIN table' /\ table'[t.slot] = entry
      /\ DOMAIN table' \subseteq DOMAIN table \cup {t.slot}
      /\ \A i \in DOMAIN table \ {t.slot} : table'[i] = table[i]
      /\ t.slot \in DOMAIN table => table[t.slot].counter = 0
      /\ \A j \in DOMAIN freeIDs' : /\ j \in DOMAIN freeIDs /\ freeIDs'[j] = freeIDs[j]
                                    /\ freeIDs[j].slot # t.slot
  <2>1. /\ freeIDs \in Seq(Ticket) /\ Len(freeIDs) \in Nat /\ DOMAIN freeIDs = 1..Len(freeIDs)
        /\ table \in Seq(SlotRec) /\ Len(table) \in Nat /\ DOMAIN table = 1..Len(table)
    BY <1>2 DEF TypeOK, SlotRec
  <2>2. CASE freeIDs # <<>>
    <3> DEFINE m == Len(freeIDs)
    <3>1. table' = [table EXCEPT ![t.slot] = entry] /\ freeIDs' = SubSeq(freeIDs, 1, m - 1)
      BY <1>1, <2>2 DEF InsertSession
    <3>2. m \in DOMAIN freeIDs /\ m \in Nat \ {0} /\ DOMAIN freeIDs = 1..m
      BY <2>1, <2>2
    <3>3. t.slot = freeIDs[m].slot
      BY <2>2 DEF TicketForInsert, NextTicket
    <3>4. t.slot \in DOMAIN table /\ table[t.slot].counter = 0
      BY <3>2, <3>3 DEF SInv, FreeSlots
    <3>5. DOMAIN freeIDs' = 1..(m - 1) /\ \A j \in 1..(m - 1) : freeIDs'[j] = freeIDs[j]
      <4> HIDE DEF m
      <4>1. QED
        BY <2>1, <3>1, <3>2 DEF m
    <3>6. ASSUME NEW j \in 1..(m - 1)
          PROVE  j \in DOMAIN freeIDs /\ freeIDs[j].slot # t.slot
      <4> HIDE DEF m, t
      <4>1. j \in DOMAIN freeIDs /\ j # m
        BY <3>2
      <4>2. QED
        BY <3>2, <3>3, <4>1 DEF SInv, FreeSlots
    <3> HIDE DEF m, t, entry
    <3>7. DOMAIN table' = DOMAIN table /\ table'[t.slot] = entry
          /\ \A i \in DOMAIN table \ {t.slot} : table'[i] = table[i]
      BY <2>1, <3>1, <3>4
    <3>8. QED
      BY <3>4, <3>5, <3>6, <3>7
  <2>3. CASE freeIDs = <<>>
    <3>1. table' = Append(table, entry) /\ freeIDs' = freeIDs /\ t.slot = Len(table) + 1
      BY <1>1, <2>3 DEF InsertSession, TicketForInsert
    <3>2. DOMAIN freeIDs' = {}
      BY <2>1, <2>3, <3>1
    <3> HIDE DEF t, entry
    <3>3. /\ DOMAIN table' = 1..Len(table) + 1 /\ table'[Len(table) + 1] = entry
          /\ \A i \in DOMAIN table : table'[i] = table[i]
      BY <2>1, <3>1
    <3>4. QED
      BY <2>1, <3>1, <3>2, <3>3
  <2>4. QED
    BY <2>2, <2>3
<1>8. entry.counter = t.counter /\ entry.sess = n
  OBVIOUS
<1>9. ASSUME NEW i \in DOMAIN table', table'[i].counter # 0
      PROVE  /\ sessions'[table'[i].sess].ticket = [slot |-> i, counter |-> table'[i].counter]
             /\ ~sessions'[table'[i].sess].ended
  <2> HIDE DEF t, n, entry
  <2>1. CASE i = t.slot
    BY <1>5, <1>6, <1>7, <1>8, <2>1
  <2>2. CASE i # t.slot
    <3>1. i \in DOMAIN table /\ table'[i] = table[i]
      BY <1>7, <2>2
    <3>2. table[i].sess \in Started
      BY <1>2, <1>9, <3>1, UsedSlot
    <3>3. QED
      BY <1>5, <1>9, <3>1, <3>2 DEF SInv, TableSound
  <2>3. QED
    BY <2>1, <2>2
<1>10. ASSUME NEW s \in Started', ~sessions'[s].ended
       PROVE  /\ sessions'[s].ticket.slot \in DOMAIN table'
              /\ table'[sessions'[s].ticket.slot].counter = sessions'[s].ticket.counter
              /\ table'[sessions'[s].ticket.slot].sess = s
  <2> HIDE DEF t, n, entry
  <2>1. CASE s = n
    BY <1>5, <1>6, <1>7, <1>8, <2>1
  <2>2. CASE s # n
    <3> DEFINE u == sessions[s].ticket
    <3>1. s \in Started /\ sessions'[s] = sessions[s]
      BY <1>5, <2>2
    <3>2. u.slot \in DOMAIN table /\ table[u.slot].counter = u.counter /\ table[u.slot].sess = s
      BY <1>10, <3>1 DEF SInv, SessionsListed, IsValid
    <3>3. u \in Ticket
      BY <1>2, <3>1, SessionOf
    <3>4. u.counter # 0
      BY <3>3, SessionsAssumption DEF Ticket
    <3>5. u.slot # t.slot
      BY <1>7, <3>2, <3>4
    <3>6. QED
      BY <1>7, <3>1, <3>2, <3>5
  <2>3. QED
    BY <2>1, <2>2
<1>11. TableSound' /\ SessionsListed'
  BY <1>9, <1>10 DEF TableSound, SessionsListed, IsValid
<1>12. FreeSlots'
  <2> HIDE DEF t, entry
  <2>1. \A j \in DOMAIN freeIDs' : freeIDs'[j].slot \in DOMAIN table \ {t.slot}
    BY <1>7 DEF SInv, FreeSlots
  <2>2. QED
    BY <1>7, <2>1 DEF SInv, FreeSlots
<1>13. deleted \subseteq Started /\ freed \subseteq Started
  BY <1>2 DEF TypeOK
<1> HIDE DEF n
<1>14. EndedGone'
  BY <1>1, <1>5, <1>13 DEF SInv, EndedGone
<1>15. Held' /\ OneDeletes'
  <2>1. \A w \in Worker : workers[w] # Idle => workers[w].sess \in Started
    BY <1>2, Holds
  <2>2. Held'
    BY <1>1, <1>5, <2>1 DEF SInv, Held
  <2>3. OneDeletes'
    BY <1>1 DEF SInv, OneDeletes
  <2>4. QED
    BY <2>2, <2>3
<1>16. Answered'
  <2>1. ASSUME NEW s \in Started PROVE Ending(s)' <=> Ending(s)
    BY <1>1, <1>5 DEF Ending
  <2>2. ASSUME NEW s, s = n
        PROVE  ~Ending(s)'
    <3>1. ASSUME NEW w \in Worker, workers[w].step = "delete" PROVE workers[w].sess # n
      BY <1>2, <1>5, <3>1, Holds, BusyStep
    <3>2. ~sessions'[n].ended
      BY <1>5, <1>6
    <3>3. \A w \in Worker : ~(workers'[w].step = "delete" /\ workers'[w].sess = n)
      BY <1>1, <3>1
    <3>4. ~sessions'[s].ended /\ \A w \in Worker : ~(workers'[w].step = "delete" /\ workers'[w].sess = s)
      BY <2>2, <3>2, <3>3
    <3>5. QED
      BY <3>4 DEF Ending
  <2>3. sessions'[n].answers = 0
    BY <1>5, <1>6
  <2>4. ASSUME NEW s \in Started
        PROVE  IF Ending(s)' THEN sessions'[s].timeoutID = NoID /\ sessions'[s].answers = 1
               ELSE sessions'[s].answers = 0
    BY <1>5, <2>1 DEF SInv, Answered
  <2>5. QED
    BY <1>5, <2>2, <2>3, <2>4 DEF Answered
<1>17. TimeoutIDs'
  BY <1>1 DEF SInv, TimeoutIDs
<1>18. QED
  BY <1>11, <1>12, <1>14, <1>15, <1>16, <1>17 DEF SInv

LEMMA DeleteKeeps ==
    ASSUME SInv, TypeInv', NEW w \in Worker, Delete(w)
    PROVE  SInv'
<1> DEFINE t == workers[w].msg.ticket
           s == workers[w].sess
<1>1. UNCHANGED <<freed, queue>> /\ Finish(w) /\ workers[w].step = "delete"
  BY DEF Delete
<1>2. TypeInv /\ TypeOK /\ Held
  BY DEF SInv, TypeInv
<1>3. workers[w] # Idle /\ t \in Ticket /\ s \in Started
  BY <1>1, <1>2, BusyStep, Holds
<1>4. t = sessions[s].ticket /\ ~sessions[s].ended
  BY <1>1, <1>2, <1>3 DEF Held
<1>5. IsValid(t) /\ table[t.slot].sess = s
  BY <1>3, <1>4 DEF SInv, SessionsListed
<1>6. s # NoSession
  <2>1. t.slot \in DOMAIN table
    BY <1>5 DEF IsValid
  <2> HIDE DEF s, t
  <2>2. QED
    BY <1>2, <1>3, <2>1, UsedSlot
<1>7. /\ sessions' = [sessions EXCEPT ![s].ended = TRUE] /\ deleted' = deleted \cup {s}
      /\ table' = [table EXCEPT ![t.slot] = FreeSlot] /\ freeIDs' = Append(freeIDs, t)
  BY <1>5, <1>6 DEF Delete
<1>8. /\ t.slot \in DOMAIN table /\ table[t.slot].counter = t.counter /\ t.counter # 0
      /\ t = [slot |-> t.slot, counter |-> t.counter]
  BY <1>3, <1>5, SessionsAssumption DEF IsValid, Ticket
<1>9. /\ sessions \in Seq(SessionRec) /\ sessions[s] \in SessionRec /\ DOMAIN sessions = Started
  BY <1>2, <1>3, SessionOf DEF Started
<1>10. \A v \in Worker : workers'[v] = IF v = w THEN Idle ELSE workers[v]
  BY <1>1, <1>2 DEF Finish, TypeOK
<1> HIDE DEF s, t
<1>11. /\ Started' = Started
       /\ \A x \in Started : x # s => sessions'[x] = sessions[x]
       /\ sessions'[s] = [sessions[s] EXCEPT !.ended = TRUE]
  BY <1>3, <1>7, <1>9 DEF Started
<1>12. /\ sessions'[s].ticket = t /\ sessions'[s].timeoutID = sessions[s].timeoutID
       /\ sessions'[s].answers = sessions[s].answers /\ sessions'[s].ended
  <2> DEFINE z == sessions[s]
  <2>1. z \in SessionRec /\ sessions'[s] = [z EXCEPT !.ended = TRUE] /\ z.ticket = t
    BY <1>4, <1>9, <1>11 DEF s, t
  <2> HIDE DEF z
  <2>2. LET y == [z EXCEPT !.ended = TRUE]
        IN  y.ticket = z.ticket /\ y.timeoutID = z.timeoutID /\ y.answers = z.answers /\ y.ended
    BY <2>1 DEF SessionRec
  <2>3. QED
    BY <2>1, <2>2 DEF z
<1>13. /\ DOMAIN table' = DOMAIN table /\ table'[t.slot].counter = 0
       /\ \A i \in DOMAIN table : i # t.slot => table'[i] = table[i]
  BY <1>7, <1>8 DEF FreeSlot
<1>14. ASSUME NEW i \in DOMAIN table', table'[i].counter # 0
       PROVE  /\ sessions'[table'[i].sess].ticket = [slot |-> i, counter |-> table'[i].counter]
              /\ ~sessions'[table'[i].sess].ended
  <2>1. i \in DOMAIN table /\ i # t.slot /\ table'[i] = table[i]
    BY <1>13, <1>14
  <2>2. table[i].sess \in Started /\ sessions[table[i].sess].ticket.slot = i
        /\ sessions[table[i].sess].ticket = [slot |-> i, counter |-> table[i].counter]
        /\ ~sessions[table[i].sess].ended
    BY <1>2, <1>14, <2>1, UsedSlot DEF SInv, TableSound
  <2>3. table[i].sess # s
    BY <1>4, <2>1, <2>2 DEF s, t
  <2>4. QED
    BY <1>11, <2>1, <2>2, <2>3
<1>15. ASSUME NEW x \in Started', ~sessions'[x].ended
       PROVE  /\ sessions'[x].ticket.slot \in DOMAIN table'
              /\ table'[sessions'[x].ticket.slot].counter = sessions'[x].ticket.counter
              /\ table'[sessions'[x].ticket.slot].sess = x
  <2>1. x # s
    BY <1>12, <1>15
  <2>2. x \in Started /\ sessions'[x] = sessions[x]
    BY <1>11, <2>1
  <2>3. IsValid(sessions[x].ticket) /\ table[sessions[x].ticket.slot].sess = x
    BY <1>15, <2>2 DEF SInv, SessionsListed
  <2>4. sessions[x].ticket.slot # t.slot
    BY <1>5, <2>1, <2>3 DEF s, t
  <2>5. QED
    BY <1>13, <2>2, <2>3, <2>4 DEF IsValid
<1>16. TableSound' /\ SessionsListed'
  BY <1>14, <1>15 DEF TableSound, SessionsListed, IsValid
<1>17. FreeSlots'
  <2>1. freeIDs \in Seq(Ticket)
    BY <1>2 DEF TypeOK
  <2> DEFINE m == Len(freeIDs) + 1
  <2>2. /\ DOMAIN freeIDs' = DOMAIN freeIDs \cup {m} /\ m \notin DOMAIN freeIDs
        /\ freeIDs'[m] = t /\ \A j \in DOMAIN freeIDs : freeIDs'[j] = freeIDs[j]
    BY <1>3, <1>7, <2>1 DEF t
  <2>3. \A j \in DOMAIN freeIDs : freeIDs[j].slot \in DOMAIN table \ {t.slot}
    BY <1>8 DEF SInv, FreeSlots
  <2> HIDE DEF m
  <2>4. ASSUME NEW i \in DOMAIN freeIDs'
        PROVE  /\ freeIDs'[i].slot \in DOMAIN table' /\ table'[freeIDs'[i].slot].counter = 0
               /\ \A j \in DOMAIN freeIDs' : freeIDs'[i].slot = freeIDs'[j].slot => i = j
    <3>1. CASE i = m
      BY <1>8, <1>13, <2>2, <2>3, <3>1
    <3>2. CASE i \in DOMAIN freeIDs
      BY <1>13, <2>2, <2>3, <3>2 DEF SInv, FreeSlots
    <3>3. QED
      BY <2>2, <3>1, <3>2
  <2>5. QED
    BY <2>4 DEF FreeSlots
<1>18. EndedGone'
  <2>1. deleted \subseteq Started /\ freed \subseteq Started
    BY <1>2 DEF TypeOK
  <2>2. \A x \in deleted' \cup freed' : sessions'[x].ended
    BY <1>1, <1>7, <1>11, <1>12, <2>1 DEF SInv, EndedGone
  <2>3. QED
    BY <2>2 DEF EndedGone
<1>19. Idle.step = "idle"
  BY DEF Idle
<1>20. Held'
  <2>1. ASSUME NEW v \in Worker, workers'[v] # Idle
        PROVE  /\ workers'[v].sess \notin freed'
               /\ workers'[v].msg.ticket = sessions'[workers'[v].sess].ticket
               /\ workers'[v].msg.type = "timeout" => workers'[v].msg.id # NoID
               /\ workers'[v].step = "delete" => ~sessions'[workers'[v].sess].ended
    <3>1. v # w /\ workers'[v] = workers[v] /\ workers[v] # Idle
      BY <1>10, <2>1
    <3>2. workers[v].sess \in Started
      BY <1>2, <3>1, Holds
    <3>3. workers[v].sess = s => workers[v].step # "delete"
      BY <1>1, <3>1 DEF SInv, OneDeletes, s
    <3>4. sessions'[workers[v].sess].ticket = sessions[workers[v].sess].ticket
      BY <1>4, <1>11, <1>12, <3>2 DEF s, t
    <3>5. QED
      BY <1>1, <1>2, <1>11, <3>1, <3>2, <3>3, <3>4 DEF Held
  <2>2. QED
    BY <2>1 DEF Held
<1>21. OneDeletes'
  BY <1>10, <1>19 DEF SInv, OneDeletes
<1>22. ASSUME NEW x \in Started PROVE Ending(x)' <=> Ending(x)
  <2>1. CASE x = s
    <3>1. Ending(x)
      BY <1>1, <2>1 DEF Ending, s
    <3>2. Ending(x)'
      BY <1>12, <2>1 DEF Ending
    <3>3. QED
      BY <3>1, <3>2
  <2>2. CASE x # s
    <3>1. sessions'[x].ended = sessions[x].ended
      BY <1>11, <2>2
    <3>2. \A v \in Worker : workers'[v].step = "delete" /\ workers'[v].sess = x
                              <=> workers[v].step = "delete" /\ workers[v].sess = x
      BY <1>10, <1>19, <2>2 DEF s
    <3>3. QED
      BY <3>1, <3>2 DEF Ending
  <2>3. QED
    BY <2>1, <2>2
<1>23. Answered'
  <2>1. ASSUME NEW x \in Started
        PROVE  IF Ending(x)' THEN sessions'[x].timeoutID = NoID /\ sessions'[x].answers = 1
               ELSE sessions'[x].answers = 0
    <3>1. sessions'[x].timeoutID = sessions[x].timeoutID /\ sessions'[x].answers = sessions[x].answers
      BY <1>11, <1>12
    <3>2. QED
      BY <1>22, <3>1 DEF SInv, Answered
  <2>2. QED
    BY <1>11, <2>1 DEF Answered
<1>24. TimeoutIDs'
  BY <1>1 DEF SInv, TimeoutIDs
<1>25. QED
  BY <1>16, <1>17, <1>18, <1>20, <1>21, <1>23, <1>24 DEF SInv

LEMMA SInvInit == Init => SInv
<1> SUFFICES ASSUME Init PROVE SInv
  OBVIOUS
<1>1. TypeInv
  BY TypeInit
<1>2. /\ DOMAIN table = {} /\ DOMAIN freeIDs = {} /\ Started = {} /\ deleted = {} /\ freed = {}
      /\ queue = {} /\ \A w \in Worker : workers[w] = Idle
  BY DEF Init, Started
<1>3. Idle.step = "idle"
  BY DEF Idle
<1>4. QED
  BY <1>1, <1>2, <1>3 DEF SInv, TableSound, SessionsListed, FreeSlots, EndedGone, Held, OneDeletes,
     Answered, TimeoutIDs

LEMMA SInvNext == SInv /\ [Next]_vars /\ "ended" \notin Windows => SInv'
<1> SUFFICES ASSUME SInv, [Next]_vars, "ended" \notin Windows PROVE SInv'
  OBVIOUS
<1>1. TypeInv'
  BY TypeNext DEF SInv
<1>2. CASE UNCHANGED vars
  BY <1>1, <1>2, QuietKeeps DEF vars
<1>3. CASE StartSession
  BY <1>1, <1>3, StartKeeps
<1>4. CASE Answer \/ KeepAlive \/ Arm \/ Wake \/ Fire
  BY <1>1, <1>4, QuietSteps
<1>5. CASE Mark
  BY <1>1, <1>5, MarkKeeps
<1>6. ASSUME NEW w \in Worker,
             Take(w) \/ ProcessKeepAlive(w) \/ ProcessTimeout(w) \/ ProcessMessage(w) \/ Delete(w)
      PROVE  SInv'
  BY <1>1, <1>6, TakeKeeps, KeepAliveKeeps, TimeoutKeeps, MessageKeeps, DeleteKeeps
<1>7. QED
  BY <1>2, <1>3, <1>4, <1>5, <1>6 DEF Next

LEMMA SInvAlways == "ended" \notin Windows => (Spec => []SInv)
<1> SUFFICES ASSUME "ended" \notin Windows PROVE Spec => []SInv
  OBVIOUS
<1>1. SInv /\ [Next]_vars => SInv'
  BY SInvNext
<1>2. QED
  BY <1>1, SInvInit, PTL DEF Spec

(* The client of a session is answered once at most, and the session is on *)
(* its way out of the table from then on, as long as no thread processes a *)
(* reply for a session that another thread is about to delete.             *)
THEOREM ClientAnsweredOnce == "ended" \notin Windows => (Spec => []AnsweredOnce)
<1> SUFFICES ASSUME "ended" \notin Windows PROVE Spec => []AnsweredOnce
  OBVIOUS
<1>1. Spec => []SInv
  BY SInvAlways
<1>2. SInv => AnsweredOnce
  BY DEF SInv, Answered, AnsweredOnce, Live, Started
<1>3. QED
  BY <1>1, <1>2, PTL

(* No ticket leads to a session whose memory a collection frees or has     *)
(* freed, and no thread holds on to one, under the same condition: the     *)
(* slot a thread deletes is then still that of its own session, so the     *)
(* window "ticket" is never entered.                                       *)
THEOREM FreedOutOfReach == "ended" \notin Windows => (Spec => []NoUseAfterFree)
<1> SUFFICES ASSUME "ended" \notin Windows PROVE Spec => []NoUseAfterFree
  OBVIOUS
<1>1. Spec => []SInv
  BY SInvAlways
<1>2. SInv => NoUseAfterFree
  <2> SUFFICES ASSUME SInv PROVE NoUseAfterFree
    OBVIOUS
  <2>1. TypeInv /\ deleted \subseteq Started /\ freed \subseteq Started
    BY DEF SInv, TypeInv, TypeOK
  <2>2. ASSUME NEW i \in DOMAIN table
        PROVE  table[i].sess \notin deleted \cup freed
    <3>1. CASE table[i].counter = 0
      BY <2>1, <3>1, UsedSlot
    <3>2. CASE table[i].counter # 0
      <4>1. ~sessions[table[i].sess].ended
        BY <3>2 DEF SInv, TableSound
      <4>2. QED
        BY <4>1 DEF SInv, EndedGone
    <3>3. QED
      BY <3>1, <3>2
  <2>3. QED
    BY <2>2 DEF SInv, Held, NoUseAfterFree
<1>3. QED
  BY <1>1, <1>2, PTL


-----------------------------------------------------------------------------
(* The lists, said of neighbours.  Ranks that grow along the links say     *)
(* that no list is a circle.                                               *)

(* B is on the doubly linked list. *)
Listed(q, B) ==
    /\ \A i \in B :
          /\ q.pool[i].next \in B \cup {NoID}
          /\ q.pool[i].prev \in B \cup {NoID}
          /\ q.pool[i].next # NoID => q.pool[q.pool[i].next].prev = i
          /\ q.pool[i].prev # NoID => q.pool[q.pool[i].prev].next = i
          /\ q.pool[i].next = NoID <=> q.last = i
          /\ q.pool[i].prev = NoID <=> q.first = i
    /\ q.first \in B \cup {NoID}
    /\ q.last \in B \cup {NoID}

IdleIn(q) == DOMAIN q.pool \ Busy(q)

FreeListed(q) ==
    /\ q.free \in IdleIn(q) \cup {NoID}
    /\ \A i \in IdleIn(q) :
          /\ q.pool[i].next \in IdleIn(q) \cup {NoID}
          /\ i # q.free => \E j \in IdleIn(q) : q.pool[j].next = i

RankedBy(q, r) ==
    /\ r \in [DOMAIN q.pool -> Nat]
    /\ \A i \in DOMAIN q.pool : q.pool[i].next # NoID => r[i] < r[q.pool[i].next]
Ranked(q) == \E r : RankedBy(q, r)

(* A queue of which B is on the list, and the idle ones on the other. *)
Lists(q, B) == Listed(q, B) /\ FreeListed(q) /\ Ranked(q)

(* Timers other than i have the message that they had. *)
Contents(p, q, i) ==
    \A j \in DOMAIN q.pool : /\ j \in DOMAIN p.pool
                             /\ j # i => p.pool[j].ticket = q.pool[j].ticket /\ p.pool[j].cmd = q.pool[j].cmd

-----------------------------------------------------------------------------
(* What the assignments and methods do to each field *)

Rest(p, q) ==
    /\ DOMAIN p.pool = DOMAIN q.pool
    /\ \A j \in DOMAIN q.pool : p.pool[j].ticket = q.pool[j].ticket /\ p.pool[j].cmd = q.pool[j].cmd

Flags(p, q) == \A j \in DOMAIN q.pool : p.pool[j].busy = q.pool[j].busy
Nexts(p, q) == \A j \in DOMAIN q.pool : p.pool[j].next = q.pool[j].next
Prevs(p, q) == \A j \in DOMAIN q.pool : p.pool[j].prev = q.pool[j].prev
Heads(p, q) == p.first = q.first /\ p.last = q.last /\ p.free = q.free /\ p.event = q.event

LEMMA PoolType ==
    ASSUME NEW T, NEW C, NEW q, IsQueue(q, T, C)
    PROVE  /\ DOMAIN q.pool = 1..Len(q.pool) /\ Len(q.pool) \in Nat
           /\ DOMAIN q.pool \subseteq Nat /\ NoID \notin DOMAIN q.pool
           /\ Busy(q) \subseteq DOMAIN q.pool
           /\ \A i \in DOMAIN q.pool : q.pool[i] \in Entry(DOMAIN q.pool, T, C)
           /\ q \in [pool : Seq(Entry(DOMAIN q.pool, T, C)), event : BOOLEAN,
                     first : DOMAIN q.pool \cup {NoID}, last : DOMAIN q.pool \cup {NoID},
                     free : DOMAIN q.pool \cup {NoID}]
BY DEF IsQueue, NoID, Busy

LEMMA SetNextDoes ==
    ASSUME NEW T, NEW C, NEW q, IsQueue(q, T, C), NEW i \in DOMAIN q.pool, NEW n,
           NEW p, p = SetNext(q, i, n)
    PROVE  /\ Rest(p, q) /\ Flags(p, q) /\ Prevs(p, q) /\ Heads(p, q)
           /\ \A j \in DOMAIN q.pool : p.pool[j].next = IF j = i THEN n ELSE q.pool[j].next
<1>1. \A j \in DOMAIN q.pool : q.pool[j] \in Entry(DOMAIN q.pool, T, C)
  BY PoolType
<1>2. /\ p.pool = [q.pool EXCEPT ![i].next = n] /\ p.first = q.first /\ p.last = q.last
      /\ p.free = q.free /\ p.event = q.event
  BY PoolType DEF SetNext
<1>3. QED
  BY <1>1, <1>2 DEF Entry, Rest, Flags, Prevs, Heads

LEMMA SetPrevDoes ==
    ASSUME NEW T, NEW C, NEW q, IsQueue(q, T, C), NEW i \in DOMAIN q.pool, NEW n,
           NEW p, p = SetPrev(q, i, n)
    PROVE  /\ Rest(p, q) /\ Flags(p, q) /\ Nexts(p, q) /\ Heads(p, q)
           /\ \A j \in DOMAIN q.pool : p.pool[j].prev = IF j = i THEN n ELSE q.pool[j].prev
<1>1. \A j \in DOMAIN q.pool : q.pool[j] \in Entry(DOMAIN q.pool, T, C)
  BY PoolType
<1>2. /\ p.pool = [q.pool EXCEPT ![i].prev = n] /\ p.first = q.first /\ p.last = q.last
      /\ p.free = q.free /\ p.event = q.event
  BY PoolType DEF SetPrev
<1>3. QED
  BY <1>1, <1>2 DEF Entry, Rest, Flags, Nexts, Heads

LEMMA SetFlagDoes ==
    ASSUME NEW T, NEW C, NEW q, IsQueue(q, T, C), NEW i \in DOMAIN q.pool
    PROVE  /\ LET p == SetBusy(q, i) IN Rest(p, q) /\ Nexts(p, q) /\ Prevs(p, q) /\ Heads(p, q)
                                        /\ Busy(p) = Busy(q) \cup {i}
           /\ LET p == SetFree(q, i) IN Rest(p, q) /\ Nexts(p, q) /\ Prevs(p, q) /\ Heads(p, q)
                                        /\ Busy(p) = Busy(q) \ {i}
<1>1. \A j \in DOMAIN q.pool : q.pool[j] \in Entry(DOMAIN q.pool, T, C)
  BY PoolType
<1>2. PICK p : p = SetBusy(q, i)
  OBVIOUS
<1>3. /\ p.pool = [q.pool EXCEPT ![i].busy = TRUE] /\ p.first = q.first /\ p.last = q.last
      /\ p.free = q.free /\ p.event = q.event
  BY <1>2, PoolType DEF SetBusy
<1>4. Rest(p, q) /\ Nexts(p, q) /\ Prevs(p, q) /\ Heads(p, q) /\ Busy(p) = Busy(q) \cup {i}
  BY <1>1, <1>3 DEF Entry, Rest, Nexts, Prevs, Heads, Busy
<1>5. PICK f : f = SetFree(q, i)
  OBVIOUS
<1>6. /\ f.pool = [q.pool EXCEPT ![i].busy = FALSE] /\ f.first = q.first /\ f.last = q.last
      /\ f.free = q.free /\ f.event = q.event
  BY <1>5, PoolType DEF SetFree
<1>7. Rest(f, q) /\ Nexts(f, q) /\ Prevs(f, q) /\ Heads(f, q) /\ Busy(f) = Busy(q) \ {i}
  BY <1>1, <1>6 DEF Entry, Rest, Nexts, Prevs, Heads, Busy
<1>8. QED
  BY <1>2, <1>4, <1>5, <1>7

LEMMA SetEndDoes ==
    ASSUME NEW T, NEW C, NEW q, IsQueue(q, T, C), NEW n
    PROVE  /\ SetFirst(q, n).pool = q.pool /\ SetFirst(q, n).first = n /\ SetFirst(q, n).last = q.last
           /\ SetFirst(q, n).free = q.free /\ SetFirst(q, n).event = q.event
           /\ SetLast(q, n).pool = q.pool /\ SetLast(q, n).last = n /\ SetLast(q, n).first = q.first
           /\ SetLast(q, n).free = q.free /\ SetLast(q, n).event = q.event
           /\ SetFreeList(q, n).pool = q.pool /\ SetFreeList(q, n).free = n
           /\ SetFreeList(q, n).first = q.first /\ SetFreeList(q, n).last = q.last
           /\ SetFreeList(q, n).event = q.event
BY PoolType DEF SetFirst, SetLast, SetFreeList

LEMMA BusyOf ==
    ASSUME NEW p, NEW q, DOMAIN p.pool = DOMAIN q.pool, Flags(p, q)
    PROVE  Busy(p) = Busy(q)
BY DEF Busy, Flags

LEMMA RemoveDoes ==
    ASSUME NEW T, NEW C, NEW q, IsQueue(q, T, C), NEW i \in DOMAIN q.pool,
           NEW p, p = RemoveFromList(q, i), NEW next, next = q.pool[i].next,
           NEW prev, prev = q.pool[i].prev
    PROVE  /\ Rest(p, q) /\ Flags(p, q) /\ p.free = q.free /\ p.event = q.event
           /\ p.first = IF prev = NoID THEN next ELSE q.first
           /\ p.last = IF next = NoID THEN prev ELSE q.last
           /\ \A j \in DOMAIN q.pool :
                 /\ p.pool[j].next = IF j = i THEN NoID ELSE IF j = prev THEN next ELSE q.pool[j].next
                 /\ p.pool[j].prev = IF j = i THEN NoID ELSE IF j = next THEN prev ELSE q.pool[j].prev
<1> DEFINE before == IF prev # NoID THEN SetNext(q, prev, next) ELSE SetFirst(q, next)
           after == IF next # NoID THEN SetPrev(before, next, prev) ELSE SetLast(before, prev)
           unlinked == SetPrev(after, i, NoID)
           D == DOMAIN q.pool
<1>1. /\ next \in D \cup {NoID} /\ prev \in D \cup {NoID} /\ NoID \notin D
  BY LinksAreIDs, PoolType
<1>2. p = SetNext(unlinked, i, NoID)
  BY DEF RemoveFromList, SetPrev, SetNext, SetLast, SetFirst
<1>3. /\ Same(before, q, T, C)
      /\ Rest(before, q) /\ Flags(before, q) /\ Prevs(before, q)
      /\ before.last = q.last /\ before.free = q.free /\ before.event = q.event
      /\ before.first = IF prev = NoID THEN next ELSE q.first
      /\ \A j \in D : before.pool[j].next = IF j = prev THEN next ELSE q.pool[j].next
  <2>1. Same(before, q, T, C)
    BY <1>1, SetFieldTypes, SetEndTypes
  <2>2. CASE prev # NoID
    BY <1>1, <2>1, <2>2, SetNextDoes DEF Heads
  <2>3. CASE prev = NoID
    BY <1>1, <2>1, <2>3, SetEndDoes DEF Rest, Flags, Prevs
  <2>4. QED
    BY <2>1, <2>2, <2>3
<1> HIDE DEF before
<1>4. /\ Same(after, q, T, C)
      /\ Rest(after, q) /\ Flags(after, q)
      /\ after.free = q.free /\ after.event = q.event
      /\ after.first = IF prev = NoID THEN next ELSE q.first
      /\ after.last = IF next = NoID THEN prev ELSE q.last
      /\ \A j \in D : after.pool[j].next = IF j = prev THEN next ELSE q.pool[j].next
      /\ \A j \in D : after.pool[j].prev = IF j = next THEN prev ELSE q.pool[j].prev
  <2>0. IsQueue(before, T, C) /\ DOMAIN before.pool = D
    BY <1>3 DEF Same
  <2>1. Same(after, q, T, C)
    BY <1>1, <2>0, SetFieldTypes, SetEndTypes DEF Same
  <2>2. CASE next # NoID
    <3>1. /\ Rest(after, before) /\ Flags(after, before) /\ Nexts(after, before) /\ Heads(after, before)
          /\ \A j \in D : after.pool[j].prev = IF j = next THEN prev ELSE before.pool[j].prev
      BY <1>1, <2>0, <2>2, SetPrevDoes
    <3> HIDE DEF after
    <3>2. QED
      BY <1>1, <1>3, <2>0, <2>1, <2>2, <3>1 DEF Rest, Flags, Nexts, Prevs, Heads
  <2>3. CASE next = NoID
    <3>1. /\ after.pool = before.pool /\ after.last = prev /\ after.first = before.first
          /\ after.free = before.free /\ after.event = before.event
      BY <2>0, <2>3, SetEndDoes
    <3> HIDE DEF after
    <3>2. /\ Rest(after, q) /\ Flags(after, q)
          /\ \A j \in D : after.pool[j].next = IF j = prev THEN next ELSE q.pool[j].next
      BY <1>3, <3>1 DEF Rest, Flags
    <3>3. \A j \in D : after.pool[j].prev = IF j = next THEN prev ELSE q.pool[j].prev
      BY <1>1, <1>3, <2>3, <3>1 DEF Prevs
    <3>4. QED
      BY <1>3, <2>1, <2>3, <3>1, <3>2, <3>3
  <2>4. QED
    BY <2>2, <2>3
<1> HIDE DEF after
<1>5. Same(unlinked, q, T, C)
  BY <1>4, SetFieldTypes DEF Same
<1>6. /\ Rest(unlinked, after) /\ Flags(unlinked, after) /\ Nexts(unlinked, after) /\ Heads(unlinked, after)
      /\ \A j \in D : unlinked.pool[j].prev = IF j = i THEN NoID ELSE after.pool[j].prev
  BY <1>4, SetPrevDoes DEF Same
<1> HIDE DEF unlinked
<1>7. /\ Rest(p, unlinked) /\ Flags(p, unlinked) /\ Prevs(p, unlinked) /\ Heads(p, unlinked)
      /\ \A j \in D : p.pool[j].next = IF j = i THEN NoID ELSE unlinked.pool[j].next
  BY <1>2, <1>5, SetNextDoes DEF Same
<1>8. DOMAIN after.pool = D /\ DOMAIN unlinked.pool = D
  BY <1>4, <1>5 DEF Same
<1>9. QED
  BY <1>4, <1>6, <1>7, <1>8 DEF Rest, Flags, Nexts, Prevs, Heads

LEMMA InsertDoes ==
    ASSUME NEW T, NEW C, NEW q, IsQueue(q, T, C), NEW i \in DOMAIN q.pool,
           NEW after \in (DOMAIN q.pool \cup {NoID}) \ {i},
           NEW p, p = InsertToList(q, i, after),
           NEW next, next = IF after = NoID THEN q.first ELSE q.pool[after].next, next # i
    PROVE  /\ Rest(p, q) /\ Flags(p, q) /\ p.free = q.free /\ p.event = q.event
           /\ p.first = IF after = NoID THEN i ELSE q.first
           /\ p.last = IF next = NoID THEN i ELSE q.last
           /\ \A j \in DOMAIN q.pool :
                 /\ p.pool[j].next = IF j = i THEN next ELSE IF j = after THEN i ELSE q.pool[j].next
                 /\ p.pool[j].prev = IF j = i THEN after ELSE IF j = next THEN i ELSE q.pool[j].prev
<1> DEFINE linked == SetNext(SetPrev(q, i, after), i, next)
           behind == IF after = NoID THEN SetFirst(linked, i) ELSE SetNext(linked, after, i)
           D == DOMAIN q.pool
<1>1. next \in D \cup {NoID} /\ NoID \notin D
  BY LinksAreIDs, PoolType
<1>2. p = IF next = NoID THEN SetLast(behind, i) ELSE SetPrev(behind, next, i)
  <2>1. CASE after = NoID
    BY <2>1 DEF InsertToList, SetPrev, SetNext, SetLast, SetFirst
  <2>2. CASE after # NoID
    BY <2>2 DEF InsertToList, SetPrev, SetNext, SetLast, SetFirst
  <2>3. QED
    BY <2>1, <2>2
<1>3. /\ Same(linked, q, T, C)
      /\ Rest(linked, q) /\ Flags(linked, q) /\ Heads(linked, q)
      /\ \A j \in D : /\ linked.pool[j].next = IF j = i THEN next ELSE q.pool[j].next
                      /\ linked.pool[j].prev = IF j = i THEN after ELSE q.pool[j].prev
  <2> DEFINE half == SetPrev(q, i, after)
  <2>1. /\ Rest(half, q) /\ Flags(half, q) /\ Nexts(half, q) /\ Heads(half, q)
        /\ \A j \in D : half.pool[j].prev = IF j = i THEN after ELSE q.pool[j].prev
    BY SetPrevDoes
  <2>2. Same(half, q, T, C)
    BY SetFieldTypes
  <2> HIDE DEF half
  <2>3. /\ Rest(linked, half) /\ Flags(linked, half) /\ Prevs(linked, half) /\ Heads(linked, half)
        /\ \A j \in D : linked.pool[j].next = IF j = i THEN next ELSE half.pool[j].next
    BY <2>2, SetNextDoes DEF Same, half
  <2>4. Same(linked, q, T, C)
    BY <1>1, <2>2, SetFieldTypes DEF Same, half
  <2>5. DOMAIN half.pool = D
    BY <2>2 DEF Same
  <2> HIDE DEF linked
  <2>6. QED
    BY <2>1, <2>3, <2>4, <2>5 DEF Rest, Flags, Nexts, Prevs, Heads
<1> HIDE DEF linked
<1>4. /\ Same(behind, q, T, C)
      /\ Rest(behind, q) /\ Flags(behind, q)
      /\ behind.last = q.last /\ behind.free = q.free /\ behind.event = q.event
      /\ behind.first = IF after = NoID THEN i ELSE q.first
      /\ \A j \in D : behind.pool[j].next = IF j = i THEN next ELSE IF j = after THEN i ELSE q.pool[j].next
      /\ \A j \in D : behind.pool[j].prev = IF j = i THEN after ELSE q.pool[j].prev
  <2>0. IsQueue(linked, T, C) /\ DOMAIN linked.pool = D
    BY <1>3 DEF Same
  <2>1. Same(behind, q, T, C)
    BY <1>1, <2>0, SetFieldTypes, SetEndTypes DEF Same
  <2>2. CASE after # NoID
    <3>1. /\ Rest(behind, linked) /\ Flags(behind, linked) /\ Prevs(behind, linked) /\ Heads(behind, linked)
          /\ \A j \in D : behind.pool[j].next = IF j = after THEN i ELSE linked.pool[j].next
      BY <2>0, <2>2, SetNextDoes
    <3> HIDE DEF behind
    <3>2. QED
      BY <1>1, <1>3, <2>0, <2>1, <2>2, <3>1 DEF Rest, Flags, Nexts, Prevs, Heads
  <2>3. CASE after = NoID
    <3>1. /\ behind.pool = linked.pool /\ behind.first = i /\ behind.last = linked.last
          /\ behind.free = linked.free /\ behind.event = linked.event
      BY <2>0, <2>3, SetEndDoes
    <3> HIDE DEF behind
    <3>2. QED
      BY <1>1, <1>3, <2>0, <2>1, <2>3, <3>1 DEF Rest, Flags, Nexts, Prevs, Heads
  <2>4. QED
    BY <2>2, <2>3
<1> HIDE DEF behind
<1>5. IsQueue(behind, T, C) /\ DOMAIN behind.pool = D
  BY <1>4 DEF Same
<1>6. CASE next # NoID
  <2>1. /\ Rest(p, behind) /\ Flags(p, behind) /\ Nexts(p, behind) /\ Heads(p, behind)
        /\ \A j \in D : p.pool[j].prev = IF j = next THEN i ELSE behind.pool[j].prev
    BY <1>1, <1>2, <1>5, <1>6, SetPrevDoes
  <2>2. QED
    BY <1>1, <1>4, <1>5, <1>6, <2>1 DEF Rest, Flags, Nexts, Prevs, Heads
<1>7. CASE next = NoID
  <2>1. /\ p.pool = behind.pool /\ p.last = i /\ p.first = behind.first
        /\ p.free = behind.free /\ p.event = behind.event
    BY <1>2, <1>5, <1>7, SetEndDoes
  <2>2. QED
    BY <1>1, <1>4, <1>5, <1>7, <2>1 DEF Rest, Flags, Nexts, Prevs, Heads
<1>8. QED
  BY <1>6, <1>7

LEMMA FreeDoes ==
    ASSUME NEW T, NEW C, NEW q, IsQueue(q, T, C), NEW i \in DOMAIN q.pool, NEW p, p = Free(q, i)
    PROVE  /\ Rest(p, q) /\ Prevs(p, q) /\ Busy(p) = Busy(q) \ {i}
           /\ p.first = q.first /\ p.last = q.last /\ p.free = i /\ p.event = q.event
           /\ \A j \in DOMAIN q.pool : p.pool[j].next = IF j = i THEN q.free ELSE q.pool[j].next
<1> DEFINE idle == SetFree(q, i)
           linked == SetNext(idle, i, q.free)
<1>1. p = SetFreeList(linked, i)
  BY DEF Free, SetFree, SetNext, SetFreeList
<1>2. /\ Same(idle, q, T, C) /\ Rest(idle, q) /\ Nexts(idle, q) /\ Prevs(idle, q) /\ Heads(idle, q)
      /\ Busy(idle) = Busy(q) \ {i}
  <2>1. Same(idle, q, T, C)
    BY SetFieldTypes
  <2>2. QED
    BY <2>1, SetFlagDoes
<1> HIDE DEF idle
<1>3. IsQueue(idle, T, C) /\ DOMAIN idle.pool = DOMAIN q.pool
  BY <1>2 DEF Same
<1>4. /\ Same(linked, idle, T, C)
      /\ Rest(linked, idle) /\ Flags(linked, idle) /\ Prevs(linked, idle) /\ Heads(linked, idle)
      /\ \A j \in DOMAIN q.pool : linked.pool[j].next = IF j = i THEN q.free ELSE idle.pool[j].next
  <2>1. q.free \in DOMAIN q.pool \cup {NoID}
    BY LinksAreIDs
  <2>2. Same(linked, idle, T, C)
    BY <1>3, <2>1, SetFieldTypes
  <2>3. QED
    BY <1>3, <2>2, SetNextDoes
<1> HIDE DEF linked
<1>5. IsQueue(linked, T, C) /\ DOMAIN linked.pool = DOMAIN q.pool /\ Busy(linked) = Busy(idle)
  <2>1. IsQueue(linked, T, C) /\ DOMAIN linked.pool = DOMAIN idle.pool
    BY <1>4 DEF Same
  <2>2. QED
    BY <1>3, <1>4, <2>1, BusyOf
<1>6. /\ p.pool = linked.pool /\ p.free = i /\ p.first = linked.first /\ p.last = linked.last
      /\ p.event = linked.event
  BY <1>1, <1>5, SetEndDoes
<1>7. Busy(p) = Busy(linked)
  BY <1>6 DEF Busy
<1>8. QED
  BY <1>2, <1>3, <1>4, <1>5, <1>6, <1>7 DEF Rest, Flags, Nexts, Prevs, Heads

-----------------------------------------------------------------------------
(* The methods keep the lists *)

(* Timer i is on neither list. *)
Loose(q, i) == i \in Busy(q) /\ Lists(q, Busy(q) \ {i}) /\ q.pool[i].next = NoID

LEMMA RemoveLists ==
    ASSUME NEW T, NEW C, NEW q, IsQueue(q, T, C), Lists(q, Busy(q)), NEW i \in Busy(q),
           NEW p, p = RemoveFromList(q, i)
    PROVE  /\ Loose(p, i) /\ Busy(p) = Busy(q)
           /\ q.first # i => p.first = q.first
<1> DEFINE next == q.pool[i].next
           prev == q.pool[i].prev
           D == DOMAIN q.pool
           B == Busy(q) \ {i}
<1>1. B \subseteq D /\ i \in D /\ NoID \notin D /\ D \subseteq Nat
  BY PoolType
<1>2. /\ Rest(p, q) /\ Flags(p, q) /\ p.free = q.free
      /\ p.first = IF prev = NoID THEN next ELSE q.first
      /\ p.last = IF next = NoID THEN prev ELSE q.last
      /\ \A j \in D :
            /\ p.pool[j].next = IF j = i THEN NoID ELSE IF j = prev THEN next ELSE q.pool[j].next
            /\ p.pool[j].prev = IF j = i THEN NoID ELSE IF j = next THEN prev ELSE q.pool[j].prev
  BY <1>1, RemoveDoes
<1>3. Listed(q, Busy(q)) /\ FreeListed(q) /\ Ranked(q)
  BY DEF Lists
<1>4. PICK r : RankedBy(q, r)
  BY <1>3 DEF Ranked
<1>5. next # i /\ prev # i
  <2>1. next # i
    BY <1>1, <1>4 DEF RankedBy
  <2>2. QED
    BY <1>1, <1>3, <2>1 DEF Listed
<1>6. next \in B \cup {NoID} /\ prev \in B \cup {NoID}
  BY <1>3, <1>5 DEF Listed
<1>7. DOMAIN p.pool = D /\ Busy(p) = Busy(q) /\ IdleIn(p) = IdleIn(q)
  BY <1>2, BusyOf DEF Rest, IdleIn
<1>8. Listed(p, B)
  <2>1. ASSUME NEW j \in B
        PROVE  /\ p.pool[j].next \in B \cup {NoID}
               /\ p.pool[j].prev \in B \cup {NoID}
               /\ p.pool[j].next # NoID => p.pool[p.pool[j].next].prev = j
               /\ p.pool[j].prev # NoID => p.pool[p.pool[j].prev].next = j
               /\ p.pool[j].next = NoID <=> p.last = j
               /\ p.pool[j].prev = NoID <=> p.first = j
    <3>1. j \in D /\ j # i /\ j # NoID
      BY <1>1
    <3>2. /\ q.pool[j].next \in Busy(q) \cup {NoID} /\ q.pool[j].prev \in Busy(q) \cup {NoID}
          /\ q.pool[j].next # NoID => q.pool[q.pool[j].next].prev = j
          /\ q.pool[j].prev # NoID => q.pool[q.pool[j].prev].next = j
          /\ q.pool[j].next = NoID <=> q.last = j
          /\ q.pool[j].prev = NoID <=> q.first = j
      BY <1>3 DEF Listed
    <3>3. /\ next # NoID => q.pool[next].prev = i
          /\ prev # NoID => q.pool[prev].next = i
          /\ next = NoID <=> q.last = i
          /\ prev = NoID <=> q.first = i
      BY <1>3 DEF Listed
    <3> HIDE DEF next, prev
    <3>4. /\ p.pool[j].next = IF j = prev THEN next ELSE q.pool[j].next
          /\ p.pool[j].prev = IF j = next THEN prev ELSE q.pool[j].prev
      BY <1>2, <3>1
    <3>5. p.pool[j].next \in B \cup {NoID} /\ p.pool[j].prev \in B \cup {NoID}
      <4>1. q.pool[j].next = i => j = prev
        BY <1>1, <3>2 DEF prev
      <4>2. q.pool[j].prev = i => j = next
        BY <1>1, <3>2 DEF next
      <4>3. QED
        BY <1>6, <3>2, <3>4, <4>1, <4>2
    <3>6. p.pool[j].next # NoID => p.pool[p.pool[j].next].prev = j
      BY <1>1, <1>2, <1>5, <1>6, <3>1, <3>2, <3>3, <3>4, <3>5
    <3>7. p.pool[j].prev # NoID => p.pool[p.pool[j].prev].next = j
      BY <1>1, <1>2, <1>5, <1>6, <3>1, <3>2, <3>3, <3>4, <3>5
    <3>8. p.pool[j].next = NoID <=> p.last = j
      BY <1>1, <1>2, <1>5, <1>6, <3>1, <3>2, <3>3, <3>4
    <3>9. p.pool[j].prev = NoID <=> p.first = j
      BY <1>1, <1>2, <1>5, <1>6, <3>1, <3>2, <3>3, <3>4
    <3>10. QED
      BY <3>5, <3>6, <3>7, <3>8, <3>9
  <2>2. p.first \in B \cup {NoID} /\ p.last \in B \cup {NoID}
    <3>1. q.first \in Busy(q) \cup {NoID} /\ q.last \in Busy(q) \cup {NoID}
      BY <1>3 DEF Listed
    <3>2. (prev = NoID <=> q.first = i) /\ (next = NoID <=> q.last = i)
      BY <1>3 DEF Listed
    <3>3. QED
      BY <1>2, <1>6, <3>1, <3>2
  <2>3. QED
    BY <2>1, <2>2 DEF Listed
<1>9. FreeListed(p)
  <2>1. \A j \in IdleIn(q) : p.pool[j].next = q.pool[j].next
    BY <1>1, <1>2, <1>6 DEF IdleIn
  <2>2. QED
    BY <1>2, <1>3, <1>7, <2>1 DEF FreeListed
<1>10. RankedBy(p, r)
  <2>1. ASSUME NEW j \in D, p.pool[j].next # NoID
        PROVE  r[j] < r[p.pool[j].next]
    <3>1. CASE j # prev
      BY <1>2, <1>4, <2>1, <3>1 DEF RankedBy
    <3>2. CASE j = prev
      <4>1. q.pool[j].next = i /\ j # NoID
        BY <1>1, <1>3, <3>2 DEF Listed
      <4>2. r[j] < r[i]
        BY <1>1, <1>4, <4>1 DEF RankedBy
      <4>3. p.pool[j].next = next /\ next # NoID
        BY <1>2, <1>5, <2>1, <3>2
      <4>4. r[i] < r[next]
        BY <1>1, <1>4, <4>3 DEF RankedBy
      <4>5. r[i] \in Nat /\ r[j] \in Nat /\ r[next] \in Nat
        BY <1>1, <1>4, <1>6, <4>3 DEF RankedBy
      <4>6. QED
        BY <4>2, <4>3, <4>4, <4>5
    <3>3. QED
      BY <3>1, <3>2
  <2>2. QED
    BY <1>4, <1>7, <2>1 DEF RankedBy
<1>11. q.first # i => p.first = q.first
  BY <1>2, <1>3 DEF Listed
<1>12. QED
  BY <1>1, <1>2, <1>7, <1>8, <1>9, <1>10, <1>11 DEF Loose, Lists, Ranked

(* Timers that each follow one of them do not exist: ranks have a least. *)
LEMMA NoCircle ==
    ASSUME NEW T, NEW C, NEW q, IsQueue(q, T, C), Ranked(q), NEW S, S \subseteq DOMAIN q.pool,
           \A j \in S : \E k \in S : q.pool[k].next = j
    PROVE  S = {}
<1>1. SUFFICES ASSUME S # {} PROVE FALSE
  OBVIOUS
<1>2. PICK r : RankedBy(q, r)
  BY DEF Ranked
<1> DEFINE R == {r[j] : j \in S}
<1>3. R \subseteq Nat /\ R # {}
  BY <1>1, <1>2 DEF RankedBy
<1>4. PICK x \in R : \A y \in R : ~(<<y, x>> \in OpToRel(<, Nat))
  BY <1>3, WFMin, NatLessThanWellFounded
<1>5. \A y \in R : ~(y < x)
  BY <1>3, <1>4 DEF OpToRel
<1>6. PICK j \in S : x = r[j]
  BY <1>4
<1>7. PICK k \in S : q.pool[k].next = j
  OBVIOUS
<1>8. r[k] < r[j]
  BY <1>2, <1>7, PoolType DEF RankedBy
<1>9. QED
  BY <1>5, <1>6, <1>8

LEMMA InsertLists ==
    ASSUME NEW T, NEW C, NEW q, IsQueue(q, T, C), NEW i, Loose(q, i),
           NEW after \in (Busy(q) \cup {NoID}) \ {i}, NEW p, p = InsertToList(q, i, after)
    PROVE  /\ Lists(p, Busy(p)) /\ Busy(p) = Busy(q) /\ Rest(p, q) /\ p.event = q.event
           /\ p.first = IF after = NoID THEN i ELSE q.first
<1> DEFINE next == IF after = NoID THEN q.first ELSE q.pool[after].next
           D == DOMAIN q.pool
           B == Busy(q) \ {i}
<1>1. B \subseteq D /\ i \in D /\ i # NoID /\ NoID \notin D /\ D \subseteq Nat
  BY PoolType DEF Loose
<1>2. Listed(q, B) /\ FreeListed(q) /\ Ranked(q) /\ i \in Busy(q) /\ after \in B \cup {NoID}
  BY DEF Loose, Lists
<1>3. next \in B \cup {NoID} /\ next # i
  BY <1>1, <1>2 DEF Listed
<1> HIDE DEF next
<1>4. /\ Rest(p, q) /\ Flags(p, q) /\ p.free = q.free /\ p.event = q.event
      /\ p.first = IF after = NoID THEN i ELSE q.first
      /\ p.last = IF next = NoID THEN i ELSE q.last
      /\ \A j \in D :
            /\ p.pool[j].next = IF j = i THEN next ELSE IF j = after THEN i ELSE q.pool[j].next
            /\ p.pool[j].prev = IF j = i THEN after ELSE IF j = next THEN i ELSE q.pool[j].prev
  BY <1>1, <1>2, <1>3, InsertDoes DEF next
<1>5. DOMAIN p.pool = D /\ Busy(p) = Busy(q) /\ IdleIn(p) = IdleIn(q)
  BY <1>4, BusyOf DEF Rest, IdleIn
<1>6. /\ next # NoID => q.pool[next].prev = after
      /\ after # NoID => q.pool[after].next = next
      /\ next = NoID => q.last = after
      /\ after = NoID => q.first = next
      /\ q.first \in B \cup {NoID} /\ q.last \in B \cup {NoID}
  <2>1. q.first \in B \cup {NoID} /\ q.last \in B \cup {NoID}
    BY <1>2 DEF Listed
  <2>2. CASE after # NoID
    BY <1>1, <1>2, <2>1, <2>2 DEF Listed, next
  <2>3. CASE after = NoID
    <3>1. next = q.first
      BY <2>3 DEF next
    <3>2. next # NoID => q.pool[next].prev = NoID
      BY <1>1, <1>2, <2>1, <3>1 DEF Listed
    <3>3. next = NoID => q.last = NoID
      <4>1. SUFFICES ASSUME next = NoID, q.last \in B PROVE FALSE
        BY <2>1
      <4>2. \A j \in B : \E k \in B : q.pool[k].next = j
        <5>1. SUFFICES ASSUME NEW j \in B PROVE \E k \in B : q.pool[k].next = j
          OBVIOUS
        <5>2. q.first # j /\ j # NoID
          BY <1>1, <3>1, <4>1
        <5>3. QED
          BY <1>2, <5>2 DEF Listed
      <4>3. B = {}
        <5> HIDE DEF B
        <5>1. QED
          BY <1>1, <1>2, <4>2, NoCircle
      <4>4. QED
        BY <4>1, <4>3
    <3>4. QED
      BY <2>1, <2>3, <3>1, <3>2, <3>3
  <2>4. QED
    BY <2>2, <2>3
<1>7. Listed(p, Busy(p))
  <2>1. ASSUME NEW j \in Busy(q)
        PROVE  /\ p.pool[j].next \in Busy(q) \cup {NoID}
               /\ p.pool[j].prev \in Busy(q) \cup {NoID}
               /\ p.pool[j].next # NoID => p.pool[p.pool[j].next].prev = j
               /\ p.pool[j].prev # NoID => p.pool[p.pool[j].prev].next = j
               /\ p.pool[j].next = NoID <=> p.last = j
               /\ p.pool[j].prev = NoID <=> p.first = j
    <3>1. CASE j = i
      <4>1. p.pool[i].next = next /\ p.pool[i].prev = after
        BY <1>1, <1>4
      <4>2. next # NoID => p.pool[next].prev = i
        BY <1>1, <1>3, <1>4
      <4>3. after # NoID => p.pool[after].next = i
        BY <1>1, <1>2, <1>4
      <4>4. (next = NoID <=> p.last = i) /\ (after = NoID <=> p.first = i)
        BY <1>1, <1>4, <1>6
      <4>5. QED
        BY <1>2, <1>3, <3>1, <4>1, <4>2, <4>3, <4>4
    <3>2. CASE j # i
      <4>1. j \in B /\ j \in D /\ j # NoID
        BY <1>1, <3>2
      <4>2. /\ q.pool[j].next \in B \cup {NoID} /\ q.pool[j].prev \in B \cup {NoID}
            /\ q.pool[j].next # NoID => q.pool[q.pool[j].next].prev = j
            /\ q.pool[j].prev # NoID => q.pool[q.pool[j].prev].next = j
            /\ q.pool[j].next = NoID <=> q.last = j
            /\ q.pool[j].prev = NoID <=> q.first = j
        BY <1>2, <4>1 DEF Listed
      <4>3. /\ p.pool[j].next = IF j = after THEN i ELSE q.pool[j].next
            /\ p.pool[j].prev = IF j = next THEN i ELSE q.pool[j].prev
        BY <1>4, <3>2, <4>1
      <4>4. p.pool[i].next = next /\ p.pool[i].prev = after
        BY <1>1, <1>4
      <4>5. p.pool[j].next # NoID => p.pool[p.pool[j].next].prev = j
        <5>1. CASE j = after
          BY <4>3, <4>4, <5>1
        <5>2. CASE j # after /\ q.pool[j].next # NoID
          <6>1. q.pool[j].next # next
            BY <1>6, <4>2, <5>2
          <6>2. q.pool[j].next # i /\ q.pool[j].next \in D
            BY <1>1, <4>2, <5>2
          <6>3. QED
            BY <1>4, <4>2, <4>3, <5>2, <6>1, <6>2
        <5>3. QED
          BY <4>3, <5>1, <5>2
      <4>6. p.pool[j].prev # NoID => p.pool[p.pool[j].prev].next = j
        <5>1. CASE j = next
          BY <4>3, <4>4, <5>1
        <5>2. CASE j # next /\ q.pool[j].prev # NoID
          <6>1. q.pool[j].prev # after
            BY <1>6, <4>2, <5>2
          <6>2. q.pool[j].prev # i /\ q.pool[j].prev \in D
            BY <1>1, <4>2, <5>2
          <6>3. QED
            BY <1>4, <4>2, <4>3, <5>2, <6>1, <6>2
        <5>3. QED
          BY <4>3, <5>1, <5>2
      <4>7. p.pool[j].next = NoID <=> p.last = j
        <5>1. CASE next = NoID
          BY <1>1, <1>4, <1>6, <3>2, <4>2, <4>3, <5>1
        <5>2. CASE next # NoID
          BY <1>1, <1>4, <1>6, <3>2, <4>2, <4>3, <5>2
        <5>3. QED
          BY <5>1, <5>2
      <4>8. p.pool[j].prev = NoID <=> p.first = j
        <5>1. CASE after = NoID
          BY <1>1, <1>4, <1>6, <3>2, <4>1, <4>2, <4>3, <5>1
        <5>2. CASE after # NoID
          BY <1>1, <1>4, <1>6, <3>2, <4>1, <4>2, <4>3, <5>2
        <5>3. QED
          BY <5>1, <5>2
      <4>9. QED
        BY <1>2, <4>2, <4>3, <4>5, <4>6, <4>7, <4>8
    <3>3. QED
      BY <3>1, <3>2
  <2>2. p.first \in Busy(q) \cup {NoID} /\ p.last \in Busy(q) \cup {NoID}
    BY <1>2, <1>4, <1>6
  <2>3. QED
    BY <1>5, <2>1, <2>2 DEF Listed
<1>8. FreeListed(p)
  <2>1. \A j \in IdleIn(q) : p.pool[j].next = q.pool[j].next
    BY <1>1, <1>2, <1>4 DEF IdleIn
  <2>2. QED
    BY <1>2, <1>4, <1>5, <2>1 DEF FreeListed
<1>9. Ranked(p)
  <2>1. PICK r : RankedBy(q, r)
    BY <1>2 DEF Ranked
  <2> DEFINE s == [j \in D |-> IF j = i THEN IF after = NoID THEN 0 ELSE r[after] + 1
                               ELSE IF after # NoID /\ r[j] <= r[after] THEN r[j] ELSE r[j] + 1]
  <2>2. r \in [D -> Nat] /\ \A j \in D : r[j] \in Nat
    BY <2>1 DEF RankedBy
  <2>3. s \in [D -> Nat]
    BY <1>2, <1>1, <2>2
  <2>4. ASSUME NEW j \in D, p.pool[j].next # NoID
        PROVE  s[j] < s[p.pool[j].next]
    <3>1. CASE j = i
      <4>1. p.pool[j].next = next /\ next \in D /\ next # NoID
        BY <1>1, <1>3, <1>4, <2>4, <3>1
      <4>2. CASE after = NoID
        BY <1>3, <2>2, <3>1, <4>1, <4>2
      <4>3. CASE after # NoID
        <5>1. r[after] < r[next] /\ after \in D
          BY <1>1, <1>2, <1>6, <2>1, <4>1, <4>3 DEF RankedBy
        <5>2. QED
          BY <1>3, <2>2, <3>1, <4>1, <4>3, <5>1
      <4>4. QED
        BY <4>2, <4>3
    <3>2. CASE j # i /\ j = after
      BY <1>1, <1>4, <2>2, <3>2
    <3>3. CASE j # i /\ j # after
      <4>1. p.pool[j].next = q.pool[j].next
        BY <1>4, <3>3
      <4>2. r[j] < r[q.pool[j].next]
        BY <2>1, <2>4, <4>1 DEF RankedBy
      <4>3. q.pool[j].next \in D /\ q.pool[j].next # i
        <5>1. CASE j \in B
          BY <1>1, <1>2, <2>4, <4>1, <5>1 DEF Listed
        <5>2. CASE j \notin B
          <6>1. j \in IdleIn(q)
            BY <3>3, <5>2 DEF IdleIn
          <6>2. QED
            BY <1>2, <2>4, <4>1, <6>1 DEF FreeListed, IdleIn
        <5>3. QED
          BY <5>1, <5>2
      <4>4. CASE after = NoID
        BY <2>2, <3>3, <4>1, <4>2, <4>3, <4>4
      <4>5. CASE after # NoID
        <5>1. after \in D
          BY <1>1, <1>2, <4>5
        <5>2. QED
          BY <2>2, <3>3, <4>1, <4>2, <4>3, <4>5, <5>1
      <4>6. QED
        BY <4>4, <4>5
    <3>4. QED
      BY <3>1, <3>2, <3>3
  <2> HIDE DEF s
  <2>5. RankedBy(p, s)
    BY <1>5, <2>3, <2>4 DEF RankedBy
  <2>6. QED
    BY <2>5 DEF Ranked
<1>10. QED
  BY <1>4, <1>5, <1>7, <1>8, <1>9 DEF Lists

LEMMA FreeLists ==
    ASSUME NEW T, NEW C, NEW q, IsQueue(q, T, C), NEW i, Loose(q, i), NEW p, p = Free(q, i)
    PROVE  Lists(p, Busy(p))
<1> DEFINE D == DOMAIN q.pool
           B == Busy(q) \ {i}
<1>1. B \subseteq D /\ i \in D /\ NoID \notin D
  BY PoolType DEF Loose
<1>2. Listed(q, B) /\ FreeListed(q) /\ Ranked(q) /\ i \in Busy(q)
  BY DEF Loose, Lists
<1>3. /\ Rest(p, q) /\ Prevs(p, q) /\ Busy(p) = B
      /\ p.first = q.first /\ p.last = q.last /\ p.free = i
      /\ \A j \in D : p.pool[j].next = IF j = i THEN q.free ELSE q.pool[j].next
  BY <1>1, FreeDoes
<1>4. DOMAIN p.pool = D /\ IdleIn(p) = IdleIn(q) \cup {i}
  BY <1>1, <1>2, <1>3 DEF Rest, IdleIn
<1>5. Listed(p, B)
  <2>1. \A j \in B : p.pool[j].next = q.pool[j].next /\ p.pool[j].prev = q.pool[j].prev
    BY <1>1, <1>3 DEF Prevs
  <2>2. QED
    BY <1>2, <1>3, <2>1 DEF Listed
<1>6. FreeListed(p)
  <2>1. p.free \in IdleIn(p)
    BY <1>3, <1>4
  <2>2. ASSUME NEW j \in IdleIn(p)
        PROVE  /\ p.pool[j].next \in IdleIn(p) \cup {NoID}
               /\ j # p.free => \E k \in IdleIn(p) : p.pool[k].next = j
    <3>1. CASE j = i
      BY <1>1, <1>2, <1>3, <1>4, <3>1 DEF FreeListed
    <3>2. CASE j # i
      <4>1. j \in IdleIn(q) /\ j \in D
        BY <1>4, <3>2 DEF IdleIn
      <4>2. p.pool[j].next \in IdleIn(p) \cup {NoID}
        BY <1>2, <1>3, <1>4, <3>2, <4>1 DEF FreeListed
      <4>3. \E k \in IdleIn(p) : p.pool[k].next = j
        <5>1. CASE j = q.free
          BY <1>1, <1>3, <1>4, <5>1
        <5>2. CASE j # q.free
          <6>1. PICK k \in IdleIn(q) : q.pool[k].next = j
            BY <1>2, <4>1, <5>2 DEF FreeListed
          <6>2. k \in D /\ k # i /\ k \in IdleIn(p)
            BY <1>2, <1>4, <6>1 DEF IdleIn
          <6>3. QED
            BY <1>3, <6>1, <6>2
        <5>3. QED
          BY <5>1, <5>2
      <4>4. QED
        BY <4>2, <4>3
    <3>3. QED
      BY <3>1, <3>2
  <2>3. QED
    BY <2>1, <2>2 DEF FreeListed
<1>7. Ranked(p)
  <2>1. PICK r : RankedBy(q, r)
    BY <1>2 DEF Ranked
  <2> DEFINE s == [j \in D |-> IF j = i THEN 0 ELSE r[j] + 1]
  <2>2. r \in [D -> Nat] /\ \A j \in D : r[j] \in Nat
    BY <2>1 DEF RankedBy
  <2>3. s \in [D -> Nat]
    BY <1>1, <2>2
  <2>4. ASSUME NEW j \in D, p.pool[j].next # NoID
        PROVE  s[j] < s[p.pool[j].next]
    <3>1. CASE j = i
      <4>1. p.pool[j].next = q.free /\ q.free \in D /\ q.free # i
        BY <1>2, <1>3, <2>4, <3>1 DEF FreeListed, IdleIn
      <4>2. QED
        BY <2>2, <3>1, <4>1
    <3>2. CASE j # i
      <4>1. p.pool[j].next = q.pool[j].next
        BY <1>3, <3>2
      <4>2. r[j] < r[q.pool[j].next]
        BY <2>1, <2>4, <4>1 DEF RankedBy
      <4>3. q.pool[j].next \in D /\ q.pool[j].next # i
        <5>1. CASE j \in B
          BY <1>1, <1>2, <2>4, <4>1, <5>1 DEF Listed
        <5>2. CASE j \notin B
          <6>1. j \in IdleIn(q)
            BY <3>2, <5>2 DEF IdleIn
          <6>2. QED
            BY <1>2, <2>4, <4>1, <6>1 DEF FreeListed, IdleIn
        <5>3. QED
          BY <5>1, <5>2
      <4>4. QED
        BY <2>2, <3>2, <4>1, <4>2, <4>3
    <3>3. QED
      BY <3>1, <3>2
  <2> HIDE DEF s
  <2>5. RankedBy(p, s)
    BY <1>4, <2>3, <2>4 DEF RankedBy
  <2>6. QED
    BY <2>5 DEF Ranked
<1>8. QED
  BY <1>3, <1>5, <1>6, <1>7 DEF Lists

(* The timer that Allocate takes was idle, or did not exist. *)
LEMMA AllocateLists ==
    ASSUME NEW T, NEW C, NEW q, IsQueue(q, T, C), Lists(q, Busy(q)), NEW t \in T, NEW c \in C,
           NEW i, i = NextID(q), NEW p, p = Allocate(q, t, c)
    PROVE  /\ Loose(p, i) /\ Busy(p) = Busy(q) \cup {i} /\ i \notin Busy(q)
           /\ DOMAIN p.pool = DOMAIN q.pool \cup {i} /\ Contents(p, q, i)
           /\ p.pool[i].ticket = t /\ p.pool[i].cmd = c
           /\ p.first = q.first /\ p.event = q.event
<1> DEFINE new == [busy |-> TRUE, next |-> NoID, prev |-> NoID, ticket |-> t, cmd |-> c]
           D == DOMAIN q.pool
           B == Busy(q)
<1>1. /\ B \subseteq D /\ NoID \notin D /\ D \subseteq Nat /\ D = 1..Len(q.pool) /\ Len(q.pool) \in Nat
      /\ q \in [pool : Seq(Entry(D, T, C)), event : BOOLEAN, first : D \cup {NoID},
                last : D \cup {NoID}, free : D \cup {NoID}]
  BY PoolType
<1>2. Listed(q, B) /\ FreeListed(q) /\ Ranked(q)
  BY DEF Lists
<1>3. i \notin B /\ i # NoID
  BY <1>1, <1>2 DEF NextID, FreeListed, IdleIn, NoID
<1>4. /\ DOMAIN p.pool = D \cup {i} /\ p.pool[i] = new
      /\ \A j \in D : j # i => p.pool[j] = q.pool[j]
      /\ p.first = q.first /\ p.last = q.last /\ p.event = q.event
      /\ q.free # NoID => i = q.free /\ p.free = q.pool[i].next
      /\ q.free = NoID => i \notin D /\ p.free = NoID
  <2>1. CASE q.free # NoID
    <3>1. p = [q EXCEPT !.free = q.pool[i].next, !.pool[i] = new] /\ i = q.free /\ i \in D
      BY <1>1, <2>1 DEF Allocate, NextID
    <3> HIDE DEF new
    <3>2. /\ p.pool = [q.pool EXCEPT ![i] = new] /\ p.free = q.pool[i].next /\ p.first = q.first
          /\ p.last = q.last /\ p.event = q.event
      BY <1>1, <3>1
    <3>3. QED
      BY <2>1, <3>1, <3>2
  <2>2. CASE q.free = NoID
    <3>1. p = [q EXCEPT !.pool = Append(q.pool, new)] /\ i = Len(q.pool) + 1
      BY <2>2 DEF Allocate, NextID
    <3> HIDE DEF new
    <3>2. /\ p.pool = Append(q.pool, new) /\ p.free = NoID /\ p.first = q.first
          /\ p.last = q.last /\ p.event = q.event
      BY <1>1, <2>2, <3>1
    <3>3. /\ DOMAIN p.pool = 1..Len(q.pool) + 1 /\ p.pool[i] = new
          /\ \A j \in D : p.pool[j] = q.pool[j]
      <4>1. q.pool \in Seq(Entry(D, T, C))
        BY <1>1
      <4>2. QED
        BY <1>1, <3>1, <3>2, <4>1
    <3>4. i \notin D /\ D \cup {i} = 1..Len(q.pool) + 1
      BY <1>1, <3>1
    <3>5. QED
      BY <2>2, <3>1, <3>2, <3>3, <3>4
  <2>3. QED
    BY <2>1, <2>2
<1>5. Busy(p) = B \cup {i} /\ IdleIn(p) = IdleIn(q) \ {i}
  <2>1. Busy(p) = B \cup {i}
    BY <1>1, <1>4 DEF Busy
  <2>2. QED
    BY <1>4, <2>1 DEF IdleIn
<1>6. Busy(p) \ {i} = B
  BY <1>3, <1>5
<1>7. Listed(p, B)
  <2>1. \A j \in B : p.pool[j] = q.pool[j]
    BY <1>1, <1>3, <1>4
  <2>2. QED
    BY <1>2, <1>4, <2>1 DEF Listed
<1>8. FreeListed(p)
  <2>1. CASE q.free = NoID
    <3>1. IdleIn(p) = IdleIn(q)
      BY <1>4, <1>5, <2>1 DEF IdleIn
    <3>2. \A j \in IdleIn(q) : p.pool[j] = q.pool[j]
      BY <1>4, <2>1 DEF IdleIn
    <3>3. QED
      BY <1>2, <1>4, <2>1, <3>1, <3>2 DEF FreeListed
  <2>2. CASE q.free # NoID
    <3>1. PICK r : RankedBy(q, r)
      BY <1>2 DEF Ranked
    <3>2. i = q.free /\ p.free = q.pool[i].next /\ i \in IdleIn(q)
      BY <1>2, <1>4, <2>2 DEF FreeListed
    <3>3. p.free \in IdleIn(p) \cup {NoID}
      <4>1. q.pool[i].next # i
        BY <1>1, <1>3, <3>1, <3>2 DEF RankedBy, IdleIn
      <4>2. QED
        BY <1>2, <1>5, <3>2, <4>1 DEF FreeListed
    <3>4. ASSUME NEW j \in IdleIn(p)
          PROVE  /\ p.pool[j].next \in IdleIn(p) \cup {NoID}
                 /\ j # p.free => \E k \in IdleIn(p) : p.pool[k].next = j
      <4>1. j \in IdleIn(q) /\ j # i /\ p.pool[j] = q.pool[j]
        BY <1>4, <1>5, <3>4 DEF IdleIn
      <4>2. q.pool[j].next # i
        <5>1. SUFFICES ASSUME q.pool[j].next = i PROVE FALSE
          OBVIOUS
        <5> DEFINE S == {k \in IdleIn(q) : r[k] <= r[j]}
        <5>2. j \in S /\ S \subseteq D
          BY <3>1, <4>1 DEF RankedBy, IdleIn
        <5>3. \A k \in S : \E h \in S : q.pool[h].next = k
          <6>1. SUFFICES ASSUME NEW k \in S PROVE \E h \in S : q.pool[h].next = k
            OBVIOUS
          <6>2. r[j] < r[i] /\ r[j] \in Nat /\ r[i] \in Nat /\ r[k] \in Nat
            BY <1>3, <3>1, <3>2, <4>1, <5>1 DEF RankedBy, IdleIn
          <6>3. k # i
            BY <6>2
          <6>4. PICK h \in IdleIn(q) : q.pool[h].next = k
            BY <1>2, <3>2, <6>3 DEF FreeListed
          <6>5. r[h] < r[k] /\ r[h] \in Nat
            BY <1>1, <3>1, <6>4 DEF RankedBy, IdleIn
          <6>6. QED
            BY <6>2, <6>4, <6>5
        <5> HIDE DEF S
        <5>4. QED
          BY <1>2, <5>2, <5>3, NoCircle
      <4>3. p.pool[j].next \in IdleIn(p) \cup {NoID}
        BY <1>2, <1>5, <4>1, <4>2 DEF FreeListed
      <4>4. j # p.free => \E k \in IdleIn(p) : p.pool[k].next = j
        <5>1. SUFFICES ASSUME j # p.free PROVE \E k \in IdleIn(p) : p.pool[k].next = j
          OBVIOUS
        <5>2. PICK k \in IdleIn(q) : q.pool[k].next = j
          BY <1>2, <3>2, <4>1 DEF FreeListed
        <5>3. k # i /\ k \in D
          BY <3>2, <5>1, <5>2 DEF IdleIn
        <5>4. QED
          BY <1>4, <1>5, <5>2, <5>3
      <4>5. QED
        BY <4>3, <4>4
    <3>5. QED
      BY <3>3, <3>4 DEF FreeListed
  <2>3. QED
    BY <2>1, <2>2
<1>9. Ranked(p)
  <2>1. PICK r : RankedBy(q, r)
    BY <1>2 DEF Ranked
  <2> DEFINE s == [j \in D \cup {i} |-> IF j = i THEN 0 ELSE r[j]]
  <2>2. s \in [D \cup {i} -> Nat]
    BY <2>1 DEF RankedBy
  <2>3. ASSUME NEW j \in D \cup {i}, p.pool[j].next # NoID
        PROVE  s[j] < s[p.pool[j].next]
    <3>1. j # i
      BY <1>4, <2>3
    <3>2. p.pool[j] = q.pool[j] /\ j \in D
      BY <1>4, <2>3, <3>1
    <3>3. q.pool[j].next \in IdleIn(p) \cup B
      <4>1. CASE j \in B
        BY <1>2, <2>3, <3>2, <4>1 DEF Listed
      <4>2. CASE j \notin B
        <5>1. j \in IdleIn(p)
          BY <1>4, <1>5, <3>1, <3>2, <4>2 DEF IdleIn
        <5>2. QED
          BY <1>8, <2>3, <3>2, <5>1 DEF FreeListed
      <4>3. QED
        BY <4>1, <4>2
    <3>4. q.pool[j].next \in D /\ q.pool[j].next # i
      BY <1>1, <1>3, <1>5, <3>3 DEF IdleIn
    <3>5. QED
      BY <2>1, <2>3, <3>1, <3>2, <3>4 DEF RankedBy
  <2> HIDE DEF s
  <2>4. RankedBy(p, s)
    BY <1>4, <2>2, <2>3 DEF RankedBy
  <2>5. QED
    BY <2>4 DEF Ranked
<1>10. Contents(p, q, i) /\ i \in Busy(p)
  BY <1>4, <1>5 DEF Contents
<1>11. QED
  BY <1>3, <1>4, <1>5, <1>6, <1>7, <1>8, <1>9, <1>10 DEF Loose, Lists

-----------------------------------------------------------------------------
(* The calls of a session and of the timer thread, as a whole *)

(* A change that the timer thread need not know of, or is told of. *)
Alarm(p, q) == p.event \/ (p.first = q.first /\ p.event = q.event)

Whole(q) == Lists(q, Busy(q))

LEMMA SameLists ==
    ASSUME NEW p, NEW q, p.pool = q.pool, p.first = q.first, p.last = q.last, p.free = q.free
    PROVE  Busy(p) = Busy(q) /\ \A B : Lists(q, B) => Lists(p, B)
<1>1. Busy(p) = Busy(q)
  BY DEF Busy
<1>2. IdleIn(p) = IdleIn(q)
  BY <1>1 DEF IdleIn
<1>3. FreeListed(q) => FreeListed(p)
  BY <1>2 DEF FreeListed
<1>4. Ranked(q) => Ranked(p)
  BY DEF Ranked, RankedBy
<1>5. ASSUME NEW B, Listed(q, B) PROVE Listed(p, B)
  BY <1>5 DEF Listed
<1>6. QED
  BY <1>1, <1>3, <1>4, <1>5 DEF Lists

LEMMA AddDoes ==
    ASSUME NEW T, NEW C, NEW q, IsQueue(q, T, C), Whole(q), NEW t \in T, NEW c \in C,
           NEW after \in Places(q), NEW i, i = NextID(q), NEW p, p = AddTimeoutMessage(q, t, c, after)
    PROVE  /\ Whole(p) /\ Busy(p) = Busy(q) \cup {i} /\ i \notin Busy(q) /\ Contents(p, q, i)
           /\ p.pool[i].ticket = t /\ p.pool[i].cmd = c /\ Alarm(p, q)
<1>1. PICK a : a = Allocate(q, t, c)
  OBVIOUS
<1>2. IsQueue(a, T, C)
  BY <1>1, AllocateType
<1>3. /\ Loose(a, i) /\ Busy(a) = Busy(q) \cup {i} /\ i \notin Busy(q)
      /\ DOMAIN a.pool = DOMAIN q.pool \cup {i} /\ Contents(a, q, i)
      /\ a.pool[i].ticket = t /\ a.pool[i].cmd = c /\ a.first = q.first /\ a.event = q.event
  BY <1>1, AllocateLists DEF Whole
<1>4. after \in Busy(q) \cup {NoID} /\ NoID \notin Busy(a)
  BY <1>2, PoolType DEF Places, Whole, Lists, Listed
<1>5. PICK b : b = InsertToList(a, i, after)
  OBVIOUS
<1>6. /\ Lists(b, Busy(b)) /\ Busy(b) = Busy(a) /\ Rest(b, a) /\ b.event = a.event
      /\ b.first = IF after = NoID THEN i ELSE a.first
  <2>1. after \in (Busy(a) \cup {NoID}) \ {i}
    BY <1>3, <1>4 DEF Loose
  <2>2. QED
    BY <1>2, <1>3, <1>5, <2>1, InsertLists
<1>7. IsQueue(b, T, C) /\ i \in DOMAIN a.pool
  <2>1. after \in DOMAIN a.pool \cup {NoID} /\ i \in DOMAIN a.pool
    BY <1>2, <1>3, <1>4, PoolType
  <2>2. QED
    BY <1>2, <1>5, <2>1, InsertType DEF Same
<1>8. p = Signal(b, b.first = i)
  BY <1>1, <1>5 DEF AddTimeoutMessage
<1>9. /\ p.pool = b.pool /\ p.first = b.first /\ p.last = b.last /\ p.free = b.free
      /\ IF b.first = i THEN p.event ELSE p.event = b.event
  BY <1>7, <1>8, PoolType DEF Signal
<1>10. Whole(p) /\ Busy(p) = Busy(q) \cup {i}
  BY <1>3, <1>6, <1>9, SameLists DEF Whole
<1>11. Contents(p, q, i) /\ p.pool[i].ticket = t /\ p.pool[i].cmd = c
  BY <1>3, <1>6, <1>7, <1>9 DEF Contents, Rest
<1>12. Alarm(p, q)
  BY <1>3, <1>6, <1>9 DEF Alarm
<1>13. QED
  BY <1>3, <1>10, <1>11, <1>12

LEMMA RemoveFreeDoes ==
    ASSUME NEW T, NEW C, NEW q, IsQueue(q, T, C), Whole(q), NEW i \in Busy(q),
           NEW p, p = Free(RemoveFromList(q, i), i)
    PROVE  /\ Whole(p) /\ Busy(p) = Busy(q) \ {i} /\ Contents(p, q, NoID)
           /\ q.first # i => p.first = q.first /\ p.event = q.event
           /\ p.event = q.event
<1>1. PICK a : a = RemoveFromList(q, i)
  OBVIOUS
<1>2. IsQueue(a, T, C) /\ i \in DOMAIN q.pool /\ DOMAIN a.pool = DOMAIN q.pool
  BY <1>1, RemoveType, PoolType DEF Same
<1>3. Loose(a, i) /\ Busy(a) = Busy(q) /\ (q.first # i => a.first = q.first)
  BY <1>1, RemoveLists DEF Whole
<1>4. Rest(a, q) /\ a.event = q.event
  BY <1>1, <1>2, RemoveDoes
<1>5. Lists(p, Busy(p))
  BY <1>1, <1>2, <1>3, FreeLists
<1>6. Rest(p, a) /\ Busy(p) = Busy(a) \ {i} /\ p.first = a.first /\ p.event = a.event
  BY <1>1, <1>2, FreeDoes
<1>7. Contents(p, q, NoID)
  BY <1>2, <1>4, <1>6 DEF Contents, Rest
<1>8. QED
  BY <1>3, <1>4, <1>5, <1>6, <1>7 DEF Whole

LEMMA DeleteDoes ==
    ASSUME NEW T, NEW C, NEW q, IsQueue(q, T, C), Whole(q), NEW i \in DOMAIN q.pool,
           NEW p, p = DeleteMessage(q, i)
    PROVE  Whole(p) /\ Busy(p) = Busy(q) \ {i} /\ Contents(p, q, NoID) /\ Alarm(p, q)
<1>1. CASE i \notin Busy(q)
  <2>1. p = q
    BY <1>1 DEF DeleteMessage, Busy
  <2>2. QED
    BY <1>1, <2>1 DEF Contents, Alarm
<1>2. CASE i \in Busy(q)
  <2>1. PICK a : a = Signal(q, q.first = i)
    OBVIOUS
  <2>2. /\ a.pool = q.pool /\ a.first = q.first /\ a.last = q.last /\ a.free = q.free
        /\ IF q.first = i THEN a.event ELSE a.event = q.event
    BY <2>1, PoolType DEF Signal
  <2>3. IsQueue(a, T, C)
    BY <2>1, SignalType DEF Same
  <2>4. Whole(a) /\ Busy(a) = Busy(q)
    BY <2>2, SameLists DEF Whole
  <2>5. p = Free(RemoveFromList(a, i), i)
    BY <1>2, <2>1 DEF DeleteMessage, Busy
  <2>6. /\ Whole(p) /\ Busy(p) = Busy(a) \ {i} /\ Contents(p, a, NoID)
        /\ a.first # i => p.first = a.first /\ p.event = a.event
        /\ p.event = a.event
    BY <1>2, <2>3, <2>4, <2>5, RemoveFreeDoes
  <2>7. QED
    BY <2>2, <2>4, <2>6 DEF Contents, Alarm
<1>3. QED
  BY <1>1, <1>2

LEMMA KeepAliveDoes ==
    ASSUME NEW T, NEW C, NEW q, IsQueue(q, T, C), Whole(q), NEW i \in Busy(q),
           NEW after \in KeepAlivePlaces(q, i), NEW p, p = KeepAliveMessage(q, i, after)
    PROVE  /\ Whole(p) /\ Busy(p) = Busy(q) /\ Contents(p, q, NoID)
           /\ ~(after = NoID /\ q.first # i /\ RemoveFromList(q, i).first # NoID) => Alarm(p, q)
<1>1. PICK a : a = Signal(q, q.first = i)
  OBVIOUS
<1>2. /\ a.pool = q.pool /\ a.first = q.first /\ a.last = q.last /\ a.free = q.free
      /\ IF q.first = i THEN a.event ELSE a.event = q.event
  BY <1>1, PoolType DEF Signal
<1>3. IsQueue(a, T, C) /\ i \in DOMAIN q.pool /\ NoID \notin DOMAIN q.pool
  BY <1>1, SignalType, PoolType DEF Same
<1>4. Whole(a) /\ Busy(a) = Busy(q)
  BY <1>2, SameLists DEF Whole
<1>5. PICK b : b = RemoveFromList(a, i)
  OBVIOUS
<1>6. IsQueue(b, T, C) /\ DOMAIN b.pool = DOMAIN q.pool
  BY <1>2, <1>3, <1>5, RemoveType DEF Same
<1>7. Loose(b, i) /\ Busy(b) = Busy(q) /\ (q.first # i => b.first = q.first)
  BY <1>2, <1>3, <1>4, <1>5, RemoveLists DEF Whole
<1>8. Rest(b, a) /\ b.event = a.event /\ Flags(b, a)
  BY <1>2, <1>3, <1>5, RemoveDoes
<1>9. PICK c : c = SetBusy(b, i)
  OBVIOUS
<1>10. c = b
  <2>1. b.pool[i].busy = TRUE
    <3>1. b.pool[i].busy \in BOOLEAN
      BY <1>3, <1>6, PoolType DEF Entry
    <3>2. b.pool[i].busy
      BY <1>7 DEF Loose, Busy
    <3>3. QED
      BY <3>1, <3>2
  <2>2. b.pool[i] = [b.pool[i] EXCEPT !.busy = TRUE]
    <3>1. b.pool[i] \in Entry(DOMAIN b.pool, T, C)
      BY <1>3, <1>6, PoolType
    <3>2. \A e \in Entry(DOMAIN b.pool, T, C) : [e EXCEPT !.busy = e.busy] = e
      BY DEF Entry
    <3>3. QED
      BY <2>1, <3>1, <3>2
  <2>3. [b.pool EXCEPT ![i].busy = TRUE] = b.pool
    <3>1. b.pool = [j \in DOMAIN b.pool |-> b.pool[j]]
      BY <1>6 DEF IsQueue
    <3>2. QED
      BY <1>3, <1>6, <2>2, <3>1
  <2>4. [b EXCEPT !.pool = b.pool] = b
    BY <1>6 DEF IsQueue
  <2>5. QED
    BY <1>9, <2>3, <2>4 DEF SetBusy
<1>11. p = InsertToList(b, i, after)
  BY <1>1, <1>5, <1>9, <1>10 DEF KeepAliveMessage, SetBusy
<1>12. PICK o : o = RemoveFromList(q, i)
  OBVIOUS
<1>13. after \in (Busy(q) \cup {NoID}) \ {i}
  <2>1. Loose(o, i) /\ Busy(o) = Busy(q)
    BY <1>12, RemoveLists DEF Whole
  <2>2. IsQueue(o, T, C)
    BY <1>3, <1>12, RemoveType DEF Same
  <2>3. \A j \in DOMAIN q.pool : j = i => o.pool[j].prev = NoID
    BY <1>3, <1>12, RemoveDoes
  <2>4. Places(o) \subseteq Busy(q) \cup {NoID}
    BY <1>3, <2>1, <2>3 DEF Places, Loose, Lists, Listed
  <2>5. QED
    BY <1>12, <2>4 DEF KeepAlivePlaces
<1>14. /\ Lists(p, Busy(p)) /\ Busy(p) = Busy(b) /\ Rest(p, b) /\ p.event = b.event
       /\ p.first = IF after = NoID THEN i ELSE b.first
  BY <1>6, <1>7, <1>11, <1>13, InsertLists
<1>15. Contents(p, q, NoID)
  BY <1>2, <1>6, <1>8, <1>14 DEF Contents, Rest
<1>16. ASSUME ~(after = NoID /\ q.first # i /\ o.first # NoID) PROVE Alarm(p, q)
  <2>1. CASE q.first = i
    BY <1>2, <1>8, <1>14, <2>1 DEF Alarm
  <2>2. CASE q.first # i
    <3>1. q.first # NoID
      <4>1. SUFFICES ASSUME q.first = NoID PROVE FALSE
        OBVIOUS
      <4>2. \A j \in Busy(q) : \E k \in Busy(q) : q.pool[k].next = j
        BY <1>3, <4>1, PoolType DEF Whole, Lists, Listed
      <4>3. Ranked(q) /\ Busy(q) \subseteq DOMAIN q.pool
        BY PoolType DEF Whole, Lists
      <4>4. Busy(q) = {}
        BY <4>2, <4>3, NoCircle
      <4>5. QED
        BY <4>4
    <3>2. o.first = q.first
      BY <1>12, <2>2, RemoveLists DEF Whole
    <3>3. p.first = q.first /\ p.event = q.event
      BY <1>2, <1>7, <1>8, <1>14, <1>16, <2>2, <3>1, <3>2
    <3>4. QED
      BY <3>3 DEF Alarm
  <2>3. QED
    BY <2>1, <2>2
<1>17. QED
  BY <1>7, <1>12, <1>14, <1>15, <1>16 DEF Whole

-----------------------------------------------------------------------------
(* What following the links meets *)

Onward(q, S) == S \cup {q.pool[j].next : j \in S \ {NoID}}

Reaches(q, i, n, f) ==
    f = [k \in 0..n |-> IF k = 0 THEN {i} ELSE Onward(q, f[k - 1])]

(* The recursion of Chain has a solution. *)
LEMMA Reached ==
    ASSUME NEW q, NEW i, NEW n \in Nat
    PROVE  \E f : Reaches(q, i, n, f)
<1> DEFINE Without == {m \in Nat : ~\E f : Reaches(q, i, m, f)}
<1>1. SUFFICES ASSUME Without # {} PROVE FALSE
  OBVIOUS
<1>2. PICK m \in Without : \A k \in Without : ~(<<k, m>> \in OpToRel(<, Nat))
  BY <1>1, WFMin, NatLessThanWellFounded
<1>3. m \in Nat /\ \A k \in Without : ~(k < m)
  BY <1>2 DEF OpToRel
<1>4. CASE m = 0
  <2> DEFINE g == [k \in 0..0 |-> {i}]
  <2>1. g = [k \in 0..0 |-> IF k = 0 THEN {i} ELSE Onward(q, g[k - 1])]
    OBVIOUS
  <2>2. Reaches(q, i, m, g)
    BY <1>4, <2>1 DEF Reaches
  <2>3. QED
    BY <1>2, <2>2
<1>5. CASE m # 0
  <2>1. m - 1 \in Nat /\ m - 1 < m
    BY <1>3, <1>5
  <2>2. PICK f : Reaches(q, i, m - 1, f)
    BY <1>3, <2>1
  <2> DEFINE g == [k \in 0..m |-> IF k = m THEN Onward(q, f[m - 1]) ELSE f[k]]
  <2>3. \A k \in 0..m - 1 : f[k] = IF k = 0 THEN {i} ELSE Onward(q, f[k - 1])
    BY <2>2 DEF Reaches
  <2>4. ASSUME NEW k \in 0..m PROVE g[k] = IF k = 0 THEN {i} ELSE Onward(q, g[k - 1])
    <3>1. CASE k = m
      <4>1. g[k - 1] = f[m - 1]
        BY <1>3, <1>5, <3>1
      <4>2. QED
        BY <1>5, <3>1, <4>1
    <3>2. CASE k # m
      <4>1. k \in 0..m - 1 /\ g[k] = f[k]
        BY <1>3, <3>2
      <4>2. k # 0 => g[k - 1] = f[k - 1]
        BY <1>3, <3>2
      <4>3. QED
        BY <2>3, <4>1, <4>2
    <3>3. QED
      BY <3>1, <3>2
  <2>5. g = [k \in 0..m |-> g[k]]
    OBVIOUS
  <2> HIDE DEF g
  <2>6. g = [k \in 0..m |-> IF k = 0 THEN {i} ELSE Onward(q, g[k - 1])]
    BY <2>4, <2>5
  <2>7. QED
    BY <1>2, <2>6 DEF Reaches
<1>6. QED
  BY <1>4, <1>5

LEMMA ChainReaches ==
    ASSUME NEW q, NEW i, NEW n \in Nat
    PROVE  \E f : Reaches(q, i, n, f) /\ Chain(q, i, n) = f[n] \ {NoID}
<1> DEFINE g == CHOOSE f : Reaches(q, i, n, f)
<1>1. Reaches(q, i, n, g)
  BY Reached
<1>2. Chain(q, i, n) = g[n] \ {NoID}
  BY DEF Chain, Reaches, Onward
<1>3. QED
  BY <1>1, <1>2

(* A list that begins with i is what is reached from i. *)
LEMMA ChainIs ==
    ASSUME NEW T, NEW C, NEW q, IsQueue(q, T, C), Ranked(q), NEW S, S \subseteq DOMAIN q.pool,
           NEW i \in S \cup {NoID},
           \A j \in S : /\ q.pool[j].next \in S \cup {NoID}
                        /\ j # i => \E k \in S : q.pool[k].next = j
    PROVE  Chain(q, i, Len(q.pool)) = S
<1> DEFINE N == Len(q.pool)
<1>1. DOMAIN q.pool = 1..N /\ N \in Nat /\ NoID \notin S
  BY PoolType
<1>2. PICK f : Reaches(q, i, N, f) /\ Chain(q, i, N) = f[N] \ {NoID}
  BY <1>1, ChainReaches
<1> HIDE DEF N
<1>3. f[0] = {i} /\ \A k \in 1..N : f[k] = Onward(q, f[k - 1])
  <2>1. \A k \in 0..N : f[k] = IF k = 0 THEN {i} ELSE Onward(q, f[k - 1])
    BY <1>2 DEF Reaches
  <2>2. 0 \in 0..N /\ \A k \in 1..N : k \in 0..N /\ k # 0
    BY <1>1
  <2>3. QED
    BY <2>1, <2>2
<1>4. \A k \in 0..N : f[k] \subseteq S \cup {NoID} /\ i \in f[k]
  <2> DEFINE Bad == {k \in 0..N : ~(f[k] \subseteq S \cup {NoID} /\ i \in f[k])}
  <2>1. SUFFICES ASSUME Bad # {} PROVE FALSE
    OBVIOUS
  <2>2. Bad \subseteq Nat /\ Bad \subseteq 0..N
    OBVIOUS
  <2>3. PICK m \in Bad : \A k \in Bad : ~(<<k, m>> \in OpToRel(<, Nat))
    <3> HIDE DEF Bad
    <3>1. QED
      BY <2>1, <2>2, WFMin, NatLessThanWellFounded
  <2>4. m \in 0..N /\ \A k \in Bad : ~(k < m)
    <3> HIDE DEF Bad
    <3>1. QED
      BY <2>2, <2>3 DEF OpToRel
  <2>5. m # 0
    <3>1. ~(f[m] \subseteq S \cup {NoID} /\ i \in f[m])
      BY <2>3
    <3>2. QED
      BY <1>3, <3>1
  <2>6. m - 1 \in 0..N /\ m - 1 \notin Bad /\ m \in 1..N
    <3> HIDE DEF Bad
    <3>1. QED
      BY <1>1, <2>4, <2>5
  <2>7. f[m - 1] \subseteq S \cup {NoID} /\ i \in f[m - 1] /\ f[m] = Onward(q, f[m - 1])
    BY <1>3, <2>6
  <2>8. \A j \in f[m - 1] \ {NoID} : q.pool[j].next \in S \cup {NoID}
    BY <2>7
  <2>9. f[m] \subseteq S \cup {NoID} /\ i \in f[m]
    BY <2>7, <2>8 DEF Onward
  <2>10. QED
    BY <2>3, <2>9
<1>5. PICK r : RankedBy(q, r)
  BY DEF Ranked
<1> DEFINE Below(j) == {k \in S : r[k] < r[j]}
<1>6. IsFiniteSet(S) /\ Cardinality(S) <= N /\ Cardinality(S) \in Nat
  <2>1. IsFiniteSet(1..N) /\ Cardinality(1..N) = N
    BY <1>1, FS_Interval
  <2>2. QED
    BY <1>1, <2>1, FS_Subset, FS_CardinalityType
<1>7. \A j \in S : IsFiniteSet(Below(j)) /\ Cardinality(Below(j)) \in 0..N
  <2>1. SUFFICES ASSUME NEW j \in S PROVE IsFiniteSet(Below(j)) /\ Cardinality(Below(j)) \in 0..N
    OBVIOUS
  <2>2. Below(j) \subseteq S
    OBVIOUS
  <2> HIDE DEF Below
  <2>3. QED
    BY <1>1, <1>6, <2>2, FS_Subset, FS_CardinalityType
<1>8. ASSUME NEW j \in S, j # i
      PROVE  \E k \in S : /\ q.pool[k].next = j /\ r[k] < r[j]
                          /\ Cardinality(Below(k)) < Cardinality(Below(j))
  <2>1. PICK k \in S : q.pool[k].next = j
    BY <1>8
  <2>2. r[k] < r[j] /\ \A h \in S : r[h] \in Nat
    BY <1>1, <1>5, <2>1 DEF RankedBy
  <2>3. Below(k) \subseteq Below(j) /\ k \in Below(j) /\ k \notin Below(k)
    BY <2>2
  <2>4. IsFiniteSet(Below(k)) /\ IsFiniteSet(Below(j))
    BY <1>7
  <2> HIDE DEF Below
  <2>5. Cardinality(Below(k)) < Cardinality(Below(j))
    <3>1. Below(k) # Below(j)
      BY <2>3
    <3>2. QED
      BY <2>3, <2>4, <3>1, FS_Subset, FS_CardinalityType
  <2>6. QED
    BY <2>1, <2>2, <2>5
<1> DEFINE Missed == {j \in S : \E m \in 0..N : Cardinality(Below(j)) <= m /\ j \notin f[m]}
<1>9. Missed = {}
  <2>1. SUFFICES ASSUME Missed # {} PROVE FALSE
    OBVIOUS
  <2> DEFINE R == {r[j] : j \in Missed}
  <2>2. R \subseteq Nat /\ R # {}
    BY <1>1, <1>5, <2>1 DEF RankedBy
  <2>3. PICK x \in R : \A y \in R : ~(<<y, x>> \in OpToRel(<, Nat))
    BY <2>2, WFMin, NatLessThanWellFounded
  <2>4. \A y \in R : ~(y < x)
    BY <2>2, <2>3 DEF OpToRel
  <2>5. PICK j \in Missed : x = r[j]
    BY <2>3
  <2>6. PICK m \in 0..N : Cardinality(Below(j)) <= m /\ j \notin f[m]
    OBVIOUS
  <2>7. j \in S /\ j # i
    <3>1. j \in S
      OBVIOUS
    <3>2. QED
      BY <1>4, <2>6, <3>1
  <2>8. PICK k \in S : /\ q.pool[k].next = j /\ r[k] < r[j]
                       /\ Cardinality(Below(k)) < Cardinality(Below(j))
    BY <1>8, <2>7
  <2>9. k \notin Missed
    <3>1. k \in Missed => r[k] \in R
      OBVIOUS
    <3>2. r[k] < x
      BY <2>5, <2>8
    <3> HIDE DEF R, Missed, Below
    <3>3. QED
      BY <2>4, <3>1, <3>2
  <2> HIDE DEF Below
  <2>10. Cardinality(Below(k)) \in Nat /\ Cardinality(Below(j)) \in Nat
    BY <1>7, <2>7
  <2>11. m - 1 \in 0..N /\ Cardinality(Below(k)) <= m - 1 /\ m \in 1..N
    BY <1>1, <2>6, <2>8, <2>10
  <2>12. k \in f[m - 1]
    BY <2>9, <2>11
  <2>13. j \in f[m]
    BY <1>1, <1>3, <2>8, <2>11, <2>12 DEF Onward
  <2>14. QED
    BY <2>6, <2>13
<1>10. S \subseteq f[N]
  <2>1. N \in 0..N /\ \A j \in S : Cardinality(Below(j)) <= N
    <3> HIDE DEF Below
    <3>1. QED
      BY <1>1, <1>7
  <2>2. QED
    BY <1>9, <2>1
<1>11. QED
  BY <1>1, <1>2, <1>4, <1>10 DEF N

(* Nor do timers that each precede one of them: the pool is finite. *)
LEMMA NoEnd ==
    ASSUME NEW T, NEW C, NEW q, IsQueue(q, T, C), Ranked(q), NEW S, S \subseteq DOMAIN q.pool,
           \A j \in S : q.pool[j].next \in S
    PROVE  S = {}
<1>1. SUFFICES ASSUME S # {} PROVE FALSE
  OBVIOUS
<1>2. PICK r : RankedBy(q, r)
  BY DEF Ranked
<1> DEFINE Above(j) == {k \in S : r[j] < r[k]}
           R == {Cardinality(Above(j)) : j \in S}
<1>3. IsFiniteSet(S)
  <2>1. DOMAIN q.pool = 1..Len(q.pool) /\ Len(q.pool) \in Nat
    BY PoolType
  <2>2. IsFiniteSet(1..Len(q.pool))
    BY <2>1, FS_Interval
  <2>3. QED
    BY <2>1, <2>2, FS_Subset
<1>4. \A j \in S : IsFiniteSet(Above(j)) /\ Cardinality(Above(j)) \in Nat
  <2>1. SUFFICES ASSUME NEW j \in S PROVE IsFiniteSet(Above(j)) /\ Cardinality(Above(j)) \in Nat
    OBVIOUS
  <2>2. Above(j) \subseteq S
    OBVIOUS
  <2> HIDE DEF Above
  <2>3. QED
    BY <1>3, <2>2, FS_Subset, FS_CardinalityType
<1>5. R \subseteq Nat /\ R # {}
  <2> HIDE DEF Above
  <2>1. QED
    BY <1>1, <1>4
<1>6. PICK x \in R : \A y \in R : ~(<<y, x>> \in OpToRel(<, Nat))
  BY <1>5, WFMin, NatLessThanWellFounded
<1>7. \A y \in R : ~(y < x)
  <2> HIDE DEF R
  <2>1. QED
    BY <1>5, <1>6 DEF OpToRel
<1>8. PICK j \in S : x = Cardinality(Above(j))
  BY <1>6
<1> DEFINE k == q.pool[j].next
<1>9. k \in S /\ r[j] < r[k] /\ \A h \in S : r[h] \in Nat
  BY <1>2, PoolType DEF RankedBy
<1> HIDE DEF k
<1>10. Above(k) \subseteq Above(j) /\ k \in Above(j) /\ k \notin Above(k)
  BY <1>9
<1>11. Cardinality(Above(k)) \in R
  BY <1>9
<1>12. IsFiniteSet(Above(j)) /\ IsFiniteSet(Above(k))
  BY <1>4, <1>9
<1> HIDE DEF Above, R
<1>13. Above(k) # Above(j)
  BY <1>10
<1>14. Cardinality(Above(k)) < Cardinality(Above(j))
  BY <1>10, <1>12, <1>13, FS_Subset, FS_CardinalityType
<1>15. QED
  BY <1>7, <1>8, <1>11, <1>14

LEMMA WholeIsWellFormed ==
    ASSUME NEW T, NEW C, NEW q, IsQueue(q, T, C), Whole(q)
    PROVE  WellFormed(q)
<1> DEFINE N == Len(q.pool)
<1>1. DOMAIN q.pool = 1..N /\ N \in Nat /\ NoID \notin DOMAIN q.pool /\ Busy(q) \subseteq 1..N
  BY PoolType
<1>2. Listed(q, Busy(q)) /\ FreeListed(q) /\ Ranked(q)
  BY DEF Whole, Lists
<1>3. Chain(q, q.first, N) = Busy(q)
  <2>1. \A j \in Busy(q) : /\ q.pool[j].next \in Busy(q) \cup {NoID}
                           /\ j # q.first => \E k \in Busy(q) : q.pool[k].next = j
    BY <1>1, <1>2 DEF Listed
  <2>2. q.first \in Busy(q) \cup {NoID}
    BY <1>2 DEF Listed
  <2>3. PICK S : S = Busy(q)
    OBVIOUS
  <2>4. S \subseteq DOMAIN q.pool
    BY <1>1, <2>3
  <2>5. /\ q.first \in S \cup {NoID}
        /\ \A j \in S : /\ q.pool[j].next \in S \cup {NoID}
                        /\ j # q.first => \E k \in S : q.pool[k].next = j
    BY <2>1, <2>2, <2>3
  <2>6. Chain(q, q.first, N) = S
    BY <1>2, <2>4, <2>5, ChainIs
  <2>7. QED
    BY <2>3, <2>6
<1>4. Chain(q, q.free, N) = (1..N) \ Busy(q)
  <2>1. IdleIn(q) = (1..N) \ Busy(q) /\ IdleIn(q) \subseteq DOMAIN q.pool
    BY <1>1 DEF IdleIn
  <2>2. q.free \in IdleIn(q) \cup {NoID}
    BY <1>2 DEF FreeListed
  <2>3. \A j \in IdleIn(q) : /\ q.pool[j].next \in IdleIn(q) \cup {NoID}
                             /\ j # q.free => \E k \in IdleIn(q) : q.pool[k].next = j
    BY <1>2 DEF FreeListed
  <2>4. PICK S : S = IdleIn(q)
    OBVIOUS
  <2>5. /\ q.free \in S \cup {NoID} /\ S \subseteq DOMAIN q.pool
        /\ \A j \in S : /\ q.pool[j].next \in S \cup {NoID}
                        /\ j # q.free => \E k \in S : q.pool[k].next = j
    BY <2>1, <2>2, <2>3, <2>4
  <2>6. Chain(q, q.free, N) = S
    BY <1>2, <2>5, ChainIs
  <2>7. QED
    BY <2>1, <2>4, <2>6
<1>5. (q.first = NoID) <=> (q.last = NoID)
  <2>1. q.first = NoID => Busy(q) = {}
    <3>1. SUFFICES ASSUME q.first = NoID PROVE Busy(q) = {}
      OBVIOUS
    <3>2. \A j \in Busy(q) : \E k \in Busy(q) : q.pool[k].next = j
      BY <1>1, <1>2, <3>1 DEF Listed
    <3>3. QED
      BY <1>1, <1>2, <3>2, NoCircle
  <2>2. q.last = NoID => q.first = NoID
    <3>1. SUFFICES ASSUME q.last = NoID, q.first # NoID PROVE FALSE
      OBVIOUS
    <3>2. \A j \in Busy(q) : q.pool[j].next \in Busy(q)
      BY <1>1, <1>2, <3>1 DEF Listed
    <3>3. Busy(q) = {}
      BY <1>1, <1>2, <3>2, NoEnd
    <3>4. QED
      BY <1>2, <3>1, <3>3 DEF Listed
  <2>3. QED
    BY <1>2, <2>1, <2>2 DEF Listed
<1>6. QED
  BY <1>1, <1>2, <1>3, <1>4, <1>5 DEF WellFormed, Listed, Busy

-----------------------------------------------------------------------------
(* The timers and the timeouts of a session that waits *)

Mail == queue \cup InHand
TimeoutFor(s, m) == m.type = "timeout" /\ m.ticket = sessions[s].ticket

(* The timer that the session keeps runs, for the command it waits for. *)
Running(s) ==
    /\ sessions[s].timeoutID \in Busy(timers)
    /\ timers.pool[sessions[s].timeoutID].ticket = sessions[s].ticket
    /\ timers.pool[sessions[s].timeoutID].cmd = sessions[s].pos

(* That timer has fired, and the timeout is on its way. *)
Sent(s) ==
    \E m \in Mail : /\ TimeoutFor(s, m)
                    /\ m.cmd = sessions[s].pos /\ m.id = sessions[s].timeoutID

(* The timeouts on their way to the session are of timers that do not run, *)
(* and one that has the number it keeps is for the command it waits for.   *)
Spent(s) ==
    \A m \in Mail : TimeoutFor(s, m) =>
        /\ m.id \notin Busy(timers)
        /\ m.id = sessions[s].timeoutID => m.cmd = sessions[s].pos

(* A timer is extended while it runs. *)
Extendable(s) ==
    \A m \in Mail : m.type = "keepAlive" /\ m.ticket = sessions[s].ticket =>
        sessions[s].timeoutID \in Busy(timers)

(* A thread with a timeout for the session's ticket works for the session. *)
Theirs(s) ==
    \A w \in Worker : workers[w].step = "process" /\ TimeoutFor(s, workers[w].msg) =>
        workers[w].sess = s

Timed(s) == (Running(s) \/ Sent(s)) /\ Spent(s) /\ Extendable(s) /\ Theirs(s)

(* A timer that runs is that of a session that waits. *)
Owned == \A i \in Busy(timers) : \E s \in Started :
            Live(s) /\ sessions[s].timeoutID = i /\ Running(s)

Covered == Whole(timers) /\ Owned /\ \A s \in Started : Live(s) => Timed(s)

TInv == SInv /\ Covered

(* The windows that the rest of this module takes to be closed. *)
Closed == Windows \cap {"stale", "reuse", "keepalive", "ended", "wrap"} = {}

LEMMA TInvParts ==
    ASSUME TInv
    PROVE  /\ SInv /\ TypeInv /\ TypeOK /\ IsQueue(timers, Ticket, Cmd) /\ Whole(timers) /\ Owned
           /\ queue \subseteq Message
           /\ \A s \in Started : Live(s) => Timed(s)
BY DEF TInv, Covered, SInv, TypeInv, TypeOK

LEMMA LiveListed ==
    ASSUME SInv, NEW s \in Started, Live(s)
    PROVE  IsValid(sessions[s].ticket) /\ table[sessions[s].ticket.slot].sess = s
BY DEF SInv, SessionsListed, Live, Ending

(* Two sessions that wait have different tickets. *)
LEMMA OneTicket ==
    ASSUME SInv, NEW s \in Started, NEW z \in Started, Live(s), Live(z),
           sessions[s].ticket = sessions[z].ticket
    PROVE  s = z
BY LiveListed

LEMMA OwnTimer ==
    ASSUME TInv, NEW s \in Started, Live(s), sessions[s].timeoutID \in Busy(timers)
    PROVE  Running(s)
BY DEF TInv, Covered, Timed, Sent, Spent

LEMMA OneTimer ==
    ASSUME TInv, NEW s \in Started, NEW z \in Started, Live(s), Live(z),
           sessions[s].timeoutID = sessions[z].timeoutID, sessions[s].timeoutID \in Busy(timers)
    PROVE  s = z
<1>1. Running(s) /\ Running(z)
  BY OwnTimer
<1>2. QED
  BY <1>1, OneTicket, TInvParts DEF Running

(* A step that is not about the session. *)
SameSession(s) ==
    /\ sessions'[s].ticket = sessions[s].ticket /\ sessions'[s].pos = sessions[s].pos
    /\ sessions'[s].timeoutID = sessions[s].timeoutID

TimerKept(s) ==
    sessions[s].timeoutID \in Busy(timers) =>
        /\ sessions[s].timeoutID \in Busy(timers)'
        /\ timers'.pool[sessions[s].timeoutID].ticket = timers.pool[sessions[s].timeoutID].ticket
        /\ timers'.pool[sessions[s].timeoutID].cmd = timers.pool[sessions[s].timeoutID].cmd

MailKept(s) ==
    /\ \A m \in Mail : TimeoutFor(s, m) /\ m.id \in Busy(timers)' => m.id \in Busy(timers)
    /\ \A m \in Mail : TimeoutFor(s, m) /\ m.id = sessions[s].timeoutID => m \in Mail'
    /\ \A m \in Mail' : m.ticket = sessions[s].ticket =>
          \/ m \in Mail
          \/ m.type = "keepAlive" /\ sessions[s].timeoutID \in Busy(timers)
          \/ m.type \notin {"keepAlive", "timeout"}

LEMMA Undisturbed ==
    ASSUME NEW s, Timed(s), SameSession(s), TimerKept(s), MailKept(s), Theirs(s)'
    PROVE  Timed(s)' /\ (Running(s) => Running(s)')
<1>1. Running(s) => Running(s)'
  BY DEF Running, SameSession, TimerKept
<1>2. Sent(s) => Sent(s)'
  BY DEF Sent, TimeoutFor, SameSession, MailKept
<1>3. Spent(s)'
  BY DEF Timed, Spent, TimeoutFor, SameSession, MailKept
<1>4. Extendable(s)'
  <2>1. SUFFICES ASSUME NEW m \in Mail', m.type = "keepAlive", m.ticket = sessions[s].ticket
                 PROVE  sessions[s].timeoutID \in Busy(timers)'
    BY DEF Extendable, SameSession
  <2>2. sessions[s].timeoutID \in Busy(timers)
    BY <2>1 DEF MailKept, Timed, Extendable
  <2>3. QED
    BY <2>2 DEF TimerKept
<1>5. QED
  BY <1>1, <1>2, <1>3, <1>4 DEF Timed

(* Timers that stay are those of sessions that the step is not about. *)
LEMMA OwnedKept ==
    ASSUME Owned, Started \subseteq Started', NEW N,
           \A i \in Busy(timers)' : i \in Busy(timers) \/ i \in N,
           \A s \in Started : Live(s) /\ Running(s) /\ sessions[s].timeoutID \in Busy(timers)' \ N =>
               Live(s)' /\ Running(s)' /\ sessions'[s].timeoutID = sessions[s].timeoutID
    PROVE  \A i \in Busy(timers)' : i \in N \/ \E s \in Started' :
               Live(s)' /\ sessions'[s].timeoutID = i /\ Running(s)'
<1>1. SUFFICES ASSUME NEW i \in Busy(timers)', i \notin N
               PROVE  \E s \in Started' : Live(s)' /\ sessions'[s].timeoutID = i /\ Running(s)'
  OBVIOUS
<1>2. i \in Busy(timers)
  BY <1>1
<1>3. PICK s \in Started : Live(s) /\ sessions[s].timeoutID = i /\ Running(s)
  BY <1>2 DEF Owned
<1>4. QED
  BY <1>1, <1>3

(* A thread is done with its message, or goes on to delete its session. *)
LEMMA MailDone ==
    ASSUME TypeInv, NEW w \in Worker, workers[w] # Idle, queue' = queue, Finish(w) \/ ToDelete(w)
    PROVE  /\ Mail' \subseteq Mail
           /\ \A m \in Mail : m \in Mail' \/ (m = workers[w].msg /\ workers[w].step = "process")
           /\ \A v \in Worker : workers'[v].step = "process" => v # w /\ workers'[v] = workers[v]
<1>1. workers \in [Worker -> {Idle} \cup Work] /\ workers[w] \in Work
  BY Holds DEF TypeInv, TypeOK
<1>2. \A v \in Worker : v # w => workers'[v] = workers[v]
  BY <1>1 DEF Finish, ToDelete
<1>3. workers'[w].step # "process"
  <2>1. CASE Finish(w)
    BY <1>1, <2>1 DEF Finish, Idle
  <2>2. CASE ToDelete(w)
    <3>1. workers'[w] = [workers[w] EXCEPT !.step = "delete"]
      BY <1>1, <2>2 DEF ToDelete
    <3>2. QED
      BY <1>1, <3>1 DEF Work
  <2>3. QED
    BY <2>1, <2>2
<1>4. QED
  BY <1>2, <1>3 DEF Mail, InHand

(* The message is not the one that the session waits for. *)
Beside(w, z) ==
    workers[w].sess = z => \/ workers[w].step # "process" \/ workers[w].msg.type # "timeout"
                           \/ workers[w].msg.id # sessions[z].timeoutID

(* What a thread does beside a session leaves the session as it was. *)
LEMMA Bystander ==
    ASSUME TInv, NEW w \in Worker, workers[w] # Idle, queue' = queue,
           Finish(w) \/ ToDelete(w), NEW z \in Started, Live(z), Beside(w, z),
           SameSession(z), TimerKept(z),
           \A m \in Mail : TimeoutFor(z, m) /\ m.id \in Busy(timers)' => m.id \in Busy(timers)
    PROVE  Timed(z)' /\ (Running(z) => Running(z)')
<1>1. TypeInv /\ Timed(z)
  BY TInvParts
<1>2. /\ Mail' \subseteq Mail
      /\ \A m \in Mail : m \in Mail' \/ (m = workers[w].msg /\ workers[w].step = "process")
      /\ \A v \in Worker : workers'[v].step = "process" => v # w /\ workers'[v] = workers[v]
  BY <1>1, MailDone
<1>3. Theirs(z)'
  BY <1>1, <1>2 DEF Timed, Theirs, TimeoutFor, SameSession
<1>4. \A m \in Mail : TimeoutFor(z, m) /\ m.id = sessions[z].timeoutID => m \in Mail'
  BY <1>1, <1>2 DEF Timed, Theirs, TimeoutFor, Beside
<1>5. MailKept(z)
  BY <1>2, <1>4 DEF MailKept
<1>6. QED
  BY <1>1, <1>3, <1>5, Undisturbed

(* A thread's step that starts no timer. *)
LEMMA NoNewTimer ==
    ASSUME TInv, NEW w \in Worker, workers[w] # Idle, queue' = queue,
           Finish(w) \/ ToDelete(w), Started' = Started,
           Whole(timers'), Busy(timers)' \subseteq Busy(timers),
           \A z \in Started : Live(z)' => Live(z) /\ SameSession(z) /\ Beside(w, z) /\ TimerKept(z),
           \A z \in Started : Live(z) /\ ~Live(z)' => sessions[z].timeoutID \notin Busy(timers)'
    PROVE  Covered'
<1>1. \A z \in Started : Live(z)' => Timed(z)' /\ (Running(z) => Running(z)')
  BY Bystander
<1>2. PICK N : N = {}
  OBVIOUS
<1>3. \A i \in Busy(timers)' : \E z \in Started' : Live(z)' /\ sessions'[z].timeoutID = i /\ Running(z)'
  <2>1. \A z \in Started : Live(z) /\ Running(z) /\ sessions[z].timeoutID \in Busy(timers)' \ N =>
            Live(z)' /\ Running(z)' /\ sessions'[z].timeoutID = sessions[z].timeoutID
    BY <1>1 DEF SameSession
  <2>2. Owned /\ (\A i \in Busy(timers)' : i \in Busy(timers) \/ i \in N) /\ Started \subseteq Started'
    BY TInvParts
  <2>3. \A i \in Busy(timers)' : i \in N \/ \E z \in Started' :
            Live(z)' /\ sessions'[z].timeoutID = i /\ Running(z)'
    BY <2>1, <2>2, OwnedKept
  <2>4. QED
    BY <1>2, <2>3
<1>4. Owned'
  BY <1>3 DEF Owned
<1>5. QED
  BY <1>1, <1>4 DEF Covered

(* What is left of the timers when that of session s is deleted. *)
LEMMA DeletedDoes ==
    ASSUME TInv, NEW s \in Started, NEW q, q = TimeoutDeleted(s)
    PROVE  /\ IsQueue(q, Ticket, Cmd) /\ Whole(q) /\ Busy(q) = Busy(timers) \ {sessions[s].timeoutID}
           /\ Contents(q, timers, NoID) /\ Alarm(q, timers)
<1>1. IsQueue(timers, Ticket, Cmd) /\ Whole(timers) /\ TypeOK
  BY TInvParts
<1>2. sessions[s].timeoutID \in TimerID \cup {NoID} /\ NoID \notin Busy(timers)
  BY <1>1, SessionOf, PoolType DEF Busy
<1>3. IsQueue(q, Ticket, Cmd)
  BY <1>1, TimeoutDeletedType
<1>4. PICK i : i = sessions[s].timeoutID
  OBVIOUS
<1>5. CASE i = NoID
  <2>1. q = timers
    BY <1>4, <1>5 DEF TimeoutDeleted
  <2>2. QED
    BY <1>1, <1>2, <1>4, <1>5, <2>1 DEF Contents, Alarm
<1>6. CASE i # NoID
  <2>1. q = DeleteMessage(timers, i) /\ i \in DOMAIN timers.pool
    BY <1>2, <1>4, <1>6 DEF TimeoutDeleted, TimerID
  <2>2. QED
    BY <1>1, <1>3, <1>4, <2>1, DeleteDoes
<1>7. QED
  BY <1>5, <1>6

(* Nobody else's timer is deleted with it. *)
LEMMA OthersKept ==
    ASSUME TInv, NEW s \in Started, Live(s), NEW z \in Started, Live(z), z # s,
           NEW n, Contents(timers', timers, n), n \notin Busy(timers) \ {sessions[s].timeoutID},
           Busy(timers) \ {sessions[s].timeoutID} \subseteq Busy(timers)'
    PROVE  TimerKept(z)
<1>1. SUFFICES ASSUME sessions[z].timeoutID \in Busy(timers) PROVE TimerKept(z)
  BY DEF TimerKept
<1>2. sessions[z].timeoutID # sessions[s].timeoutID
  BY <1>1, OneTimer
<1>3. sessions[z].timeoutID \in DOMAIN timers.pool /\ sessions[z].timeoutID # n
  BY <1>1, <1>2 DEF Busy
<1>4. QED
  BY <1>1, <1>2, <1>3 DEF TimerKept, Contents

(* The timers that stay have kept their messages. *)
LEMMA ContentsKept ==
    ASSUME TypeInv, NEW z, Contents(timers', timers, NoID),
           sessions[z].timeoutID \in Busy(timers) => sessions[z].timeoutID \in Busy(timers)'
    PROVE  TimerKept(z)
<1>1. \A i \in Busy(timers) : i \in DOMAIN timers.pool /\ i # NoID
  BY PoolType DEF TypeInv, TypeOK
<1>2. QED
  BY <1>1 DEF TimerKept, Contents

(* What a thread that processes a message has in hand. *)
LEMMA AtWork ==
    ASSUME SInv, NEW w \in Worker, workers[w].step = "process"
    PROVE  /\ workers[w] # Idle /\ workers[w].sess \in Started /\ workers[w].msg \in Mail
           /\ workers[w].msg.ticket = sessions[workers[w].sess].ticket
           /\ workers[w].msg.type = "timeout" => workers[w].msg.id # NoID
<1>1. TypeInv /\ Held /\ workers[w] # Idle
  BY BusyStep DEF SInv
<1>2. workers[w].msg \in InHand
  BY DEF InHand
<1>3. QED
  BY <1>1, <1>2, Holds DEF Mail, Held

LEMMA CoveredKeepAlive ==
    ASSUME TInv, Closed, NEW w \in Worker, ProcessKeepAlive(w)
    PROVE  Covered' /\ ("shorten" \notin Windows => Alarm(timers', timers))
<1> DEFINE s == workers[w].sess
           i == sessions[s].timeoutID
<1>1. /\ UNCHANGED <<sessions, freed, queue>> /\ Finish(w)
      /\ workers[w].step = "process" /\ workers[w].msg.type = "keepAlive"
  BY DEF ProcessKeepAlive
<1>2. SInv /\ TypeInv /\ IsQueue(timers, Ticket, Cmd) /\ Whole(timers)
  BY TInvParts
<1>3. /\ workers[w] # Idle /\ s \in Started /\ workers[w].msg \in Mail
      /\ workers[w].msg.ticket = sessions[s].ticket
  BY <1>1, <1>2, AtWork
<1>4. SameSessions
  BY <1>1 DEF SameSessions, Started
<1>5. Started' = Started /\ \A z \in Started : Live(z)' = Live(z)
  BY <1>1, <1>2, <1>4, FinishKeeps DEF SameSessions, Live
<1>6. /\ Whole(timers') /\ Busy(timers)' = Busy(timers) /\ Contents(timers', timers, NoID)
      /\ "shorten" \notin Windows => Alarm(timers', timers)
  <2>1. CASE i = NoID
    <3>1. timers' = timers
      BY <2>1 DEF ProcessKeepAlive
    <3>2. QED
      BY <1>2, <3>1 DEF Contents, Alarm
  <2>2. CASE i # NoID
    <3>1. Live(s)
      BY <1>2, <1>3, <2>2 DEF SInv, Answered, Live
    <3>2. i \in Busy(timers)
      BY <1>1, <1>3, <3>1, TInvParts DEF Timed, Extendable
    <3>3. PICK after \in KeepAlivePlaces(timers, i) :
              /\ Overtakes(i, after) => "shorten" \in Windows
              /\ timers' = KeepAliveMessage(timers, i, after)
      BY <2>2 DEF ProcessKeepAlive
    <3> HIDE DEF i
    <3>4. /\ Whole(timers') /\ Busy(timers') = Busy(timers) /\ Contents(timers', timers, NoID)
          /\ ~(after = NoID /\ timers.first # i /\ RemoveFromList(timers, i).first # NoID)
                => Alarm(timers', timers)
      BY <1>2, <3>2, <3>3, KeepAliveDoes
    <3>5. "shorten" \notin Windows => Alarm(timers', timers)
      BY <3>3, <3>4 DEF Overtakes
    <3>6. QED
      BY <3>4, <3>5
  <2>3. QED
    BY <2>1, <2>2
<1>7. \A z \in Started : SameSession(z) /\ Beside(w, z) /\ TimerKept(z)
  BY <1>1, <1>2, <1>6, ContentsKept DEF SameSession, Beside
<1>8. QED
  BY <1>1, <1>3, <1>5, <1>6, <1>7, NoNewTimer

(* A thread answers the client of session s, whose timer no longer runs. *)
LEMMA CoveredAnswer ==
    ASSUME TInv, NEW w \in Worker, workers[w].step = "process", ToDelete(w),
           UNCHANGED <<queue, freed>>, SameSessions, Live(workers[w].sess),
           \A z \in Started \ {workers[w].sess} : sessions'[z] = sessions[z],
           Whole(timers'), Contents(timers', timers, NoID),
           Busy(timers)' = Busy(timers) \ {sessions[workers[w].sess].timeoutID}
    PROVE  Covered'
<1> DEFINE s == workers[w].sess
<1>1. SInv /\ TypeInv
  BY TInvParts
<1>2. workers[w] # Idle /\ s \in Started
  BY <1>1, AtWork
<1>3. Started' = Started /\ \A z \in Started : Live(z)' <=> Live(z) /\ z # s
  BY <1>1, ToDeleteKeeps DEF SameSessions, Live
<1> HIDE DEF s
<1>4. ASSUME NEW z \in Started, Live(z)'
      PROVE  Live(z) /\ SameSession(z) /\ Beside(w, z) /\ TimerKept(z)
  <2>1. Live(z) /\ z # s
    BY <1>3, <1>4
  <2>2. sessions[z].timeoutID \in Busy(timers) => sessions[z].timeoutID \in Busy(timers)'
    BY <1>2, <2>1, OneTimer DEF s
  <2>3. SameSession(z) /\ Beside(w, z)
    BY <2>1 DEF SameSession, Beside, s
  <2>4. QED
    BY <1>1, <2>1, <2>2, <2>3, ContentsKept
<1>5. \A z \in Started : Live(z) /\ ~Live(z)' => sessions[z].timeoutID \notin Busy(timers)'
  BY <1>3 DEF s
<1>6. QED
  BY <1>2, <1>3, <1>4, <1>5, NoNewTimer

(* What the answers of a thread change in the sessions. *)
LEMMA AnswerClientDoes ==
    ASSUME TypeInv, NEW w, NEW s \in Started, AnswerClient(w, s)
    PROVE  SameSessions /\ \A z \in Started \ {s} : sessions'[z] = sessions[z]
<1>1. sessions[s] \in SessionRec /\ sessions \in Seq(SessionRec)
  BY SessionOf DEF TypeInv
<1>2. sessions' = [sessions EXCEPT ![s].timeoutID = NoID, ![s].answers = @ + 1]
  BY DEF AnswerClient
<1> DEFINE x == sessions[s]
           y == [x EXCEPT !.timeoutID = NoID, !.answers = @ + 1]
<1>3. /\ DOMAIN sessions' = DOMAIN sessions /\ sessions'[s] = y
      /\ \A z \in Started \ {s} : sessions'[z] = sessions[z]
  BY <1>1, <1>2 DEF Started
<1>4. y.ticket = x.ticket /\ y.ended = x.ended
  <2>1. x \in SessionRec
    BY <1>1
  <2> HIDE DEF x
  <2>2. QED
    BY <2>1 DEF SessionRec
<1> HIDE DEF y
<1>5. QED
  BY <1>3, <1>4 DEF SameSessions, Started

LEMMA CompleteDoes ==
    ASSUME TypeInv, NEW w, NEW s \in Started, Complete(w, s)
    PROVE  SameSessions /\ \A z \in Started \ {s} : sessions'[z] = sessions[z]
<1>1. sessions[s] \in SessionRec /\ sessions \in Seq(SessionRec)
  BY SessionOf DEF TypeInv
<1>2. sessions' = [sessions EXCEPT ![s].pos = NumCommands + 1, ![s].timeoutID = NoID,
                                   ![s].answers = @ + 1]
  BY DEF Complete
<1> DEFINE x == sessions[s]
           y == [x EXCEPT !.pos = NumCommands + 1, !.timeoutID = NoID, !.answers = @ + 1]
<1>3. /\ DOMAIN sessions' = DOMAIN sessions /\ sessions'[s] = y
      /\ \A z \in Started \ {s} : sessions'[z] = sessions[z]
  BY <1>1, <1>2 DEF Started
<1>4. y.ticket = x.ticket /\ y.ended = x.ended
  <2>1. x \in SessionRec
    BY <1>1
  <2> HIDE DEF x
  <2>2. QED
    BY <2>1 DEF SessionRec
<1> HIDE DEF y
<1>5. QED
  BY <1>3, <1>4 DEF SameSessions, Started

LEMMA NextCommandDoes ==
    ASSUME TypeInv, NEW w, NEW s \in Started, NextCommand(w, s),
           NEW n, n = NextID(TimeoutDeleted(s))
    PROVE  /\ SameSessions /\ \A z \in Started \ {s} : sessions'[z] = sessions[z]
           /\ sessions'[s].pos = sessions[s].pos + 1 /\ sessions'[s].timeoutID = n
<1>1. sessions[s] \in SessionRec /\ sessions \in Seq(SessionRec)
  BY SessionOf DEF TypeInv
<1>2. sessions' = [sessions EXCEPT ![s].pos = @ + 1, ![s].timeoutID = n]
  BY DEF NextCommand
<1> DEFINE x == sessions[s]
           y == [x EXCEPT !.pos = @ + 1, !.timeoutID = n]
<1>3. /\ DOMAIN sessions' = DOMAIN sessions /\ sessions'[s] = y
      /\ \A z \in Started \ {s} : sessions'[z] = sessions[z]
  BY <1>1, <1>2 DEF Started
<1>4. y.ticket = x.ticket /\ y.ended = x.ended /\ y.pos = x.pos + 1 /\ y.timeoutID = n
  <2>1. x \in SessionRec
    BY <1>1
  <2> HIDE DEF x
  <2>2. QED
    BY <2>1 DEF SessionRec
<1> HIDE DEF y
<1>5. QED
  BY <1>3, <1>4 DEF SameSessions, Started

(* A timeout that a session gives up on is for the command it waits for. *)
LEMMA CoveredTimeout ==
    ASSUME TInv, NEW w \in Worker, ProcessTimeout(w)
    PROVE  /\ Covered'
           /\ workers'[w].step = "delete" =>
                  sessions[workers[w].sess].pos = workers[w].msg.cmd
<1> DEFINE s == workers[w].sess
           m == workers[w].msg
<1>1. /\ UNCHANGED <<queue, freed, timers>> /\ workers[w].step = "process" /\ m.type = "timeout"
  BY DEF ProcessTimeout
<1>2. SInv /\ TypeInv /\ Whole(timers) /\ workers \in [Worker -> {Idle} \cup Work]
  BY TInvParts DEF TypeOK
<1>3. /\ workers[w] # Idle /\ s \in Started /\ m \in Mail /\ m.ticket = sessions[s].ticket
      /\ m.id # NoID
  BY <1>1, <1>2, AtWork
<1>4. CASE sessions[s].timeoutID = m.id
  <2>1. Live(s)
    BY <1>2, <1>3, <1>4 DEF SInv, Answered, Live
  <2>2. m.id \notin Busy(timers) /\ m.cmd = sessions[s].pos
    BY <1>1, <1>3, <1>4, <2>1, TInvParts DEF Timed, Spent, TimeoutFor
  <2>3. AnswerClient(w, s)
    BY <1>4 DEF ProcessTimeout
  <2>4. SameSessions /\ (\A z \in Started \ {s} : sessions'[z] = sessions[z]) /\ ToDelete(w)
    BY <1>2, <1>3, <2>3, AnswerClientDoes DEF AnswerClient
  <2>5. Whole(timers') /\ Contents(timers', timers, NoID) /\ Busy(timers)' = Busy(timers) \ {m.id}
    BY <1>1, <1>2, <2>2 DEF Contents
  <2>6. Covered'
    BY <1>1, <1>4, <2>1, <2>4, <2>5, CoveredAnswer
  <2>7. QED
    BY <2>2, <2>6
<1>5. CASE sessions[s].timeoutID # m.id
  <2>1. Finish(w) /\ sessions' = sessions
    BY <1>5 DEF ProcessTimeout
  <2>2. SameSessions
    BY <2>1 DEF SameSessions, Started
  <2>3. Started' = Started /\ \A z \in Started : Live(z)' = Live(z)
    BY <1>1, <1>2, <2>1, <2>2, FinishKeeps DEF SameSessions, Live
  <2>4. \A z \in Started : SameSession(z) /\ Beside(w, z) /\ TimerKept(z)
    BY <1>1, <1>5, <2>1 DEF SameSession, Beside, TimerKept
  <2>5. Covered'
    BY <1>1, <1>2, <1>3, <2>1, <2>3, <2>4, NoNewTimer
  <2>6. workers'[w].step # "delete"
    BY <1>2, <2>1 DEF Finish, Idle
  <2>7. QED
    BY <2>5, <2>6
<1>6. QED
  BY <1>4, <1>5

LEMMA CoveredDelete ==
    ASSUME TInv, NEW w \in Worker, Delete(w)
    PROVE  Covered'
<1> DEFINE t == workers[w].msg.ticket
           s == workers[w].sess
<1>1. UNCHANGED <<queue, timers>> /\ Finish(w) /\ workers[w].step = "delete"
  BY DEF Delete
<1>2. SInv /\ TypeInv /\ TypeOK /\ Whole(timers)
  BY TInvParts
<1>3. workers[w] # Idle /\ t \in Ticket /\ s \in Started
  BY <1>1, <1>2, BusyStep, Holds
<1>4. t = sessions[s].ticket /\ ~sessions[s].ended
  BY <1>1, <1>2, <1>3 DEF SInv, Held
<1>5. IsValid(t) /\ table[t.slot].sess = s
  BY <1>2, <1>3, <1>4 DEF SInv, SessionsListed
<1>6. sessions' = [sessions EXCEPT ![s].ended = TRUE]
  <2>1. s # NoSession
    BY <1>2, <1>3, <1>5, UsedSlot DEF IsValid
  <2>2. QED
    BY <1>5, <2>1 DEF Delete
<1>7. sessions[s] \in SessionRec /\ sessions \in Seq(SessionRec)
  BY <1>2, <1>3, SessionOf
<1> HIDE DEF s, t
<1>8. Started' = Started /\ \A z \in Started : z # s => sessions'[z] = sessions[z]
  BY <1>3, <1>6, <1>7 DEF Started
<1>9. sessions'[s].ended
  <2> DEFINE x == sessions[s]
             y == [x EXCEPT !.ended = TRUE]
  <2>1. sessions'[s] = y
    BY <1>3, <1>6, <1>7 DEF Started
  <2>2. y.ended
    <3>1. x \in SessionRec
      BY <1>7
    <3> HIDE DEF x
    <3>2. QED
      BY <3>1 DEF SessionRec
  <2> HIDE DEF y
  <2>3. QED
    BY <2>1, <2>2
<1>10. \A v \in Worker : workers'[v] = IF v = w THEN Idle ELSE workers[v]
  BY <1>1, <1>2 DEF Finish, TypeOK
<1>11. \A z \in Started : z = s => ~Live(z) /\ ~Live(z)'
  BY <1>1, <1>9 DEF Live, Ending, s
<1>12. \A z \in Started : z # s => (Live(z)' <=> Live(z))
  BY <1>1, <1>8, <1>10 DEF Live, Ending, Idle, s
<1>13. \A z \in Started : z # s => SameSession(z) /\ Beside(w, z) /\ TimerKept(z)
  BY <1>1, <1>8 DEF SameSession, Beside, TimerKept, s
<1>14. \A z \in Started : Live(z)' => Live(z) /\ SameSession(z) /\ Beside(w, z) /\ TimerKept(z)
  BY <1>11, <1>12, <1>13
<1>15. \A z \in Started : Live(z) => Live(z)'
  BY <1>11, <1>12
<1>16. QED
  BY <1>1, <1>2, <1>3, <1>8, <1>14, <1>15, NoNewTimer

(* A timeout for a session that waits has its ticket, which is in use. *)
LEMMA OnItsWay ==
    ASSUME SInv, NEW s \in Started, Live(s), NEW m \in Mail, TimeoutFor(s, m)
    PROVE  m \in Undelivered
BY LiveListed DEF Undelivered, Mail, TimeoutFor

(* A command is sent with a timer whose number no timeout carries. *)
LEMMA SendDoes ==
    ASSUME Closed, NEW q, IsQueue(q, Ticket, Cmd), Whole(q), NEW t \in Ticket, NEW cmd \in Cmd,
           SendCommand(q, t, cmd), NEW n, n = NextID(q)
    PROVE  /\ Whole(timers') /\ Busy(timers)' = Busy(q) \cup {n} /\ n \notin Busy(q)
           /\ Contents(timers', q, n) /\ Alarm(timers', q)
           /\ timers'.pool[n].ticket = t /\ timers'.pool[n].cmd = cmd
           /\ \A m \in Undelivered : m.id # n
<1>1. PICK after \in Places(q) : timers' = AddTimeoutMessage(q, t, cmd, after)
  BY DEF SendCommand
<1>2. \A m \in Undelivered : m.id # n
  BY DEF SendCommand, MayAllocate, Closed
<1>3. /\ Whole(timers') /\ Busy(timers') = Busy(q) \cup {n} /\ n \notin Busy(q)
      /\ Contents(timers', q, n) /\ Alarm(timers', q)
      /\ timers'.pool[n].ticket = t /\ timers'.pool[n].cmd = cmd
  BY <1>1, AddDoes
<1>4. QED
  BY <1>2, <1>3

LEMMA CoveredNext ==
    ASSUME TInv, Closed, NEW w \in Worker, workers[w].step = "process", UNCHANGED <<queue, freed>>,
           Live(workers[w].sess), sessions[workers[w].sess].pos < NumCommands,
           NextCommand(w, workers[w].sess)
    PROVE  Covered' /\ Alarm(timers', timers)
<1>1. PICK s \in Started : s = workers[w].sess
  BY AtWork, TInvParts
<1>2. PICK q : q = TimeoutDeleted(s)
  OBVIOUS
<1>3. PICK n : n = NextID(q)
  OBVIOUS
<1>4. SInv /\ TypeInv /\ TypeOK /\ workers[w] # Idle
  BY AtWork, TInvParts
<1>5. /\ IsQueue(q, Ticket, Cmd) /\ Whole(q) /\ Busy(q) = Busy(timers) \ {sessions[s].timeoutID}
      /\ Contents(q, timers, NoID) /\ Alarm(q, timers)
  BY <1>2, DeletedDoes
<1>6. /\ sessions[s].ticket \in Ticket /\ sessions[s].pos + 1 \in Cmd
      /\ sessions[s].pos \in Nat
  BY <1>1, <1>4, SessionOf, SessionsAssumption DEF Cmd
<1>7. SendCommand(q, sessions[s].ticket, sessions[s].pos + 1) /\ Finish(w)
  BY <1>1, <1>2 DEF NextCommand
<1>8. /\ Whole(timers') /\ Busy(timers)' = Busy(q) \cup {n} /\ n \notin Busy(q)
      /\ Contents(timers', q, n) /\ Alarm(timers', q)
      /\ timers'.pool[n].ticket = sessions[s].ticket /\ timers'.pool[n].cmd = sessions[s].pos + 1
      /\ \A m \in Undelivered : m.id # n
  BY <1>3, <1>5, <1>6, <1>7, SendDoes
<1>9. Contents(timers', timers, n)
  <2>1. NoID \notin DOMAIN timers.pool
    BY <1>4, PoolType DEF TypeOK
  <2>2. QED
    BY <1>5, <1>8, <2>1 DEF Contents
<1>10. Alarm(timers', timers)
  BY <1>5, <1>8 DEF Alarm
<1>11. /\ SameSessions /\ \A z \in Started \ {s} : sessions'[z] = sessions[z]
       /\ sessions'[s].pos = sessions[s].pos + 1 /\ sessions'[s].timeoutID = n
  BY <1>1, <1>2, <1>3, <1>4, NextCommandDoes
<1>12. Started' = Started /\ \A z \in Started : Live(z)' = Live(z)
  BY <1>4, <1>7, <1>11, FinishKeeps DEF SameSessions, Live
<1>13. ASSUME NEW z \in Started, Live(z), z # s
       PROVE  Timed(z)' /\ (Running(z) => Running(z)') /\ SameSession(z)
  <2>1. SameSession(z) /\ Beside(w, z)
    BY <1>1, <1>11, <1>13 DEF SameSession, Beside
  <2>2. TimerKept(z)
    BY <1>1, <1>5, <1>8, <1>9, <1>13, OthersKept
  <2>3. \A m \in Mail : TimeoutFor(z, m) /\ m.id \in Busy(timers)' => m.id \in Busy(timers)
    BY <1>4, <1>5, <1>8, <1>13, OnItsWay
  <2>4. QED
    BY <1>4, <1>7, <1>13, <2>1, <2>2, <2>3, Bystander
<1>14. ASSUME NEW z \in Started, z = s
       PROVE  Timed(z)'
  <2>1. sessions'[z].ticket = sessions[z].ticket
    BY <1>11 DEF SameSessions
  <2>2. Running(z)'
    BY <1>8, <1>11, <1>14, <2>1 DEF Running
  <2>3. Extendable(z)'
    BY <2>2 DEF Extendable, Running
  <2>4. /\ Mail' \subseteq Mail
        /\ \A v \in Worker : workers'[v].step = "process" => workers'[v] = workers[v]
    BY <1>4, <1>7, MailDone
  <2>5. Live(z) /\ Spent(z) /\ Theirs(z)
    BY <1>1, <1>14, TInvParts DEF Timed
  <2>6. \A m \in Mail : TimeoutFor(z, m) => m.id \notin Busy(timers)' /\ m.id # sessions'[z].timeoutID
    <3>1. \A m \in Mail : TimeoutFor(z, m) => m \in Undelivered
      BY <1>4, <2>5, OnItsWay
    <3>2. QED
      BY <1>5, <1>8, <1>11, <1>14, <2>5, <3>1 DEF Spent
  <2>7. Spent(z)'
    BY <2>1, <2>4, <2>6 DEF Spent, TimeoutFor
  <2>8. Theirs(z)'
    BY <2>1, <2>4, <2>5 DEF Theirs, TimeoutFor
  <2>9. QED
    BY <2>2, <2>3, <2>7, <2>8 DEF Timed
<1>15. Owned'
  <2>1. PICK N : N = {n}
    OBVIOUS
  <2>2. \A i \in Busy(timers)' : i \in Busy(timers) \/ i \in N
    BY <1>5, <1>8, <2>1
  <2>3. ASSUME NEW z \in Started, Live(z) /\ Running(z), sessions[z].timeoutID \in Busy(timers)' \ N
        PROVE  Live(z)' /\ Running(z)' /\ sessions'[z].timeoutID = sessions[z].timeoutID
    <3>1. z # s
      BY <1>5, <1>8, <2>1, <2>3
    <3>2. QED
      BY <1>12, <1>13, <2>3, <3>1 DEF SameSession
  <2>4. \A i \in Busy(timers)' : i \in N \/ \E z \in Started' :
            Live(z)' /\ sessions'[z].timeoutID = i /\ Running(z)'
    BY <1>12, <2>2, <2>3, TInvParts, OwnedKept
  <2>5. ASSUME NEW z \in Started, z = s
        PROVE  Live(z)' /\ sessions'[z].timeoutID = n /\ Running(z)'
    <3>1. Live(z)'
      BY <1>1, <1>12, <2>5
    <3>2. Running(z)'
      BY <1>8, <1>11, <2>5 DEF Running, SameSessions
    <3>3. QED
      BY <1>11, <2>5, <3>1, <3>2
  <2>6. QED
    BY <1>12, <2>1, <2>4, <2>5 DEF Owned
<1>16. QED
  BY <1>8, <1>10, <1>12, <1>13, <1>14, <1>15 DEF Covered

LEMMA CoveredMessage ==
    ASSUME TInv, Closed, NEW w \in Worker, ProcessMessage(w)
    PROVE  Covered' /\ Alarm(timers', timers)
<1>1. PICK s \in Started : s = workers[w].sess
  BY AtWork, TInvParts DEF ProcessMessage
<1>2. UNCHANGED <<queue, freed>> /\ workers[w].step = "process" /\ Live(s)
  BY <1>1 DEF ProcessMessage, Closed, Live
<1>3. SInv /\ TypeInv /\ TypeOK /\ IsQueue(timers, Ticket, Cmd) /\ Timed(s) /\ queue \subseteq Message
  BY <1>2, TInvParts
<1>4. sessions[s].pos \in Cmd
  <2>1. CASE Running(s)
    <3>1. sessions[s].timeoutID \in DOMAIN timers.pool
      BY <2>1 DEF Running, Busy
    <3>2. QED
      BY <1>3, <2>1, <3>1, LinksAreIDs DEF Running
  <2>2. CASE Sent(s)
    <3>1. \A m \in Mail : m.cmd \in Cmd
      <4>1. \A v \in Worker : workers[v].step = "process" => workers[v].msg \in Message
        BY <1>3, Holds, BusyStep
      <4>2. Mail \subseteq Message
        BY <1>3, <4>1 DEF Mail, InHand
      <4>3. QED
        BY <4>2 DEF Message
    <3>2. QED
      BY <2>2, <3>1 DEF Sent
  <2>3. QED
    BY <1>3, <2>1, <2>2 DEF Timed
<1>5. ASSUME ToDelete(w), SameSessions, \A z \in Started \ {s} : sessions'[z] = sessions[z],
             timers' = TimeoutDeleted(s)
      PROVE  Covered' /\ Alarm(timers', timers)
  <2>1. /\ Whole(timers') /\ Busy(timers') = Busy(timers) \ {sessions[s].timeoutID}
        /\ Contents(timers', timers, NoID) /\ Alarm(timers', timers)
    BY <1>5, DeletedDoes
  <2>2. QED
    BY <1>1, <1>2, <1>5, <2>1, CoveredAnswer
<1>6. CASE AnswerClient(w, s) /\ timers' = TimeoutDeleted(s)
  BY <1>3, <1>5, <1>6, AnswerClientDoes DEF AnswerClient
<1>7. CASE Complete(w, s)
  BY <1>3, <1>5, <1>7, CompleteDoes DEF Complete
<1>8. CASE sessions[s].pos < NumCommands /\ NextCommand(w, s)
  BY <1>1, <1>2, <1>8, CoveredNext
<1>9. ~(sessions[s].pos > NumCommands)
  BY <1>4, SessionsAssumption DEF Cmd
<1>10. QED
  BY <1>1, <1>6, <1>7, <1>8, <1>9 DEF ProcessMessage

(* Steps that change no session, no thread and none of the timers. *)
LEMMA CoveredStays ==
    ASSUME TInv, UNCHANGED <<sessions, workers>>, timers'.pool = timers.pool, Whole(timers'),
           \A z \in Started : Live(z) => MailKept(z)
    PROVE  Covered'
<1>1. Started' = Started /\ Busy(timers)' = Busy(timers)
  BY DEF Started, Busy
<1>2. \A z \in Started : Live(z)' = Live(z)
  BY DEF Live, Ending
<1>3. ASSUME NEW z \in Started, Live(z) PROVE Timed(z)' /\ (Running(z) => Running(z)')
  <2>1. SameSession(z) /\ TimerKept(z)
    BY <1>1 DEF SameSession, TimerKept
  <2>2. Timed(z) /\ MailKept(z)
    BY <1>3, TInvParts
  <2>3. Theirs(z)'
    BY <2>2 DEF Timed, Theirs, TimeoutFor
  <2>4. QED
    BY <2>1, <2>2, <2>3, Undisturbed
<1>4. Owned'
  BY <1>1, <1>2, <1>3, TInvParts DEF Owned
<1>5. QED
  BY <1>1, <1>2, <1>3, <1>4 DEF Covered

LEMMA CoveredQuiet ==
    ASSUME TInv, Closed, Answer \/ KeepAlive \/ Mark \/ Arm \/ Wake \/ UNCHANGED vars
    PROVE  Covered'
<1>1. UNCHANGED <<sessions, workers>>
  BY DEF Answer, KeepAlive, Mark, Arm, Wake, vars
<1>2. Mail' = queue' \cup InHand
  BY <1>1 DEF Mail, InHand
<1>3. SInv /\ TypeOK /\ Whole(timers) /\ Owned
  BY TInvParts
<1>4. CASE Answer
  <2>1. timers' = timers /\ queue \subseteq queue'
        /\ \A m \in queue' : m \in queue \/ m.type \in {"reply", "error"}
    BY <1>4 DEF Answer, Reply
  <2>2. \A z \in Started : MailKept(z)
    BY <1>2, <2>1 DEF MailKept, Mail
  <2>3. QED
    BY <1>1, <1>3, <2>1, <2>2, CoveredStays
<1>5. CASE KeepAlive
  <2>1. PICK c \in calls : /\ TimerOf(c.ticket, c.cmd) # {} \/ "keepalive" \in Windows
                           /\ queue' = queue \cup {Reply(c.ticket, "keepAlive", c.cmd)}
                           /\ timers' = timers
    BY <1>5 DEF KeepAlive
  <2>2. PICK i \in Busy(timers) : timers.pool[i].ticket = c.ticket
    BY <2>1 DEF Closed, TimerOf
  <2>3. PICK y \in Started : Live(y) /\ sessions[y].timeoutID = i /\ sessions[y].ticket = c.ticket
    BY <1>3, <2>2 DEF Owned, Running
  <2>4. ASSUME NEW z \in Started, Live(z), sessions[z].ticket = c.ticket
        PROVE  sessions[z].timeoutID \in Busy(timers)
    BY <1>3, <2>2, <2>3, <2>4, OneTicket
  <2>5. \A m \in queue' : m \in queue \/ (m.type = "keepAlive" /\ m.ticket = c.ticket)
    BY <2>1 DEF Reply
  <2>6. ASSUME NEW z \in Started, Live(z) PROVE MailKept(z)
    <3>1. queue \subseteq queue'
      BY <2>1
    <3>2. QED
      BY <1>2, <2>1, <2>4, <2>5, <2>6, <3>1 DEF MailKept, Mail
  <2>7. QED
    BY <1>1, <1>3, <2>1, <2>6, CoveredStays
<1>6. CASE Mark \/ Wake \/ UNCHANGED vars
  <2>1. timers' = timers /\ queue' = queue
    BY <1>6 DEF Mark, Wake, vars
  <2>2. \A z \in Started : MailKept(z)
    BY <1>2, <2>1 DEF MailKept, Mail
  <2>3. QED
    BY <1>1, <1>3, <2>1, <2>2, CoveredStays
<1>7. CASE Arm
  <2>1. PICK q : q = timers
    OBVIOUS
  <2>2. timers' = [q EXCEPT !.event = FALSE] /\ queue' = queue
    BY <1>7, <2>1 DEF Arm
  <2>3. timers'.pool = q.pool /\ timers'.first = q.first /\ timers'.last = q.last /\ timers'.free = q.free
    BY <1>3, <2>1, <2>2 DEF TypeOK, IsQueue
  <2>4. Whole(timers')
    BY <1>3, <2>1, <2>3, SameLists DEF Whole
  <2>5. Busy(timers)' = Busy(timers)
    BY <2>1, <2>3 DEF Busy
  <2>6. \A z \in Started : MailKept(z)
    BY <1>2, <2>2, <2>5 DEF MailKept, Mail
  <2>7. QED
    BY <1>1, <2>1, <2>3, <2>4, <2>6, CoveredStays
<1>8. QED
  BY <1>4, <1>5, <1>6, <1>7

LEMMA CoveredTake ==
    ASSUME TInv, NEW w \in Worker, Take(w)
    PROVE  Covered'
<1>1. UNCHANGED <<table, sessions, timers>> /\ workers[w] = Idle
  BY DEF Take
<1>2. SInv /\ TypeInv /\ TypeOK /\ Whole(timers) /\ Owned
  BY TInvParts
<1>3. PICK m \in queue :
          /\ queue' = queue \ {m}
          /\ workers' = IF IsValid(m.ticket)
                        THEN [workers EXCEPT ![w] = [step |-> "process", msg |-> m,
                                                     sess |-> table[m.ticket.slot].sess]]
                        ELSE workers
  BY DEF Take
<1>4. PICK u : u = table[m.ticket.slot].sess
  OBVIOUS
<1>5. \A v \in Worker : \/ workers'[v] = workers[v]
                        \/ /\ v = w /\ workers'[v] = [step |-> "process", msg |-> m, sess |-> u]
                           /\ IsValid(m.ticket)
  BY <1>2, <1>3, <1>4 DEF TypeOK
<1>6. Idle.step = "idle"
  BY DEF Idle
<1>7. Started' = Started /\ Busy(timers)' = Busy(timers) /\ \A z \in Started : Live(z)' = Live(z)
  <2>1. ASSUME NEW v \in Worker, NEW z
        PROVE  workers'[v].step = "delete" /\ workers'[v].sess = z
                   <=> workers[v].step = "delete" /\ workers[v].sess = z
    BY <1>1, <1>5, <1>6
  <2>2. QED
    BY <1>1, <2>1 DEF Started, Busy, Live, Ending
<1>8. Mail' \subseteq Mail
  BY <1>3, <1>5 DEF Mail, InHand
<1>9. \A x \in Mail : x \in Mail' \/ (x = m /\ ~IsValid(m.ticket))
  <2>1. ASSUME NEW x \in InHand PROVE x \in InHand'
    <3>1. PICK v \in Worker : workers[v].step = "process" /\ x = workers[v].msg
      BY <2>1 DEF InHand
    <3>2. workers'[v] = workers[v]
      BY <1>1, <1>5, <1>6, <3>1
    <3>3. QED
      BY <3>1, <3>2 DEF InHand
  <2>2. IsValid(m.ticket) => m \in InHand'
    <3>1. IsValid(m.ticket) => workers'[w] = [step |-> "process", msg |-> m, sess |-> u]
      BY <1>2, <1>3, <1>4 DEF TypeOK
    <3>2. QED
      BY <3>1 DEF InHand
  <2>3. QED
    BY <1>3, <2>1, <2>2 DEF Mail
<1>10. ASSUME NEW z \in Started, Live(z) PROVE Timed(z)' /\ (Running(z) => Running(z)')
  <2>1. Timed(z) /\ IsValid(sessions[z].ticket) /\ table[sessions[z].ticket.slot].sess = z
    BY <1>2, <1>10, LiveListed, TInvParts
  <2>2. SameSession(z) /\ TimerKept(z)
    BY <1>1, <1>7 DEF SameSession, TimerKept
  <2>3. MailKept(z)
    BY <1>7, <1>8, <1>9, <2>1 DEF MailKept, TimeoutFor
  <2>4. Theirs(z)'
    BY <1>1, <1>4, <1>5, <2>1 DEF Timed, Theirs, TimeoutFor
  <2>5. QED
    BY <2>1, <2>2, <2>3, <2>4, Undisturbed
<1>11. Owned'
  BY <1>1, <1>2, <1>7, <1>10 DEF Owned
<1>12. QED
  BY <1>1, <1>2, <1>7, <1>10, <1>11 DEF Covered

LEMMA CoveredFire ==
    ASSUME TInv, Closed, Fire
    PROVE  Covered'
<1>1. UNCHANGED <<sessions, workers>>
  BY DEF Fire
<1>2. SInv /\ IsQueue(timers, Ticket, Cmd) /\ Whole(timers) /\ Owned
  BY TInvParts
<1>3. Started' = Started /\ (\A z \in Started : Live(z)' = Live(z)) /\ Mail' = queue' \cup InHand
  BY <1>1 DEF Started, Live, Ending, Mail, InHand
<1>4. CASE timers.first = NoID
  <2>1. timers' = timers /\ queue' = queue
    BY <1>4 DEF Fire
  <2>2. \A z \in Started : MailKept(z)
    BY <1>3, <2>1 DEF MailKept, Mail
  <2>3. QED
    BY <1>1, <1>2, <2>1, <2>2, CoveredStays
<1>5. CASE timers.first # NoID
  <2>1. PICK f : f = timers.first
    OBVIOUS
  <2>2. f \in Busy(timers)
    BY <1>2, <1>5, <2>1 DEF Whole, Lists, Listed
  <2>3. /\ ~ExtensionComing(timers.pool[f].ticket) /\ queue' = queue \cup {Timeout(f)}
        /\ timers' = Free(RemoveFromList(timers, f), f)
    BY <1>5, <2>1 DEF Fire, Closed, Timeout
  <2>4. Whole(timers') /\ Busy(timers') = Busy(timers) \ {f} /\ Contents(timers', timers, NoID)
    BY <1>2, <2>2, <2>3, RemoveFreeDoes
  <2>5. PICK s \in Started : Live(s) /\ sessions[s].timeoutID = f /\ Running(s)
    BY <1>2, <2>2 DEF Owned
  <2>6. PICK m : m = Timeout(f)
    OBVIOUS
  <2>7. /\ m.type = "timeout" /\ m.ticket = sessions[s].ticket /\ m.cmd = sessions[s].pos /\ m.id = f
        /\ timers.pool[f].ticket = sessions[s].ticket
    BY <2>5, <2>6 DEF Running, Timeout
  <2>8. Mail' = Mail \cup {m}
    BY <1>3, <2>3, <2>6 DEF Mail
  <2>9. ASSUME NEW z \in Started, Live(z), z # s
        PROVE  Timed(z)' /\ (Running(z) => Running(z)')
    <3>1. Timed(z) /\ TypeInv
      BY <2>9, TInvParts
    <3>2. sessions[z].timeoutID \in Busy(timers) => sessions[z].timeoutID # f
      BY <2>5, <2>9, OneTimer
    <3>3. SameSession(z) /\ TimerKept(z)
      BY <1>1, <2>4, <3>1, <3>2, ContentsKept DEF SameSession
    <3>4. sessions[z].ticket # m.ticket
      BY <1>2, <2>5, <2>7, <2>9, OneTicket
    <3>5. MailKept(z)
      BY <2>4, <2>8, <3>4 DEF MailKept
    <3>6. Theirs(z)'
      BY <1>1, <3>1 DEF Timed, Theirs, TimeoutFor
    <3>7. QED
      BY <3>1, <3>3, <3>5, <3>6, Undisturbed
  <2>10. ASSUME NEW z \in Started, z = s
         PROVE  Timed(z)'
    <3>1. Timed(z)
      BY <2>5, <2>10, TInvParts
    <3>2. Sent(z)'
      BY <1>1, <2>5, <2>7, <2>8, <2>10 DEF Sent, TimeoutFor
    <3>3. Spent(z)'
      BY <1>1, <2>4, <2>7, <2>8, <2>10, <3>1 DEF Timed, Spent, TimeoutFor
    <3>4. Extendable(z)'
      BY <1>1, <2>3, <2>7, <2>8, <2>10 DEF Extendable, ExtensionComing, Mail
    <3>5. Theirs(z)'
      BY <1>1, <3>1 DEF Timed, Theirs, TimeoutFor
    <3>6. QED
      BY <3>2, <3>3, <3>4, <3>5 DEF Timed
  <2>11. Owned'
    <3>1. ASSUME NEW i \in Busy(timers)'
          PROVE  \E z \in Started' : Live(z)' /\ sessions'[z].timeoutID = i /\ Running(z)'
      <4>1. i \in Busy(timers) /\ i # f
        BY <2>4, <3>1
      <4>2. PICK z \in Started : Live(z) /\ sessions[z].timeoutID = i /\ Running(z)
        BY <1>2, <4>1 DEF Owned
      <4>3. z # s
        BY <2>5, <4>1, <4>2
      <4>4. QED
        BY <1>1, <1>3, <2>9, <4>2, <4>3
    <3>2. QED
      BY <3>1 DEF Owned
  <2>12. QED
    BY <1>3, <2>4, <2>9, <2>10, <2>11 DEF Covered
<1>6. QED
  BY <1>4, <1>5

LEMMA CoveredStart ==
    ASSUME TInv, Closed, StartSession
    PROVE  Covered' /\ Alarm(timers', timers)
<1>1. PICK t : t = TicketForInsert
  OBVIOUS
<1>2. PICK n : n = NextID(timers)
  OBVIOUS
<1>3. PICK u : u = Len(sessions) + 1
  OBVIOUS
<1>4. SInv /\ TypeInv /\ TypeOK /\ IsQueue(timers, Ticket, Cmd) /\ Whole(timers) /\ Owned
  BY TInvParts
<1>5. t \in Ticket /\ 1 \in Cmd
  BY <1>1, <1>4, TicketForInsertType, SessionsAssumption DEF StartSession, Cmd
<1>6. /\ UNCHANGED <<queue, workers>> /\ SendCommand(timers, t, 1)
      /\ \A m \in Mail : ~(m.type = "timeout" /\ m.ticket = t)
  BY <1>1 DEF StartSession, Closed, Mail
<1>7. sessions' = Append(sessions, [ticket |-> t, pos |-> 1, timeoutID |-> n,
                                    answers |-> 0, ended |-> FALSE])
  BY <1>1, <1>2 DEF StartSession
<1>8. /\ Started' = Started \cup {u} /\ u \notin Started
      /\ sessions'[u] = [ticket |-> t, pos |-> 1, timeoutID |-> n, answers |-> 0, ended |-> FALSE]
      /\ \A z \in Started : sessions'[z] = sessions[z]
  <2>1. sessions \in Seq(SessionRec) /\ Len(sessions) \in Nat /\ Started = 1..Len(sessions)
    BY <1>4 DEF TypeOK, SessionRec, Started
  <2>2. PICK new : new = [ticket |-> t, pos |-> 1, timeoutID |-> n, answers |-> 0, ended |-> FALSE]
    OBVIOUS
  <2>3. /\ Started' = Started \cup {u} /\ u \notin Started /\ sessions'[u] = new
        /\ \A z \in Started : sessions'[z] = sessions[z]
    BY <1>3, <1>7, <2>1, <2>2 DEF Started
  <2>4. QED
    BY <2>2, <2>3
<1>9. /\ Whole(timers') /\ Busy(timers)' = Busy(timers) \cup {n} /\ n \notin Busy(timers)
      /\ Contents(timers', timers, n) /\ Alarm(timers', timers)
      /\ timers'.pool[n].ticket = t /\ timers'.pool[n].cmd = 1
      /\ \A m \in Undelivered : m.id # n
  BY <1>2, <1>4, <1>5, <1>6, SendDoes
<1>10. Mail' = Mail /\ \A z \in Started : Live(z)' = Live(z)
  BY <1>6, <1>8 DEF Mail, InHand, Live, Ending
<1>11. ASSUME NEW z \in Started, Live(z) PROVE Timed(z)' /\ (Running(z) => Running(z)')
  <2>1. Timed(z)
    BY <1>11, TInvParts
  <2>2. SameSession(z)
    BY <1>8 DEF SameSession
  <2>3. TimerKept(z)
    <3>1. \A i \in Busy(timers) : i \in DOMAIN timers.pool /\ i # n
      BY <1>9 DEF Busy
    <3>2. QED
      BY <1>9, <3>1 DEF TimerKept, Contents
  <2>4. MailKept(z)
    BY <1>4, <1>9, <1>10, <1>11, OnItsWay DEF MailKept
  <2>5. Theirs(z)'
    BY <1>6, <2>1, <2>2 DEF Timed, Theirs, TimeoutFor, SameSession
  <2>6. QED
    BY <2>1, <2>2, <2>4, <2>3, <2>5, Undisturbed
<1>12. ASSUME NEW z, z = u PROVE Timed(z)' /\ Running(z)' /\ Live(z)'
  <2>1. /\ sessions'[z].ticket = t /\ sessions'[z].pos = 1 /\ sessions'[z].timeoutID = n
        /\ ~sessions'[z].ended
    BY <1>8, <1>12
  <2>2. Running(z)'
    BY <1>9, <2>1 DEF Running
  <2>3. Spent(z)'
    BY <1>6, <1>10, <2>1 DEF Spent, TimeoutFor
  <2>4. Extendable(z)'
    BY <2>2 DEF Extendable, Running
  <2>5. Theirs(z)'
    <3>1. \A w \in Worker : workers'[w].step = "process" => workers'[w].msg \in Mail
      BY <1>6 DEF Mail, InHand
    <3>2. QED
      BY <1>6, <2>1, <3>1 DEF Theirs, TimeoutFor
  <2>6. Live(z)'
    <3>1. \A w \in Worker : workers[w].step = "delete" => workers[w].sess \in Started
      BY <1>4, Holds, BusyStep
    <3>2. QED
      BY <1>6, <1>8, <1>12, <2>1, <3>1 DEF Live, Ending
  <2>7. QED
    BY <2>2, <2>3, <2>4, <2>5, <2>6 DEF Timed
<1>13. Owned'
  <2>1. ASSUME NEW i \in Busy(timers)'
        PROVE  \E z \in Started' : Live(z)' /\ sessions'[z].timeoutID = i /\ Running(z)'
    <3>1. CASE i = n
      <4>1. sessions'[u].timeoutID = n
        BY <1>8
      <4>2. QED
        BY <1>8, <1>12, <3>1, <4>1
    <3>2. CASE i # n
      <4>1. PICK z \in Started : Live(z) /\ sessions[z].timeoutID = i /\ Running(z)
        BY <1>4, <1>9, <2>1, <3>2 DEF Owned
      <4>2. QED
        BY <1>8, <1>10, <1>11, <4>1
    <3>3. QED
      BY <3>1, <3>2
  <2>2. QED
    BY <2>1 DEF Owned
<1>14. \A z \in Started' : Live(z)' => Timed(z)'
  BY <1>8, <1>10, <1>11, <1>12
<1>15. QED
  BY <1>9, <1>13, <1>14 DEF Covered

LEMMA TInvInit == Init => TInv
<1> SUFFICES ASSUME Init PROVE TInv
  OBVIOUS
<1>1. Started = {} /\ timers = EmptyQueue
  BY DEF Init, Started
<1>2. DOMAIN timers.pool = {} /\ timers.first = NoID /\ timers.last = NoID /\ timers.free = NoID
  BY <1>1 DEF EmptyQueue
<1>3. Busy(timers) = {} /\ IdleIn(timers) = {}
  BY <1>2 DEF Busy, IdleIn
<1>4. Listed(timers, {})
  BY <1>2 DEF Listed
<1>5. FreeListed(timers)
  BY <1>2, <1>3 DEF FreeListed
<1>6. Ranked(timers)
  <2>1. RankedBy(timers, [i \in {} |-> 0])
    BY <1>2 DEF RankedBy
  <2>2. QED
    BY <2>1 DEF Ranked
<1>7. QED
  BY <1>1, <1>3, <1>4, <1>5, <1>6, SInvInit DEF TInv, Covered, Owned, Whole, Lists

LEMMA TInvNext == TInv /\ [Next]_vars /\ Closed => TInv'
<1> SUFFICES ASSUME TInv, [Next]_vars, Closed PROVE TInv'
  OBVIOUS
<1>1. SInv'
  BY SInvNext DEF TInv, Closed
<1>2. CASE Answer \/ KeepAlive \/ Mark \/ Arm \/ Wake \/ UNCHANGED vars
  BY <1>1, <1>2, CoveredQuiet DEF TInv
<1>3. CASE StartSession
  BY <1>1, <1>3, CoveredStart DEF TInv
<1>4. CASE Fire
  BY <1>1, <1>4, CoveredFire DEF TInv
<1>5. ASSUME NEW w \in Worker,
             Take(w) \/ ProcessKeepAlive(w) \/ ProcessTimeout(w) \/ ProcessMessage(w) \/ Delete(w)
      PROVE  TInv'
  BY <1>1, <1>5, CoveredTake, CoveredKeepAlive, CoveredTimeout, CoveredMessage, CoveredDelete DEF TInv
<1>6. QED
  BY <1>2, <1>3, <1>4, <1>5 DEF Next

LEMMA TInvAlways == Closed => (Spec => []TInv)
<1> SUFFICES ASSUME Closed PROVE Spec => []TInv
  OBVIOUS
<1>1. TInv /\ [Next]_vars => TInv'
  BY TInvNext
<1>2. QED
  BY <1>1, TInvInit, PTL DEF Spec

-----------------------------------------------------------------------------
(* CTimedMessageQueue keeps its lists whole: following next from the first *)
(* timer meets the running ones and no other, following it from the first  *)
(* free entry meets all the rest, and the list is linked both ways.        *)
(* DeleteMessage and KeepAliveMessage are never called for a timer that    *)
(* another session has by now, when the windows of Closed are not entered. *)
THEOREM ListsStayWhole == Closed => (Spec => []TimersWellFormed)
<1> SUFFICES ASSUME Closed PROVE Spec => []TimersWellFormed
  OBVIOUS
<1>1. Spec => []TInv
  BY TInvAlways
<1>2. TInv => TimersWellFormed
  BY TInvParts, WholeIsWellFormed DEF TimersWellFormed
<1>3. QED
  BY <1>1, <1>2, PTL

(* A session that waits for a command is never left without a timer for    *)
(* that command or a timeout of it on the way, whatever the order in which *)
(* its threads answer, delete and extend timers and start other sessions.  *)
THEOREM WaitingIsTimed == Closed => (Spec => []TimersOwned)
<1> SUFFICES ASSUME Closed PROVE Spec => []TimersOwned
  OBVIOUS
<1>1. Spec => []TInv
  BY TInvAlways
<1>2. TInv => TimersOwned
  <2> SUFFICES ASSUME TInv, NEW s \in DOMAIN sessions, Live(s)
               PROVE  \/ sessions[s].timeoutID \in TimerOf(sessions[s].ticket, sessions[s].pos)
                      \/ \E m \in queue \cup InHand :
                            /\ m.ticket = sessions[s].ticket /\ m.cmd = sessions[s].pos
                            /\ m.type = "timeout" /\ m.id = sessions[s].timeoutID
    BY DEF TimersOwned
  <2>1. Running(s) \/ Sent(s)
    BY TInvParts DEF Started, Timed
  <2>2. QED
    BY <2>1 DEF Running, Sent, TimerOf, TimeoutFor, Mail
<1>3. QED
  BY <1>1, <1>2, PTL

(* A thread works at its own session only. *)
LEMMA OtherThread ==
    ASSUME TypeInv, NEW v \in Worker, NEW w \in Worker, v # w,
           Take(v) \/ ProcessKeepAlive(v) \/ ProcessTimeout(v) \/ ProcessMessage(v) \/ Delete(v)
    PROVE  workers'[w] = workers[w]
<1>1. workers \in [Worker -> {Idle} \cup Work]
  BY DEF TypeInv, TypeOK
<1>2. Finish(v) \/ ToDelete(v) => workers'[w] = workers[w]
  BY <1>1 DEF Finish, ToDelete
<1>3. Take(v) => workers'[w] = workers[w]
  BY <1>1 DEF Take
<1>4. QED
  BY <1>2, <1>3 DEF ProcessKeepAlive, ProcessTimeout, ProcessMessage, Delete, AnswerClient,
     NextCommand, Complete, PastTheEnd

(* A session is only given messages that were sent to it, and it gives up  *)
(* on a timeout only if the command it waits for is the one that timed     *)
(* out: a timeout that comes late is known by its number.                  *)
THEOREM GivesUpOnRealTimeout == Closed => (Spec => TimeoutIsReal)
<1> SUFFICES ASSUME Closed PROVE Spec => TimeoutIsReal
  OBVIOUS
<1> DEFINE Real(w) ==
        workers[w].step = "process" /\ workers'[w].step = "delete" =>
            /\ sessions[workers[w].sess].ticket = workers[w].msg.ticket
            /\ workers[w].msg.type = "timeout" =>
                   sessions[workers[w].sess].pos = workers[w].msg.cmd
<1>1. Spec => []TInv
  BY TInvAlways
<1>2. TInv /\ [Next]_vars => [\A w \in Worker : Real(w)]_vars
  <2> SUFFICES ASSUME TInv, Next, NEW w \in Worker,
                      workers[w].step = "process", workers'[w].step = "delete"
               PROVE  /\ sessions[workers[w].sess].ticket = workers[w].msg.ticket
                      /\ workers[w].msg.type = "timeout" =>
                             sessions[workers[w].sess].pos = workers[w].msg.cmd
    OBVIOUS
  <2>1. SInv /\ TypeInv /\ workers[w] # Idle
    BY AtWork, TInvParts
  <2>2. sessions[workers[w].sess].ticket = workers[w].msg.ticket
    BY <2>1, AtWork
  <2>3. PICK v \in Worker :
            Take(v) \/ ProcessKeepAlive(v) \/ ProcessTimeout(v) \/ ProcessMessage(v) \/ Delete(v)
    <3>1. workers' # workers
      OBVIOUS
    <3>2. QED
      BY <3>1 DEF Next, StartSession, Answer, KeepAlive, Mark, Arm, Wake, Fire
  <2>4. v = w
    BY <2>1, <2>3, OtherThread
  <2>5. ~Take(w) /\ ~Delete(w)
    BY <2>1 DEF Take, Delete
  <2>6. ProcessTimeout(w) => sessions[workers[w].sess].pos = workers[w].msg.cmd
    BY CoveredTimeout
  <2>7. ProcessKeepAlive(w) \/ ProcessMessage(w) => workers[w].msg.type # "timeout"
    BY DEF ProcessKeepAlive, ProcessMessage
  <2>8. QED
    BY <2>2, <2>3, <2>4, <2>5, <2>6, <2>7
<1>3. (\A w \in Worker : Real(w)) =>
          \A w \in Worker : workers[w].step = "process" /\ workers'[w].step = "delete" =>
              LET m == workers[w].msg
                  s == workers[w].sess
              IN  sessions[s].ticket = m.ticket /\ (m.type = "timeout" => sessions[s].pos = m.cmd)
  OBVIOUS
<1> HIDE DEF Real
<1>4. QED
  BY <1>1, <1>2, <1>3, PTL DEF Spec, TimeoutIsReal

(* CSimpleEventThread sleeps for the first timer of the list, or its event *)
(* is set: a step of another thread either leaves the first timer where it *)
(* is or sets the event.                                                   *)
LEMMA AlarmKeeps ==
    ASSUME WakesInTime, armed' = armed, Alarm(timers', timers)
    PROVE  WakesInTime'
BY DEF WakesInTime, Alarm, Awake

(* The timer thread never sleeps past the first timer of the list, when    *)
(* besides no request for more time lets a timer overtake the first one    *)
(* (KeepAliveMessage does not signal then).                                *)
THEOREM WakesForTheFirst == Closed /\ "shorten" \notin Windows => (Spec => []WakesInTime)
<1> SUFFICES ASSUME Closed, "shorten" \notin Windows PROVE Spec => []WakesInTime
  OBVIOUS
<1>1. Spec => []TInv
  BY TInvAlways
<1>2. Init => WakesInTime
  BY DEF Init, WakesInTime
<1>3. TInv /\ WakesInTime /\ [Next]_vars => WakesInTime'
  <2> SUFFICES ASSUME TInv, WakesInTime, [Next]_vars PROVE WakesInTime'
    OBVIOUS
  <2>1. CASE UNCHANGED <<timers, armed>>
    BY <2>1 DEF WakesInTime, Awake
  <2>2. CASE Arm
    BY <2>2, TInvParts DEF Arm, WakesInTime, TypeOK, IsQueue
  <2>3. CASE Wake \/ Fire
    BY <2>3 DEF Wake, Fire, WakesInTime, Awake
  <2>4. CASE StartSession
    BY <2>4, CoveredStart, AlarmKeeps DEF StartSession
  <2>5. ASSUME NEW w \in Worker, ProcessMessage(w) \/ ProcessKeepAlive(w)
        PROVE  WakesInTime'
    BY <2>5, CoveredMessage, CoveredKeepAlive, AlarmKeeps DEF ProcessMessage, ProcessKeepAlive
  <2>6. ASSUME NEW w \in Worker, Take(w) \/ ProcessTimeout(w) \/ Delete(w)
        PROVE  UNCHANGED <<timers, armed>>
    BY <2>6 DEF Take, ProcessTimeout, Delete
  <2>7. CASE Answer \/ KeepAlive \/ Mark
    BY <2>1, <2>7 DEF Answer, KeepAlive, Mark
  <2>8. QED
    BY <2>1, <2>2, <2>3, <2>4, <2>5, <2>6, <2>7 DEF Next, vars
<1>4. QED
  BY <1>1, <1>2, <1>3, PTL DEF Spec
=============================================================================
