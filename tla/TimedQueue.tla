----------------------------- MODULE TimedQueue -----------------------------
(***************************************************************************)
(* CTimedMessageQueue: a pool of timers, the doubly linked list of those   *)
(* that run and the singly linked list of those that are free.  A queue is *)
(* a record; an operator is a method, which runs under m_cs.               *)
(*                                                                         *)
(* Of dwTime only what the methods compare is kept: whether it is 0 (the   *)
(* entry is free), and the order of the list.  Delays differ, so a timer   *)
(* may come to stand after any timer of the list, or in front of it.       *)
(***************************************************************************)
EXTENDS Naturals, Sequences

NoID == 0

(* ticket and cmd stand for the message of a timer: the session it goes to *)
(* and, for the properties only, the command it guards.                    *)
Entry(ID, Ticket, Cmd) ==
    [busy : BOOLEAN, next : ID \cup {NoID}, prev : ID \cup {NoID}, ticket : Ticket, cmd : Cmd]

IsQueue(q, Ticket, Cmd) ==
    LET ID == DOMAIN q.pool
    IN  q \in [pool : Seq(Entry(ID, Ticket, Cmd)), event : BOOLEAN,
               first : ID \cup {NoID}, last : ID \cup {NoID}, free : ID \cup {NoID}]

EmptyQueue == [pool |-> <<>>, first |-> NoID, last |-> NoID, free |-> NoID, event |-> FALSE]

Busy(q) == {i \in DOMAIN q.pool : q.pool[i].busy}

(* Allocate takes the entry freed last, or makes the pool larger. *)
NextID(q) == IF q.free # NoID THEN q.free ELSE Len(q.pool) + 1
Allocate(q, ticket, cmd) ==
    LET i == NextID(q)
        new == [busy |-> TRUE, next |-> NoID, prev |-> NoID, ticket |-> ticket, cmd |-> cmd]
    IN  IF q.free # NoID THEN [q EXCEPT !.free = q.pool[i].next, !.pool[i] = new]
        ELSE [q EXCEPT !.pool = Append(@, new)]

(* The entries the search in InsertToList, from the end of the list, may   *)
(* stop at: i goes behind the one it stops at, or to the front.            *)
Places(q) == {NoID, q.last} \cup {q.pool[j].prev : j \in Busy(q)}

InsertToList(q, i, after) ==
    LET next == IF after = NoID THEN q.first ELSE q.pool[after].next
        linked == [q EXCEPT !.pool[i].prev = after, !.pool[i].next = next]
        behind == IF after = NoID THEN [linked EXCEPT !.first = i]
                  ELSE [linked EXCEPT !.pool[after].next = i]
    IN  IF next = NoID THEN [behind EXCEPT !.last = i] ELSE [behind EXCEPT !.pool[next].prev = i]

RemoveForwardOnly(q, i) ==    \* mutant: the previous link of the next timer is left
    LET e == q.pool[i]
        before == IF e.prev = NoID THEN [q EXCEPT !.first = e.next]
                  ELSE [q EXCEPT !.pool[e.prev].next = e.next]
    IN  [before EXCEPT !.pool[i].prev = NoID, !.pool[i].next = NoID]
RemoveFromList(q, i) ==
    LET e == q.pool[i]
        before == IF e.prev # NoID THEN [q EXCEPT !.pool[e.prev].next = e.next]
                  ELSE [q EXCEPT !.first = e.next]
        after == IF e.next # NoID THEN [before EXCEPT !.pool[e.next].prev = e.prev]
                 ELSE [before EXCEPT !.last = e.prev]
    IN  [after EXCEPT !.pool[i].prev = NoID, !.pool[i].next = NoID]

Free(q, i) == [q EXCEPT !.pool[i].busy = FALSE, !.pool[i].next = q.free, !.free = i]

Signal(q, signalled) == IF signalled THEN [q EXCEPT !.event = TRUE] ELSE q

AddSilently(q, ticket, cmd, after) ==    \* mutant: no signal for a new first timer
    InsertToList(Allocate(q, ticket, cmd), NextID(q), after)
AddTimeoutMessage(q, ticket, cmd, after) ==
    LET added == InsertToList(Allocate(q, ticket, cmd), NextID(q), after)
    IN  Signal(added, added.first = NextID(q))

(* The release build returns when the timer has been sent already. *)
DeleteMessage(q, i) ==
    IF ~q.pool[i].busy THEN q
    ELSE Free(RemoveFromList(Signal(q, q.first = i), i), i)

(* KeepAliveMessage does not ask whether the timer is still in the list. *)
KeepAliveMessage(q, i, after) ==
    LET out == RemoveFromList(Signal(q, q.first = i), i)
    IN  InsertToList([out EXCEPT !.pool[i].busy = TRUE], i, after)
KeepAlivePlaces(q, i) == Places(RemoveFromList(q, i)) \ {i}

-----------------------------------------------------------------------------
(* The entries reached from i in at most n steps along next. *)
Chain(q, i, n) ==
    LET reach[k \in 0..n] ==
            IF k = 0 THEN {i} ELSE reach[k - 1] \cup {q.pool[j].next : j \in reach[k - 1] \ {NoID}}
    IN  reach[n] \ {NoID}

(* The running timers are exactly those of the list, linked both ways, and *)
(* every other entry of the pool is on the free list: none is lost, none   *)
(* can be handed out while it runs.                                        *)
WellFormed(q) ==
    LET N == Len(q.pool)
    IN  /\ Chain(q, q.first, N) = Busy(q)
        /\ Chain(q, q.free, N) = (1..N) \ Busy(q)
        /\ (q.first = NoID) <=> (q.last = NoID)
        /\ q.last # NoID => q.pool[q.last].busy /\ q.pool[q.last].next = NoID
        /\ q.first # NoID => q.pool[q.first].prev = NoID
        /\ \A i \in Busy(q) : q.pool[i].next # NoID => q.pool[q.pool[i].next].prev = i
=============================================================================
