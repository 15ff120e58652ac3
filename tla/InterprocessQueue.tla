------------------------- MODULE InterprocessQueue --------------------------
(***************************************************************************)
(* CInterprocessMessageQueue: the queue in shared memory from which one    *)
(* process receives the messages that the others send it, with the three   *)
(* named objects it is made of (a semaphore, an event, a file mapping),    *)
(* the thread that empties it (CInterprocessMessageThread), and processes  *)
(* that die and are started again.                                         *)
(*                                                                         *)
(* A named object exists while a process holds a handle to it; a process   *)
(* that creates one which exists opens it.  Create and Open go through the *)
(* objects one at a time; a critical section is entered in one step and    *)
(* done in another, because its process may die in between.                *)
(***************************************************************************)
EXTENDS BlockHeap, FiniteSets

CONSTANTS Receiver,    \* the process that the queue belongs to
          Sender,      \* the other processes of the machine
          Slots,       \* MAX_QUEUE_SIZE
          Chunk,       \* DEFAULT_PROCESSING_CHUNK
          Lengths,     \* words of a serialized message, with its last byte
          MaxTries,    \* MAX_ENQUEUE_TRIES
          MaxMessages, \* bound on the messages ever sent
          MaxDeaths,   \* bound on the deaths of processes
          Windows      \* the delicate windows a behaviour may enter

ASSUME QueueAssumption ==
    /\ Receiver \notin Sender
    /\ Slots \in Nat \ {0} /\ Chunk \in Nat \ {0} /\ MaxTries \in Nat \ {0}
    /\ Lengths \subseteq 1..(Words - 2 * Header)
    /\ MaxMessages \in Nat /\ MaxDeaths \in Nat
    /\ Windows \subseteq {"locked", "race", "gone"}

VARIABLES
    handles,    \* processes that hold a handle to each named object
    lock,       \* process that has decremented the semaphore, or Nobody
    event,      \* the event is set
    heap,       \* the blocks of the shared memory
    slots,      \* the slots of the header: offsets of blocks
    head, tail,
    at,         \* where each process is
    message,    \* the message that a sender is sending
    tries,      \* how often a sender has found no room
    lengths,    \* lengths of the messages sent so far, which are numbers
    hand,       \* messages that the receiver's thread has taken
    delivered,  \* history: messages given to SendMessage
    deaths

vars == <<handles, lock, event, heap, slots, head, tail, at, message, tries, lengths, hand,
          delivered, deaths>>
shared == <<lock, event, heap, slots, head, tail>>
history == <<delivered, deaths>>

Process == Sender \cup {Receiver}
Nobody == "nobody"
Object == {"semaphore", "event", "memory"}
Number == 1..MaxMessages

(* The steps of a process: Create, Open, and what it does with the queue.  *)
Step == {"off", "boot", "create event", "create memory",
         "open semaphore", "open event", "open memory", "close",
         "ready", "noqueue", "enqueue", "enqueuing", "dequeue", "dequeuing"}

TypeOK ==
    /\ handles \in [Object -> SUBSET Process]
    /\ lock \in Process \cup {Nobody} /\ event \in BOOLEAN
    /\ heap.mem \in [1..Words -> Int] /\ heap.firstFree \in 0..Words
    /\ slots \in [0..Slots -> 0..Words] /\ head \in 0..Slots /\ tail \in 0..Slots
    /\ at \in [Process -> Step]
    /\ message \in [Sender -> Number \cup {0}] /\ tries \in [Sender -> 0..MaxTries]
    /\ Len(lengths) <= MaxMessages /\ \A m \in DOMAIN lengths : lengths[m] \in Lengths
    /\ Len(hand) <= Chunk /\ \A i \in DOMAIN hand : hand[i] \in Number
    /\ \A i \in DOMAIN delivered : delivered[i] \in Number
    /\ deaths \in 0..MaxDeaths

(* No process runs, and nothing exists. *)
Init ==
    /\ handles = [o \in Object |-> {}]
    /\ lock = Nobody /\ event = FALSE
    /\ heap = NewHeap /\ slots = [i \in 0..Slots |-> 0] /\ head = 0 /\ tail = 0
    /\ at = [p \in Process |-> IF p = Receiver THEN "off" ELSE "ready"]
    /\ message = [p \in Sender |-> 0] /\ tries = [p \in Sender |-> 0]
    /\ lengths = <<>> /\ hand = <<>> /\ delivered = <<>> /\ deaths = 0

Exists(o) == handles[o] # {}
Goes(p, step) == at' = [at EXCEPT ![p] = step]
Holds(p, o) == handles' = [handles EXCEPT ![o] = @ \cup {p}]
WithoutHandles(p) == [o \in Object |-> handles[o] \ {p}]
IsOpen(p) == \A o \in Object : p \in handles[o]
HasQueueOpen(p) == IsOpen(p) /\ at[p] # "close"

Booting == at[Receiver] \in {"create event", "create memory", "open semaphore", "open event",
                             "open memory", "close"}
Opening(p) == at[p] \in {"open event", "open memory", "close"}

(* Window "race": the receiver creates its queue while a sender that did   *)
(* not find it has part of it open, or a sender finds such a part.         *)
NoRace(p) ==
    \/ "race" \in Windows
    \/ IsOpen(p) \/ \E q \in Process \ {p} : HasQueueOpen(q)
    \/ \A q \in Process \ {p} : ~Opening(q) /\ (q = Receiver => ~Booting)

(* Window "gone": the receiver has found its queue, and the last process   *)
(* that keeps it in being dies before the receiver has opened it.          *)
NotGone(p) ==
    \/ "gone" \in Windows
    \/ p = Receiver \/ ~Booting \/ ~IsOpen(p)
    \/ \E q \in Process \ {p} : HasQueueOpen(q)

-----------------------------------------------------------------------------
(* Create, by the receiver as it boots *)

(* A process comes up; its queue may be there already. *)
Boot ==
    /\ at[Receiver] = "off"
    /\ Goes(Receiver, "boot")
    /\ UNCHANGED <<handles, shared, message, tries, lengths, hand, history>>

GiveUp == "noqueue"    \* mutant: Boot does not open the queue it could not create
AfterCreateFails == "open semaphore"

CreateSemaphore ==
    /\ at[Receiver] = "boot" /\ NoRace(Receiver)
    /\ IF Exists("semaphore") THEN Goes(Receiver, AfterCreateFails) /\ UNCHANGED <<handles, lock>>
       ELSE /\ Holds(Receiver, "semaphore") /\ lock' = Receiver
            /\ Goes(Receiver, "create event")
    /\ UNCHANGED <<event, heap, slots, head, tail, message, tries, lengths, hand, history>>

(* The handles are closed and the semaphore given back. *)
CreateFails ==
    /\ handles' = WithoutHandles(Receiver)
    /\ lock' = Nobody
    /\ Goes(Receiver, AfterCreateFails)

CreateEvent ==
    /\ at[Receiver] = "create event"
    /\ IF Exists("event") THEN CreateFails /\ UNCHANGED event
       ELSE /\ Holds(Receiver, "event") /\ event' = FALSE
            /\ Goes(Receiver, "create memory") /\ UNCHANGED lock
    /\ UNCHANGED <<heap, slots, head, tail, message, tries, lengths, hand, history>>

CreateMemory ==
    /\ at[Receiver] = "create memory"
    /\ IF Exists("memory") THEN CreateFails /\ UNCHANGED <<heap, slots, head, tail>>
       ELSE /\ Holds(Receiver, "memory")
            /\ heap' = NewHeap /\ slots' = [i \in 0..Slots |-> 0]
            /\ head' = 0 /\ tail' = 0
            /\ lock' = Nobody
            /\ Goes(Receiver, "ready")
    /\ UNCHANGED <<event, message, tries, lengths, hand, history>>

-----------------------------------------------------------------------------
(* Open, by a sender or by a receiver that could not create its queue.  An *)
(* object that does not exist comes into being, and is closed again.       *)

(* What the system makes: a free semaphore, an event that is not set, or   *)
(* memory that is all 0.                                                   *)
ZeroHeap == [mem |-> [o \in 1..Words |-> 0], firstFree |-> 0]
New(o) ==
    /\ lock' = IF o = "semaphore" THEN Nobody ELSE lock
    /\ event' = IF o = "event" THEN FALSE ELSE event
    /\ IF o = "memory" THEN /\ heap' = ZeroHeap /\ slots' = [i \in 0..Slots |-> 0]
                            /\ head' = 0 /\ tail' = 0
       ELSE UNCHANGED <<heap, slots, head, tail>>

OpenObject(p, step, o, next) ==
    /\ at[p] = step
    /\ NoRace(p)
    /\ Holds(p, o)
    /\ \/ Exists(o) /\ Goes(p, next) /\ UNCHANGED shared
       \/ ~Exists(o) /\ Goes(p, "close") /\ New(o)
    /\ UNCHANGED <<message, tries, lengths, hand, history>>

OpenSemaphore(p) == OpenObject(p, "open semaphore", "semaphore", "open event")
OpenEvent(p) == OpenObject(p, "open event", "event", "open memory")
OpenMemory(p) == OpenObject(p, "open memory", "memory", IF p = Receiver THEN "ready" ELSE "enqueue")

(* Open returns FALSE: the message of a sender is dropped; the receiver    *)
(* goes on without a queue.                                                *)
OpenFails(p) ==
    /\ at[p] = "close"
    /\ handles' = WithoutHandles(p)
    /\ Goes(p, IF p = Receiver THEN "noqueue" ELSE "ready")
    /\ UNCHANGED <<shared, message, tries, lengths, hand, history>>

-----------------------------------------------------------------------------
(* Enqueue *)

NextSlot(i) == (i + 1) % (Slots + 1)

IsEmpty == head = tail
IsFull == NextSlot(tail) = head

(* CInterprocessPort::SendMessage with a message of n words. *)
SendMessage(p) ==
    \E n \in Lengths :
        /\ at[p] = "ready" /\ Len(lengths) < MaxMessages
        /\ lengths' = Append(lengths, n)
        /\ message' = [message EXCEPT ![p] = Len(lengths) + 1]
        /\ tries' = [tries EXCEPT ![p] = 0]
        /\ Goes(p, IF IsOpen(p) THEN "enqueue" ELSE "open semaphore")
        /\ UNCHANGED <<handles, shared, hand, history>>

LockToEnqueue(p) ==
    /\ at[p] = "enqueue" /\ lock = Nobody
    /\ lock' = p
    /\ Goes(p, "enqueuing")
    /\ UNCHANGED <<handles, event, heap, slots, head, tail, message, tries, lengths, hand, history>>

BecomesEmpty == head = NextSlot(tail)    \* mutant: IsEmpty after the slot is added
WasEmpty == IsEmpty

Enqueue(p) ==
    LET m == message[p]
        new == AllocEntry(heap, lengths[m])
    IN  /\ at[p] = "enqueuing" /\ ~IsFull /\ new.offset # NoBlock
        /\ heap' = Fill(new.heap, new.offset, lengths[m], m)
        /\ slots' = [slots EXCEPT ![tail] = new.offset]
        /\ tail' = NextSlot(tail)
        /\ event' = (event \/ WasEmpty)
        /\ lock' = Nobody
        /\ Goes(p, "ready")
        /\ UNCHANGED <<handles, head, message, tries, lengths, hand, history>>

(* The queue is full or has no room: the sender sleeps and tries again, up *)
(* to ten times.  The blocks that AllocEntry combined stay combined.       *)
EnqueueFails(p) ==
    LET new == AllocEntry(heap, lengths[message[p]])
    IN  /\ at[p] = "enqueuing" /\ (IsFull \/ new.offset = NoBlock)
        /\ heap' = IF IsFull THEN heap ELSE new.heap
        /\ lock' = Nobody
        /\ tries' = [tries EXCEPT ![p] = @ + 1]
        /\ Goes(p, IF tries[p] + 1 >= MaxTries THEN "ready" ELSE "enqueue")
        /\ UNCHANGED <<handles, event, slots, head, tail, message, lengths, hand, history>>

-----------------------------------------------------------------------------
(* CInterprocessMessageThread::Run *)

Wait ==
    /\ at[Receiver] = "ready" /\ hand = <<>> /\ event
    /\ Goes(Receiver, "dequeue")
    /\ UNCHANGED <<handles, shared, message, tries, lengths, hand, history>>

LockToDequeue ==
    /\ at[Receiver] = "dequeue" /\ lock = Nobody
    /\ lock' = Receiver
    /\ Goes(Receiver, "dequeuing")
    /\ UNCHANGED <<handles, event, heap, slots, head, tail, message, tries, lengths, hand, history>>

(* The message in a block: every word of it must be there. *)
Garbage == 0
TextIn(h, o) ==
    LET m == h.mem[o + 1]
    IN  IF m \in DOMAIN lengths /\ BlockSize(h, o) >= lengths[m]
           /\ \A w \in 1..lengths[m] : h.mem[o + w] = m
        THEN m ELSE Garbage

(* Messages in the ring, oldest first. *)
Count == (tail - head) % (Slots + 1)
NewestSlot(i) == slots[(tail - i) % (Slots + 1)]    \* mutant: the newest message comes first
RingSlot(i) == slots[(head + i - 1) % (Slots + 1)]
Ring == [i \in 1..Count |-> TextIn(heap, RingSlot(i))]

(* The heap after the first n entries of the ring are freed in order. *)
Freed(n) ==
    LET after[i \in 0..Count] == IF i = 0 THEN heap ELSE FreeEntry(after[i - 1], RingSlot(i))
    IN  after[n]

ResetAlways(taken) == TRUE    \* mutant: the event is reset though messages are left
ResetIf(taken) == taken = Count

Dequeue ==
    LET taken == IF Count < Chunk THEN Count ELSE Chunk
    IN  /\ at[Receiver] = "dequeuing"
        /\ hand' = SubSeq(Ring, 1, taken)
        /\ heap' = Freed(taken)
        /\ head' = (head + taken) % (Slots + 1)
        /\ event' = (event /\ ~ResetIf(taken))
        /\ lock' = Nobody
        /\ Goes(Receiver, "ready")
        /\ UNCHANGED <<handles, slots, tail, message, tries, lengths, history>>

(* DeserializeMessage and the process's SendMessage. *)
Deliver ==
    /\ at[Receiver] = "ready" /\ hand # <<>>
    /\ delivered' = Append(delivered, Head(hand))
    /\ hand' = Tail(hand)
    /\ UNCHANGED <<handles, shared, at, message, tries, lengths, deaths>>

-----------------------------------------------------------------------------
(* A process dies and the system closes its handles.  The semaphore does   *)
(* not come back: window "locked".  A sender is started again at once.     *)
Die(p) ==
    /\ deaths < MaxDeaths /\ at[p] # "off" /\ NotGone(p)
    /\ lock = p /\ (\E q \in Process \ {p} : q \in handles["semaphore"]) => "locked" \in Windows
    /\ handles' = WithoutHandles(p)
    /\ lock' = IF lock = p /\ handles["semaphore"] \subseteq {p} THEN Nobody ELSE lock
    /\ deaths' = deaths + 1
    /\ Goes(p, IF p = Receiver THEN "off" ELSE "ready")
    /\ hand' = IF p = Receiver THEN <<>> ELSE hand
    /\ UNCHANGED <<event, heap, slots, head, tail, message, tries, lengths, delivered>>

Starts == Boot \/ CreateSemaphore \/ CreateEvent \/ CreateMemory
Opens(p) == OpenSemaphore(p) \/ OpenEvent(p) \/ OpenMemory(p) \/ OpenFails(p)

Next ==
    \/ Starts \/ Wait \/ LockToDequeue \/ Dequeue \/ Deliver
    \/ \E p \in Process : Opens(p) \/ Die(p)
    \/ \E p \in Sender : SendMessage(p) \/ LockToEnqueue(p) \/ Enqueue(p) \/ EnqueueFails(p)

(* Each process runs, although it need not send: it boots and opens, gets  *)
(* a semaphore that is free, and leaves its critical section.              *)
Leave(p) ==
    /\ at[p] \in {"enqueuing", "dequeuing"}
    /\ \E step \in {"enqueue", "ready"} : Goes(p, step)
Fairness ==
    /\ WF_vars(Starts) /\ WF_vars(Wait) /\ WF_vars(LockToDequeue) /\ WF_vars(Deliver)
    /\ \A p \in Process : WF_vars(Opens(p)) /\ WF_at(Leave(p))
    /\ \A p \in Sender : WF_vars(LockToEnqueue(p))

Spec == Init /\ [][Next]_vars
FairSpec == Spec /\ Fairness

-----------------------------------------------------------------------------
(* Properties *)

(* There is a queue: a process has all of it, and not to close it again.   *)
QueueExists == \E p \in Process : HasQueueOpen(p)

(* Between critical sections the blocks of the shared memory tile it, the  *)
(* free list is a list of exactly the free ones, and each of the others    *)
(* belongs to one slot: no message is overwritten and no memory leaks.     *)
BlocksTile == QueueExists =>
    /\ HeapWellFormed(heap)
    /\ \A i, j \in 1..Count : RingSlot(i) = RingSlot(j) => i = j
    /\ {RingSlot(i) : i \in 1..Count} = {o \in Blocks(heap) \ {Words} : ~IsFree(heap, o)}

(* However the blocks were cut up before, an empty queue has room for any  *)
(* message that fits the region: a queue that empties is as good as new.   *)
EmptyTakesAny == QueueExists /\ IsEmpty => AllocEntry(heap, Words - 2 * Header).offset # NoBlock

(* The event is set exactly when messages wait, so the receiver neither    *)
(* sleeps on messages nor spins on none; this survives the death of either *)
(* side.                                                                   *)
EventTellsMessages == QueueExists => (event <=> ~IsEmpty)

(* A module that runs has a queue: Create and Open do not both fail.       *)
HasQueue == at[Receiver] # "noqueue"

(* The queue implements MessageQueue, and no message stays in it for ever. *)
Pending == hand \o (IF QueueExists THEN Ring ELSE <<>>)
Promise == INSTANCE MessageQueue WITH Message <- Number, pending <- Pending
KeepsPromise == Promise!Spec
EachLeaves == Promise!Progress
=============================================================================
