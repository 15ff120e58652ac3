---------------------- MODULE InterprocessQueueProofs -----------------------
(***************************************************************************)
(* That a receiver which runs has its queue, that the event tells whether  *)
(* messages wait, that the blocks of the shared memory stay whole, and     *)
(* that the queue keeps its promise: for any number of senders, words,     *)
(* slots, messages and deaths.                                             *)
(***************************************************************************)
EXTENDS InterprocessQueue, TLAPS, SequenceTheorems, FiniteSetTheorems, WellFoundedInduction

USE QueueAssumption

None(p) == \A o \in Object : p \notin handles[o]

(* Where a process can be, and what it has there: it opens the semaphore   *)
(* before the event and the event before the memory.  A receiver does not  *)
(* fail to open its queue.                                                 *)
SenderStep == {"ready", "open semaphore", "open event", "open memory", "close", "enqueue",
               "enqueuing"}
ReceiverStep == {"off", "boot", "create event", "create memory", "open semaphore", "open event",
                 "open memory", "ready", "dequeue", "dequeuing"}
PlaceOK(p) ==
    /\ at[p] \in IF p = Receiver THEN ReceiverStep ELSE SenderStep
    /\ p \in handles["memory"] => p \in handles["event"]
    /\ p \in handles["event"] => p \in handles["semaphore"]
    /\ at[p] \in {"off", "boot", "open semaphore"} => None(p)
    /\ at[p] \in {"create event", "open event", "create memory", "open memory"} =>
          p \in handles["semaphore"] /\ p \notin handles["memory"]
    /\ at[p] \in {"create event", "open event"} => p \notin handles["event"]
    /\ at[p] \in {"create memory", "open memory"} => p \in handles["event"]
    /\ at[p] = "ready" => IsOpen(p) \/ (p # Receiver /\ None(p))
    /\ at[p] \in {"enqueue", "enqueuing", "dequeue", "dequeuing"} => IsOpen(p)

(* While a process makes the objects, or has to close what it made, nobody *)
(* else has any of them.                                                   *)
Makes(p) == at[p] \in {"create event", "create memory", "close"}
Alone(p) == Makes(p) => \A q \in Process \ {p} : None(q)

(* While the receiver opens its queue, a sender has it open. *)
Kept == at[Receiver] \in {"open semaphore", "open event", "open memory"} =>
            \E q \in Sender : HasQueueOpen(q)

(* Whoever has found the semaphore finds the event true. *)
Found(p) == at[p] \in {"open event", "open memory"} \/ HasQueueOpen(p)
EventOK ==
    /\ at[Receiver] = "create memory" => ~event
    /\ (\E p \in Process : Found(p)) => (event <=> ~IsEmpty)

QInv ==
    /\ handles \in [Object -> SUBSET Process] /\ DOMAIN at = Process
    /\ event \in BOOLEAN /\ head \in 0..Slots /\ tail \in 0..Slots
    /\ \A p \in Process : PlaceOK(p) /\ Alone(p)
    /\ Kept /\ EventOK

-----------------------------------------------------------------------------
LEMMA SlotZero == 0 \in 0..Slots
OBVIOUS

LEMMA InitQInv == Init => QInv
<1> SUFFICES ASSUME Init PROVE QInv
  OBVIOUS
<1>1. /\ handles = [o \in Object |-> {}] /\ DOMAIN at = Process
      /\ at[Receiver] = "off" /\ \A p \in Sender : at[p] = "ready"
      /\ event = FALSE /\ head = 0 /\ tail = 0
  BY DEF Init, Process
<1>2. \A p \in Process : None(p) /\ ~IsOpen(p)
  BY <1>1 DEF None, IsOpen, Object
<1>3. \A p \in Process : PlaceOK(p)
  BY <1>1, <1>2 DEF PlaceOK, ReceiverStep, SenderStep, Process, Object
<1>4. \A p \in Process : ~Makes(p) /\ ~Found(p)
  BY <1>1, <1>2 DEF Makes, Found, HasQueueOpen, Process
<1>5. handles \in [Object -> SUBSET Process] /\ head \in 0..Slots /\ tail \in 0..Slots
  BY <1>1
<1>6. Kept /\ EventOK
  BY <1>1, <1>4 DEF Kept, EventOK
<1>7. QED
  BY <1>1, <1>3, <1>4, <1>5, <1>6 DEF QInv, Alone

(* What the positions of two processes say of each other's handles. *)
LEMMA Positions ==
    ASSUME QInv, NEW p \in Process
    PROVE  /\ PlaceOK(p) /\ Alone(p)
           /\ "semaphore" \in Object /\ "event" \in Object /\ "memory" \in Object
           /\ Receiver \in Process
BY DEF QInv, Object, Process

(* A process that holds one of the objects has the queue open, or opens or *)
(* makes it.                                                               *)
LEMMA Holders ==
    ASSUME QInv, NEW p \in Process, NEW o \in Object, p \in handles[o]
    PROVE  /\ p \in handles["semaphore"]
           /\ Makes(p) \/ Found(p)
BY Positions DEF PlaceOK, None, Makes, Found, HasQueueOpen, IsOpen, ReceiverStep, SenderStep, Object

(* With the window "race" closed, a process touches an object of the queue *)
(* only while another has the queue open, or nobody else is at it.         *)
LEMMA Undisturbed ==
    ASSUME QInv, "race" \notin Windows, NEW p \in Process, ~IsOpen(p), NoRace(p)
    PROVE  /\ \A q \in Process \ {p} : ~Makes(q)
           /\ \/ \E q \in Process \ {p} : HasQueueOpen(q)
              \/ \A q \in Process \ {p} : None(q)
<1>1. CASE \E q \in Process \ {p} : HasQueueOpen(q)
  <2>1. PICK f \in Process \ {p} : HasQueueOpen(f)
    BY <1>1
  <2>2. ~None(f)
    BY <2>1 DEF HasQueueOpen, IsOpen, None, Object
  <2>3. ~Makes(f)
    BY <2>1, Positions DEF HasQueueOpen, Makes, PlaceOK, IsOpen, Object
  <2>4. QED
    BY <1>1, <2>2, <2>3 DEF QInv, Alone
<1>2. CASE \A q \in Process \ {p} : ~Opening(q) /\ (q = Receiver => ~Booting)
  <2>1. ASSUME NEW q \in Process \ {p} PROVE ~Makes(q) /\ (~HasQueueOpen(q) => None(q))
    <3>1. PlaceOK(q) /\ ~Opening(q) /\ (q = Receiver => ~Booting)
      BY <1>2, <2>1, Positions
    <3>2. QED
      BY <3>1 DEF PlaceOK, Opening, Booting, Makes, HasQueueOpen, ReceiverStep, SenderStep, None
  <2>2. QED
    BY <2>1
<1>3. QED
  BY <1>1, <1>2 DEF NoRace

-----------------------------------------------------------------------------
(* A step of process p. *)
Alters(p) ==
    /\ handles' \in [Object -> SUBSET Process] /\ DOMAIN at' = Process
    /\ \A q \in Process \ {p} :
          at'[q] = at[q] /\ \A o \in Object : q \in handles'[o] <=> q \in handles[o]

LEMMA Others ==
    ASSUME QInv, NEW p \in Process, Alters(p), NEW q \in Process \ {p}
    PROVE  /\ PlaceOK(q)' /\ (None(q)' <=> None(q)) /\ (Makes(q)' <=> Makes(q))
           /\ (HasQueueOpen(q)' <=> HasQueueOpen(q)) /\ (Found(q)' <=> Found(q))
<1>1. /\ at'[q] = at[q] /\ \A o \in Object : q \in handles'[o] <=> q \in handles[o]
      /\ PlaceOK(q)
  BY Positions DEF Alters
<1>2. (None(q)' <=> None(q)) /\ (IsOpen(q)' <=> IsOpen(q))
  BY <1>1 DEF None, IsOpen
<1>3. PlaceOK(q)'
  BY <1>1, <1>2 DEF PlaceOK, Object
<1>4. QED
  BY <1>1, <1>2, <1>3 DEF Makes, HasQueueOpen, Found

(* It gets no object that another process makes, nor makes one that        *)
(* another process has.                                                    *)
LEMMA OneProcess ==
    ASSUME QInv, NEW p \in Process, Alters(p), PlaceOK(p)', Alone(p)',
           \/ \A q \in Process \ {p} : ~Makes(q)
           \/ \A o \in Object : p \in handles'[o] => p \in handles[o],
           event' \in BOOLEAN, head' \in 0..Slots, tail' \in 0..Slots, Kept', EventOK'
    PROVE  QInv'
<1>1. ASSUME NEW q \in Process \ {p} PROVE PlaceOK(q)' /\ Alone(q)'
  <2>1. SUFFICES ASSUME Makes(q)' PROVE \A w \in Process \ {q} : None(w)'
    BY <1>1, Others DEF Alone
  <2>2. Makes(q) /\ Alone(q)
    BY <1>1, <2>1, Others, Positions
  <2>3. None(p)'
    BY <1>1, <2>2 DEF Alone, None
  <2>4. QED
    BY <1>1, <2>2, <2>3, Others DEF Alone
<1>2. QED
  BY <1>1 DEF QInv, Alters

(* It leaves the receiver what it needs to open its queue. *)
LEMMA KeptBySender ==
    ASSUME QInv, NEW p \in Sender, Alters(p), HasQueueOpen(p) => HasQueueOpen(p)'
    PROVE  Kept'
<1>1. p \in Process /\ p # Receiver /\ Receiver \in Process /\ Sender \subseteq Process
  BY DEF Process
<1>2. at'[Receiver] = at[Receiver] /\ Kept
  BY <1>1 DEF Alters, QInv
<1>3. \A q \in Sender : HasQueueOpen(q) => HasQueueOpen(q)'
  BY <1>1, Others
<1>4. QED
  BY <1>2, <1>3 DEF Kept

LEMMA KeptByReceiver ==
    ASSUME QInv, Alters(Receiver),
           \/ at'[Receiver] \notin {"open semaphore", "open event", "open memory"}
           \/ \E q \in Sender : HasQueueOpen(q)
    PROVE  Kept'
<1>1. \A q \in Sender : HasQueueOpen(q) => HasQueueOpen(q)'
  BY Others DEF Process
<1>2. QED
  BY <1>1 DEF Kept

LEMMA SameEvent ==
    ASSUME QInv, NEW p \in Process, Alters(p), UNCHANGED <<event, head, tail>>,
           at'[Receiver] = "create memory" => at[Receiver] = "create memory",
           Found(p)' => \E q \in Process : Found(q)
    PROVE  EventOK'
<1>1. (\E q \in Process : Found(q)') => \E q \in Process : Found(q)
  BY Others
<1>2. EventOK /\ IsEmpty' = IsEmpty
  BY DEF QInv, IsEmpty
<1>3. QED
  BY <1>1, <1>2 DEF EventOK

LEMMA Taking ==
    ASSUME QInv, NEW p \in Process, NEW o \in Object, NEW step,
           Holds(p, o), Goes(p, step)
    PROVE  /\ Alters(p) /\ at'[p] = step
           /\ \A x \in Object : p \in handles'[x] <=> x = o \/ p \in handles[x]
BY DEF QInv, Holds, Goes, Alters

LEMMA Going ==
    ASSUME QInv, NEW p \in Process, NEW step, UNCHANGED handles, Goes(p, step)
    PROVE  /\ Alters(p) /\ at'[p] = step
           /\ \A o \in Object : p \in handles'[o] <=> p \in handles[o]
BY DEF QInv, Goes, Alters

LEMMA Closing ==
    ASSUME QInv, NEW p \in Process, NEW step, handles' = WithoutHandles(p), Goes(p, step)
    PROVE  Alters(p) /\ at'[p] = step /\ None(p)'
BY DEF QInv, Goes, Alters, WithoutHandles, None

-----------------------------------------------------------------------------
(* A process that goes on with the handles it has. *)
LEMMA GoKeeps ==
    ASSUME QInv, NEW p \in Process, NEW step, Goes(p, step),
           UNCHANGED <<handles, event, head, tail>>,
           PlaceOK(p)', Makes(p)' => Makes(p), Kept',
           at'[Receiver] = "create memory" => at[Receiver] = "create memory",
           Found(p)' => \E q \in Process : Found(q)
    PROVE  QInv'
<1>1. Alters(p) /\ \A o \in Object : p \in handles'[o] <=> p \in handles[o]
  BY Going
<1>2. EventOK'
  BY <1>1, SameEvent
<1>3. Alone(p)'
  BY <1>1, Others, Positions DEF Alone
<1>4. event' \in BOOLEAN /\ head' \in 0..Slots /\ tail' \in 0..Slots
  BY DEF QInv
<1>5. QED
  BY <1>1, <1>2, <1>3, <1>4, OneProcess

(* A sender with the queue, or the receiver, that goes on with it. *)
LEMMA UseKeeps ==
    ASSUME QInv, NEW p \in Process, IsOpen(p), NEW step,
           step \in IF p = Receiver THEN {"ready", "dequeue", "dequeuing"}
                                    ELSE {"ready", "enqueue", "enqueuing"},
           Goes(p, step), UNCHANGED handles,
           event' \in BOOLEAN, head' \in 0..Slots, tail' \in 0..Slots,
           at[p] # "close", event' <=> head' # tail'
    PROVE  QInv'
<1>1. /\ Alters(p) /\ at'[p] = step /\ Receiver \in Process
      /\ \A o \in Object : p \in handles'[o] <=> p \in handles[o]
  BY Going, Positions
<1>2. IsOpen(p)'
  BY <1>1 DEF IsOpen
<1>3. PlaceOK(p)' /\ ~Makes(p)' /\ HasQueueOpen(p)'
  BY <1>1, <1>2 DEF PlaceOK, Makes, HasQueueOpen, IsOpen, SenderStep, ReceiverStep, Object
<1>4. HasQueueOpen(p) /\ "memory" \in Object
  BY DEF HasQueueOpen, Object
<1>5. Kept'
  <2>1. CASE p = Receiver
    BY <1>1, <2>1, KeptByReceiver
  <2>2. CASE p # Receiver
    BY <1>1, <1>3, <2>2, KeptBySender DEF Process
  <2>3. QED
    BY <2>1, <2>2
<1>6. at'[Receiver] # "create memory"
  <2>1. CASE p = Receiver
    BY <1>1, <2>1
  <2>2. CASE p # Receiver
    <3>1. ~None(p) /\ at'[Receiver] = at[Receiver]
      BY <1>1, <2>2 DEF Alters, None, IsOpen, Object
    <3>2. QED
      BY <2>2, <3>1, Positions DEF Alone, Makes
  <2>3. QED
    BY <2>1, <2>2
<1>7. EventOK'
  BY <1>6 DEF EventOK, IsEmpty
<1>8. QED
  BY <1>1, <1>3, <1>5, <1>7, OneProcess DEF Alone

(* While someone has the queue the event tells. *)
LEMMA EventTells ==
    ASSUME QInv, NEW p \in Process, IsOpen(p), at[p] # "close"
    PROVE  event <=> head # tail
BY DEF QInv, EventOK, Found, HasQueueOpen, IsEmpty

LEMMA CloseKeeps ==
    ASSUME QInv, NEW p \in Process, handles' = WithoutHandles(p),
           Goes(p, IF p = Receiver THEN "off" ELSE "ready"),
           UNCHANGED <<event, head, tail>>, Kept'
    PROVE  QInv'
<1>1. PICK step : step = IF p = Receiver THEN "off" ELSE "ready"
  OBVIOUS
<1>2. Alters(p) /\ at'[p] = step /\ None(p)'
  BY <1>1, Closing
<1>3. PlaceOK(p)' /\ ~Makes(p)' /\ ~Found(p)'
  BY <1>1, <1>2 DEF PlaceOK, None, Makes, Found, HasQueueOpen, IsOpen, SenderStep, ReceiverStep,
     Object
<1>4. at'[Receiver] = "create memory" => at[Receiver] = "create memory"
  BY <1>1, <1>2, Positions DEF Alters
<1>5. EventOK'
  BY <1>2, <1>3, <1>4, SameEvent
<1>6. event' \in BOOLEAN /\ head' \in 0..Slots /\ tail' \in 0..Slots
  BY DEF QInv
<1>7. \A o \in Object : p \notin handles'[o]
  BY <1>2 DEF None
<1>8. QED
  BY <1>2, <1>3, <1>5, <1>6, <1>7, OneProcess DEF Alone

-----------------------------------------------------------------------------
(* The receiver starts *)

LEMMA BootKeeps ==
    ASSUME QInv, Boot
    PROVE  QInv'
<1>1. /\ Receiver \in Process /\ PlaceOK(Receiver) /\ at[Receiver] = "off"
      /\ Goes(Receiver, "boot") /\ UNCHANGED <<handles, event, head, tail>>
  BY Positions DEF Boot, shared, Process
<1>2. /\ Alters(Receiver) /\ at'[Receiver] = "boot"
      /\ \A o \in Object : Receiver \in handles'[o] <=> Receiver \in handles[o]
  BY <1>1, Going
<1>3. PlaceOK(Receiver)' /\ ~Makes(Receiver)' /\ ~Found(Receiver)'
  BY <1>1, <1>2 DEF PlaceOK, None, Makes, Found, HasQueueOpen, IsOpen, ReceiverStep, Object
<1>4. Kept'
  BY <1>2, KeptByReceiver
<1>5. QED
  BY <1>1, <1>2, <1>3, <1>4, GoKeeps

(* What the receiver creates is its own: with the windows closed nobody    *)
(* else has an object of the queue.                                        *)
LEMMA CreateSemaphoreKeeps ==
    ASSUME QInv, "race" \notin Windows, CreateSemaphore
    PROVE  QInv'
<1>1. /\ Receiver \in Process /\ PlaceOK(Receiver) /\ at[Receiver] = "boot" /\ NoRace(Receiver)
      /\ "semaphore" \in Object /\ UNCHANGED <<event, head, tail>>
      /\ event \in BOOLEAN /\ head \in 0..Slots /\ tail \in 0..Slots
  BY Positions DEF CreateSemaphore, Process, QInv
<1>2. None(Receiver) /\ ~IsOpen(Receiver)
  BY <1>1 DEF PlaceOK, None, IsOpen, Object
<1>3. /\ \A q \in Process \ {Receiver} : ~Makes(q)
      /\ \/ \E q \in Sender : HasQueueOpen(q)
         \/ \A q \in Process \ {Receiver} : None(q)
  BY <1>1, <1>2, Undisturbed DEF Process
<1>4. CASE Exists("semaphore")
  <2>1. Goes(Receiver, "open semaphore") /\ UNCHANGED handles
    BY <1>4 DEF CreateSemaphore, AfterCreateFails
  <2>2. /\ Alters(Receiver) /\ at'[Receiver] = "open semaphore"
        /\ \A o \in Object : Receiver \in handles'[o] <=> Receiver \in handles[o]
    BY <1>1, <2>1, Going
  <2>3. PlaceOK(Receiver)' /\ ~Makes(Receiver)' /\ ~Found(Receiver)'
    BY <1>1, <1>2, <2>2 DEF PlaceOK, None, Makes, Found, HasQueueOpen, IsOpen, ReceiverStep, Object
  <2>4. \E q \in Process : q \in handles["semaphore"]
    BY <1>1, <1>4 DEF Exists, QInv
  <2>5. \E q \in Sender : HasQueueOpen(q)
    BY <1>1, <1>2, <1>3, <2>4 DEF None
  <2>6. Kept'
    BY <2>2, <2>5, KeptByReceiver
  <2>7. QED
    BY <1>1, <2>1, <2>2, <2>3, <2>6, GoKeeps
<1>5. CASE ~Exists("semaphore")
  <2>1. Goes(Receiver, "create event") /\ Holds(Receiver, "semaphore")
    BY <1>5 DEF CreateSemaphore
  <2>2. /\ Alters(Receiver) /\ at'[Receiver] = "create event"
        /\ \A o \in Object : Receiver \in handles'[o] <=> o = "semaphore" \/ Receiver \in handles[o]
    BY <1>1, <2>1, Taking
  <2>3. PlaceOK(Receiver)' /\ ~Found(Receiver)'
    BY <1>1, <1>2, <2>2 DEF PlaceOK, None, Found, HasQueueOpen, IsOpen, ReceiverStep, Object
  <2>4. \A q \in Process \ {Receiver} : None(q)
    BY <1>1, <1>5, Holders DEF Exists, None
  <2>5. Alone(Receiver)'
    BY <1>1, <2>2, <2>4, Others DEF Alone
  <2>6. Kept' /\ EventOK'
    BY <1>1, <2>2, <2>3, KeptByReceiver, SameEvent
  <2>7. QED
    BY <1>1, <1>3, <2>2, <2>3, <2>5, <2>6, OneProcess
<1>6. QED
  BY <1>4, <1>5

LEMMA CreateEventKeeps ==
    ASSUME QInv, CreateEvent
    PROVE  QInv'
<1>1. /\ Receiver \in Process /\ PlaceOK(Receiver) /\ at[Receiver] = "create event"
      /\ "event" \in Object /\ UNCHANGED <<head, tail>>
      /\ head \in 0..Slots /\ tail \in 0..Slots
  BY Positions DEF CreateEvent, Process, QInv
<1>2. \A q \in Process \ {Receiver} : None(q)
  BY <1>1, Positions DEF Alone, Makes
<1>3. ~Exists("event")
  BY <1>1, <1>2 DEF Exists, None, PlaceOK, QInv
<1>4. event' = FALSE /\ Goes(Receiver, "create memory") /\ Holds(Receiver, "event")
  BY <1>3 DEF CreateEvent
<1>5. /\ Alters(Receiver) /\ at'[Receiver] = "create memory"
      /\ \A o \in Object : Receiver \in handles'[o] <=> o = "event" \/ Receiver \in handles[o]
  BY <1>1, <1>4, Taking
<1>6. PlaceOK(Receiver)' /\ ~Found(Receiver)'
  BY <1>1, <1>5 DEF PlaceOK, Found, HasQueueOpen, IsOpen, ReceiverStep, Object
<1>7. ASSUME NEW q \in Process \ {Receiver} PROVE None(q)' /\ ~Found(q)' /\ ~Makes(q)
  <2>1. None(q) /\ PlaceOK(q) /\ Alone(q) /\ ~None(Receiver)
    BY <1>1, <1>2, <1>7, Positions DEF PlaceOK, None, Object
  <2>2. ~Found(q)
    BY <2>1 DEF PlaceOK, None, Found, HasQueueOpen, IsOpen, Object
  <2>3. QED
    BY <1>1, <1>5, <1>7, <2>1, <2>2, Others DEF Alone
<1>8. Kept' /\ EventOK'
  BY <1>4, <1>5, <1>6, <1>7, KeptByReceiver DEF EventOK
<1>9. Alone(Receiver)'
  BY <1>7 DEF Alone
<1>10. QED
  BY <1>1, <1>4, <1>5, <1>6, <1>7, <1>8, <1>9, OneProcess

LEMMA CreateMemoryKeeps ==
    ASSUME QInv, CreateMemory
    PROVE  QInv'
<1>1. /\ Receiver \in Process /\ PlaceOK(Receiver) /\ at[Receiver] = "create memory"
      /\ "memory" \in Object /\ event' = event /\ EventOK
  BY Positions DEF CreateMemory, Process, QInv
<1>2. \A q \in Process \ {Receiver} : None(q)
  BY <1>1, Positions DEF Alone, Makes
<1>3. ~Exists("memory")
  BY <1>1, <1>2 DEF Exists, None, PlaceOK, QInv
<1>4. /\ head' = 0 /\ tail' = 0 /\ event' = FALSE
      /\ Goes(Receiver, "ready") /\ Holds(Receiver, "memory")
  BY <1>1, <1>3 DEF CreateMemory, EventOK, QInv
<1>5. /\ Alters(Receiver) /\ at'[Receiver] = "ready"
      /\ \A o \in Object : Receiver \in handles'[o] <=> o = "memory" \/ Receiver \in handles[o]
  BY <1>1, <1>4, Taking
<1>6. PlaceOK(Receiver)' /\ ~Makes(Receiver)'
  BY <1>1, <1>5 DEF PlaceOK, Makes, IsOpen, ReceiverStep, Object
<1>7. ASSUME NEW q \in Process \ {Receiver} PROVE ~Makes(q)
  BY <1>1, <1>7, Positions DEF Alone, PlaceOK, None
<1>8. Kept' /\ EventOK'
  BY <1>4, <1>5, KeptByReceiver DEF EventOK, IsEmpty
<1>9. head' \in 0..Slots /\ tail' \in 0..Slots
  BY <1>4
<1>10. QED
  BY <1>1, <1>4, <1>5, <1>6, <1>7, <1>8, <1>9, OneProcess DEF Alone

-----------------------------------------------------------------------------
(* A process opens the queue *)

LEMMA OpenObjectKeeps ==
    ASSUME QInv, "race" \notin Windows, NEW p \in Process, NEW o \in Object, NEW step, NEW next,
           \/ step = "open semaphore" /\ o = "semaphore" /\ next = "open event"
           \/ step = "open event" /\ o = "event" /\ next = "open memory"
           \/ /\ step = "open memory" /\ o = "memory"
              /\ next = IF p = Receiver THEN "ready" ELSE "enqueue",
           OpenObject(p, step, o, next)
    PROVE  QInv'
<1>1. /\ PlaceOK(p) /\ at[p] = step /\ NoRace(p) /\ Holds(p, o)
      /\ Receiver \in Process
      /\ event \in BOOLEAN /\ head \in 0..Slots /\ tail \in 0..Slots
  BY Positions DEF OpenObject, QInv
<1>2. ~IsOpen(p)
  BY <1>1 DEF PlaceOK, IsOpen, None, Object
<1>3. /\ \A q \in Process \ {p} : ~Makes(q)
      /\ \/ \E q \in Process \ {p} : HasQueueOpen(q)
         \/ \A q \in Process \ {p} : None(q)
  BY <1>1, <1>2, Undisturbed
<1>4. p = Receiver => \E q \in Sender : HasQueueOpen(q)
  BY <1>1 DEF QInv, Kept
<1>5. ~HasQueueOpen(p) /\ p \notin handles[o]
  BY <1>1, <1>2 DEF HasQueueOpen, PlaceOK, None, Object
<1>6. CASE Exists(o)
  <2>1. Goes(p, next) /\ UNCHANGED <<event, head, tail>>
    BY <1>6 DEF OpenObject, shared
  <2>2. /\ Alters(p) /\ at'[p] = next
        /\ \A x \in Object : p \in handles'[x] <=> x = o \/ p \in handles[x]
    BY <1>1, <2>1, Taking
  <2>3. PlaceOK(p)' /\ ~Makes(p)'
    BY <1>1, <2>2 DEF PlaceOK, None, Makes, IsOpen, ReceiverStep, SenderStep, Object
  <2>4. \E q \in Process \ {p} : q \in handles[o]
    BY <1>5, <1>6 DEF Exists, QInv
  <2>5. \E q \in Process : Found(q)
    BY <1>3, <2>4 DEF None, Found
  <2>6. at'[Receiver] = "create memory" => at[Receiver] = "create memory"
    BY <1>1, <2>2 DEF Alters
  <2>7. EventOK'
    BY <2>1, <2>2, <2>5, <2>6, SameEvent
  <2>8. Kept'
    BY <1>4, <1>5, <2>2, KeptByReceiver, KeptBySender DEF Process
  <2>9. QED
    BY <1>1, <1>3, <2>1, <2>2, <2>3, <2>7, <2>8, OneProcess DEF Alone
<1>7. CASE ~Exists(o)
  <2>1. Goes(p, "close") /\ New(o)
    BY <1>7 DEF OpenObject
  <2>2. /\ Alters(p) /\ at'[p] = "close"
        /\ \A x \in Object : p \in handles'[x] <=> x = o \/ p \in handles[x]
    BY <1>1, <2>1, Taking
  <2>3. \A q \in Process : ~HasQueueOpen(q)
    BY <1>7 DEF Exists, HasQueueOpen, IsOpen
  <2>4. p \in Sender /\ p # Receiver /\ \A q \in Process \ {p} : None(q)
    BY <1>3, <1>4, <2>3 DEF Process
  <2>5. PlaceOK(p)' /\ ~Found(p)'
    BY <1>1, <2>2, <2>4 DEF PlaceOK, None, Found, HasQueueOpen, IsOpen, SenderStep, Object
  <2>6. Alone(p)'
    BY <2>2, <2>4, Others DEF Alone
  <2>7. ASSUME NEW q \in Process \ {p} PROVE ~Found(q)'
    <3>1. PlaceOK(q) /\ None(q)
      BY <2>4, <2>7, Positions
    <3>2. QED
      BY <2>2, <2>3, <2>7, <3>1, Others DEF Found, PlaceOK, None, Object
  <2>8. at'[Receiver] # "create memory"
    BY <1>1, <1>3, <2>2, <2>4 DEF Alters, Makes
  <2>9. EventOK'
    BY <2>5, <2>7, <2>8 DEF EventOK
  <2>10. Kept'
    BY <1>5, <2>2, <2>4, KeptBySender
  <2>11. event' \in BOOLEAN /\ head' \in 0..Slots /\ tail' \in 0..Slots
    <3>1. event' \in BOOLEAN
      BY <1>1, <2>1 DEF New
    <3>2. (head' = 0 /\ tail' = 0) \/ (head' = head /\ tail' = tail)
      BY <2>1 DEF New
    <3>3. QED
      BY <1>1, <3>1, <3>2, SlotZero
  <2>12. QED
    BY <1>3, <2>2, <2>5, <2>6, <2>9, <2>10, <2>11, OneProcess
<1>8. QED
  BY <1>6, <1>7

LEMMA OpenFailsKeeps ==
    ASSUME QInv, NEW p \in Process, OpenFails(p)
    PROVE  QInv'
<1>1. PlaceOK(p) /\ at[p] = "close"
  BY Positions DEF OpenFails
<1>2. p \in Sender /\ p # Receiver
  BY <1>1 DEF PlaceOK, ReceiverStep, Process
<1>3. /\ Goes(p, "ready") /\ handles' = WithoutHandles(p) /\ UNCHANGED <<event, head, tail>>
  BY <1>2 DEF OpenFails, shared
<1>4. Alters(p) /\ ~HasQueueOpen(p)
  BY <1>1, <1>2, <1>3, Closing DEF HasQueueOpen
<1>5. QED
  BY <1>2, <1>3, <1>4, KeptBySender, CloseKeeps

-----------------------------------------------------------------------------
(* Enqueue and Dequeue *)

LEMMA SendMessageKeeps ==
    ASSUME QInv, NEW p \in Sender, SendMessage(p)
    PROVE  QInv'
<1>1. /\ p \in Process /\ p # Receiver /\ at[p] = "ready"
      /\ Goes(p, IF IsOpen(p) THEN "enqueue" ELSE "open semaphore")
      /\ UNCHANGED <<handles, event, head, tail>>
      /\ event \in BOOLEAN /\ head \in 0..Slots /\ tail \in 0..Slots
  BY DEF SendMessage, shared, Process, QInv
<1>2. CASE IsOpen(p)
  BY <1>1, <1>2, UseKeeps, EventTells
<1>3. CASE ~IsOpen(p)
  <2>1. Goes(p, "open semaphore") /\ PlaceOK(p) /\ None(p)
    BY <1>1, <1>3, Positions DEF PlaceOK
  <2>2. /\ Alters(p) /\ at'[p] = "open semaphore"
        /\ \A o \in Object : p \in handles'[o] <=> p \in handles[o]
    BY <1>1, <2>1, Going
  <2>3. PlaceOK(p)' /\ ~Makes(p)' /\ ~Found(p)'
    BY <1>1, <1>3, <2>1, <2>2 DEF PlaceOK, None, Makes, Found, HasQueueOpen, IsOpen, SenderStep, Object
  <2>4. Kept' /\ at'[Receiver] = at[Receiver]
    BY <1>1, <1>3, <2>2, KeptBySender, Positions DEF HasQueueOpen, Alters
  <2>5. QED
    BY <1>1, <2>1, <2>3, <2>4, GoKeeps
<1>4. QED
  BY <1>2, <1>3

LEMMA NextSlots ==
    ASSUME NEW i \in 0..Slots
    PROVE  NextSlot(i) \in 0..Slots
BY DEF NextSlot

LEMMA SenderKeeps ==
    ASSUME QInv, NEW p \in Sender, LockToEnqueue(p) \/ Enqueue(p) \/ EnqueueFails(p)
    PROVE  QInv'
<1>1. /\ p \in Process /\ p # Receiver /\ at[p] \in {"enqueue", "enqueuing"}
      /\ UNCHANGED <<handles, head>> /\ head \in 0..Slots /\ tail \in 0..Slots
      /\ event \in BOOLEAN
  BY DEF LockToEnqueue, Enqueue, EnqueueFails, Process, QInv
<1>2. IsOpen(p) /\ (event <=> head # tail)
  BY <1>1, Positions, EventTells DEF PlaceOK
<1>3. \E step \in {"ready", "enqueue", "enqueuing"} : Goes(p, step)
  BY DEF LockToEnqueue, Enqueue, EnqueueFails
<1>4. event' \in BOOLEAN /\ tail' \in 0..Slots /\ (event' <=> head' # tail')
  <2>1. CASE Enqueue(p)
    BY <1>1, <1>2, <2>1, NextSlots DEF Enqueue, IsFull, WasEmpty, IsEmpty
  <2>2. CASE LockToEnqueue(p) \/ EnqueueFails(p)
    BY <1>1, <1>2, <2>2 DEF LockToEnqueue, EnqueueFails
  <2>3. QED
    BY <2>1, <2>2
<1>5. QED
  BY <1>1, <1>2, <1>3, <1>4, UseKeeps

(* Taking messages from the ring empties it exactly when all were taken. *)
LEMMA RingAfter ==
    ASSUME NEW h \in 0..Slots, NEW t \in 0..Slots, NEW k \in 0..((t - h) % (Slots + 1))
    PROVE  /\ (h + k) % (Slots + 1) \in 0..Slots
           /\ (h + k) % (Slots + 1) = t <=> k = (t - h) % (Slots + 1)
<1>1. (t - h) % (Slots + 1) = IF h <= t THEN t - h ELSE t - h + (Slots + 1)
  OBVIOUS
<1>2. (h + k) % (Slots + 1) = IF h + k <= Slots THEN h + k ELSE h + k - (Slots + 1)
  BY <1>1
<1>3. QED
  BY <1>1, <1>2

LEMMA ReceiverKeeps ==
    ASSUME QInv, Wait \/ LockToDequeue \/ Dequeue
    PROVE  QInv'
<1>1. /\ Receiver \in Process /\ at[Receiver] \in {"ready", "dequeue", "dequeuing"}
      /\ UNCHANGED <<handles, tail>> /\ head \in 0..Slots /\ tail \in 0..Slots
      /\ event \in BOOLEAN
  BY DEF Wait, LockToDequeue, Dequeue, Process, QInv, shared
<1>2. IsOpen(Receiver) /\ (event <=> head # tail)
  BY <1>1, Positions, EventTells DEF PlaceOK
<1>3. \E step \in {"ready", "dequeue", "dequeuing"} : Goes(Receiver, step)
  BY DEF Wait, LockToDequeue, Dequeue
<1>4. event' \in BOOLEAN /\ head' \in 0..Slots /\ (event' <=> head' # tail')
  <2>1. CASE Dequeue
    <3>1. PICK k : k = IF Count < Chunk THEN Count ELSE Chunk
      OBVIOUS
    <3>2. k \in 0..Count /\ k \in Nat /\ Count \in Nat /\ (head = tail => Count = 0)
      BY <1>1, <3>1 DEF Count
    <3>3. head' = (head + k) % (Slots + 1) /\ event' = (event /\ k # Count)
      BY <2>1, <3>1 DEF Dequeue, ResetIf
    <3>4. head' \in 0..Slots /\ (head' = tail <=> k = Count)
      BY <1>1, <3>2, <3>3, RingAfter DEF Count
    <3>5. event' \in BOOLEAN /\ (event' <=> event /\ k # Count)
      BY <3>3
    <3>6. event' <=> head' # tail'
      BY <1>1, <1>2, <3>2, <3>4, <3>5
    <3>7. QED
      BY <3>4, <3>5, <3>6
  <2>2. CASE Wait \/ LockToDequeue
    BY <1>1, <1>2, <2>2 DEF Wait, LockToDequeue, shared
  <2>3. QED
    BY <2>1, <2>2
<1>5. QED
  BY <1>1, <1>2, <1>3, <1>4, UseKeeps

LEMMA DeliverKeeps ==
    ASSUME QInv, Deliver
    PROVE  QInv'
BY DEF Deliver, shared, QInv, PlaceOK, Alone, Makes, None, IsOpen, Kept, EventOK, Found, HasQueueOpen,
       IsEmpty

(* The last process that keeps the queue in being does not die while the   *)
(* receiver opens it.                                                      *)
LEMMA DieKeeps ==
    ASSUME QInv, "gone" \notin Windows, NEW p \in Process, Die(p)
    PROVE  QInv'
<1>1. /\ handles' = WithoutHandles(p) /\ Goes(p, IF p = Receiver THEN "off" ELSE "ready")
      /\ UNCHANGED <<event, head, tail>> /\ NotGone(p)
  BY DEF Die
<1>2. PICK step : step = IF p = Receiver THEN "off" ELSE "ready"
  OBVIOUS
<1>3. Alters(p) /\ at'[p] = step
  BY <1>1, <1>2, Closing
<1>4. CASE p = Receiver
  BY <1>1, <1>2, <1>3, <1>4, KeptByReceiver, CloseKeeps
<1>5. CASE p # Receiver
  <2>1. p \in Sender /\ Receiver \in Process /\ at'[Receiver] = at[Receiver] /\ PlaceOK(Receiver)
    BY <1>3, <1>5, Positions DEF Process, Alters
  <2>2. ASSUME at[Receiver] \in {"open semaphore", "open event", "open memory"}
        PROVE  \E q \in Sender \ {p} : HasQueueOpen(q)
    <3>1. Booting /\ ~HasQueueOpen(Receiver)
      BY <2>1, <2>2 DEF Booting, PlaceOK, HasQueueOpen, IsOpen, None, Object
    <3>2. \/ ~IsOpen(p)
          \/ \E q \in Process \ {p} : HasQueueOpen(q)
      BY <1>1, <1>5, <3>1 DEF NotGone
    <3>3. QED
      BY <2>2, <3>1, <3>2 DEF QInv, Kept, HasQueueOpen, Process
  <2>3. Kept'
    BY <1>3, <2>1, <2>2, Others DEF Kept, Process
  <2>4. QED
    BY <1>1, <2>3, CloseKeeps
<1>6. QED
  BY <1>4, <1>5

-----------------------------------------------------------------------------
LEMMA NextQInv ==
    ASSUME QInv, [Next]_vars, Windows \cap {"race", "gone"} = {}
    PROVE  QInv'
<1>1. CASE UNCHANGED vars
  BY <1>1 DEF vars, QInv, PlaceOK, Alone, Makes, None, IsOpen, Kept, EventOK, Found, HasQueueOpen, IsEmpty
<1>2. ASSUME NEW p \in Process, Opens(p) PROVE QInv'
  <2>1. "semaphore" \in Object /\ "event" \in Object /\ "memory" \in Object
    BY DEF Object
  <2>2. CASE OpenSemaphore(p)
    BY <2>1, <2>2, OpenObjectKeeps DEF OpenSemaphore
  <2>3. CASE OpenEvent(p)
    BY <2>1, <2>3, OpenObjectKeeps DEF OpenEvent
  <2>4. CASE OpenMemory(p)
    BY <2>1, <2>4, OpenObjectKeeps DEF OpenMemory
  <2>5. QED
    BY <1>2, <2>2, <2>3, <2>4, OpenFailsKeeps DEF Opens
<1>3. CASE Next
  BY <1>2, <1>3, BootKeeps, CreateSemaphoreKeeps, CreateEventKeeps, CreateMemoryKeeps,
     SendMessageKeeps, SenderKeeps, ReceiverKeeps, DeliverKeeps, DieKeeps DEF Next, Starts
<1>4. QED
  BY <1>1, <1>3

LEMMA QInvAlways ==
    ASSUME Windows \cap {"race", "gone"} = {}
    PROVE  Spec => []QInv
BY InitQInv, NextQInv, PTL DEF Spec

(* A module that runs has its queue, however often it and the others die   *)
(* and start: Create and Open do not both fail (Boot of the thread takes   *)
(* no notice if they do), if senders that open the queue do not meet the   *)
(* receiver creating it, and its last holder does not die meanwhile.       *)
THEOREM ReceiverHasQueue ==
    ASSUME Windows \cap {"race", "gone"} = {}
    PROVE  Spec => []HasQueue
<1>1. QInv => HasQueue
  BY DEF QInv, PlaceOK, ReceiverStep, HasQueue, Process
<1>2. QED
  BY <1>1, QInvAlways, PTL

(* Under the same assumption the event is set exactly when messages wait:  *)
(* Enqueue sets it for the first message, Dequeue resets it with the last, *)
(* and neither a death nor a queue that is found again changes that.       *)
THEOREM EventNeverLies ==
    ASSUME Windows \cap {"race", "gone"} = {}
    PROVE  Spec => []EventTellsMessages
<1>1. QInv => EventTellsMessages
  BY DEF QInv, EventOK, EventTellsMessages, QueueExists, Found
<1>2. QED
  BY <1>1, QInvAlways, PTL

USE WordsAssumption

-----------------------------------------------------------------------------
(* The heap.  B are the offsets of its blocks, L the free ones in the      *)
(* order of the list.                                                      *)

Heap == [mem : [1..Words -> Int], firstFree : Int]

(* The blocks tile the region: each ends where the next one or the last    *)
(* word is, and each but the first begins where one ends.                  *)
Tiled(h, B) ==
    /\ B \subseteq 1..Words - 1 /\ 1 \in B /\ h.mem[Words] = 0
    /\ \A o \in B : BlockSize(h, o) >= 1 /\ GetNextEntry(h, o) \in B \cup {Words}
    /\ \A o, p \in B : o < p => GetNextEntry(h, o) <= p
    /\ \A p \in (B \cup {Words}) \ {1} : \E o \in B : GetNextEntry(h, o) = p

(* The offset in L after the k-th, and that the links of the heap are L.   *)
Link(L, k) == IF k < Len(L) THEN L[k + 1] ELSE NoBlock
Chained(h, L) ==
    /\ h.firstFree = Link(L, 0)
    /\ \A k \in DOMAIN L : h.mem[L[k] + 1] = Link(L, k)

Distinct(L) == \A j, k \in DOMAIN L : L[j] = L[k] => j = k
Listed(h, B, L) ==
    /\ L \in Seq(B) /\ Distinct(L) /\ Chained(h, L)
    /\ {L[k] : k \in DOMAIN L} = {o \in B : IsFree(h, o)}

Sound(h, B, L) == h \in Heap /\ Tiled(h, B) /\ Listed(h, B, L)

LEMMA LeastNumber ==
    ASSUME NEW S, S \subseteq Nat, S # {}
    PROVE  \E m \in S : \A k \in S : m <= k
<1>1. PICK m \in S : \A k \in S : ~(<<k, m>> \in OpToRel(<, Nat))
  BY WFMin, NatLessThanWellFounded
<1>2. \A k \in S : k \in Nat /\ m \in Nat /\ ~(k < m)
  BY <1>1 DEF OpToRel
<1>3. ASSUME NEW k \in S PROVE m <= k
  <2>1. k \in Nat /\ m \in Nat /\ ~(k < m)
    BY <1>2
  <2>2. QED
    BY <2>1
<1>4. QED
  BY <1>3

LEMMA SizeIs ==
    ASSUME NEW h \in Heap, NEW o \in 1..Words
    PROVE  /\ h.mem[o] \in Int /\ BlockSize(h, o) \in Nat
           /\ BlockSize(h, o) = IF IsFree(h, o) THEN -h.mem[o] ELSE h.mem[o]
           /\ GetNextEntry(h, o) = o + 1 + BlockSize(h, o)
           /\ GetNextEntry(h, o) \in Nat /\ o < GetNextEntry(h, o)
<1>1. h.mem[o] \in Int
  BY DEF Heap
<1>2. BlockSize(h, o) = IF h.mem[o] < 0 THEN -h.mem[o] ELSE h.mem[o]
  BY DEF BlockSize, AbsOf
<1>3. BlockSize(h, o) \in Nat
  BY <1>1, <1>2
<1>4. GetNextEntry(h, o) = o + 1 + BlockSize(h, o)
  BY DEF GetNextEntry, Header
<1>5. GetNextEntry(h, o) \in Nat /\ o < GetNextEntry(h, o)
  BY <1>3, <1>4
<1>6. QED
  BY <1>1, <1>2, <1>3, <1>4, <1>5 DEF IsFree

LEMMA ListAt ==
    ASSUME NEW h, NEW B, NEW L, Listed(h, B, L)
    PROVE  /\ Len(L) \in Nat /\ DOMAIN L = 1..Len(L)
           /\ \A k \in DOMAIN L : L[k] \in B /\ IsFree(h, L[k])
           /\ \A o \in B : IsFree(h, o) => \E k \in DOMAIN L : L[k] = o
BY DEF Listed

(* A free list is not longer than there are words. *)
LEMMA ListIsShort ==
    ASSUME NEW h, NEW B, NEW L, Sound(h, B, L)
    PROVE  Len(L) < Words
<1>1. L \in Seq(B) /\ Distinct(L) /\ B \subseteq 1..Words - 1
  BY DEF Sound, Tiled, Listed
<1>2. Len(L) \in Nat /\ DOMAIN L = 1..Len(L) /\ L \in [1..Len(L) -> 1..Words - 1]
  <2>1. L \in [1..Len(L) -> B] /\ Len(L) \in Nat /\ DOMAIN L = 1..Len(L)
    BY <1>1
  <2>2. QED
    BY <1>1, <2>1
<1>3. IsFiniteSet(1..Words - 1) /\ Cardinality(1..Words - 1) = Words - 1
  BY FS_Interval
<1>4. IsFiniteSet(1..Len(L)) /\ Cardinality(1..Len(L)) = Len(L)
  BY <1>2, FS_Interval
<1>5. SUFFICES ASSUME Words - 1 < Len(L) PROVE FALSE
  BY <1>2
<1>6. \E x, y \in 1..Len(L) : x # y /\ L[x] = L[y]
  BY <1>2, <1>3, <1>4, <1>5, FS_PigeonHole
<1>7. QED
  BY <1>1, <1>2, <1>6 DEF Distinct

-----------------------------------------------------------------------------
(* FreeList and Blocks find them. *)

Longer(h, s) ==
    LET next == IF s = <<>> THEN h.firstFree ELSE h.mem[s[Len(s)] + 1]
    IN  IF next = NoBlock THEN s ELSE Append(s, next)
Walks(h, f) == f = [k \in 0..Words |-> IF k = 0 THEN <<>> ELSE Longer(h, f[k - 1])]

LEMMA FreeListIs ==
    ASSUME NEW h, NEW B, NEW L, Sound(h, B, L)
    PROVE  FreeList(h) = L
<1>1. L \in Seq(B) /\ Chained(h, L) /\ B \subseteq 1..Words - 1
  BY DEF Sound, Tiled, Listed
<1>2. Len(L) \in Nat /\ DOMAIN L = 1..Len(L) /\ Len(L) < Words
      /\ \A k \in 1..Len(L) : L[k] # NoBlock /\ L[k] \in B
  BY <1>1, ListIsShort DEF NoBlock
<1>n. PICK n \in Nat : n = Len(L) /\ n < Words
  BY <1>2
<1>a. SubSeq(L, 1, n) = L /\ SubSeq(L, 1, 0) = <<>>
  BY <1>1, <1>n, SubSeqFull, SubSeqEmpty
<1> DEFINE upTo(k) == IF k < n THEN k ELSE n
           Part(k) == SubSeq(L, 1, upTo(k))
<1>c. ASSUME NEW k \in Nat
      PROVE  /\ k <= n => Part(k) = SubSeq(L, 1, k)
             /\ k >= n => Part(k) = L
  <2>1. /\ k <= n => upTo(k) = k
        /\ k >= n => upTo(k) = n
    OBVIOUS
  <2> HIDE DEF upTo
  <2>2. QED
    BY <1>a, <2>1
<1> HIDE DEF Part, upTo
<1>3. Part(0) = <<>> /\ Part(Words) = L
  <2>1. 0 \in Nat /\ 0 <= n /\ Words \in Nat /\ Words >= n
    BY <1>n
  <2>2. Part(0) = SubSeq(L, 1, 0) /\ Part(Words) = L
    BY <1>c, <2>1
  <2>3. QED
    BY <1>a, <2>2
<1>4. ASSUME NEW k \in 1..Words PROVE Part(k) = Longer(h, Part(k - 1))
  <2>1. CASE k <= Len(L)
    <3>1. PICK s : s = Part(k - 1)
      OBVIOUS
    <3>9. k - 1 \in Nat /\ k - 1 <= n
      BY <1>n, <1>4, <2>1
    <3>a. s = SubSeq(L, 1, k - 1)
      BY <1>c, <3>1, <3>9
    <3>2. s = SubSeq(L, 1, k - 1) /\ s \in Seq(B) /\ Len(s) = k - 1 /\ (k > 1 => s[Len(s)] = L[k - 1])
      BY <1>1, <1>2, <1>4, <2>1, <3>a
    <3>3. (IF s = <<>> THEN h.firstFree ELSE h.mem[s[Len(s)] + 1]) = Link(L, k - 1)
      <4>1. CASE k = 1
        BY <1>1, <3>2, <4>1 DEF Chained
      <4>2. CASE k # 1
        <5>1. k - 1 \in DOMAIN L /\ s # <<>> /\ s[Len(s)] = L[k - 1]
          BY <1>2, <1>4, <2>1, <3>2, <4>2
        <5>2. QED
          BY <1>1, <5>1 DEF Chained
      <4>3. QED
        BY <4>1, <4>2
    <3>4. Link(L, k - 1) = L[k] /\ L[k] # NoBlock
      BY <1>2, <1>4, <2>1 DEF Link
    <3>5. Longer(h, s) = Append(s, L[k])
      BY <3>3, <3>4 DEF Longer
    <3>6. Part(k) = SubSeq(L, 1, k)
      BY <1>c, <1>n, <1>4, <2>1
    <3>7. SubSeq(L, 1, k) = Append(SubSeq(L, 1, k - 1), L[k])
      BY <1>1, <1>2, <1>4, <2>1
    <3>8. QED
      BY <3>1, <3>2, <3>5, <3>6, <3>7
  <2>2. CASE k > Len(L)
    <3>1. k \in Nat /\ k - 1 \in Nat /\ k >= Len(L) /\ k - 1 >= Len(L)
      BY <1>2, <1>4, <2>2
    <3>a. Part(k) = L /\ Part(k - 1) = L
      BY <1>c, <1>n, <3>1
    <3>2. (IF L = <<>> THEN h.firstFree ELSE h.mem[L[Len(L)] + 1]) = NoBlock
      <4>1. Link(L, Len(L)) = NoBlock /\ (L # <<>> => Len(L) \in DOMAIN L) /\ (L = <<>> => Len(L) = 0)
        BY <1>1, <1>2 DEF Link
      <4>2. QED
        BY <1>1, <4>1 DEF Chained
    <3>3. QED
      BY <3>a, <3>2 DEF Longer
  <2>3. QED
    BY <1>2, <1>4, <2>1, <2>2
<1>5. PICK f : f = [k \in 0..Words |-> Part(k)]
  OBVIOUS
<1>6. Walks(h, f)
  <2>1. ASSUME NEW k \in 0..Words
        PROVE  f[k] = IF k = 0 THEN <<>> ELSE Longer(h, f[k - 1])
    <3>1. k # 0 => k - 1 \in 0..Words /\ k \in 1..Words
      BY <2>1
    <3>2. QED
      BY <1>3, <1>4, <1>5, <3>1
  <2>2. f = [k \in 0..Words |-> f[k]]
    BY <1>5
  <2>3. QED
    BY <2>1, <2>2 DEF Walks
<1> DEFINE g == CHOOSE e : Walks(h, e)
<1>7. Walks(h, g)
  BY <1>6
<1>8. FreeList(h) = g[Words]
  BY DEF FreeList, Walks, Longer
<1> HIDE DEF g
<1>9. ASSUME {k \in 0..Words : f[k] # g[k]} # {} PROVE FALSE
  <2>1. {k \in 0..Words : f[k] # g[k]} \subseteq Nat
    OBVIOUS
  <2>2. PICK m \in {k \in 0..Words : f[k] # g[k]} : \A k \in {i \in 0..Words : f[i] # g[i]} : m <= k
    BY <1>9, <2>1, LeastNumber
  <2>3. /\ f[m] = IF m = 0 THEN <<>> ELSE Longer(h, f[m - 1])
        /\ g[m] = IF m = 0 THEN <<>> ELSE Longer(h, g[m - 1])
    BY <1>6, <1>7, <2>2 DEF Walks
  <2>4. m # 0 => m - 1 \in 0..Words /\ ~(m <= m - 1)
    BY <2>2
  <2>5. m # 0 => f[m - 1] = g[m - 1]
    BY <2>2, <2>4
  <2>6. QED
    BY <2>2, <2>3, <2>5
<1>10. Words \in 0..Words
  OBVIOUS
<1>11. f[Words] = g[Words]
  BY <1>9, <1>10
<1>12. QED
  BY <1>3, <1>5, <1>8, <1>10, <1>11

LEMMA BlocksAre ==
    ASSUME NEW h, NEW B, h \in Heap, Tiled(h, B)
    PROVE  Blocks(h) = B \cup {Words} /\ Words \notin B
<1>1. /\ B \subseteq 1..Words - 1 /\ 1 \in B
      /\ \A o \in B : GetNextEntry(h, o) \in B \cup {Words}
      /\ \A p \in (B \cup {Words}) \ {1} : \E o \in B : GetNextEntry(h, o) = p
  BY DEF Tiled
<1>2. \A o \in 1..Words : o < GetNextEntry(h, o)
  BY SizeIs
<1> DEFINE Meets(f) == f = [o \in 1..Words |-> o = 1 \/ \E p \in 1..o - 1 : GetNextEntry(h, p) = o /\ f[p]]
<1>3. PICK f : f = [o \in 1..Words |-> o \in B \cup {Words}]
  OBVIOUS
<1>4. ASSUME NEW o \in 1..Words
      PROVE  f[o] = (o = 1 \/ \E p \in 1..o - 1 : GetNextEntry(h, p) = o /\ f[p])
  <2>1. f[o] = (o \in B \cup {Words})
    BY <1>3
  <2>2. ASSUME o \in B \cup {Words}, o # 1 PROVE \E p \in 1..o - 1 : GetNextEntry(h, p) = o /\ f[p]
    <3>1. PICK p \in B : GetNextEntry(h, p) = o
      BY <1>1, <2>2
    <3>2. p \in 1..Words
      BY <1>1
    <3>3. p < o
      BY <1>2, <3>1, <3>2
    <3>4. p \in 1..o - 1
      BY <1>4, <3>2, <3>3
    <3>5. f[p]
      BY <1>3, <3>1, <3>2
    <3>6. QED
      BY <3>1, <3>4, <3>5
  <2>3. ASSUME NEW p \in 1..o - 1, GetNextEntry(h, p) = o, f[p] PROVE o \in B \cup {Words}
    <3>1. p \in 1..Words /\ p # Words
      BY <1>4
    <3>2. p \in B
      BY <1>3, <2>3, <3>1
    <3>3. QED
      BY <1>1, <2>3, <3>2
  <2>4. QED
    BY <1>1, <2>1, <2>2, <2>3
<1>5. Meets(f)
  <2>1. f = [o \in 1..Words |-> f[o]]
    BY <1>3
  <2>2. QED
    BY <1>4, <2>1
<1> DEFINE g == CHOOSE e : Meets(e)
<1>6. Meets(g)
  BY <1>5
<1>7. Blocks(h) = {o \in 1..Words : g[o]}
  BY DEF Blocks
<1>8. \A o \in 1..Words : g[o] = (o = 1 \/ \E p \in 1..o - 1 : GetNextEntry(h, p) = o /\ g[p])
  BY <1>6
<1> HIDE DEF g
<1>9. ASSUME {k \in 1..Words : f[k] # g[k]} # {} PROVE FALSE
  <2>1. {k \in 1..Words : f[k] # g[k]} \subseteq Nat
    OBVIOUS
  <2>2. PICK m \in {k \in 1..Words : f[k] # g[k]} : \A k \in {i \in 1..Words : f[i] # g[i]} : m <= k
    BY <1>9, <2>1, LeastNumber
  <2>3. \A p \in 1..m - 1 : p \in 1..Words /\ ~(m <= p)
    BY <2>2
  <2>4. \A p \in 1..m - 1 : f[p] = g[p]
    BY <2>2, <2>3
  <2>5. f[m] = g[m]
    BY <1>4, <1>8, <2>2, <2>4
  <2>6. QED
    BY <2>2, <2>5
<1>10. \A o \in 1..Words : g[o] = (o \in B \cup {Words})
  BY <1>3, <1>9
<1>11. B \cup {Words} \subseteq 1..Words /\ Words \notin B
  BY <1>1
<1>12. QED
  BY <1>7, <1>10, <1>11

-----------------------------------------------------------------------------
(* What is written where. *)

LEMMA PutIs ==
    ASSUME NEW h \in Heap, NEW x \in 1..Words, NEW v \in Int, NEW g, g = [h EXCEPT !.mem[x] = v]
    PROVE  /\ g \in Heap /\ g.firstFree = h.firstFree /\ g.mem[x] = v
           /\ \A w \in 1..Words : w # x => g.mem[w] = h.mem[w]
BY DEF Heap

LEMMA FirstIs ==
    ASSUME NEW h \in Heap, NEW v \in Int, NEW g, g = [h EXCEPT !.firstFree = v]
    PROVE  g \in Heap /\ g.firstFree = v /\ g.mem = h.mem
BY DEF Heap

LEMMA SetFreeIs ==
    ASSUME NEW h \in Heap, NEW o \in 1..Words - 1, NEW size \in Int, NEW next \in Int,
           NEW g, g = SetFree(h, o, size, next)
    PROVE  /\ g \in Heap /\ g.firstFree = h.firstFree
           /\ g.mem[o] = -size /\ g.mem[o + 1] = next
           /\ \A w \in 1..Words : w \notin {o, o + 1} => g.mem[w] = h.mem[w]
<1>1. PICK e : e = [h EXCEPT !.mem[o] = -size]
  OBVIOUS
<1>2. /\ e \in Heap /\ e.firstFree = h.firstFree /\ e.mem[o] = -size
      /\ \A w \in 1..Words : w # o => e.mem[w] = h.mem[w]
  BY <1>1, PutIs
<1>3. g = [e EXCEPT !.mem[o + 1] = next]
  BY <1>1 DEF SetFree
<1>4. /\ g \in Heap /\ g.firstFree = e.firstFree /\ g.mem[o + 1] = next
      /\ \A w \in 1..Words : w # o + 1 => g.mem[w] = e.mem[w]
  BY <1>2, <1>3, PutIs
<1>5. QED
  BY <1>2, <1>4

(* A word behind the header of a block is in no other block. *)
LEMMA Inside ==
    ASSUME NEW h \in Heap, NEW B, Tiled(h, B), NEW o \in B, NEW w \in o + 1..o + BlockSize(h, o)
    PROVE  /\ w \in 1..Words - 1 /\ w \notin B
           /\ \A p \in B : w \in p..p + BlockSize(h, p) => p = o
<1>1. /\ B \subseteq 1..Words - 1
      /\ \A p \in B : GetNextEntry(h, p) \in B \cup {Words}
      /\ \A p, q \in B : p < q => GetNextEntry(h, p) <= q
  BY DEF Tiled
<1>2. \A p \in B : /\ p \in 1..Words - 1 /\ BlockSize(h, p) \in Nat
                   /\ GetNextEntry(h, p) = p + 1 + BlockSize(h, p)
  BY <1>1, SizeIs
<1>3. GetNextEntry(h, o) <= Words /\ w < GetNextEntry(h, o) /\ o < w
  BY <1>1, <1>2
<1>4. ASSUME NEW p \in B, w \in p..p + BlockSize(h, p) PROVE p = o
  <2>1. w < GetNextEntry(h, p) /\ p <= w
    BY <1>2, <1>4
  <2>2. ~(p < o) /\ ~(o < p)
    BY <1>1, <1>2, <1>3, <2>1
  <2>3. QED
    BY <1>2, <2>2
<1>5. w \in 1..Words - 1
  BY <1>2, <1>3
<1>6. w \in B => w \in w..w + BlockSize(h, w)
  BY <1>2
<1>7. QED
  BY <1>3, <1>4, <1>5, <1>6

(* The link of a block is behind its header. *)
LEMMA LinkWord ==
    ASSUME NEW h \in Heap, NEW B, Tiled(h, B), NEW o \in B
    PROVE  /\ o \in 1..Words - 1 /\ o \in 1..Words /\ o + 1 \in o + 1..o + BlockSize(h, o)
           /\ o + 1 \in 1..Words - 1 /\ o + 1 \notin B
           /\ \A p \in B : o + 1 \in p..p + BlockSize(h, p) => p = o
<1>1. o \in 1..Words - 1 /\ o \in 1..Words /\ BlockSize(h, o) >= 1
  BY DEF Tiled
<1>2. o + 1 \in o + 1..o + BlockSize(h, o)
  BY <1>1, SizeIs
<1>3. QED
  BY <1>1, <1>2, Inside

LEMMA SameSizes ==
    ASSUME NEW h \in Heap, NEW g \in Heap, NEW B, Tiled(h, B), g.mem[Words] = h.mem[Words],
           \A o \in B : g.mem[o] = h.mem[o]
    PROVE  Tiled(g, B) /\ \A o \in B : BlockSize(g, o) = BlockSize(h, o) /\ (IsFree(g, o) <=> IsFree(h, o))
<1>1. \A o \in B : /\ BlockSize(g, o) = BlockSize(h, o) /\ (IsFree(g, o) <=> IsFree(h, o))
                   /\ GetNextEntry(g, o) = GetNextEntry(h, o)
  BY DEF BlockSize, IsFree, GetNextEntry
<1>2. QED
  BY <1>1 DEF Tiled

(* The blocks in use, and that they stay as they are, with what is in them.*)
Used(h, B) == {o \in B : ~IsFree(h, o)}
Keeps(h, g, A) == \A o \in A : \A w \in o..o + BlockSize(h, o) : g.mem[w] = h.mem[w]

(* Only words at or behind the headers of free blocks are written. *)
LEMMA FreeWords ==
    ASSUME NEW h \in Heap, NEW g, NEW B, Tiled(h, B),
           \A w \in 1..Words : g.mem[w] = h.mem[w] \/ \E p \in B : IsFree(h, p) /\ w \in p..p + BlockSize(h, p)
    PROVE  Keeps(h, g, Used(h, B))
<1>1. SUFFICES ASSUME NEW o \in Used(h, B), NEW w \in o..o + BlockSize(h, o)
               PROVE  g.mem[w] = h.mem[w]
  BY DEF Keeps
<1>2. o \in B /\ ~IsFree(h, o) /\ o \in 1..Words - 1 /\ BlockSize(h, o) \in Nat
  BY LinkWord, SizeIs DEF Used
<1>3. ASSUME NEW p \in B, w \in p..p + BlockSize(h, p) PROVE p = o
  <2>0. p \in 1..Words - 1 /\ BlockSize(h, p) \in Nat
    BY LinkWord, SizeIs
  <2>1. CASE w = o
    <3>1. CASE w = p
      BY <2>1, <3>1
    <3>2. CASE w # p
      <4>1. w \in p + 1..p + BlockSize(h, p)
        BY <1>3, <2>0, <3>2
      <4>2. w \notin B
        BY <4>1, Inside
      <4>3. QED
        BY <1>2, <2>1, <4>2
    <3>3. QED
      BY <3>1, <3>2
  <2>2. CASE w # o
    <3>1. w \in o + 1..o + BlockSize(h, o)
      BY <1>2, <2>2
    <3>2. QED
      BY <1>2, <1>3, <3>1, Inside
  <2>3. QED
    BY <2>1, <2>2
<1>4. w \in 1..Words
  <2>1. CASE w = o
    BY <1>2, <2>1
  <2>2. CASE w # o
    <3>1. w \in o + 1..o + BlockSize(h, o)
      BY <1>2, <2>2
    <3>2. w \in 1..Words - 1
      BY <1>2, <3>1, Inside
    <3>3. QED
      BY <3>2
  <2>3. QED
    BY <2>1, <2>2
<1>5. QED
  BY <1>2, <1>3, <1>4

-----------------------------------------------------------------------------
(* Unlink *)

Skip(L, i) == [k \in 1..Len(L) - 1 |-> IF k < i THEN L[k] ELSE L[k + 1]]

LEMMA SkipIs ==
    ASSUME NEW B, NEW L \in Seq(B), Distinct(L), NEW i \in DOMAIN L
    PROVE  /\ Skip(L, i) \in Seq(B \ {L[i]}) /\ Len(Skip(L, i)) = Len(L) - 1 /\ Distinct(Skip(L, i))
           /\ \A k \in DOMAIN Skip(L, i) : \E j \in DOMAIN L : j # i /\ Skip(L, i)[k] = L[j]
           /\ \A j \in DOMAIN L : j # i => \E k \in DOMAIN Skip(L, i) : Skip(L, i)[k] = L[j]
<1>1. PICK n \in Nat : n = Len(L) /\ DOMAIN L = 1..n /\ n >= 1 /\ i \in 1..n
  OBVIOUS
<1>2. PICK W : W = [k \in 1..n - 1 |-> IF k < i THEN L[k] ELSE L[k + 1]]
  OBVIOUS
<1>3. \A k \in 1..n : L[k] \in B
  BY <1>1
<1>4. \A j, k \in 1..n : L[j] = L[k] => j = k
  BY <1>1 DEF Distinct
<1>5. ASSUME NEW k \in 1..n - 1
      PROVE  \E j \in 1..n : j # i /\ W[k] = L[j] /\ j = IF k < i THEN k ELSE k + 1
  <2>1. CASE k < i
    BY <1>1, <1>2, <2>1
  <2>2. CASE ~(k < i)
    <3>1. k + 1 \in 1..n /\ k + 1 # i
      BY <1>1, <2>2
    <3>2. QED
      BY <1>2, <2>2, <3>1
  <2>3. QED
    BY <2>1, <2>2
<1>6. ASSUME NEW k \in 1..n - 1 PROVE W[k] \in B \ {L[i]}
  BY <1>1, <1>3, <1>4, <1>5
<1>7. W \in [1..n - 1 -> B \ {L[i]}]
  BY <1>2, <1>6
<1>8. n - 1 \in Nat
  BY <1>1
<1>9. W \in Seq(B \ {L[i]}) /\ Len(W) = n - 1 /\ DOMAIN W = 1..n - 1
  BY <1>7, <1>8
<1>10. ASSUME NEW j \in 1..n - 1, NEW k \in 1..n - 1, W[j] = W[k] PROVE j = k
  <2>1. PICK a \in 1..n : W[j] = L[a] /\ a = IF j < i THEN j ELSE j + 1
    BY <1>5
  <2>2. PICK b \in 1..n : W[k] = L[b] /\ b = IF k < i THEN k ELSE k + 1
    BY <1>5
  <2>3. a = b
    BY <1>4, <1>10, <2>1, <2>2
  <2>4. QED
    BY <1>1, <2>1, <2>2, <2>3
<1>11. ASSUME NEW j \in 1..n, j # i PROVE \E k \in 1..n - 1 : W[k] = L[j]
  <2>1. CASE j < i
    <3>1. j \in 1..n - 1 /\ W[j] = L[j]
      BY <1>1, <1>2, <2>1
    <3>2. QED
      BY <3>1
  <2>2. CASE j > i
    <3>1. j - 1 \in 1..n - 1 /\ ~(j - 1 < i) /\ (j - 1) + 1 = j
      BY <1>1, <2>2
    <3>2. W[j - 1] = L[j]
      BY <1>2, <3>1
    <3>3. QED
      BY <3>1, <3>2
  <2>3. QED
    BY <1>1, <1>11, <2>1, <2>2
<1>12. W = Skip(L, i)
  BY <1>1, <1>2 DEF Skip
<1>13. Distinct(W)
  BY <1>9, <1>10 DEF Distinct
<1>14. /\ \A k \in DOMAIN W : \E j \in DOMAIN L : j # i /\ W[k] = L[j]
       /\ \A j \in DOMAIN L : j # i => \E k \in DOMAIN W : W[k] = L[j]
  BY <1>1, <1>5, <1>9, <1>11
<1>15. QED
  BY <1>1, <1>9, <1>12, <1>13, <1>14

LEMMA SkipAt ==
    ASSUME NEW B, NEW L \in Seq(B), NEW i \in DOMAIN L, NEW k \in 0..Len(L) - 1
    PROVE  /\ k + 1 < i => Link(Skip(L, i), k) = Link(L, k) /\ k + 1 \in DOMAIN L
           /\ k + 1 >= i => Link(Skip(L, i), k) = Link(L, k + 1)
           /\ k # 0 => Skip(L, i)[k] = (IF k < i THEN L[k] ELSE L[k + 1])
<1>1. PICK n \in Nat : n = Len(L) /\ DOMAIN L = 1..n /\ n >= 1 /\ i \in 1..n
  OBVIOUS
<1>2. PICK W : W = [j \in 1..n - 1 |-> IF j < i THEN L[j] ELSE L[j + 1]]
  OBVIOUS
<1>3. W = Skip(L, i) /\ k \in 0..n - 1
  BY <1>1, <1>2 DEF Skip
<1>4. Len(W) = n - 1
  <2>1. n - 1 \in Nat /\ DOMAIN W = 1..n - 1
    BY <1>1, <1>2
  <2>2. W \in Seq(B) 
    <3>1. \A j \in 1..n - 1 : W[j] \in B
      <4>1. \A j \in 1..n - 1 : j \in 1..n /\ j + 1 \in 1..n
        BY <1>1
      <4>2. QED
        BY <1>1, <1>2, <4>1
    <3>2. W \in [1..n - 1 -> B]
      BY <1>2, <3>1
    <3>3. QED
      BY <2>1, <3>2
  <2>3. QED
    BY <2>1, <2>2
<1>5. k + 1 \in 1..n /\ (k < n - 1 => k + 1 \in 1..n - 1)
  BY <1>1, <1>3
<1>6. k + 1 < i => Link(W, k) = Link(L, k)
  <2>1. SUFFICES ASSUME k + 1 < i PROVE Link(W, k) = Link(L, k)
    OBVIOUS
  <2>2. k < n - 1 /\ k < n
    BY <1>1, <1>3, <2>1
  <2>3. W[k + 1] = L[k + 1]
    BY <1>2, <1>5, <2>1, <2>2
  <2>4. QED
    BY <1>1, <1>4, <2>2, <2>3 DEF Link
<1>7. k + 1 >= i => Link(W, k) = Link(L, k + 1)
  <2>1. SUFFICES ASSUME k + 1 >= i PROVE Link(W, k) = Link(L, k + 1)
    OBVIOUS
  <2>2. k < n - 1 <=> k + 1 < n
    BY <1>1, <1>3
  <2>3. k < n - 1 => W[k + 1] = L[(k + 1) + 1]
    BY <1>1, <1>2, <1>3, <1>5, <2>1
  <2>4. QED
    BY <1>1, <1>4, <2>2, <2>3 DEF Link
<1>8. k # 0 => W[k] = IF k < i THEN L[k] ELSE L[k + 1]
  BY <1>2, <1>3
<1>9. QED
  BY <1>1, <1>3, <1>5, <1>6, <1>7, <1>8

(* Unlink writes, if anything, the link of one block of the list. *)
LEMMA UnlinkIs ==
    ASSUME NEW h, NEW B, NEW L, Sound(h, B, L), NEW i \in DOMAIN L, NEW g, g = Unlink(h, L[i])
    PROVE  /\ g \in Heap /\ Chained(g, Skip(L, i))
           /\ \A w \in 1..Words : g.mem[w] = h.mem[w] \/ \E k \in DOMAIN L : w = L[k] + 1
<1>1. h \in Heap /\ Tiled(h, B) /\ L \in Seq(B) /\ Distinct(L) /\ Chained(h, L)
  BY DEF Sound, Listed
<1>2. FreeList(h) = L
  BY FreeListIs
<1>3. PICK n \in Nat : n = Len(L) /\ DOMAIN L = 1..n /\ i \in 1..n
  BY <1>1
<1>4. \A k \in 1..n : L[k] \in B /\ L[k] \in 1..Words - 1 /\ L[k] + 1 \in 1..Words
  <2>1. \A k \in 1..n : L[k] \in B
    BY <1>1, <1>3
  <2>2. ASSUME NEW k \in 1..n PROVE L[k] \in 1..Words - 1 /\ L[k] + 1 \in 1..Words
    <3>1. L[k] \in B
      BY <2>1
    <3>2. L[k] \in 1..Words - 1 /\ L[k] + 1 \in 1..Words - 1
      BY <1>1, <3>1, LinkWord
    <3>3. QED
      BY <3>2
  <2>3. QED
    BY <2>1, <2>2
<1>5. h.firstFree = Link(L, 0) /\ \A k \in 1..n : h.mem[L[k] + 1] = Link(L, k)
  BY <1>1, <1>3 DEF Chained
<1>6. \A k \in 0..n : Link(L, k) \in Int /\ (Link(L, k) = L[i] <=> k + 1 = i)
  <2>1. SUFFICES ASSUME NEW k \in 0..n PROVE Link(L, k) \in Int /\ (Link(L, k) = L[i] <=> k + 1 = i)
    OBVIOUS
  <2>2. CASE k < n
    <3>1. k + 1 \in 1..n /\ Link(L, k) = L[k + 1]
      BY <1>3, <2>2 DEF Link
    <3>2. QED
      BY <1>1, <1>3, <1>4, <3>1 DEF Distinct
  <2>3. CASE ~(k < n)
    <3>1. Link(L, k) = 0 /\ k + 1 # i
      BY <1>3, <2>3 DEF Link, NoBlock
    <3>2. QED
      BY <1>3, <1>4, <3>1
  <2>4. QED
    BY <2>2, <2>3
<1> DEFINE W == Skip(L, i)
<1>7. DOMAIN W = 1..n - 1
  BY <1>3 DEF Skip
<1>8. ASSUME NEW k \in 0..n - 1
      PROVE  /\ k + 1 < i => Link(W, k) = Link(L, k)
             /\ k + 1 >= i => Link(W, k) = Link(L, k + 1)
             /\ k # 0 => W[k] = (IF k < i THEN L[k] ELSE L[k + 1])
  BY <1>1, <1>3, SkipAt
<1> HIDE DEF W
<1>9. CASE i = 1
  <2>1. h.firstFree = L[1] /\ h.mem[L[1] + 1] = Link(L, 1)
    BY <1>3, <1>5, <1>6, <1>9
  <2>2. g = [h EXCEPT !.firstFree = Link(L, 1)]
    BY <1>9, <2>1 DEF Unlink
  <2>3. g \in Heap /\ g.firstFree = Link(L, 1) /\ g.mem = h.mem
    BY <1>1, <1>3, <1>6, <1>9, <2>2, FirstIs
  <2>4. g.firstFree = Link(W, 0)
    BY <1>3, <1>8, <1>9, <2>3
  <2>5. ASSUME NEW k \in 1..n - 1 PROVE g.mem[W[k] + 1] = Link(W, k)
    <3>1. k \in 0..n - 1 /\ k + 1 \in 1..n /\ k # 0 /\ ~(k < i) /\ k + 1 >= i
      BY <1>3, <1>9, <2>5
    <3>2. W[k] = L[k + 1] /\ Link(W, k) = Link(L, k + 1)
      BY <1>8, <3>1
    <3>3. QED
      BY <1>5, <2>3, <3>1, <3>2
  <2>6. Chained(g, W)
    BY <1>7, <2>4, <2>5 DEF Chained
  <2>7. QED
    BY <2>3, <2>6 DEF W
<1>10. CASE i # 1
  <2>1. i - 1 \in 1..n /\ (i - 1) + 1 = i
    BY <1>3, <1>10
  <2>2. h.firstFree # L[i]
    <3>1. 0 \in 0..n /\ 0 + 1 # i
      BY <1>3, <1>10
    <3>2. QED
      BY <1>5, <1>6, <3>1
  <2>3. (CHOOSE k \in DOMAIN L : h.mem[L[k] + 1] = L[i]) = i - 1
    <3>1. \A k \in 1..n : k \in 0..n /\ (k + 1 = i <=> k = i - 1)
      BY <1>3
    <3>2. \A k \in DOMAIN L : h.mem[L[k] + 1] = L[i] <=> k = i - 1
      BY <1>3, <1>5, <1>6, <3>1
    <3>3. QED
      BY <1>3, <2>1, <3>2
  <2>4. g = [h EXCEPT !.mem[L[i - 1] + 1] = Link(L, i)]
    <3>1. h.mem[L[i] + 1] = Link(L, i)
      BY <1>3, <1>5
    <3>2. QED
      BY <1>2, <2>2, <2>3, <3>1 DEF Unlink
  <2>5. PICK x : x = L[i - 1] + 1
    OBVIOUS
  <2>6. /\ g \in Heap /\ g.firstFree = h.firstFree /\ g.mem[x] = Link(L, i)
        /\ \A w \in 1..Words : w # x => g.mem[w] = h.mem[w]
    <3>1. x \in 1..Words /\ Link(L, i) \in Int
      BY <1>3, <1>4, <1>6, <2>1, <2>5
    <3>2. PICK v \in Int : v = Link(L, i)
      BY <3>1
    <3>3. PICK e : e = [h EXCEPT !.mem[x] = v]
      OBVIOUS
    <3>4. /\ e \in Heap /\ e.firstFree = h.firstFree /\ e.mem[x] = v
          /\ \A w \in 1..Words : w # x => e.mem[w] = h.mem[w]
      <4>1. h \in Heap /\ x \in 1..Words
        BY <1>1, <3>1
      <4>2. QED
        BY <3>3, <4>1, PutIs
    <3>5. e = g
      BY <2>4, <2>5, <3>2, <3>3
    <3>6. QED
      BY <3>2, <3>4, <3>5
  <2>7. g.firstFree = Link(W, 0)
    <3>1. 0 \in 0..n - 1 /\ 0 + 1 < i
      BY <1>3, <1>10
    <3>2. QED
      BY <1>5, <1>8, <2>6, <3>1
  <2>8. ASSUME NEW k \in 1..n - 1 PROVE g.mem[W[k] + 1] = Link(W, k)
    <3>1. k \in 0..n - 1 /\ k \in 1..n /\ k + 1 \in 1..n /\ k # 0
      BY <1>3, <2>8
    <3>2. \A j \in 1..n : j # i - 1 => g.mem[L[j] + 1] = Link(L, j)
      <4>1. SUFFICES ASSUME NEW j \in 1..n, j # i - 1 PROVE g.mem[L[j] + 1] = Link(L, j)
        OBVIOUS
      <4>2. L[j] # L[i - 1]
        BY <1>1, <1>3, <2>1, <4>1 DEF Distinct
      <4>3. L[j] + 1 # x /\ L[j] + 1 \in 1..Words
        BY <1>4, <2>1, <2>5, <4>2
      <4>4. QED
        BY <1>5, <2>6, <4>3
    <3>3. CASE k + 1 < i
      <4>1. W[k] = L[k] /\ Link(W, k) = Link(L, k) /\ k # i - 1
        BY <1>3, <1>8, <3>1, <3>3
      <4>2. QED
        BY <3>1, <3>2, <4>1
    <3>4. CASE k + 1 = i
      <4>1. W[k] = L[i - 1] /\ Link(W, k) = Link(L, i)
        BY <1>3, <1>8, <3>1, <3>4
      <4>2. QED
        BY <2>5, <2>6, <4>1
    <3>5. CASE k + 1 > i
      <4>1. W[k] = L[k + 1] /\ Link(W, k) = Link(L, k + 1) /\ k + 1 # i - 1
        BY <1>3, <1>8, <3>1, <3>5
      <4>2. QED
        BY <3>1, <3>2, <4>1
    <3>6. QED
      BY <1>3, <3>1, <3>3, <3>4, <3>5
  <2>9. Chained(g, W)
    BY <1>7, <2>7, <2>8 DEF Chained
  <2>10. QED
    BY <1>3, <2>1, <2>5, <2>6, <2>9 DEF W
<1>11. QED
  BY <1>9, <1>10

-----------------------------------------------------------------------------
(* CombineFreeBlocks and FreeEntry *)

LEMMA KeepsOn ==
    ASSUME NEW h, NEW g, NEW e, NEW A, NEW C, Keeps(h, g, A), Keeps(g, e, C), C \subseteq A,
           \A o \in C : o \in Int /\ BlockSize(h, o) \in Nat
    PROVE  Keeps(h, e, C)
<1>1. SUFFICES ASSUME NEW o \in C, NEW w \in o..o + BlockSize(h, o) PROVE e.mem[w] = h.mem[w]
  BY DEF Keeps
<1>2. o \in o..o + BlockSize(h, o)
  OBVIOUS
<1>3. g.mem[o] = h.mem[o] /\ g.mem[w] = h.mem[w]
  BY <1>1, <1>2 DEF Keeps
<1>4. BlockSize(g, o) = BlockSize(h, o)
  BY <1>3 DEF BlockSize
<1>5. e.mem[w] = g.mem[w]
  BY <1>1, <1>4 DEF Keeps
<1>6. QED
  BY <1>3, <1>5

LEMMA KeptSizes ==
    ASSUME NEW h, NEW B, NEW L, Sound(h, B, L), NEW g, Keeps(h, g, Used(h, B))
    PROVE  \A o \in Used(h, B) : /\ o \in 1..Words - 1 /\ BlockSize(h, o) \in Nat /\ BlockSize(h, o) >= 1
                                 /\ g.mem[o] = h.mem[o] /\ BlockSize(g, o) = BlockSize(h, o)
<1>1. SUFFICES ASSUME NEW o \in Used(h, B)
               PROVE  /\ o \in 1..Words - 1 /\ BlockSize(h, o) \in Nat /\ BlockSize(h, o) >= 1
                      /\ g.mem[o] = h.mem[o] /\ BlockSize(g, o) = BlockSize(h, o)
  OBVIOUS
<1>2. o \in B /\ h \in Heap /\ Tiled(h, B)
  BY DEF Used, Sound
<1>3. o \in 1..Words - 1 /\ BlockSize(h, o) \in Nat
  BY <1>2, LinkWord, SizeIs
<1>4. BlockSize(h, o) >= 1
  BY <1>2 DEF Tiled
<1>5. o \in o..o + BlockSize(h, o)
  BY <1>3
<1>6. g.mem[o] = h.mem[o]
  BY <1>5 DEF Keeps
<1>7. QED
  BY <1>3, <1>4, <1>6 DEF BlockSize

(* No two blocks end at the same word. *)
LEMMA OneBefore ==
    ASSUME NEW h \in Heap, NEW B, Tiled(h, B), NEW o \in B, NEW p \in B,
           GetNextEntry(h, o) = GetNextEntry(h, p)
    PROVE  o = p
<1>1. /\ o \in 1..Words /\ p \in 1..Words
      /\ o < p => GetNextEntry(h, o) <= p
      /\ p < o => GetNextEntry(h, p) <= o
  BY DEF Tiled
<1>2. /\ GetNextEntry(h, o) \in Nat /\ GetNextEntry(h, p) \in Nat
      /\ o < GetNextEntry(h, o) /\ p < GetNextEntry(h, p)
  BY <1>1, SizeIs
<1>3. QED
  BY <1>1, <1>2

LEMMA CombineIs ==
    ASSUME NEW h, NEW B, NEW L, Sound(h, B, L), NEW i \in DOMAIN L, NEW j \in DOMAIN L,
           GetNextEntry(h, L[j]) = L[i], NEW g, g = CombineFreeBlocks(h, L[j], L[i])
    PROVE  /\ Sound(g, B \ {L[i]}, Skip(L, i))
           /\ Used(g, B \ {L[i]}) = Used(h, B) /\ Keeps(h, g, Used(h, B))
<1>1. /\ h \in Heap /\ Tiled(h, B) /\ L \in Seq(B) /\ Distinct(L) /\ Listed(h, B, L)
      /\ {L[k] : k \in DOMAIN L} = {o \in B : IsFree(h, o)}
  BY DEF Sound, Listed
<1>2. PICK first, second : first = L[j] /\ second = L[i]
  OBVIOUS
<1>3. \A o \in B : /\ o \in 1..Words - 1 /\ o \in 1..Words
                   /\ o + 1 \in 1..Words - 1 /\ o + 1 \notin B
                   /\ \A p \in B : o + 1 \in p..p + BlockSize(h, p) => p = o
  BY <1>1, LinkWord
<1>4. \A o \in B : /\ BlockSize(h, o) \in Nat /\ GetNextEntry(h, o) = o + 1 + BlockSize(h, o)
                   /\ h.mem[o] \in Int /\ BlockSize(h, o) >= 1
  <2>1. SUFFICES ASSUME NEW o \in B
                 PROVE  /\ BlockSize(h, o) \in Nat /\ GetNextEntry(h, o) = o + 1 + BlockSize(h, o)
                        /\ h.mem[o] \in Int /\ BlockSize(h, o) >= 1
    OBVIOUS
  <2>2. o \in 1..Words /\ BlockSize(h, o) >= 1
    BY <1>1, <1>3 DEF Tiled
  <2>3. QED
    BY <1>1, <2>2, SizeIs
<1>5. \A k \in DOMAIN L : L[k] \in B /\ IsFree(h, L[k])
  BY <1>1, ListAt
<1>6. /\ first \in B /\ second \in B /\ IsFree(h, first) /\ IsFree(h, second)
      /\ second = first + 1 + BlockSize(h, first) /\ first < second /\ first # second
  <2>1. first \in B /\ second \in B /\ IsFree(h, first) /\ IsFree(h, second)
    BY <1>2, <1>5
  <2>2. second = first + 1 + BlockSize(h, first)
    BY <1>2, <1>4, <2>1
  <2>3. QED
    BY <1>3, <1>4, <2>1, <2>2
<1>7. PICK u : u = Unlink(h, second)
  OBVIOUS
<1>8. PICK W : W = Skip(L, i)
  OBVIOUS
<1>9. /\ u \in Heap /\ Chained(u, W)
      /\ \A w \in 1..Words : u.mem[w] = h.mem[w] \/ \E k \in DOMAIN L : w = L[k] + 1
  BY <1>2, <1>7, <1>8, UnlinkIs
<1>10. PICK size \in Nat : size = BlockSize(h, first) + BlockSize(h, second) + 1
  BY <1>4, <1>6
<1>11. /\ g \in Heap /\ g.firstFree = u.firstFree /\ g.mem[first] = -size
       /\ \A w \in 1..Words : w # first => g.mem[w] = u.mem[w]
  <2>1. first \in 1..Words - 1 /\ first + 1 \in 1..Words /\ u.mem[first + 1] \in Int
    <3>1. first \in 1..Words - 1 /\ first + 1 \in 1..Words
      BY <1>3, <1>6
    <3>2. QED
      BY <1>9, <3>1 DEF Heap
  <2>2. PICK v \in Int : v = u.mem[first + 1]
    BY <2>1
  <2>3. PICK e : e = SetFree(u, first, size, v)
    OBVIOUS
  <2>4. /\ e \in Heap /\ e.firstFree = u.firstFree /\ e.mem[first] = -size /\ e.mem[first + 1] = v
        /\ \A w \in 1..Words : w \notin {first, first + 1} => e.mem[w] = u.mem[w]
    BY <1>9, <2>1, <2>3, SetFreeIs
  <2>5. e = g
    BY <1>2, <1>7, <1>10, <2>2, <2>3 DEF CombineFreeBlocks, Header
  <2>6. QED
    BY <2>2, <2>4, <2>5
<1>12. \A w \in 1..Words : \/ g.mem[w] = h.mem[w] \/ w = first
                           \/ \E k \in DOMAIN L : w = L[k] + 1
  BY <1>9, <1>11
<1>13. \A o \in B : o # first => g.mem[o] = h.mem[o]
  <2>1. SUFFICES ASSUME NEW o \in B, o # first PROVE g.mem[o] = h.mem[o]
    OBVIOUS
  <2>2. \A k \in DOMAIN L : o # L[k] + 1
    BY <1>3, <1>5
  <2>3. o \in 1..Words
    BY <1>3
  <2>4. QED
    BY <1>12, <2>1, <2>2, <2>3
<1>14. g.mem[Words] = 0
  <2>1. h.mem[Words] = 0 /\ Words \in 1..Words
    BY <1>1 DEF Tiled
  <2>2. Words # first /\ \A k \in DOMAIN L : Words # L[k] + 1
    <3>1. \A k \in DOMAIN L : L[k] + 1 \in 1..Words - 1
      BY <1>3, <1>5
    <3>2. first \in 1..Words - 1
      BY <1>3, <1>6
    <3>3. QED
      BY <3>1, <3>2
  <2>3. QED
    BY <1>12, <2>1, <2>2
<1>15. /\ \A o \in B : o # first => /\ BlockSize(g, o) = BlockSize(h, o)
                                    /\ GetNextEntry(g, o) = GetNextEntry(h, o)
                                    /\ IsFree(g, o) <=> IsFree(h, o)
       /\ BlockSize(g, first) = size /\ IsFree(g, first)
       /\ GetNextEntry(g, first) = GetNextEntry(h, second)
  <2>1. -size < 0 /\ AbsOf(-size) = size
    BY <1>4, <1>6, <1>10 DEF AbsOf
  <2>2. BlockSize(g, first) = size /\ IsFree(g, first)
    BY <1>11, <2>1 DEF BlockSize, IsFree
  <2>3. GetNextEntry(g, first) = first + 1 + size
    BY <2>2 DEF GetNextEntry, Header
  <2>4. GetNextEntry(h, second) = second + 1 + BlockSize(h, second)
    BY <1>4, <1>6
  <2>5. GetNextEntry(g, first) = GetNextEntry(h, second)
    BY <1>3, <1>4, <1>6, <1>10, <2>3, <2>4
  <2>6. QED
    BY <1>13, <2>2, <2>5 DEF BlockSize, GetNextEntry, IsFree
<1>16. PICK C : C = B \ {second}
  OBVIOUS
<1>17. Tiled(g, C)
  <2>1. /\ B \subseteq 1..Words - 1 /\ 1 \in B
        /\ \A o \in B : GetNextEntry(h, o) \in B \cup {Words}
        /\ \A o, p \in B : o < p => GetNextEntry(h, o) <= p
        /\ \A p \in (B \cup {Words}) \ {1} : \E o \in B : GetNextEntry(h, o) = p
    BY <1>1 DEF Tiled
  <2>2. 1 \in C /\ C \subseteq 1..Words - 1
    <3>1. first \in 1..Words - 1 /\ second \in 1..Words - 1
      BY <1>3, <1>6
    <3>2. second # 1
      BY <1>6, <3>1
    <3>3. QED
      BY <1>16, <2>1, <3>2
  <2>3. ASSUME NEW o \in C PROVE BlockSize(g, o) >= 1 /\ GetNextEntry(g, o) \in C \cup {Words}
    <3>1. CASE o = first
      <4>1. GetNextEntry(g, o) = GetNextEntry(h, second) /\ BlockSize(g, o) = size
        BY <1>15, <3>1
      <4>2. GetNextEntry(h, second) # second
        BY <1>3, <1>4, <1>6
      <4>3. size >= 1
        BY <1>4, <1>6, <1>10
      <4>4. QED
        BY <1>6, <1>16, <2>1, <4>1, <4>2, <4>3
    <3>2. CASE o # first
      <4>1. o \in B /\ BlockSize(g, o) = BlockSize(h, o) /\ GetNextEntry(g, o) = GetNextEntry(h, o)
        BY <1>15, <1>16, <2>3, <3>2
      <4>2. GetNextEntry(h, o) # second
        BY <1>1, <1>2, <1>6, <3>2, <4>1, OneBefore
      <4>3. QED
        BY <1>4, <1>16, <2>1, <4>1, <4>2
    <3>3. QED
      BY <3>1, <3>2
  <2>4. ASSUME NEW o \in C, NEW p \in C, o < p PROVE GetNextEntry(g, o) <= p
    <3>1. CASE o = first
      <4>1. GetNextEntry(h, first) = second /\ p \in B /\ p # second
        BY <1>2, <1>16, <2>4
      <4>2. second <= p
        BY <1>6, <2>1, <2>4, <3>1, <4>1
      <4>3. second < p
        BY <1>3, <1>6, <4>1, <4>2
      <4>4. GetNextEntry(h, second) <= p
        BY <1>6, <2>1, <4>1, <4>3
      <4>5. QED
        BY <1>15, <3>1, <4>4
    <3>2. CASE o # first
      BY <1>15, <1>16, <2>1, <2>4, <3>2
    <3>3. QED
      BY <3>1, <3>2
  <2>5. ASSUME NEW p \in (C \cup {Words}) \ {1} PROVE \E o \in C : GetNextEntry(g, o) = p
    <3>1. PICK o \in B : GetNextEntry(h, o) = p
      BY <1>16, <2>1, <2>5
    <3>2. CASE o = second
      BY <1>6, <1>15, <1>16, <3>1, <3>2
    <3>3. CASE o # second
      <4>1. o # first
        <5>1. p # second
          BY <1>3, <1>6, <1>16, <2>5
        <5>2. QED
          BY <1>2, <3>1, <5>1
      <4>2. QED
        BY <1>15, <1>16, <3>1, <3>3, <4>1
    <3>4. QED
      BY <3>2, <3>3
  <2>6. QED
    BY <1>14, <2>2, <2>3, <2>4, <2>5 DEF Tiled
<1>18. Listed(g, C, W)
  <2>1. /\ W \in Seq(C) /\ Distinct(W)
        /\ \A k \in DOMAIN W : \E m \in DOMAIN L : m # i /\ W[k] = L[m]
        /\ \A m \in DOMAIN L : m # i => \E k \in DOMAIN W : W[k] = L[m]
    <3>1. /\ Skip(L, i) \in Seq(B \ {L[i]}) /\ Distinct(Skip(L, i))
          /\ \A k \in DOMAIN Skip(L, i) : \E m \in DOMAIN L : m # i /\ Skip(L, i)[k] = L[m]
          /\ \A m \in DOMAIN L : m # i => \E k \in DOMAIN Skip(L, i) : Skip(L, i)[k] = L[m]
      <4>1. L \in Seq(B) /\ Distinct(L) /\ i \in DOMAIN L
        BY <1>1
      <4>2. QED
        BY ONLY <4>1, SkipIs
    <3>2. QED
      BY <1>2, <1>8, <1>16, <3>1
  <2>2. Chained(g, W)
    <3>1. u.firstFree = Link(W, 0) /\ \A k \in DOMAIN W : u.mem[W[k] + 1] = Link(W, k)
      BY <1>9 DEF Chained
    <3>2. \A k \in DOMAIN W : W[k] + 1 \in 1..Words /\ W[k] + 1 # first
      <4>1. SUFFICES ASSUME NEW k \in DOMAIN W PROVE W[k] + 1 \in 1..Words /\ W[k] + 1 # first
        OBVIOUS
      <4>2. W[k] \in B
        BY <1>5, <2>1
      <4>3. W[k] + 1 \in 1..Words - 1 /\ W[k] + 1 \notin B
        BY <1>3, <4>2
      <4>4. QED
        BY <1>6, <4>3
    <3>3. QED
      BY <1>11, <3>1, <3>2 DEF Chained
  <2>3. \A o \in C : IsFree(g, o) <=> IsFree(h, o)
    BY <1>6, <1>15, <1>16
  <2>4. ASSUME NEW k \in DOMAIN W PROVE W[k] \in C /\ IsFree(g, W[k])
    <3>1. PICK m \in DOMAIN L : m # i /\ W[k] = L[m]
      BY <2>1
    <3>2. L[m] # second
      BY <1>1, <1>2, <3>1 DEF Distinct
    <3>3. QED
      BY <1>5, <1>16, <2>3, <3>1, <3>2
  <2>5. ASSUME NEW o \in C, IsFree(g, o) PROVE \E k \in DOMAIN W : W[k] = o
    <3>1. o \in B /\ o # second /\ IsFree(h, o)
      BY <1>16, <2>3, <2>5
    <3>2. PICK m \in DOMAIN L : L[m] = o
      BY <1>1, <3>1
    <3>3. QED
      BY <1>2, <2>1, <3>1, <3>2
  <2>6. {W[k] : k \in DOMAIN W} = {o \in C : IsFree(g, o)}
    BY <2>4, <2>5
  <2>7. QED
    BY <2>1, <2>2, <2>6 DEF Listed
<1>19. Keeps(h, g, Used(h, B))
  <2>1. ASSUME NEW w \in 1..Words, g.mem[w] # h.mem[w]
        PROVE  \E p \in B : IsFree(h, p) /\ w \in p..p + BlockSize(h, p)
    <3>1. CASE w = first
      <4>1. first \in first..first + BlockSize(h, first)
        BY <1>3, <1>4, <1>6
      <4>2. QED
        BY <1>6, <3>1, <4>1
    <3>2. CASE \E k \in DOMAIN L : w = L[k] + 1
      <4>1. PICK k \in DOMAIN L : w = L[k] + 1
        BY <3>2
      <4>2. PICK p : p = L[k]
        OBVIOUS
      <4>3. p \in B /\ IsFree(h, p)
        BY <1>5, <4>2
      <4>4. p + 1 \in p..p + BlockSize(h, p)
        BY <1>3, <1>4, <4>3
      <4>5. QED
        BY <4>1, <4>2, <4>3, <4>4
    <3>3. QED
      BY <1>12, <2>1, <3>1, <3>2
  <2>2. QED
    BY <1>1, <2>1, FreeWords
<1>20. Used(g, C) = Used(h, B)
  BY <1>6, <1>15, <1>16 DEF Used
<1>21. QED
  BY <1>2, <1>8, <1>11, <1>16, <1>17, <1>18, <1>19, <1>20 DEF Sound

(* A block that is freed comes to the front of the list. *)
Cons(o, L) == [k \in 1..Len(L) + 1 |-> IF k = 1 THEN o ELSE L[k - 1]]

LEMMA ConsIs ==
    ASSUME NEW B, NEW L \in Seq(B), Distinct(L), NEW o \in B, \A k \in DOMAIN L : L[k] # o,
           NEW M, M = Cons(o, L)
    PROVE  /\ M \in Seq(B) /\ Distinct(M) /\ Len(M) = Len(L) + 1
           /\ Link(M, 0) = o /\ M[1] = o
           /\ \A k \in DOMAIN M : Link(M, k) = Link(L, k - 1)
           /\ \A k \in DOMAIN M : k # 1 => k - 1 \in DOMAIN L /\ M[k] = L[k - 1]
<1>1. PICK n \in Nat : n = Len(L) /\ DOMAIN L = 1..n
  OBVIOUS
<1>2. M = [k \in 1..n + 1 |-> IF k = 1 THEN o ELSE L[k - 1]]
  BY <1>1 DEF Cons
<1>4. /\ M[1] = o
      /\ \A k \in 1..n + 1 : k # 1 => k - 1 \in 1..n /\ M[k] = L[k - 1]
      /\ \A k \in 1..n : k + 1 \in 1..n + 1 /\ M[k + 1] = L[k]
  <2>1. 1 \in 1..n + 1 /\ \A k \in 1..n : k + 1 \in 1..n + 1 /\ k + 1 # 1 /\ (k + 1) - 1 = k
    BY <1>1
  <2>2. \A k \in 1..n + 1 : k # 1 => k - 1 \in 1..n
    BY <1>1
  <2>3. QED
    BY <1>2, <2>1, <2>2
<1>5. \A k \in 1..n : L[k] \in B /\ L[k] # o
  BY <1>1
<1>6. \A k \in 1..n + 1 : M[k] \in B
  BY <1>4, <1>5
<1>7. M \in Seq(B) /\ Len(M) = n + 1 /\ DOMAIN M = 1..n + 1
  <2>1. n + 1 \in Nat /\ M \in [1..n + 1 -> B]
    BY <1>1, <1>2, <1>6
  <2>2. QED
    BY <2>1
<1>8. Distinct(M)
  <2>1. SUFFICES ASSUME NEW j \in 1..n + 1, NEW k \in 1..n + 1, M[j] = M[k] PROVE j = k
    BY <1>7 DEF Distinct
  <2>2. CASE j = 1 \/ k = 1
    BY <1>4, <1>5, <2>1, <2>2
  <2>3. CASE j # 1 /\ k # 1
    <3>a. PICK a, b : a = j - 1 /\ b = k - 1
      OBVIOUS
    <3>b. a \in 1..n /\ b \in 1..n /\ L[a] = L[b]
      BY <1>4, <2>1, <2>3, <3>a
    <3>c. \A x, y \in 1..n : L[x] = L[y] => x = y
      BY <1>1 DEF Distinct
    <3>1. j - 1 = k - 1
      BY <3>a, <3>b, <3>c
    <3>2. QED
      BY <1>1, <2>1, <3>1
  <2>4. QED
    BY <2>2, <2>3
<1>10. Link(M, 0) = o
  BY <1>1, <1>4, <1>7 DEF Link
<1>11. ASSUME NEW k \in 1..n + 1 PROVE Link(M, k) = Link(L, k - 1)
  <2>1. CASE k < n + 1
    <3>1. k - 1 < n /\ k \in 1..n /\ (k - 1) + 1 = k
      BY <1>1, <2>1
    <3>2. Link(M, k) = M[k + 1] /\ Link(L, k - 1) = L[k]
      BY <1>1, <1>7, <2>1, <3>1 DEF Link
    <3>3. QED
      BY <1>4, <3>1, <3>2
  <2>2. CASE ~(k < n + 1)
    <3>1. ~(k - 1 < n)
      BY <1>1, <2>2
    <3>2. QED
      BY <1>1, <1>7, <2>2, <3>1 DEF Link
  <2>3. QED
    BY <2>1, <2>2
<1>12. /\ M \in Seq(B) /\ Distinct(M) /\ Len(M) = Len(L) + 1
       /\ Link(M, 0) = o /\ M[1] = o
  BY <1>1, <1>4, <1>7, <1>8, <1>10
<1>13. /\ \A k \in DOMAIN M : Link(M, k) = Link(L, k - 1)
       /\ \A k \in DOMAIN M : k # 1 => k - 1 \in DOMAIN L /\ M[k] = L[k - 1]
  BY <1>1, <1>4, <1>7, <1>11
<1>14. QED
  BY ONLY <1>12, <1>13

LEMMA PutFirstIs ==
    ASSUME NEW h, NEW B, NEW L, Sound(h, B, L), NEW o \in Used(h, B),
           NEW g, g = [SetFree(h, o, BlockSize(h, o), h.firstFree) EXCEPT !.firstFree = o]
    PROVE  /\ Sound(g, B, Cons(o, L)) /\ GetNextEntry(g, o) = GetNextEntry(h, o)
           /\ Used(g, B) = Used(h, B) \ {o} /\ Keeps(h, g, Used(h, B) \ {o})
<1>1. /\ h \in Heap /\ Tiled(h, B) /\ Listed(h, B, L) /\ L \in Seq(B) /\ Distinct(L) /\ Chained(h, L)
      /\ {L[k] : k \in DOMAIN L} = {p \in B : IsFree(h, p)}
  BY DEF Sound, Listed
<1>2. o \in B /\ ~IsFree(h, o)
  BY DEF Used
<1>3. \A p \in B : /\ p \in 1..Words - 1 /\ p \in 1..Words
                   /\ p + 1 \in 1..Words - 1 /\ p + 1 \notin B
                   /\ \A q \in B : p + 1 \in q..q + BlockSize(h, q) => q = p
  BY <1>1, LinkWord
<1>4. o \in 1..Words - 1 /\ BlockSize(h, o) \in Nat /\ BlockSize(h, o) >= 1 /\ h.mem[o] = BlockSize(h, o)
  BY <1>1, <1>2, <1>3, SizeIs DEF Tiled
<1>5. PICK size \in Nat : size = BlockSize(h, o) /\ size >= 1
  BY <1>4
<1>6. PICK next \in Int : next = h.firstFree /\ next = Link(L, 0)
  BY <1>1 DEF Heap, Chained
<1>7. PICK e : e = SetFree(h, o, size, next)
  OBVIOUS
<1>8. /\ e \in Heap /\ e.mem[o] = -size /\ e.mem[o + 1] = next
      /\ \A w \in 1..Words : w \notin {o, o + 1} => e.mem[w] = h.mem[w]
  <2>1. h \in Heap /\ o \in 1..Words - 1 /\ size \in Int /\ next \in Int
    BY <1>1, <1>4, <1>5, <1>6
  <2>2. QED
    BY ONLY <1>7, <2>1, SetFreeIs
<1>9. g \in Heap /\ g.firstFree = o /\ g.mem = e.mem
  <2>1. g = [e EXCEPT !.firstFree = o] /\ o \in Int
    BY <1>4, <1>5, <1>6, <1>7
  <2>2. e \in Heap
    BY <1>8
  <2>3. QED
    BY ONLY <2>1, <2>2, FirstIs
<1>10. \A p \in B : p # o => g.mem[p] = h.mem[p]
  BY <1>2, <1>3, <1>8, <1>9
<1>11. \A p \in B : /\ BlockSize(g, p) = BlockSize(h, p) /\ GetNextEntry(g, p) = GetNextEntry(h, p)
                    /\ IsFree(g, p) <=> IsFree(h, p) \/ p = o
  <2>1. -size < 0 /\ AbsOf(-size) = size
    BY <1>5 DEF AbsOf
  <2>2. BlockSize(g, o) = BlockSize(h, o) /\ IsFree(g, o)
    BY <1>5, <1>8, <1>9, <2>1 DEF BlockSize, IsFree
  <2>3. QED
    BY <1>10, <2>2 DEF BlockSize, GetNextEntry, IsFree
<1>12. g.mem[Words] = 0
  <2>1. Words \in 1..Words /\ Words \notin {o, o + 1} /\ h.mem[Words] = 0
    BY <1>1, <1>2, <1>3 DEF Tiled
  <2>2. QED
    BY <1>8, <1>9, <2>1
<1>13. Tiled(g, B)
  BY <1>1, <1>11, <1>12 DEF Tiled
<1>14. \A k \in DOMAIN L : L[k] \in B /\ L[k] # o
  <2>1. \A k \in DOMAIN L : L[k] \in B /\ IsFree(h, L[k])
    BY <1>1, ListAt
  <2>2. QED
    BY <1>2, <2>1
<1>15. PICK M : M = Cons(o, L)
  OBVIOUS
<1>a. /\ M \in Seq(B) /\ Distinct(M) /\ Len(M) = Len(L) + 1
      /\ Link(M, 0) = o /\ M[1] = o
      /\ \A k \in DOMAIN M : Link(M, k) = Link(L, k - 1)
      /\ \A k \in DOMAIN M : k # 1 => k - 1 \in DOMAIN L /\ M[k] = L[k - 1]
  <2>1. L \in Seq(B) /\ Distinct(L) /\ o \in B /\ \A k \in DOMAIN L : L[k] # o
    BY <1>1, <1>2, <1>14
  <2>2. QED
    BY ONLY <1>15, <2>1, ConsIs
<1>b. {M[k] : k \in DOMAIN M} = {L[k] : k \in DOMAIN L} \cup {o}
  <2>a. L \in Seq(B) /\ M \in Seq(B) /\ Len(M) = Len(L) + 1
    BY <1>1, <1>a
  <2>b. Len(L) \in Nat /\ DOMAIN L = 1..Len(L) /\ DOMAIN M = 1..Len(M)
    BY ONLY <2>a
  <2>1. PICK n \in Nat : n = Len(L) /\ DOMAIN L = 1..n /\ DOMAIN M = 1..n + 1
    BY ONLY <2>a, <2>b
  <2>2. \A k \in 1..n + 1 : M[k] \in {L[m] : m \in 1..n} \cup {o}
    BY <1>a, <2>1
  <2>3. ASSUME NEW m \in 1..n PROVE L[m] \in {M[k] : k \in 1..n + 1}
    <3>1. m + 1 \in 1..n + 1 /\ m + 1 # 1 /\ (m + 1) - 1 = m
      BY <2>1
    <3>2. M[m + 1] = L[m]
      BY <1>a, <2>1, <3>1
    <3>3. QED
      BY <3>1, <3>2
  <2>4. o \in {M[k] : k \in 1..n + 1}
    <3>1. 1 \in 1..n + 1
      BY <2>1
    <3>2. QED
      BY <1>a, <3>1
  <2>5. QED
    BY <2>1, <2>2, <2>3, <2>4
<1>16. /\ M \in Seq(B) /\ Distinct(M)
       /\ {M[k] : k \in DOMAIN M} = {L[k] : k \in DOMAIN L} \cup {o}
       /\ Link(M, 0) = o /\ M[1] = o
       /\ \A k \in DOMAIN M : Link(M, k) = Link(L, k - 1)
       /\ \A k \in DOMAIN M : k # 1 => k - 1 \in DOMAIN L /\ M[k] = L[k - 1]
  BY <1>a, <1>b
<1>17. Chained(g, M)
  <2>1. ASSUME NEW k \in DOMAIN M PROVE g.mem[M[k] + 1] = Link(M, k)
    <3>1. CASE k = 1
      <4>1. M[k] = o /\ Link(M, k) = Link(L, 0)
        BY <1>16, <2>1, <3>1
      <4>2. QED
        BY <1>6, <1>8, <1>9, <4>1
    <3>2. CASE k # 1
      <4>1. k - 1 \in DOMAIN L /\ M[k] = L[k - 1] /\ Link(M, k) = Link(L, k - 1)
        BY <1>16, <2>1, <3>2
      <4>2. h.mem[L[k - 1] + 1] = Link(L, k - 1)
        BY <1>1, <4>1 DEF Chained
      <4>3. PICK p : p = L[k - 1]
        OBVIOUS
      <4>4. p \in B /\ p # o
        BY <1>14, <4>1, <4>3
      <4>5. p + 1 \in 1..Words /\ p + 1 \notin {o, o + 1}
        BY <1>2, <1>3, <4>4
      <4>6. g.mem[p + 1] = h.mem[p + 1]
        BY <1>8, <1>9, <4>5
      <4>7. QED
        BY <4>1, <4>2, <4>3, <4>6
    <3>3. QED
      BY <3>1, <3>2
  <2>2. QED
    BY <1>9, <1>16, <2>1 DEF Chained
<1>18. {M[k] : k \in DOMAIN M} = {p \in B : IsFree(g, p)}
  BY <1>1, <1>2, <1>11, <1>16
<1>19. Listed(g, B, M)
  BY <1>16, <1>17, <1>18 DEF Listed
<1>20. Used(g, B) = Used(h, B) \ {o}
  BY <1>11 DEF Used
<1>21. Keeps(h, g, Used(h, B) \ {o})
  <2>1. SUFFICES ASSUME NEW p \in Used(h, B) \ {o}, NEW w \in p..p + BlockSize(h, p)
                 PROVE  g.mem[w] = h.mem[w]
    BY DEF Keeps
  <2>2. p \in B /\ p # o /\ p \in 1..Words - 1 /\ BlockSize(h, p) \in Nat
    BY <1>1, <1>3, <2>1, SizeIs DEF Used
  <2>3. CASE w = p
    BY <1>10, <2>2, <2>3
  <2>4. CASE w # p
    <3>1. w \in p + 1..p + BlockSize(h, p)
      BY <2>1, <2>2, <2>4
    <3>2. /\ w \in 1..Words - 1 /\ w \notin B
          /\ \A q \in B : w \in q..q + BlockSize(h, q) => q = p
      BY <1>1, <2>2, <3>1, Inside
    <3>3. o + 1 \in o..o + BlockSize(h, o)
      BY <1>4
    <3>4. w \in 1..Words /\ w \notin {o, o + 1}
      BY <1>2, <2>2, <3>2, <3>3
    <3>5. QED
      BY <1>8, <1>9, <3>4
  <2>5. QED
    BY <2>3, <2>4
<1>22. QED
  BY <1>2, <1>9, <1>11, <1>13, <1>15, <1>19, <1>20, <1>21 DEF Sound

(* FreeEntry frees the block and nothing else. *)
LEMMA FreeEntryIs ==
    ASSUME NEW h, NEW B, NEW L, Sound(h, B, L), NEW o \in Used(h, B), NEW g, g = FreeEntry(h, o)
    PROVE  \E C, M : /\ Sound(g, C, M) /\ Used(g, C) = Used(h, B) \ {o}
                     /\ Keeps(h, g, Used(h, B) \ {o})
<1>1. PICK e : e = [SetFree(h, o, BlockSize(h, o), h.firstFree) EXCEPT !.firstFree = o]
  OBVIOUS
<1>2. PICK M : M = Cons(o, L)
  OBVIOUS
<1>3. /\ Sound(e, B, M) /\ Used(e, B) = Used(h, B) \ {o} /\ Keeps(h, e, Used(h, B) \ {o})
      /\ GetNextEntry(e, o) = GetNextEntry(h, o)
  BY <1>1, <1>2, PutFirstIs
<1>4. CASE ~IsFree(e, GetNextEntry(e, o))
  <2>1. g = e
    BY <1>1, <1>4 DEF FreeEntry
  <2>2. QED
    BY <1>3, <2>1
<1>5. CASE IsFree(e, GetNextEntry(e, o))
  <2>1. g = CombineFreeBlocks(e, o, GetNextEntry(e, o))
    BY <1>1, <1>5 DEF FreeEntry
  <2>2. o \in B /\ e \in Heap /\ Tiled(e, B) /\ Listed(e, B, M)
    BY <1>3 DEF Used, Sound
  <2>3. GetNextEntry(e, o) \in B
    <3>1. GetNextEntry(e, o) \in B \cup {Words} /\ e.mem[Words] = 0
      BY <2>2 DEF Tiled
    <3>2. QED
      BY <1>5, <3>1 DEF IsFree
  <2>4. PICK i \in DOMAIN M : M[i] = GetNextEntry(e, o)
    BY <1>5, <2>2, <2>3, ListAt
  <2>5. IsFree(e, o)
    BY <1>3, <2>2 DEF Used
  <2>6. PICK j \in DOMAIN M : M[j] = o
    BY <2>2, <2>5, ListAt
  <2>7. g = CombineFreeBlocks(e, M[j], M[i]) /\ GetNextEntry(e, M[j]) = M[i]
    BY <2>1, <2>4, <2>6
  <2>8. /\ Sound(g, B \ {M[i]}, Skip(M, i)) /\ Used(g, B \ {M[i]}) = Used(e, B)
        /\ Keeps(e, g, Used(e, B))
    <3>1. Sound(e, B, M) /\ j \in DOMAIN M /\ i \in DOMAIN M
      BY <1>3
    <3>2. QED
      BY ONLY <2>7, <3>1, CombineIs
  <2>9. Keeps(h, g, Used(h, B) \ {o})
    <3>1. \A p \in Used(h, B) \ {o} : p \in Int /\ BlockSize(h, p) \in Nat
      <4>1. \A p \in Used(h, B) : p \in 1..Words /\ h \in Heap
        BY DEF Used, Sound, Tiled
      <4>2. QED
        BY <4>1, SizeIs
    <3>2. QED
      BY <1>3, <2>8, <3>1, KeepsOn
  <2>10. QED
    BY <1>3, <2>8, <2>9
<1>6. QED
  BY <1>4, <1>5

-----------------------------------------------------------------------------
(* FindFreeBlock *)

LEMMA PlacesAre ==
    ASSUME NEW h, NEW B, NEW L, Sound(h, B, L)
    PROVE  /\ \A n : Fitting(h, n) = {k \in DOMAIN L : BlockSize(h, L[k]) >= n}
           /\ FollowedByFree(h) = {k \in DOMAIN L : IsFree(h, GetNextEntry(h, L[k]))}
           /\ \A K \in SUBSET DOMAIN L : K # {} => \E k \in K : FirstOf(h, K) = L[k]
<1>1. FreeList(h) = L
  BY FreeListIs
<1>2. DOMAIN L \subseteq Nat
  BY DEF Sound, Listed
<1>3. ASSUME NEW K \in SUBSET DOMAIN L, K # {} PROVE \E k \in K : FirstOf(h, K) = L[k]
  <2>1. K \subseteq Nat
    BY <1>2
  <2>2. \E m \in K : \A k \in K : m <= k
    BY ONLY <1>3, <2>1, LeastNumber
  <2>3. PICK c : c = CHOOSE k \in K : \A j \in K : k <= j
    OBVIOUS
  <2>4. c \in K
    BY ONLY <2>2, <2>3
  <2>5. FirstOf(h, K) = L[c]
    BY <1>1, <2>3 DEF FirstOf
  <2>6. QED
    BY <2>4, <2>5
<1>4. QED
  BY <1>1, <1>3 DEF Fitting, FollowedByFree

(* There is nothing left to combine, or no need to. *)
Done(h, n) == Fitting(h, n) # {} \/ FollowedByFree(h) = {}

(* The same blocks are in use, with the same in them. *)
Same(h, B, g, C) == Used(g, C) = Used(h, B) /\ Keeps(h, g, Used(h, B))

LEMMA CombinedOnceIs ==
    ASSUME NEW h, NEW B, NEW L, Sound(h, B, L), NEW n, NEW g, g = CombinedOnce(h, n)
    PROVE  \/ Done(h, n) /\ g = h
           \/ ~Done(h, n) /\ \E C, M : Sound(g, C, M) /\ Len(M) = Len(L) - 1 /\ Same(h, B, g, C)
<1>1. CASE Done(h, n)
  BY <1>1 DEF CombinedOnce, Done
<1>2. CASE ~Done(h, n)
  <2>1. PICK o : o = FirstOf(h, FollowedByFree(h))
    OBVIOUS
  <2>2. g = CombineFreeBlocks(h, o, GetNextEntry(h, o))
    BY <1>2, <2>1 DEF CombinedOnce, Done
  <2>3. PICK j \in DOMAIN L : o = L[j] /\ IsFree(h, GetNextEntry(h, L[j]))
    BY <1>2, <2>1, PlacesAre DEF Done
  <2>4. h \in Heap /\ Tiled(h, B) /\ Listed(h, B, L) /\ L \in Seq(B) /\ Distinct(L)
    BY DEF Sound, Listed
  <2>5. GetNextEntry(h, o) \in B
    <3>1. o \in B
      BY <2>3, <2>4, ListAt
    <3>2. GetNextEntry(h, o) \in B \cup {Words} /\ h.mem[Words] = 0
      BY <2>4, <3>1 DEF Tiled
    <3>3. QED
      BY <2>3, <3>2 DEF IsFree
  <2>6. PICK i \in DOMAIN L : L[i] = GetNextEntry(h, o)
    BY <2>3, <2>4, <2>5, ListAt
  <2>7. GetNextEntry(h, L[j]) = L[i] /\ g = CombineFreeBlocks(h, L[j], L[i])
    BY <2>2, <2>3, <2>6
  <2>8. /\ Sound(g, B \ {L[i]}, Skip(L, i))
        /\ Used(g, B \ {L[i]}) = Used(h, B) /\ Keeps(h, g, Used(h, B))
    <3>1. Sound(h, B, L) /\ i \in DOMAIN L /\ j \in DOMAIN L
      OBVIOUS
    <3>2. QED
      BY ONLY <2>7, <3>1, CombineIs
  <2>9. Len(Skip(L, i)) = Len(L) - 1
    BY <2>4, SkipIs
  <2>10. QED
    BY <1>2, <2>8, <2>9 DEF Same
<1>3. QED
  BY <1>1, <1>2

LEMMA SameOn ==
    ASSUME NEW h, NEW B, NEW L, Sound(h, B, L), NEW g, NEW C, Same(h, B, g, C),
           NEW e, NEW D, Same(g, C, e, D)
    PROVE  Same(h, B, e, D)
<1>1. Keeps(h, g, Used(h, B)) /\ Keeps(g, e, Used(h, B)) /\ Used(e, D) = Used(h, B)
  BY DEF Same
<1>2. \A o \in Used(h, B) : o \in Int /\ BlockSize(h, o) \in Nat
  BY <1>1, KeptSizes
<1>3. Keeps(h, e, Used(h, B))
  BY <1>1, <1>2, KeepsOn
<1>4. QED
  BY <1>1, <1>3 DEF Same

Combines(h, n, m, f) == f = [k \in 0..m |-> IF k = 0 THEN h ELSE CombinedOnce(f[k - 1], n)]

(* The recursion of CombinedFor has a solution. *)
LEMMA Combinable ==
    ASSUME NEW h, NEW n, NEW l \in Nat
    PROVE  \E f : Combines(h, n, l, f)
<1> DEFINE Without == {m \in Nat : ~\E f : Combines(h, n, m, f)}
<1>1. SUFFICES ASSUME Without # {} PROVE FALSE
  OBVIOUS
<1>2. PICK m \in Without : \A k \in Without : m <= k
  <2>1. Without \subseteq Nat
    OBVIOUS
  <2>2. QED
    BY <1>1, <2>1, LeastNumber
<1>3. m \in Nat /\ \A k \in Without : ~(k < m)
  <2>1. m \in Nat /\ \A k \in Without : k \in Nat /\ m <= k
    BY <1>2
  <2>2. QED
    BY <2>1
<1>4. CASE m = 0
  <2> DEFINE g == [k \in 0..0 |-> h]
  <2>1. g = [k \in 0..0 |-> IF k = 0 THEN h ELSE CombinedOnce(g[k - 1], n)]
    OBVIOUS
  <2>2. Combines(h, n, m, g)
    BY <1>4, <2>1 DEF Combines
  <2>3. QED
    BY <1>2, <2>2
<1>5. CASE m # 0
  <2>1. m - 1 \in Nat /\ m - 1 < m
    BY <1>3, <1>5
  <2>2. PICK f : Combines(h, n, m - 1, f)
    BY <1>3, <2>1
  <2> DEFINE g == [k \in 0..m |-> IF k = m THEN CombinedOnce(f[m - 1], n) ELSE f[k]]
  <2>3. \A k \in 0..m - 1 : f[k] = IF k = 0 THEN h ELSE CombinedOnce(f[k - 1], n)
    BY <2>2 DEF Combines
  <2>4. ASSUME NEW k \in 0..m PROVE g[k] = IF k = 0 THEN h ELSE CombinedOnce(g[k - 1], n)
    <3>1. CASE k = m
      <4>1. g[k - 1] = f[m - 1]
        BY <1>3, <1>5, <3>1
      <4>2. QED
        BY <1>5, <3>1, <4>1
    <3>2. CASE k # m
      <4>1. k \in 0..m - 1 /\ g[k] = f[k]
        BY <1>3, <3>2
      <4>2. k # 0 => g[k - 1] = f[k - 1]
        BY <1>3, <3>2
      <4>3. QED
        BY <2>3, <4>1, <4>2
    <3>3. QED
      BY <3>1, <3>2
  <2>5. g = [k \in 0..m |-> g[k]]
    OBVIOUS
  <2> HIDE DEF g
  <2>6. g = [k \in 0..m |-> IF k = 0 THEN h ELSE CombinedOnce(g[k - 1], n)]
    BY <2>4, <2>5
  <2>7. QED
    BY <1>2, <2>6 DEF Combines
<1>6. QED
  BY <1>4, <1>5

(* As many rounds as there are free blocks leave nothing to combine. *)
LEMMA CombinedForIs ==
    ASSUME NEW h, NEW B, NEW L, Sound(h, B, L), NEW n, NEW g, g = CombinedFor(h, n)
    PROVE  \E C, M : Sound(g, C, M) /\ Same(h, B, g, C) /\ Done(g, n)
<1>1. FreeList(h) = L /\ L \in Seq(B)
  BY FreeListIs DEF Sound, Listed
<1>2. PICK N \in Nat : N = Len(L)
  BY <1>1
<1> DEFINE a == CHOOSE f : Combines(h, n, N, f)
<1>3. Combines(h, n, N, a)
  BY Combinable
<1>4. g = a[N]
  BY <1>1, <1>2 DEF CombinedFor, Combines
<1> HIDE DEF a
<1>5. a[0] = h /\ \A k \in 0..N : k # 0 => a[k] = CombinedOnce(a[k - 1], n)
  BY <1>3 DEF Combines
<1> DEFINE Inv(k) == \E C, M : /\ Sound(a[k], C, M) /\ Same(h, B, a[k], C)
                               /\ Done(a[k], n) \/ Len(M) <= N - k
<1>6. Inv(0)
  <2>1. Keeps(h, h, Used(h, B))
    BY DEF Keeps
  <2>2. Same(h, B, h, B)
    BY <2>1 DEF Same
  <2>3. QED
    BY <1>2, <1>5, <2>2
<1>7. ASSUME NEW k \in 0..N, k # 0, Inv(k - 1) PROVE Inv(k)
  <2>1. PICK x, y : x = a[k - 1] /\ y = a[k]
    OBVIOUS
  <2>2. PICK C, M : /\ Sound(x, C, M) /\ Same(h, B, x, C)
                    /\ Done(x, n) \/ Len(M) <= N - (k - 1)
    BY <1>7, <2>1
  <2>3. y = CombinedOnce(x, n)
    BY <1>5, <1>7, <2>1
  <2>4. CASE Done(x, n)
    <3>1. y = x
      BY <2>2, <2>3, <2>4, CombinedOnceIs
    <3>2. QED
      BY <2>1, <2>2, <2>4, <3>1
  <2>5. CASE ~Done(x, n)
    <3>1. PICK D, K : Sound(y, D, K) /\ Len(K) = Len(M) - 1 /\ Same(x, C, y, D)
      BY <2>2, <2>3, <2>5, CombinedOnceIs
    <3>2. Same(h, B, y, D)
      BY <2>2, <3>1, SameOn
    <3>3. Len(K) <= N - k
      <4>1. Len(M) \in Nat
        BY <2>2 DEF Sound, Listed
      <4>2. QED
        BY <2>2, <2>5, <3>1, <4>1
    <3>4. QED
      BY <2>1, <3>1, <3>2, <3>3
  <2>6. QED
    BY <2>4, <2>5
<1>8. Inv(N)
  <2> DEFINE Bad == {k \in 0..N : ~Inv(k)}
  <2>1. SUFFICES ASSUME Bad # {} PROVE FALSE
    OBVIOUS
  <2>2. Bad \subseteq Nat
    OBVIOUS
  <2>3. PICK m \in Bad : \A k \in Bad : m <= k
    BY <2>1, <2>2, LeastNumber
  <2>4. m \in 0..N /\ ~Inv(m)
    BY <2>3
  <2>5. m # 0
    BY <1>6, <2>4
  <2>6. m - 1 \in 0..N /\ ~(m <= m - 1)
    BY <2>4, <2>5
  <2>7. Inv(m - 1)
    BY <2>3, <2>6
  <2>8. QED
    BY <1>7, <2>4, <2>5, <2>7
<1>9. PICK C, M : Sound(g, C, M) /\ Same(h, B, g, C) /\ (Done(g, n) \/ Len(M) <= N - N)
  BY <1>4, <1>8
<1>10. Done(g, n)
  <2>1. SUFFICES ASSUME Len(M) <= 0 PROVE Done(g, n)
    BY <1>9
  <2>2. DOMAIN M = {}
    <3>1. M \in Seq(C)
      BY <1>9 DEF Sound, Listed
    <3>2. QED
      BY <2>1, <3>1
  <2>3. FollowedByFree(g) = {}
    BY <1>9, <2>2, PlacesAre
  <2>4. QED
    BY <2>3 DEF Done
<1>11. QED
  BY <1>9, <1>10

-----------------------------------------------------------------------------
(* AllocEntry *)

(* What the list and every block of a sound heap give. *)
LEMMA ListOf ==
    ASSUME NEW h, NEW B, NEW L, Sound(h, B, L)
    PROVE  /\ h \in Heap /\ Tiled(h, B) /\ Listed(h, B, L) /\ L \in Seq(B) /\ Distinct(L) /\ Chained(h, L)
           /\ {L[k] : k \in DOMAIN L} = {o \in B : IsFree(h, o)}
           /\ \A k \in DOMAIN L : L[k] \in B /\ IsFree(h, L[k])
<1>1. /\ h \in Heap /\ Tiled(h, B) /\ Listed(h, B, L) /\ L \in Seq(B) /\ Distinct(L) /\ Chained(h, L)
      /\ {L[k] : k \in DOMAIN L} = {o \in B : IsFree(h, o)}
  BY DEF Sound, Listed
<1>2. \A k \in DOMAIN L : L[k] \in B /\ IsFree(h, L[k])
  BY <1>1, ListAt
<1>3. QED
  BY <1>1, <1>2

LEMMA BlockIs ==
    ASSUME NEW h, NEW B, NEW L, Sound(h, B, L), NEW o \in B
    PROVE  /\ o \in 1..Words - 1 /\ o \in 1..Words /\ o + 1 \in 1..Words - 1 /\ o + 1 \in 1..Words
           /\ o + 1 \notin B /\ h.mem[o] \in Int /\ h.mem[o + 1] \in Int
           /\ BlockSize(h, o) \in Nat /\ BlockSize(h, o) >= 1
           /\ GetNextEntry(h, o) = o + 1 + BlockSize(h, o)
           /\ GetNextEntry(h, o) \in B \cup {Words}
           /\ o \in o..o + BlockSize(h, o) /\ o + 1 \in o..o + BlockSize(h, o)
<1>1. h \in Heap /\ Tiled(h, B)
  BY DEF Sound
<1>2. o \in 1..Words - 1 /\ o \in 1..Words /\ o + 1 \in 1..Words - 1 /\ o + 1 \notin B
  BY <1>1, LinkWord
<1>3. BlockSize(h, o) >= 1 /\ GetNextEntry(h, o) \in B \cup {Words}
  BY <1>1 DEF Tiled
<1>4. /\ h.mem[o] \in Int /\ BlockSize(h, o) \in Nat
      /\ GetNextEntry(h, o) = o + 1 + BlockSize(h, o)
  BY <1>1, <1>2, SizeIs
<1>5. o + 1 \in 1..Words
  BY <1>2
<1>6. h.mem[o + 1] \in Int
  BY <1>1, <1>5 DEF Heap
<1>7. o \in o..o + BlockSize(h, o) /\ o + 1 \in o..o + BlockSize(h, o)
  BY <1>2, <1>3, <1>4
<1>8. QED
  BY <1>2, <1>3, <1>4, <1>5, <1>6, <1>7

(* Cutting a block off the end of a free one. *)
LEMMA SplitIs ==
    ASSUME NEW h, NEW B, NEW L, Sound(h, B, L), NEW i \in DOMAIN L, NEW o, o = L[i],
           NEW n \in Nat, n >= 1, NEW rest \in Nat, rest = BlockSize(h, o) - n, rest >= 2,
           NEW x, x = o + rest, NEW C, C = B \cup {x},
           NEW g, g = [SetFree(h, o, rest - Header, h.mem[o + 1]) EXCEPT !.mem[x] = n]
    PROVE  /\ Sound(g, C, L) /\ Keeps(h, g, Used(h, B))
           /\ x \in 1..Words - 1 /\ x \notin Used(h, B)
           /\ Used(g, C) = Used(h, B) \cup {x} /\ BlockSize(g, x) = n
<1>1. o = L[i]
  OBVIOUS
<1>2. x = o + rest
  OBVIOUS
<1>3. h \in Heap /\ Tiled(h, B) /\ L \in Seq(B) /\ Distinct(L) /\ Chained(h, L)
  BY ListOf
<1>a. {L[k] : k \in DOMAIN L} = {p \in B : IsFree(h, p)}
  BY ListOf
<1>b. \A k \in DOMAIN L : L[k] \in B /\ IsFree(h, L[k])
  BY ListOf
<1>4. o \in B /\ IsFree(h, o)
  BY <1>1, <1>b
<1>c. /\ o \in 1..Words - 1 /\ o \in 1..Words /\ o + 1 \in 1..Words /\ h.mem[o + 1] \in Int
      /\ BlockSize(h, o) \in Nat /\ GetNextEntry(h, o) = o + 1 + BlockSize(h, o)
      /\ rest = BlockSize(h, o) - n /\ GetNextEntry(h, o) \in B \cup {Words}
      /\ o \in o..o + BlockSize(h, o)
  BY <1>1, <1>4, BlockIs
<1>5. x \in o + 1..o + BlockSize(h, o) /\ x \in o..o + BlockSize(h, o) /\ o < x
  BY <1>2, <1>c
<1>6. /\ x \in 1..Words - 1 /\ x \notin B
      /\ \A p \in B : x \in p..p + BlockSize(h, p) => p = o
  BY <1>3, <1>4, <1>5, Inside
<1>7. PICK next \in Int : next = h.mem[o + 1]
  BY <1>c
<1>8. PICK e : e = SetFree(h, o, rest - 1, next)
  OBVIOUS
<1>9. /\ e \in Heap /\ e.firstFree = h.firstFree /\ e.mem[o] = -(rest - 1) /\ e.mem[o + 1] = next
      /\ \A w \in 1..Words : w \notin {o, o + 1} => e.mem[w] = h.mem[w]
  <2>1. PICK r \in Int : r = rest - 1
    OBVIOUS
  <2>2. h \in Heap /\ o \in 1..Words - 1 /\ next \in Int /\ e = SetFree(h, o, r, next)
    BY <1>3, <1>8, <1>c, <2>1
  <2>3. /\ e \in Heap /\ e.firstFree = h.firstFree /\ e.mem[o] = -r /\ e.mem[o + 1] = next
        /\ \A w \in 1..Words : w \notin {o, o + 1} => e.mem[w] = h.mem[w]
    BY ONLY <2>1, <2>2, SetFreeIs
  <2>4. QED
    BY <2>1, <2>3
<1>10. /\ g \in Heap /\ g.firstFree = e.firstFree /\ g.mem[x] = n
       /\ \A w \in 1..Words : w # x => g.mem[w] = e.mem[w]
  <2>1. g = [e EXCEPT !.mem[x] = n]
    BY <1>1, <1>2, <1>7, <1>8 DEF Header
  <2>2. e \in Heap /\ x \in 1..Words /\ n \in Int
    BY <1>6, <1>9
  <2>3. QED
    BY ONLY <2>1, <2>2, PutIs
<1>11. x # o /\ x # o + 1 /\ o \in 1..Words /\ o + 1 \in 1..Words
  BY <1>2, <1>c
<1>12. /\ g.mem[o] = -(rest - 1)
       /\ \A w \in 1..Words : w \notin {o, x} => g.mem[w] = h.mem[w]
  BY <1>7, <1>9, <1>10, <1>11
<1>13. /\ BlockSize(g, o) = rest - 1 /\ IsFree(g, o) /\ GetNextEntry(g, o) = x
       /\ BlockSize(g, x) = n /\ ~IsFree(g, x) /\ GetNextEntry(g, x) = GetNextEntry(h, o)
  <2>1. -(rest - 1) < 0 /\ AbsOf(-(rest - 1)) = rest - 1 /\ AbsOf(n) = n /\ ~(n < 0)
    BY DEF AbsOf
  <2>2. BlockSize(g, o) = rest - 1 /\ IsFree(g, o) /\ BlockSize(g, x) = n /\ ~IsFree(g, x)
    BY <1>10, <1>12, <2>1 DEF BlockSize, IsFree
  <2>3. GetNextEntry(g, o) = o + 1 + (rest - 1) /\ GetNextEntry(g, x) = x + 1 + n
    BY <2>2 DEF GetNextEntry, Header
  <2>4. GetNextEntry(h, o) = o + 1 + BlockSize(h, o)
    BY <1>c
  <2>5. o + 1 + (rest - 1) = x /\ x + 1 + n = o + 1 + BlockSize(h, o)
    BY <1>2, <1>c
  <2>6. QED
    BY <2>2, <2>3, <2>4, <2>5
<1>14. \A p \in B : p # o => /\ g.mem[p] = h.mem[p] /\ BlockSize(g, p) = BlockSize(h, p)
                             /\ GetNextEntry(g, p) = GetNextEntry(h, p)
                             /\ IsFree(g, p) <=> IsFree(h, p)
  <2>1. SUFFICES ASSUME NEW p \in B, p # o
                 PROVE  /\ g.mem[p] = h.mem[p] /\ BlockSize(g, p) = BlockSize(h, p)
                        /\ GetNextEntry(g, p) = GetNextEntry(h, p)
                        /\ IsFree(g, p) <=> IsFree(h, p)
    OBVIOUS
  <2>2. p \in 1..Words /\ p # x
    BY <1>6, <2>1, BlockIs
  <2>3. g.mem[p] = h.mem[p]
    BY <1>12, <2>1, <2>2
  <2>4. QED
    BY <2>3 DEF BlockSize, GetNextEntry, IsFree
<1>15. g.mem[Words] = 0
  <2>a. h.mem[Words] = 0
    BY <1>3 DEF Tiled
  <2>1. h.mem[Words] = 0 /\ Words \in 1..Words /\ Words \notin {o, x}
    BY <1>6, <1>c, <2>a
  <2>2. QED
    BY <1>12, <2>1
<1>16. C = B \cup {x}
  OBVIOUS
<1>17. Tiled(g, C)
  <2>1. /\ B \subseteq 1..Words - 1 /\ 1 \in B
        /\ \A p \in B : GetNextEntry(h, p) \in B \cup {Words}
        /\ \A p, q \in B : p < q => GetNextEntry(h, p) <= q
        /\ \A p \in (B \cup {Words}) \ {1} : \E q \in B : GetNextEntry(h, q) = p
    BY <1>3 DEF Tiled
  <2>2. C \subseteq 1..Words - 1 /\ 1 \in C
    BY <1>6, <1>16, <2>1
  <2>3. ASSUME NEW p \in C PROVE BlockSize(g, p) >= 1 /\ GetNextEntry(g, p) \in C \cup {Words}
    <3>1. CASE p = o
      BY <1>13, <1>16, <3>1
    <3>2. CASE p = x
      BY <1>4, <1>13, <1>16, <2>1, <3>2
    <3>3. CASE p \in B /\ p # o
      <4>1. BlockSize(h, p) >= 1 /\ GetNextEntry(h, p) \in B \cup {Words}
        BY <3>3, BlockIs
      <4>2. QED
        BY <1>14, <1>16, <3>3, <4>1
    <3>4. QED
      BY <1>16, <2>3, <3>1, <3>2, <3>3
  <2>4. ASSUME NEW p \in C, NEW q \in C, p < q PROVE GetNextEntry(g, p) <= q
    <3>0. p \in 1..Words /\ q \in 1..Words /\ x \in Int /\ o \in Int /\ o < x
      BY <1>5, <1>6, <1>c, <2>2
    <3>1. CASE p = x
      <4>1. q \in B /\ o < q
        BY <1>16, <2>4, <3>0, <3>1
      <4>2. GetNextEntry(h, o) <= q
        BY <1>4, <2>1, <4>1
      <4>3. QED
        BY <1>13, <3>1, <4>2
    <3>2. CASE p = o
      <4>1. CASE q = x
        BY <1>13, <3>0, <3>2, <4>1
      <4>2. CASE q # x
        <5>1. q \in B
          BY <1>16, <4>2
        <5>2. GetNextEntry(h, o) <= q
          BY <1>4, <2>1, <2>4, <3>2, <5>1
        <5>3. x < GetNextEntry(h, o)
          BY <1>5, <1>c
        <5>4. GetNextEntry(h, o) \in Int
          BY <1>c
        <5>5. x <= q
          BY <3>0, <5>2, <5>3, <5>4
        <5>6. QED
          BY <1>13, <3>2, <5>5
      <4>3. QED
        BY <4>1, <4>2
    <3>3. CASE p \in B /\ p # o
      <4>1. CASE q = x
        <5>1. p < o
          <6>1. ASSUME o < p PROVE FALSE
            <7>1. GetNextEntry(h, o) <= p
              BY <1>4, <2>1, <3>3, <6>1
            <7>2. QED
              BY <1>5, <1>c, <2>4, <3>0, <4>1, <7>1
          <6>2. QED
            BY <3>0, <3>3, <6>1
        <5>2. GetNextEntry(h, p) <= o
          BY <1>4, <2>1, <3>3, <5>1
        <5>3. GetNextEntry(h, p) \in Int
          <6>1. p \in 1..Words /\ BlockSize(h, p) \in Nat /\ GetNextEntry(h, p) = p + 1 + BlockSize(h, p)
            BY <3>3, BlockIs
          <6>2. QED
            BY <6>1
        <5>4. QED
          BY <1>14, <3>0, <3>3, <4>1, <5>2, <5>3
      <4>2. CASE q # x
        <5>1. q \in B
          BY <1>16, <4>2
        <5>2. QED
          BY <1>14, <2>1, <2>4, <3>3, <5>1
      <4>3. QED
        BY <4>1, <4>2
    <3>4. QED
      BY <1>16, <3>1, <3>2, <3>3
  <2>5. ASSUME NEW p \in (C \cup {Words}) \ {1} PROVE \E q \in C : GetNextEntry(g, q) = p
    <3>1. CASE p = x
      BY <1>4, <1>13, <1>16, <3>1
    <3>2. CASE p # x
      <4>1. PICK q \in B : GetNextEntry(h, q) = p
        BY <1>16, <2>1, <2>5, <3>2
      <4>2. CASE q = o
        BY <1>13, <1>16, <4>1, <4>2
      <4>3. CASE q # o
        BY <1>14, <1>16, <4>1, <4>3
      <4>4. QED
        BY <4>2, <4>3
    <3>3. QED
      BY <3>1, <3>2
  <2>6. QED
    BY <1>15, <2>2, <2>3, <2>4, <2>5 DEF Tiled
<1>18. Listed(g, C, L)
  <2>1. L \in Seq(C)
    BY <1>3, <1>16
  <2>2. g.firstFree = Link(L, 0)
    BY <1>3, <1>9, <1>10 DEF Chained
  <2>3. ASSUME NEW k \in DOMAIN L PROVE g.mem[L[k] + 1] = Link(L, k)
    <3>1. PICK p : p = L[k]
      OBVIOUS
    <3>2. p \in B
      BY <1>b, <3>1
    <3>a. p + 1 \in 1..Words /\ p + 1 \notin B /\ p + 1 \in p..p + BlockSize(h, p)
      BY <3>2, BlockIs
    <3>3. p + 1 \in 1..Words /\ p + 1 # o
      BY <1>4, <3>a
    <3>4. p + 1 # x
      <4>1. ASSUME p + 1 = x PROVE FALSE
        <5>1. x \in p..p + BlockSize(h, p)
          BY <3>a, <4>1
        <5>2. p = o
          BY <1>6, <3>2, <5>1
        <5>3. QED
          BY <1>11, <4>1, <5>2
      <4>2. QED
        BY <4>1
    <3>5. g.mem[p + 1] = h.mem[p + 1]
      BY <1>12, <3>3, <3>4
    <3>6. QED
      BY <1>3, <3>1, <3>5 DEF Chained
  <2>4. {L[k] : k \in DOMAIN L} = {p \in C : IsFree(g, p)}
    BY <1>4, <1>13, <1>14, <1>16, <1>a
  <2>5. QED
    BY <1>3, <2>1, <2>2, <2>3, <2>4 DEF Listed, Chained
<1>19. Keeps(h, g, Used(h, B))
  <2>1. ASSUME NEW w \in 1..Words, g.mem[w] # h.mem[w]
        PROVE  \E p \in B : IsFree(h, p) /\ w \in p..p + BlockSize(h, p)
    <3>1. w = o \/ w = x
      BY <1>12, <2>1
    <3>2. o \in o..o + BlockSize(h, o) /\ x \in o..o + BlockSize(h, o)
      BY <1>5, <1>c
    <3>3. QED
      BY <1>4, <3>1, <3>2
  <2>2. QED
    BY <1>3, <2>1, FreeWords
<1>20. Used(g, C) = Used(h, B) \cup {x} /\ x \notin Used(h, B)
  BY <1>4, <1>6, <1>13, <1>14, <1>16 DEF Used
<1>21. QED
  BY <1>1, <1>2, <1>6, <1>10, <1>13, <1>16, <1>17, <1>18, <1>19, <1>20 DEF Sound

(* Taking a free block as it is. *)
LEMMA TakeIs ==
    ASSUME NEW h, NEW B, NEW L, Sound(h, B, L), NEW i \in DOMAIN L,
           NEW g, g = [Unlink(h, L[i]) EXCEPT !.mem[L[i]] = BlockSize(h, L[i])]
    PROVE  /\ Sound(g, B, Skip(L, i)) /\ Keeps(h, g, Used(h, B))
           /\ L[i] \in 1..Words - 1 /\ L[i] \notin Used(h, B)
           /\ Used(g, B) = Used(h, B) \cup {L[i]}
           /\ BlockSize(g, L[i]) = BlockSize(h, L[i])
<1>1. PICK o : o = L[i]
  OBVIOUS
<1>2. PICK W : W = Skip(L, i)
  OBVIOUS
<1>3. h \in Heap /\ Tiled(h, B) /\ L \in Seq(B) /\ Distinct(L) /\ Chained(h, L)
  BY ListOf
<1>a. {L[k] : k \in DOMAIN L} = {p \in B : IsFree(h, p)}
  BY ListOf
<1>b. \A k \in DOMAIN L : L[k] \in B /\ IsFree(h, L[k])
  BY ListOf
<1>4. o \in B /\ IsFree(h, o)
  BY <1>1, <1>b
<1>c. /\ o \in 1..Words - 1 /\ o \in 1..Words /\ BlockSize(h, o) \in Nat /\ BlockSize(h, o) >= 1
      /\ o \in o..o + BlockSize(h, o)
  BY <1>4, BlockIs
<1>5. PICK size \in Nat : size = BlockSize(h, o) /\ size >= 1
  BY <1>c
<1>6. PICK u : u = Unlink(h, o)
  OBVIOUS
<1>7. /\ u \in Heap /\ Chained(u, W)
      /\ \A w \in 1..Words : u.mem[w] = h.mem[w] \/ \E k \in DOMAIN L : w = L[k] + 1
  BY <1>1, <1>2, <1>6, UnlinkIs
<1>8. /\ g \in Heap /\ g.firstFree = u.firstFree /\ g.mem[o] = size
      /\ \A w \in 1..Words : w # o => g.mem[w] = u.mem[w]
  <2>1. g = [u EXCEPT !.mem[o] = size]
    BY <1>1, <1>5, <1>6
  <2>2. u \in Heap /\ o \in 1..Words /\ size \in Int
    BY <1>7, <1>c
  <2>3. QED
    BY ONLY <2>1, <2>2, PutIs
<1>9. \A w \in 1..Words : g.mem[w] = h.mem[w] \/ w = o \/ \E k \in DOMAIN L : w = L[k] + 1
  BY <1>7, <1>8
<1>10. \A p \in B : p # o => g.mem[p] = h.mem[p]
  <2>1. SUFFICES ASSUME NEW p \in B, p # o PROVE g.mem[p] = h.mem[p]
    OBVIOUS
  <2>a. \A k \in DOMAIN L : L[k] + 1 \notin B
    BY <1>b, BlockIs
  <2>2. p \in 1..Words /\ \A k \in DOMAIN L : p # L[k] + 1
    BY <2>1, <2>a, BlockIs
  <2>3. QED
    BY <1>9, <2>1, <2>2
<1>11. g.mem[Words] = 0
  <2>1. h.mem[Words] = 0 /\ Words \in 1..Words /\ Words # o
    BY <1>3, <1>c DEF Tiled
  <2>2. \A k \in DOMAIN L : L[k] + 1 \in 1..Words - 1
    BY <1>b, BlockIs
  <2>3. \A k \in DOMAIN L : Words # L[k] + 1
    BY <2>2
  <2>4. QED
    BY <1>9, <2>1, <2>3
<1>12. \A p \in B : /\ BlockSize(g, p) = BlockSize(h, p) /\ GetNextEntry(g, p) = GetNextEntry(h, p)
                    /\ IsFree(g, p) <=> IsFree(h, p) /\ p # o
  <2>1. AbsOf(size) = size /\ ~(size < 0)
    BY DEF AbsOf
  <2>2. BlockSize(g, o) = BlockSize(h, o) /\ ~IsFree(g, o)
    BY <1>5, <1>8, <2>1 DEF BlockSize, IsFree
  <2>3. QED
    BY <1>10, <2>2 DEF BlockSize, GetNextEntry, IsFree
<1>13. Tiled(g, B)
  BY <1>3, <1>11, <1>12 DEF Tiled
<1>14. /\ W \in Seq(B \ {o}) /\ Distinct(W)
       /\ \A k \in DOMAIN W : \E m \in DOMAIN L : m # i /\ W[k] = L[m]
       /\ \A m \in DOMAIN L : m # i => \E k \in DOMAIN W : W[k] = L[m]
  <2>1. /\ Skip(L, i) \in Seq(B \ {L[i]}) /\ Distinct(Skip(L, i))
        /\ \A k \in DOMAIN Skip(L, i) : \E m \in DOMAIN L : m # i /\ Skip(L, i)[k] = L[m]
        /\ \A m \in DOMAIN L : m # i => \E k \in DOMAIN Skip(L, i) : Skip(L, i)[k] = L[m]
    <3>1. L \in Seq(B) /\ Distinct(L) /\ i \in DOMAIN L
      BY <1>3
    <3>2. QED
      BY ONLY <3>1, SkipIs
  <2>2. QED
    BY ONLY <1>1, <1>2, <2>1
<1>15. Listed(g, B, W)
  <2>1. W \in Seq(B) /\ Distinct(W)
    <3>1. W \in Seq(B \ {o})
      BY <1>14
    <3>2. W \in Seq(B)
      BY ONLY <3>1
    <3>3. QED
      BY <1>14, <3>2
  <2>2. Chained(g, W)
    <3>1. u.firstFree = Link(W, 0) /\ \A k \in DOMAIN W : u.mem[W[k] + 1] = Link(W, k)
      BY <1>7 DEF Chained
    <3>2. \A k \in DOMAIN W : W[k] + 1 \in 1..Words /\ W[k] + 1 # o
      <4>1. SUFFICES ASSUME NEW k \in DOMAIN W PROVE W[k] + 1 \in 1..Words /\ W[k] + 1 # o
        OBVIOUS
      <4>2. W[k] \in B
        BY <1>14, <1>b
      <4>3. W[k] + 1 \in 1..Words /\ W[k] + 1 \notin B
        BY <4>2, BlockIs
      <4>4. QED
        BY <1>4, <4>3
    <3>3. QED
      BY <1>8, <3>1, <3>2 DEF Chained
  <2>3. ASSUME NEW k \in DOMAIN W PROVE W[k] \in B /\ IsFree(g, W[k])
    <3>1. PICK m \in DOMAIN L : m # i /\ W[k] = L[m]
      BY <1>14
    <3>2. L[m] # o
      BY <1>1, <1>3, <3>1 DEF Distinct
    <3>3. QED
      BY <1>12, <1>b, <3>1, <3>2
  <2>4. ASSUME NEW p \in B, IsFree(g, p) PROVE \E k \in DOMAIN W : W[k] = p
    <3>1. p # o /\ IsFree(h, p)
      BY <1>12, <2>4
    <3>2. PICK m \in DOMAIN L : L[m] = p
      BY <1>a, <2>4, <3>1
    <3>3. QED
      BY <1>1, <1>14, <3>1, <3>2
  <2>5. {W[k] : k \in DOMAIN W} = {p \in B : IsFree(g, p)}
    BY <2>3, <2>4
  <2>6. QED
    BY <2>1, <2>2, <2>5 DEF Listed
<1>16. Keeps(h, g, Used(h, B))
  <2>1. ASSUME NEW w \in 1..Words, g.mem[w] # h.mem[w]
        PROVE  \E p \in B : IsFree(h, p) /\ w \in p..p + BlockSize(h, p)
    <3>1. CASE w = o
      BY <1>4, <1>c, <3>1
    <3>2. CASE \E k \in DOMAIN L : w = L[k] + 1
      <4>1. PICK k \in DOMAIN L : w = L[k] + 1
        BY <3>2
      <4>2. PICK p : p = L[k]
        OBVIOUS
      <4>3. p \in B /\ IsFree(h, p)
        BY <1>b, <4>2
      <4>4. p + 1 \in p..p + BlockSize(h, p)
        BY <4>3, BlockIs
      <4>5. QED
        BY <4>1, <4>2, <4>3, <4>4
    <3>3. QED
      BY <1>9, <2>1, <3>1, <3>2
  <2>2. QED
    BY <1>3, <2>1, FreeWords
<1>17. Used(g, B) = Used(h, B) \cup {o} /\ o \notin Used(h, B)
  BY <1>4, <1>12 DEF Used
<1>18. o \in 1..Words - 1 /\ BlockSize(g, o) = BlockSize(h, o)
  BY <1>4, <1>12, <1>c
<1>19. QED
  BY <1>1, <1>2, <1>8, <1>13, <1>15, <1>16, <1>17, <1>18 DEF Sound

(* AllocEntry finds a block that is large enough and leaves the others in  *)
(* use as they are; without any, it finds one for all that fits at all.    *)
LEMMA AllocIs ==
    ASSUME NEW h, NEW B, NEW L, Sound(h, B, L), NEW n \in 1..Words - 2,
           NEW a, a = AllocEntry(h, n)
    PROVE  \E C, M : /\ Sound(a.heap, C, M) /\ Keeps(h, a.heap, Used(h, B))
                     /\ \/ /\ a.offset = NoBlock /\ Used(a.heap, C) = Used(h, B)
                           /\ Used(h, B) # {}
                        \/ /\ a.offset \in 1..Words - 1 /\ a.offset \notin Used(h, B)
                           /\ Used(a.heap, C) = Used(h, B) \cup {a.offset}
                           /\ BlockSize(a.heap, a.offset) >= n
<1>1. PICK g : g = CombinedFor(h, n)
  OBVIOUS
<1>2. PICK C, M : Sound(g, C, M) /\ Same(h, B, g, C) /\ Done(g, n)
  BY <1>1, CombinedForIs
<1>3. Used(g, C) = Used(h, B) /\ Keeps(h, g, Used(h, B))
  BY <1>2 DEF Same
<1>4. CASE Fitting(g, n) = {}
  <2>1. a = [offset |-> NoBlock, heap |-> g]
    BY <1>1, <1>4 DEF AllocEntry, TakeFitting
  <2>2. FollowedByFree(g) = {}
    BY <1>2, <1>4 DEF Done
  <2>3. ASSUME Used(g, C) = {} PROVE FALSE
    <3>1. \A o \in C : IsFree(g, o)
      BY <2>3 DEF Used
    <3>2. 1 \in C /\ Listed(g, C, M)
      BY <1>2 DEF Sound, Tiled
    <3>3. PICK k \in DOMAIN M : M[k] = 1
      BY <3>1, <3>2, ListAt
    <3>4. ~IsFree(g, GetNextEntry(g, 1))
      BY <1>2, <2>2, <3>3, PlacesAre
    <3>5. GetNextEntry(g, 1) \in C \cup {Words} /\ GetNextEntry(g, 1) = 1 + 1 + BlockSize(g, 1)
          /\ BlockSize(g, 1) \in Nat
      BY <1>2, <3>2, BlockIs
    <3>6. BlockSize(g, 1) = Words - 2
      BY <3>1, <3>4, <3>5
    <3>7. BlockSize(g, M[k]) >= n
      BY <3>3, <3>6
    <3>8. k \in Fitting(g, n)
      BY <1>2, <3>7, PlacesAre
    <3>9. QED
      BY <1>4, <3>8
  <2>4. a.offset = NoBlock /\ a.heap = g
    BY <2>1
  <2>5. QED
    BY <1>2, <1>3, <2>3, <2>4
<1>5. CASE Fitting(g, n) # {}
  <2>1. PICK o : o = FirstOf(g, Fitting(g, n))
    OBVIOUS
  <2>a. a = TakeFrom(g, o, n)
    BY <1>1, <1>5, <2>1 DEF AllocEntry, TakeFitting
  <2>2. PICK i \in DOMAIN M : o = M[i] /\ BlockSize(g, M[i]) >= n
    <3>1. Fitting(g, n) = {k \in DOMAIN M : BlockSize(g, M[k]) >= n}
      BY <1>2, PlacesAre
    <3>2. Fitting(g, n) \in SUBSET DOMAIN M
      BY <3>1
    <3>3. PICK i \in Fitting(g, n) : FirstOf(g, Fitting(g, n)) = M[i]
      BY <1>2, <1>5, <3>2, PlacesAre
    <3>4. QED
      BY <2>1, <3>1, <3>3
  <2>3. o \in C
    BY <1>2, <2>2, ListOf
  <2>4. BlockSize(g, o) \in Nat /\ o \in 1..Words - 1
    BY <1>2, <2>3, BlockIs
  <2>5. PICK rest \in Nat : rest = BlockSize(g, o) - n
    BY <2>2, <2>4
  <2>6. CASE rest >= 2
    <3>1. PICK e : e = [SetFree(g, o, rest - Header, g.mem[o + 1]) EXCEPT !.mem[o + rest] = n]
      OBVIOUS
    <3>b. TakeFrom(g, o, n) = [offset |-> o + rest, heap |-> e]
      BY <2>5, <2>6, <3>1 DEF TakeFrom, FreeHeader
    <3>2. a = [offset |-> o + rest, heap |-> e]
      BY <2>a, <3>b
    <3>a. PICK x, D : x = o + rest /\ D = C \cup {x}
      OBVIOUS
    <3>3. /\ Sound(g, C, M) /\ i \in DOMAIN M /\ o = M[i] /\ n \in Nat /\ n >= 1
          /\ rest \in Nat /\ rest = BlockSize(g, o) - n /\ rest >= 2
          /\ e = [SetFree(g, o, rest - Header, g.mem[o + 1]) EXCEPT !.mem[x] = n]
      BY <1>2, <2>2, <2>5, <2>6, <3>1, <3>a
    <3>4. /\ Sound(e, D, M) /\ Keeps(g, e, Used(g, C))
          /\ x \in 1..Words - 1 /\ x \notin Used(g, C)
          /\ Used(e, D) = Used(g, C) \cup {x} /\ BlockSize(e, x) = n
      BY ONLY <3>3, <3>a, SplitIs
    <3>5. \A p \in Used(h, B) : p \in Int /\ BlockSize(h, p) \in Nat
      BY <1>3, KeptSizes
    <3>6. Keeps(h, e, Used(h, B))
      BY <1>3, <3>4, <3>5, KeepsOn
    <3>7. a.offset = x /\ a.heap = e /\ BlockSize(e, x) >= n
      BY <3>2, <3>4, <3>a
    <3>8. QED
      BY <1>3, <3>4, <3>6, <3>7
  <2>7. CASE ~(rest >= 2)
    <3>1. PICK e : e = [Unlink(g, o) EXCEPT !.mem[o] = BlockSize(g, o)]
      OBVIOUS
    <3>b. TakeFrom(g, o, n) = [offset |-> o, heap |-> e]
      BY <2>5, <2>7, <3>1 DEF TakeFrom, FreeHeader
    <3>2. a = [offset |-> o, heap |-> e]
      BY <2>a, <3>b
    <3>3. /\ Sound(g, C, M) /\ i \in DOMAIN M
          /\ e = [Unlink(g, M[i]) EXCEPT !.mem[M[i]] = BlockSize(g, M[i])]
      BY <1>2, <2>2, <3>1
    <3>4. /\ Sound(e, C, Skip(M, i)) /\ Keeps(g, e, Used(g, C))
          /\ M[i] \in 1..Words - 1 /\ M[i] \notin Used(g, C)
          /\ Used(e, C) = Used(g, C) \cup {M[i]}
          /\ BlockSize(e, M[i]) = BlockSize(g, M[i])
      BY ONLY <3>3, TakeIs
    <3>5. \A p \in Used(h, B) : p \in Int /\ BlockSize(h, p) \in Nat
      BY <1>3, KeptSizes
    <3>6. Keeps(h, e, Used(h, B))
      BY <1>3, <3>4, <3>5, KeepsOn
    <3>7. a.offset = M[i] /\ a.heap = e
      BY <2>2, <3>2
    <3>8. QED
      BY <1>3, <2>2, <3>4, <3>6, <3>7
  <2>8. QED
    BY <2>6, <2>7
<1>6. QED
  BY <1>4, <1>5

(* Writing a message into a block. *)
OnlyFilled(h, B, L, o, n, m, g) ==
    /\ Sound(g, B, L) /\ Used(g, B) = Used(h, B) /\ Keeps(h, g, Used(h, B) \ {o})
    /\ BlockSize(g, o) = BlockSize(h, o) /\ \A w \in o + 1..o + n : g.mem[w] = m

LEMMA FillIs ==
    ASSUME NEW h, NEW B, NEW L, Sound(h, B, L), NEW o \in Used(h, B), NEW n, n \in Nat,
           n <= BlockSize(h, o), NEW m, m \in Int, NEW g, g = Fill(h, o, n, m)
    PROVE  OnlyFilled(h, B, L, o, n, m, g)
<1>1. h \in Heap /\ Tiled(h, B) /\ L \in Seq(B) /\ Distinct(L) /\ Chained(h, L)
  BY ListOf
<1>2. {L[k] : k \in DOMAIN L} = {p \in B : IsFree(h, p)}
  BY ListOf
<1>3. o \in B /\ ~IsFree(h, o)
  BY DEF Used
<1>4. o \in 1..Words - 1 /\ BlockSize(h, o) \in Nat
  BY <1>3, BlockIs
<1>5. \A w \in o + 1..o + n : w \in o + 1..o + BlockSize(h, o)
  BY <1>4
<1>6. ASSUME NEW w \in o + 1..o + n
      PROVE  /\ w \in 1..Words - 1 /\ w \notin B
             /\ \A p \in B : w \in p..p + BlockSize(h, p) => p = o
  <2>1. w \in o + 1..o + BlockSize(h, o)
    BY <1>5
  <2>2. QED
    BY <1>1, <1>3, <2>1, Inside
<1>7. PICK f : f = [w \in 1..Words |-> IF w \in o + 1..o + n THEN m ELSE h.mem[w]]
  OBVIOUS
<1>8. g = [h EXCEPT !.mem = f]
  BY <1>7 DEF Fill
<1>9. h \in [mem : [1..Words -> Int], firstFree : Int] /\ f \in [1..Words -> Int]
  <2>1. h \in [mem : [1..Words -> Int], firstFree : Int]
    BY <1>1 DEF Heap
  <2>2. QED
    BY <1>7, <2>1
<1>10. g \in Heap /\ g.mem = f /\ g.firstFree = h.firstFree
  BY <1>8, <1>9 DEF Heap
<1>11. \A w \in o + 1..o + n : g.mem[w] = m
  <2>1. \A w \in o + 1..o + n : w \in 1..Words
    BY <1>6
  <2>2. QED
    BY <1>7, <1>10, <2>1
<1>12. \A w \in 1..Words : w \notin o + 1..o + n => g.mem[w] = h.mem[w]
  BY <1>7, <1>10
<1>13. \A p \in B : g.mem[p] = h.mem[p]
  <2>1. SUFFICES ASSUME NEW p \in B PROVE g.mem[p] = h.mem[p]
    OBVIOUS
  <2>2. p \in 1..Words
    BY BlockIs
  <2>3. p \notin o + 1..o + n
    BY <1>6
  <2>4. QED
    BY <1>12, <2>2, <2>3
<1>14. g.mem[Words] = h.mem[Words]
  <2>1. Words \in 1..Words
    OBVIOUS
  <2>2. Words \notin o + 1..o + n
    BY <1>6
  <2>3. QED
    BY <1>12, <2>1, <2>2
<1>15. Tiled(g, B) /\ \A p \in B : BlockSize(g, p) = BlockSize(h, p) /\ (IsFree(g, p) <=> IsFree(h, p))
  BY <1>1, <1>10, <1>13, <1>14, SameSizes
<1>16. Chained(g, L)
  <2>1. ASSUME NEW k \in DOMAIN L PROVE g.mem[L[k] + 1] = Link(L, k)
    <3>1. PICK p : p = L[k]
      OBVIOUS
    <3>2. p \in B /\ IsFree(h, p)
      BY <3>1, ListOf
    <3>3. p + 1 \in 1..Words /\ p + 1 \in p..p + BlockSize(h, p)
      BY <3>2, BlockIs
    <3>4. p + 1 \notin o + 1..o + n
      BY <1>3, <1>6, <3>2, <3>3
    <3>5. g.mem[p + 1] = h.mem[p + 1]
      BY <1>12, <3>3, <3>4
    <3>6. QED
      BY <1>1, <3>1, <3>5 DEF Chained
  <2>2. QED
    BY <1>1, <1>10, <2>1 DEF Chained
<1>17. Listed(g, B, L)
  <2>1. {L[k] : k \in DOMAIN L} = {p \in B : IsFree(g, p)}
    BY <1>2, <1>15
  <2>2. QED
    BY <1>1, <1>16, <2>1 DEF Listed
<1>18. Used(g, B) = Used(h, B)
  BY <1>15 DEF Used
<1>19. Keeps(h, g, Used(h, B) \ {o})
  <2>1. SUFFICES ASSUME NEW p \in Used(h, B) \ {o}, NEW w \in p..p + BlockSize(h, p)
                 PROVE  g.mem[w] = h.mem[w]
    BY DEF Keeps
  <2>2. p \in B /\ p # o
    BY <2>1 DEF Used
  <2>3. CASE w = p
    BY <1>13, <2>2, <2>3
  <2>4. CASE w # p
    <3>1. p \in 1..Words - 1 /\ BlockSize(h, p) \in Nat
      BY <2>2, BlockIs
    <3>2. w \in p + 1..p + BlockSize(h, p)
      BY <2>1, <2>4, <3>1
    <3>3. w \in 1..Words - 1
      BY <1>1, <2>2, <3>2, Inside
    <3>4. w \notin o + 1..o + n
      BY <1>6, <2>1, <2>2
    <3>5. QED
      BY <1>12, <3>3, <3>4
  <2>5. QED
    BY <2>3, <2>4
<1>20. BlockSize(g, o) = BlockSize(h, o)
  BY <1>3, <1>15
<1>21. QED
  BY <1>10, <1>11, <1>15, <1>17, <1>18, <1>19, <1>20 DEF Sound, OnlyFilled

(* What Create sets up: one free block. *)
LEMMA NewHeapIs ==
    Sound(NewHeap, {1}, <<1>>) /\ Used(NewHeap, {1}) = {}
<1>1. PICK e : e = [mem |-> [o \in 1..Words |-> 0], firstFree |-> 1]
  OBVIOUS
<1>2. e \in Heap /\ e.firstFree = 1 /\ \A w \in 1..Words : e.mem[w] = 0
  BY <1>1 DEF Heap
<1>3. PICK size \in Nat : size = Words - 2 /\ size >= 1
  OBVIOUS
<1>4. PICK g : g = SetFree(e, 1, size, 0)
  OBVIOUS
<1>5. g = NewHeap
  BY <1>1, <1>3, <1>4 DEF NewHeap, Header, NoBlock
<1>6. /\ g \in Heap /\ g.firstFree = 1 /\ g.mem[1] = -size /\ g.mem[1 + 1] = 0
      /\ \A w \in 1..Words : w \notin {1, 1 + 1} => g.mem[w] = 0
  <2>1. 1 \in 1..Words - 1 /\ size \in Int /\ 0 \in Int /\ e \in Heap
    BY <1>2
  <2>2. /\ g \in Heap /\ g.firstFree = e.firstFree
        /\ g.mem[1] = -size /\ g.mem[1 + 1] = 0
        /\ \A w \in 1..Words : w \notin {1, 1 + 1} => g.mem[w] = e.mem[w]
    BY ONLY <1>4, <2>1, SetFreeIs
  <2>3. QED
    BY <1>2, <2>2
<1>7. BlockSize(g, 1) = size /\ IsFree(g, 1) /\ GetNextEntry(g, 1) = Words
  <2>1. AbsOf(-size) = size /\ -size < 0
    BY <1>3 DEF AbsOf
  <2>2. BlockSize(g, 1) = size /\ IsFree(g, 1)
    BY <1>6, <2>1 DEF BlockSize, IsFree
  <2>3. QED
    BY <1>3, <2>2 DEF GetNextEntry, Header
<1>8. g.mem[Words] = 0
  BY <1>6
<1>9. PICK B : B = {1}
  OBVIOUS
<1>10. Tiled(g, B)
  <2>1. B \subseteq 1..Words - 1 /\ 1 \in B
    BY <1>9
  <2>2. \A o \in B : BlockSize(g, o) >= 1 /\ GetNextEntry(g, o) \in B \cup {Words}
    BY <1>3, <1>7, <1>9
  <2>3. \A o, p \in B : o < p => GetNextEntry(g, o) <= p
    BY <1>9
  <2>4. \A p \in (B \cup {Words}) \ {1} : \E o \in B : GetNextEntry(g, o) = p
    BY <1>7, <1>9
  <2>5. QED
    BY <1>8, <2>1, <2>2, <2>3, <2>4 DEF Tiled
<1>11. PICK L : L = <<1>>
  OBVIOUS
<1>12. L \in Seq(B) /\ Len(L) = 1 /\ DOMAIN L = 1..1 /\ L[1] = 1
  BY <1>9, <1>11
<1>13. Distinct(L)
  BY <1>12 DEF Distinct
<1>14. Chained(g, L)
  BY <1>6, <1>12 DEF Chained, Link, NoBlock
<1>15. {L[k] : k \in DOMAIN L} = {o \in B : IsFree(g, o)}
  BY <1>7, <1>9, <1>12
<1>16. Used(g, B) = {}
  BY <1>7, <1>9 DEF Used
<1>17. QED
  BY <1>5, <1>6, <1>9, <1>10, <1>11, <1>12, <1>13, <1>14, <1>15, <1>16 DEF Sound, Listed

LEMMA WellFormedIs ==
    ASSUME NEW h, NEW B, NEW L, Sound(h, B, L)
    PROVE  HeapWellFormed(h) /\ {o \in Blocks(h) \ {Words} : ~IsFree(h, o)} = Used(h, B)
<1>1. /\ h \in Heap /\ Tiled(h, B) /\ Distinct(L)
      /\ {L[k] : k \in DOMAIN L} = {o \in B : IsFree(h, o)}
  BY ListOf
<1>2. FreeList(h) = L
  BY FreeListIs
<1>3. Blocks(h) = B \cup {Words} /\ Words \notin B
  BY <1>1, BlocksAre
<1>4. Blocks(h) \ {Words} = B /\ Words \in Blocks(h)
  BY <1>3
<1>5. h.mem[Words] = 0 /\ \A o \in B : BlockSize(h, o) >= 1
  BY <1>1 DEF Tiled
<1>6. \A j, k \in DOMAIN L : L[j] = L[k] => j = k
  BY <1>1 DEF Distinct
<1>7. HeapWellFormed(h)
  BY <1>1, <1>2, <1>4, <1>5, <1>6 DEF HeapWellFormed
<1>8. QED
  BY <1>4, <1>7 DEF Used

-----------------------------------------------------------------------------
(* The messages in the blocks.  r are the offsets in the ring, oldest      *)
(* first, and lens the lengths of the messages sent.                       *)

Text(h, lens, o) ==
    LET m == h.mem[o + 1]
    IN  IF m \in DOMAIN lens /\ BlockSize(h, o) >= lens[m]
           /\ \A w \in 1..lens[m] : h.mem[o + w] = m
        THEN m ELSE Garbage
Texts(h, r, lens) == [i \in DOMAIN r |-> Text(h, lens, r[i])]

(* A message was written into block o, and all of it is there. *)
Sent(h, lens, o) ==
    \E m \in DOMAIN lens : BlockSize(h, o) >= lens[m] /\ \A w \in 1..lens[m] : h.mem[o + w] = m

(* The ring has each block in use once, and a message in each of them. *)
Filed(h, r, lens) ==
    \E B, L : /\ Sound(h, B, L) /\ r \in Seq(Int) /\ Distinct(r)
              /\ {r[i] : i \in DOMAIN r} = Used(h, B)
              /\ \A i \in DOMAIN r : Sent(h, lens, r[i])

LEMMA MessageLength ==
    ASSUME NEW lens \in Seq(Lengths), NEW m \in DOMAIN lens
    PROVE  /\ lens[m] \in 1..Words - 2 /\ lens[m] \in Nat /\ lens[m] >= 1
           /\ m \in 1..Len(lens) /\ m \in Int
<1>1. lens[m] \in Lengths /\ m \in 1..Len(lens)
  OBVIOUS
<1>2. Lengths \subseteq 1..Words - 2
  <2>1. Words - 2 * Header = Words - 2
    BY DEF Header
  <2>2. QED
    BY <2>1
<1>3. lens[m] \in 1..Words - 2
  BY <1>1, <1>2
<1>4. QED
  BY <1>1, <1>3

LEMMA TextIs ==
    ASSUME NEW lens \in Seq(Lengths), NEW h, NEW o, Sent(h, lens, o)
    PROVE  Text(h, lens, o) = h.mem[o + 1] /\ h.mem[o + 1] \in DOMAIN lens
<1>1. PICK m \in DOMAIN lens : BlockSize(h, o) >= lens[m] /\ \A w \in 1..lens[m] : h.mem[o + w] = m
  BY DEF Sent
<1>2. 1 \in 1..lens[m]
  BY MessageLength
<1>3. h.mem[o + 1] = m
  BY <1>1, <1>2
<1>4. QED
  BY <1>1, <1>3 DEF Text

LEMMA SentKept ==
    ASSUME NEW lens \in Seq(Lengths), NEW h, NEW g, NEW A, Keeps(h, g, A), NEW o \in A, Sent(h, lens, o),
           o \in Int, BlockSize(h, o) \in Nat
    PROVE  Sent(g, lens, o) /\ Text(g, lens, o) = Text(h, lens, o)
<1>1. PICK m \in DOMAIN lens : BlockSize(h, o) >= lens[m] /\ \A w \in 1..lens[m] : h.mem[o + w] = m
  BY DEF Sent
<1>2. lens[m] \in Nat /\ lens[m] >= 1
  BY MessageLength
<1>3. o \in o..o + BlockSize(h, o) /\ \A w \in 1..lens[m] : o + w \in o..o + BlockSize(h, o)
  BY <1>1, <1>2
<1>4. g.mem[o] = h.mem[o] /\ \A w \in 1..lens[m] : g.mem[o + w] = h.mem[o + w]
  BY <1>3 DEF Keeps
<1>5. BlockSize(g, o) = BlockSize(h, o)
  BY <1>4 DEF BlockSize
<1>6. Sent(g, lens, o)
  BY <1>1, <1>4, <1>5 DEF Sent
<1>7. 1 \in 1..lens[m]
  BY <1>2
<1>8. g.mem[o + 1] = h.mem[o + 1]
  BY <1>4, <1>7
<1>9. Text(h, lens, o) = h.mem[o + 1] /\ Text(g, lens, o) = g.mem[o + 1]
  BY <1>6, TextIs
<1>10. QED
  BY <1>6, <1>8, <1>9

(* The texts stay, or come to be those with message m at the end. *)
FiledSame(g, s, k, h, r, l) == Filed(g, s, k) /\ Texts(g, s, k) = Texts(h, r, l)
FiledWith(g, s, l, h, r, m) == Filed(g, s, l) /\ Texts(g, s, l) = Append(Texts(h, r, l), m)

(* Sending another message changes none of those that are there. *)
LEMMA FiledMore ==
    ASSUME NEW lens \in Seq(Lengths), NEW n \in Lengths, NEW h, NEW r, Filed(h, r, lens),
           NEW more, more = Append(lens, n)
    PROVE  FiledSame(h, r, more, h, r, lens)
<1>1. PICK B, L : /\ Sound(h, B, L) /\ r \in Seq(Int) /\ Distinct(r)
                  /\ {r[i] : i \in DOMAIN r} = Used(h, B)
                  /\ \A i \in DOMAIN r : Sent(h, lens, r[i])
  BY DEF Filed
<1>2. more \in Seq(Lengths) /\ \A m \in DOMAIN lens : m \in DOMAIN more /\ more[m] = lens[m]
  OBVIOUS
<1>3. ASSUME NEW o, Sent(h, lens, o) PROVE Sent(h, more, o) /\ Text(h, more, o) = Text(h, lens, o)
  <2>1. Sent(h, more, o)
    BY <1>2, <1>3 DEF Sent
  <2>2. Text(h, more, o) = h.mem[o + 1]
    BY <1>2, <2>1, TextIs
  <2>3. Text(h, lens, o) = h.mem[o + 1]
    BY <1>3, TextIs
  <2>4. QED
    BY <2>1, <2>2, <2>3
<1>4. Filed(h, r, more)
  BY <1>1, <1>3 DEF Filed
<1>5. Texts(h, r, more) = Texts(h, r, lens)
  BY <1>1, <1>3 DEF Texts
<1>6. QED
  BY <1>4, <1>5 DEF FiledSame

LEMMA FiledNew ==
    ASSUME NEW lens
    PROVE  Filed(NewHeap, <<>>, lens)
<1>1. Sound(NewHeap, {1}, <<1>>) /\ Used(NewHeap, {1}) = {}
  BY NewHeapIs
<1>2. PICK r : r = <<>>
  OBVIOUS
<1>3. r \in Seq(Int) /\ DOMAIN r = {}
  BY <1>2
<1>4. Distinct(r) /\ {r[i] : i \in DOMAIN r} = Used(NewHeap, {1})
  BY <1>1, <1>3 DEF Distinct
<1>5. \A i \in DOMAIN r : Sent(NewHeap, lens, r[i])
  BY <1>3
<1>6. QED
  BY <1>1, <1>2, <1>3, <1>4, <1>5 DEF Filed

(* What stays in use keeps its messages. *)
LEMMA KeptText ==
    ASSUME NEW lens \in Seq(Lengths), NEW h, NEW B, NEW L, Sound(h, B, L),
           NEW g, NEW A, A \subseteq Used(h, B), Keeps(h, g, A), NEW o \in A, Sent(h, lens, o)
    PROVE  Sent(g, lens, o) /\ Text(g, lens, o) = Text(h, lens, o)
<1>1. o \in B
  BY DEF Used
<1>2. o \in Int /\ BlockSize(h, o) \in Nat
  <2>1. o \in 1..Words /\ BlockSize(h, o) \in Nat
    BY <1>1, BlockIs
  <2>2. QED
    BY <2>1
<1>3. QED
  BY <1>2, SentKept

(* Enqueue finds no room. *)
LEMMA FiledFull ==
    ASSUME NEW lens \in Seq(Lengths), NEW h, NEW r, Filed(h, r, lens), NEW m \in DOMAIN lens,
           NEW a, a = AllocEntry(h, lens[m]), a.offset = NoBlock
    PROVE  FiledSame(a.heap, r, lens, h, r, lens)
<1>1. PICK B, L : /\ Sound(h, B, L) /\ r \in Seq(Int) /\ Distinct(r)
                  /\ {r[i] : i \in DOMAIN r} = Used(h, B)
                  /\ \A i \in DOMAIN r : Sent(h, lens, r[i])
  BY DEF Filed
<1>2. PICK n \in 1..Words - 2 : n = lens[m]
  BY MessageLength
<1>3. a = AllocEntry(h, n)
  BY <1>2
<1>4. PICK C, M : /\ Sound(a.heap, C, M) /\ Keeps(h, a.heap, Used(h, B))
                  /\ Used(a.heap, C) = Used(h, B)
  <2>1. PICK C, M : /\ Sound(a.heap, C, M) /\ Keeps(h, a.heap, Used(h, B))
                    /\ \/ /\ a.offset = NoBlock /\ Used(a.heap, C) = Used(h, B)
                          /\ Used(h, B) # {}
                       \/ /\ a.offset \in 1..Words - 1 /\ a.offset \notin Used(h, B)
                          /\ Used(a.heap, C) = Used(h, B) \cup {a.offset}
                          /\ BlockSize(a.heap, a.offset) >= n
    <3>1. Sound(h, B, L)
      BY <1>1
    <3>2. QED
      BY ONLY <1>3, <3>1, AllocIs
  <2>2. a.offset \notin 1..Words - 1
    BY DEF NoBlock
  <2>3. QED
    BY <2>1, <2>2
<1>5. PICK g : g = a.heap
  OBVIOUS
<1>6. \A i \in DOMAIN r : Sent(g, lens, r[i]) /\ Text(g, lens, r[i]) = Text(h, lens, r[i])
  <2>1. SUFFICES ASSUME NEW i \in DOMAIN r
                 PROVE  Sent(g, lens, r[i]) /\ Text(g, lens, r[i]) = Text(h, lens, r[i])
    OBVIOUS
  <2>2. PICK o : o = r[i]
    OBVIOUS
  <2>3. o \in Used(h, B) /\ Sent(h, lens, o) /\ Keeps(h, g, Used(h, B))
    BY <1>1, <1>4, <1>5, <2>2
  <2>4. QED
    BY <1>1, <2>2, <2>3, KeptText
<1>7. Filed(g, r, lens)
  BY <1>1, <1>4, <1>5, <1>6 DEF Filed
<1>8. Texts(g, r, lens) = Texts(h, r, lens)
  BY <1>6 DEF Texts
<1>9. QED
  BY <1>5, <1>7, <1>8 DEF FiledSame

(* Enqueue puts a message into a block of its own. *)
LEMMA FiledAfter ==
    ASSUME NEW lens \in Seq(Lengths), NEW h, NEW r, Filed(h, r, lens), NEW m \in DOMAIN lens,
           NEW a, a = AllocEntry(h, lens[m]), a.offset # NoBlock,
           NEW g, g = Fill(a.heap, a.offset, lens[m], m), NEW s, s = Append(r, a.offset)
    PROVE  FiledWith(g, s, lens, h, r, m) /\ a.offset \in Int
<1>1. PICK B, L : /\ Sound(h, B, L) /\ r \in Seq(Int) /\ Distinct(r)
                  /\ {r[i] : i \in DOMAIN r} = Used(h, B)
                  /\ \A i \in DOMAIN r : Sent(h, lens, r[i])
  BY DEF Filed
<1>2. PICK n \in 1..Words - 2 : n = lens[m]
  BY MessageLength
<1>3. a = AllocEntry(h, n)
  BY <1>2
<1>a. PICK e, o : e = a.heap /\ o = a.offset
  OBVIOUS
<1>4. PICK C, M : /\ Sound(e, C, M) /\ Keeps(h, e, Used(h, B))
                  /\ o \in 1..Words - 1 /\ o \notin Used(h, B)
                  /\ Used(e, C) = Used(h, B) \cup {o} /\ BlockSize(e, o) >= n
  BY <1>1, <1>3, <1>a, AllocIs
<1>5. /\ Sound(g, C, M) /\ Used(g, C) = Used(h, B) \cup {o} /\ Keeps(e, g, Used(h, B))
      /\ BlockSize(g, o) >= n /\ \A w \in o + 1..o + n : g.mem[w] = m
  <2>1. o \in Used(e, C) /\ n \in Nat /\ n <= BlockSize(e, o) /\ m \in Int /\ g = Fill(e, o, n, m)
    <3>1. o \in Used(e, C) /\ n \in Nat /\ m \in Int /\ g = Fill(e, o, n, m)
      BY <1>2, <1>4, <1>a, MessageLength
    <3>2. o \in C
      BY <3>1 DEF Used
    <3>3. BlockSize(e, o) \in Nat
      BY <1>4, <3>2, BlockIs
    <3>4. QED
      BY <1>4, <3>1, <3>3
  <2>2. /\ Sound(g, C, M) /\ Used(g, C) = Used(e, C) /\ Keeps(e, g, Used(e, C) \ {o})
        /\ BlockSize(g, o) = BlockSize(e, o) /\ \A w \in o + 1..o + n : g.mem[w] = m
    <3>1. Sound(e, C, M)
      BY <1>4
    <3>2. OnlyFilled(e, C, M, o, n, m, g)
      BY ONLY <2>1, <3>1, FillIs
    <3>3. QED
      BY <3>2 DEF OnlyFilled
  <2>3. Used(e, C) \ {o} = Used(h, B)
    BY <1>4
  <2>4. QED
    BY <1>4, <2>2, <2>3
<1>6. Keeps(h, g, Used(h, B))
  <2>1. \A p \in Used(h, B) : p \in Int /\ BlockSize(h, p) \in Nat
    BY <1>1, <1>4, KeptSizes
  <2>2. QED
    BY <1>4, <1>5, <2>1, KeepsOn
<1>7. Sent(g, lens, o) /\ Text(g, lens, o) = m
  <2>1. \A w \in 1..n : o + w \in o + 1..o + n
    BY <1>4
  <2>2. \A w \in 1..n : g.mem[o + w] = m
    BY <1>5, <2>1
  <2>3. Sent(g, lens, o)
    BY <1>2, <1>5, <2>2 DEF Sent
  <2>4. Text(g, lens, o) = g.mem[o + 1] /\ 1 \in 1..n
    BY <2>3, TextIs
  <2>5. QED
    BY <2>2, <2>3, <2>4
<1>8. \A i \in DOMAIN r : /\ r[i] \in Used(h, B)
                          /\ Sent(g, lens, r[i]) /\ Text(g, lens, r[i]) = Text(h, lens, r[i])
  <2>1. SUFFICES ASSUME NEW i \in DOMAIN r
                 PROVE  /\ r[i] \in Used(h, B)
                        /\ Sent(g, lens, r[i]) /\ Text(g, lens, r[i]) = Text(h, lens, r[i])
    OBVIOUS
  <2>2. PICK p : p = r[i]
    OBVIOUS
  <2>3. p \in Used(h, B) /\ Sent(h, lens, p)
    BY <1>1, <2>2
  <2>4. QED
    BY <1>1, <1>6, <2>2, <2>3, KeptText
<1>9. PICK c \in Nat : c = Len(r) /\ DOMAIN r = 1..c
  BY <1>1
<1>10. s \in Seq(Int) /\ DOMAIN s = 1..c + 1 /\ s[c + 1] = o /\ \A i \in 1..c : s[i] = r[i]
  BY <1>1, <1>4, <1>9, <1>a
<1>11. Distinct(s)
  <2>1. SUFFICES ASSUME NEW j \in 1..c + 1, NEW k \in 1..c + 1, s[j] = s[k] PROVE j = k
    BY <1>10 DEF Distinct
  <2>2. \A i \in 1..c : s[i] = r[i] /\ s[i] # o
    BY <1>4, <1>8, <1>9, <1>10
  <2>3. \A x, y \in 1..c : r[x] = r[y] => x = y
    BY <1>1, <1>9 DEF Distinct
  <2>4. (j = c + 1 \/ j \in 1..c) /\ (k = c + 1 \/ k \in 1..c)
    BY <1>9, <2>1
  <2>5. QED
    BY <1>10, <2>1, <2>2, <2>3, <2>4
<1>12. \A i \in 1..c + 1 : i = c + 1 \/ i \in 1..c
  BY <1>9
<1>b. c + 1 \in 1..c + 1 /\ \A i \in 1..c : i \in 1..c + 1 /\ i # c + 1
  BY <1>9
<1>13. {s[i] : i \in DOMAIN s} = Used(g, C)
  <2>1. \A i \in 1..c + 1 : s[i] \in Used(h, B) \cup {o}
    BY <1>8, <1>9, <1>10, <1>12
  <2>2. \A p \in Used(h, B) \cup {o} : \E i \in 1..c + 1 : s[i] = p
    <3>1. SUFFICES ASSUME NEW p \in Used(h, B) \cup {o} PROVE \E i \in 1..c + 1 : s[i] = p
      OBVIOUS
    <3>2. CASE p = o
      BY <1>10, <1>b, <3>2
    <3>3. CASE p \in Used(h, B)
      <4>1. PICK i \in 1..c : r[i] = p
        BY <1>1, <1>9, <3>3
      <4>2. QED
        BY <1>10, <1>b, <4>1
    <3>4. QED
      BY <3>1, <3>2, <3>3
  <2>3. {s[i] : i \in 1..c + 1} = Used(h, B) \cup {o}
    BY ONLY <2>1, <2>2
  <2>4. QED
    BY <1>5, <1>10, <2>3
<1>14. \A i \in DOMAIN s : Sent(g, lens, s[i])
  BY <1>7, <1>8, <1>9, <1>10, <1>12
<1>15. Filed(g, s, lens)
  BY <1>5, <1>10, <1>11, <1>13, <1>14 DEF Filed
<1>16. Texts(g, s, lens) = Append(Texts(h, r, lens), m)
  <2>1. PICK x, y : x = Texts(h, r, lens) /\ y = Texts(g, s, lens)
    OBVIOUS
  <2>2. y = [i \in 1..c + 1 |-> Text(g, lens, s[i])] /\ x = [i \in 1..c |-> Text(h, lens, r[i])]
    BY <1>9, <1>10, <2>1 DEF Texts
  <2>3. \A i \in 1..c : y[i] = x[i]
    BY <1>8, <1>9, <1>10, <1>b, <2>2
  <2>4. y[c + 1] = m
    BY <1>7, <1>10, <1>b, <2>2
  <2>5. Len(x) = c
    BY <1>9, <2>2
  <2>6. Append(x, m) = [i \in 1..c + 1 |-> IF i = c + 1 THEN m ELSE x[i]]
    BY <1>9, <2>2, <2>5
  <2>7. \A i \in 1..c + 1 : y[i] = IF i = c + 1 THEN m ELSE x[i]
    BY <1>12, <2>3, <2>4
  <2>8. y = [i \in 1..c + 1 |-> y[i]]
    BY <2>2
  <2>9. y = Append(x, m)
    BY ONLY <2>6, <2>7, <2>8
  <2>10. QED
    BY <2>1, <2>9
<1>17. QED
  BY <1>4, <1>15, <1>16, <1>a DEF FiledWith

(* Dequeue frees the blocks of the messages that it takes. *)
Rest(r, n) == SubSeq(r, n + 1, Len(r))

LEMMA RestIs ==
    ASSUME NEW S, NEW r \in Seq(S), NEW n \in 0..Len(r)
    PROVE  /\ Rest(r, n) \in Seq(S) /\ Len(Rest(r, n)) = Len(r) - n
           /\ \A i \in DOMAIN Rest(r, n) : i + n \in DOMAIN r /\ i + n > n /\ Rest(r, n)[i] = r[i + n]
           /\ \A i \in DOMAIN r : i > n => i - n \in DOMAIN Rest(r, n) /\ Rest(r, n)[i - n] = r[i]
<1>1. PICK c \in Nat : c = Len(r) /\ DOMAIN r = 1..c /\ n \in 0..c
  OBVIOUS
<1>2. PICK s : s = [i \in 1..c - n |-> r[i + n]]
  OBVIOUS
<1>3. c - n \in Nat /\ \A i \in 1..c - n : i + n \in 1..c /\ i + n > n
  BY <1>1
<1>4. s \in [1..c - n -> S]
  BY <1>1, <1>2, <1>3
<1>5. s \in Seq(S) /\ Len(s) = c - n /\ DOMAIN s = 1..c - n
  <2>1. PICK d \in Nat : d = c - n
    BY <1>3
  <2>2. s \in [1..d -> S]
    BY <1>4, <2>1
  <2>3. s \in Seq(S) /\ Len(s) = d /\ DOMAIN s = 1..d
    BY ONLY <2>2
  <2>4. QED
    BY <2>1, <2>3
<1>6. Rest(r, n) = s
  <2>1. SubSeq(r, n + 1, c) = [i \in 1..(1 + c - (n + 1)) |-> r[i + (n + 1) - 1]]
    BY <1>1
  <2>2. 1 + c - (n + 1) = c - n /\ \A i \in 1..c - n : i + (n + 1) - 1 = i + n
    BY <1>1
  <2>3. SubSeq(r, n + 1, c) = s
    BY <1>2, <2>1, <2>2
  <2>4. QED
    BY <1>1, <2>3 DEF Rest
<1>7. \A i \in 1..c : i > n => i - n \in 1..c - n /\ (i - n) + n = i
  BY <1>1
<1>8. \A i \in 1..c : i > n => i - n \in 1..c - n /\ s[i - n] = r[i]
  BY <1>2, <1>7
<1>9. \A i \in 1..c - n : i + n \in 1..c /\ i + n > n /\ s[i] = r[i + n]
  BY <1>2, <1>3
<1>10. QED
  BY <1>1, <1>5, <1>6, <1>8, <1>9

After(r, n) == {r[i] : i \in {j \in DOMAIN r : j > n}}

LEMMA FreesAre ==
    ASSUME NEW h, NEW B, NEW L, Sound(h, B, L), NEW r \in Seq(Int), Distinct(r),
           {r[i] : i \in DOMAIN r} = Used(h, B),
           NEW f, f[0] = h, \A i \in DOMAIN r : f[i] = FreeEntry(f[i - 1], r[i]),
           NEW n \in 0..Len(r)
    PROVE  \E C, M : /\ Sound(f[n], C, M) /\ Used(f[n], C) = After(r, n)
                     /\ Keeps(h, f[n], After(r, n)) /\ After(r, n) \subseteq Used(h, B)
<1>1. PICK c \in Nat : c = Len(r) /\ DOMAIN r = 1..c /\ n \in 0..c
  OBVIOUS
<1> DEFINE Inv(k) == \E C, M : /\ Sound(f[k], C, M) /\ Used(f[k], C) = After(r, k)
                               /\ Keeps(h, f[k], After(r, k))
<1>2. \A k \in Nat : After(r, k) \subseteq Used(h, B)
  BY DEF After
<1>3. Inv(0)
  <2>1. After(r, 0) = Used(h, B)
    <3>1. {j \in DOMAIN r : j > 0} = DOMAIN r
      BY <1>1
    <3>2. QED
      BY <3>1 DEF After
  <2>2. Keeps(h, h, Used(h, B))
    BY DEF Keeps
  <2>3. QED
    BY <2>1, <2>2
<1>4. ASSUME NEW k \in 1..c, Inv(k - 1) PROVE Inv(k)
  <2>1. PICK x, y, o : x = f[k - 1] /\ y = f[k] /\ o = r[k]
    OBVIOUS
  <2>2. PICK P, Q : P = After(r, k - 1) /\ Q = After(r, k)
    OBVIOUS
  <2>3. PICK C, M : Sound(x, C, M) /\ Used(x, C) = P /\ Keeps(h, x, P)
    BY <1>4, <2>1, <2>2
  <2>4. y = FreeEntry(x, o)
    BY <1>1, <1>4, <2>1
  <2>5. o \in P /\ Q = P \ {o}
    <3>1. \A i, j \in 1..c : r[i] = r[j] => i = j
      BY <1>1 DEF Distinct
    <3>2. \A j \in 1..c : j > k - 1 <=> j = k \/ j > k
      BY <1>4
    <3>3. k \in 1..c /\ ~(k > k)
      BY <1>4
    <3>4. P = {r[i] : i \in {j \in 1..c : j > k - 1}} /\ Q = {r[i] : i \in {j \in 1..c : j > k}}
      BY <1>1, <2>2 DEF After
    <3>5. {j \in 1..c : j > k - 1} = {j \in 1..c : j > k} \cup {k}
      BY <3>2, <3>3
    <3>6. P = Q \cup {o}
      BY <2>1, <3>4, <3>5
    <3>7. o \notin Q
      BY <2>1, <3>1, <3>3, <3>4
    <3>8. QED
      BY <3>6, <3>7
  <2>6. PICK D, N : Sound(y, D, N) /\ Used(y, D) = P \ {o} /\ Keeps(x, y, P \ {o})
    <3>1. Sound(x, C, M) /\ o \in Used(x, C)
      BY <2>3, <2>5
    <3>2. \E D, N : /\ Sound(y, D, N) /\ Used(y, D) = Used(x, C) \ {o}
                    /\ Keeps(x, y, Used(x, C) \ {o})
      BY ONLY <2>4, <3>1, FreeEntryIs
    <3>3. QED
      BY <2>3, <3>2
  <2>7. Keeps(h, y, Q)
    <3>1. Q \subseteq Used(h, B)
      BY <1>2, <1>4, <2>2
    <3>a. \A p \in Used(h, B) : p \in B
      BY DEF Used
    <3>b. \A p \in B : p \in 1..Words /\ BlockSize(h, p) \in Nat
      BY BlockIs
    <3>2. \A p \in Q : p \in Int /\ BlockSize(h, p) \in Nat
      BY <3>1, <3>a, <3>b
    <3>3. Q \subseteq P /\ Keeps(x, y, Q)
      BY <2>5, <2>6
    <3>4. QED
      BY <2>3, <3>2, <3>3, KeepsOn
  <2>8. Sound(y, D, N) /\ Used(y, D) = Q
    BY <2>5, <2>6
  <2>9. QED
    BY <2>1, <2>2, <2>7, <2>8
<1>5. Inv(n)
  <2> DEFINE Bad == {k \in 0..c : ~Inv(k)}
  <2>1. SUFFICES ASSUME Bad # {} PROVE FALSE
    BY <1>1
  <2>2. Bad \subseteq Nat
    OBVIOUS
  <2>3. PICK m \in Bad : \A k \in Bad : m <= k
    BY <2>1, <2>2, LeastNumber
  <2>4. m \in 0..c /\ ~Inv(m)
    BY <2>3
  <2>5. m # 0
    BY <1>3, <2>4
  <2>6. m - 1 \in 0..c /\ m \in 1..c /\ ~(m <= m - 1)
    BY <2>4, <2>5
  <2>7. Inv(m - 1)
    BY <2>3, <2>6
  <2>8. QED
    BY <1>4, <2>4, <2>6, <2>7
<1>6. QED
  BY <1>1, <1>2, <1>5

FiledRest(g, h, r, n, l) ==
    Filed(g, Rest(r, n), l) /\ Texts(g, Rest(r, n), l) = Rest(Texts(h, r, l), n)

LEMMA FiledRestIs ==
    ASSUME NEW lens \in Seq(Lengths), NEW h, NEW r, Filed(h, r, lens),
           NEW f, f[0] = h, \A i \in DOMAIN r : f[i] = FreeEntry(f[i - 1], r[i]),
           NEW n \in 0..Len(r)
    PROVE  FiledRest(f[n], h, r, n, lens)
<1>1. PICK B, L : /\ Sound(h, B, L) /\ r \in Seq(Int) /\ Distinct(r)
                  /\ {r[i] : i \in DOMAIN r} = Used(h, B)
                  /\ \A i \in DOMAIN r : Sent(h, lens, r[i])
  BY DEF Filed
<1>2. PICK g : g = f[n]
  OBVIOUS
<1>3. PICK C, M : /\ Sound(g, C, M) /\ Used(g, C) = After(r, n)
                  /\ Keeps(h, g, After(r, n)) /\ After(r, n) \subseteq Used(h, B)
  BY <1>1, <1>2, FreesAre
<1>a. r \in Seq(Int)
  BY <1>1
<1>4. PICK c \in Nat : c = Len(r) /\ DOMAIN r = 1..c /\ n \in 0..c
  BY <1>a
<1>5. PICK s : s = Rest(r, n)
  OBVIOUS
<1>6. /\ s \in Seq(Int) /\ Len(s) = c - n /\ DOMAIN s = 1..c - n
      /\ \A i \in DOMAIN s : i + n \in DOMAIN r /\ i + n > n /\ s[i] = r[i + n]
      /\ \A i \in DOMAIN r : i > n => i - n \in DOMAIN s /\ s[i - n] = r[i]
  <2>1. /\ s \in Seq(Int) /\ Len(s) = Len(r) - n
        /\ \A i \in DOMAIN s : i + n \in DOMAIN r /\ i + n > n /\ s[i] = r[i + n]
        /\ \A i \in DOMAIN r : i > n => i - n \in DOMAIN s /\ s[i - n] = r[i]
    BY <1>1, <1>5, RestIs
  <2>2. DOMAIN s = 1..Len(s)
    BY <2>1
  <2>3. QED
    BY <1>4, <2>1, <2>2
<1>7. Distinct(s)
  <2>1. SUFFICES ASSUME NEW j \in 1..c - n, NEW k \in 1..c - n, s[j] = s[k] PROVE j = k
    BY <1>6 DEF Distinct
  <2>2. r[j + n] = r[k + n] /\ j + n \in DOMAIN r /\ k + n \in DOMAIN r
    BY <1>6, <2>1
  <2>3. j + n = k + n
    BY <1>1, <2>2 DEF Distinct
  <2>4. QED
    BY <2>1, <2>3
<1>8. {s[i] : i \in DOMAIN s} = Used(g, C)
  <2>1. \A i \in DOMAIN s : s[i] \in After(r, n)
    BY <1>6 DEF After
  <2>2. \A p \in After(r, n) : \E i \in DOMAIN s : s[i] = p
    BY <1>6 DEF After
  <2>3. QED
    BY <1>3, <2>1, <2>2
<1>9. ASSUME NEW i \in DOMAIN s
      PROVE  Sent(g, lens, s[i]) /\ Text(g, lens, s[i]) = Text(h, lens, r[i + n])
  <2>1. PICK p : p = s[i]
    OBVIOUS
  <2>2. p \in After(r, n) /\ p = r[i + n] /\ i + n \in DOMAIN r
    BY <1>3, <1>6, <1>8, <2>1
  <2>3. Sent(h, lens, p)
    BY <1>1, <2>2
  <2>4. Sent(g, lens, p) /\ Text(g, lens, p) = Text(h, lens, p)
    BY <1>1, <1>3, <2>2, <2>3, KeptText
  <2>5. QED
    BY <2>1, <2>2, <2>4
<1>10. Filed(g, s, lens)
  BY <1>3, <1>6, <1>7, <1>8, <1>9 DEF Filed
<1>11. Texts(g, s, lens) = Rest(Texts(h, r, lens), n)
  <2>1. PICK x, y : x = Texts(h, r, lens) /\ y = Texts(g, s, lens)
    OBVIOUS
  <2>2. DOMAIN y = 1..c - n /\ DOMAIN x = 1..c /\ \A i \in 1..c : x[i] = Text(h, lens, r[i])
    BY <1>4, <1>6, <2>1 DEF Texts
  <2>3. \A i \in 1..c - n : y[i] = x[i + n]
    BY <1>4, <1>6, <1>9, <2>1, <2>2 DEF Texts
  <2>4. Len(x) = c
    BY <1>4, <2>2
  <2>5. SubSeq(x, n + 1, c) = [i \in 1..(1 + c - (n + 1)) |-> x[i + (n + 1) - 1]]
    BY <1>4
  <2>6. 1 + c - (n + 1) = c - n /\ \A i \in 1..c - n : i + (n + 1) - 1 = i + n
    BY <1>4
  <2>7. SubSeq(x, n + 1, c) = [i \in 1..c - n |-> x[i + n]]
    BY <2>5, <2>6
  <2>8. y = [i \in 1..c - n |-> y[i]]
    BY <2>1, <2>2 DEF Texts
  <2>9. y = SubSeq(x, n + 1, c)
    BY <2>3, <2>7, <2>8
  <2>10. QED
    BY <2>1, <2>4, <2>9 DEF Rest
<1>12. QED
  BY <1>2, <1>5, <1>10, <1>11 DEF FiledRest

-----------------------------------------------------------------------------
(* The ring *)

Held == [i \in 1..Count |-> RingSlot(i)]

(* A sender that is under way sends a message that was numbered. *)
Sending == {"open semaphore", "open event", "open memory", "enqueue", "enqueuing"}
MessagesOK ==
    /\ lengths \in Seq(Lengths) /\ Len(lengths) <= MaxMessages
    /\ DOMAIN slots = 0..Slots /\ DOMAIN message = Sender
    /\ \A p \in Sender : at[p] \in Sending => message[p] \in DOMAIN lengths
HandOK ==
    /\ hand \in Seq(Nat) /\ Len(hand) <= Chunk
    /\ hand # <<>> => at[Receiver] = "ready"
FilesOK == QueueExists => Filed(heap, Held, lengths)
RingInv == MessagesOK /\ HandOK /\ FilesOK

LEMMA RingIs ==
    /\ Ring = Texts(heap, Held, lengths)
    /\ Ring' = Texts(heap', Held', lengths')
<1>1. Ring = Texts(heap, Held, lengths)
  BY DEF Ring, Texts, Held, Text, TextIn
<1>2. Ring' = Texts(heap', Held', lengths')
  BY DEF Ring, Texts, Held, Text, TextIn
<1>3. QED
  BY <1>1, <1>2

LEMMA CountIs ==
    ASSUME NEW h \in 0..Slots, NEW t \in 0..Slots
    PROVE  /\ (t - h) % (Slots + 1) \in 0..Slots
           /\ (t - h) % (Slots + 1) = IF h <= t THEN t - h ELSE t - h + (Slots + 1)
           /\ (t - h) % (Slots + 1) = 0 <=> h = t
OBVIOUS

LEMMA PlaceIs ==
    ASSUME NEW h \in 0..Slots, NEW i \in 0..Slots
    PROVE  /\ (h + i) % (Slots + 1) \in 0..Slots
           /\ (h + i) % (Slots + 1) = IF h + i <= Slots THEN h + i ELSE h + i - (Slots + 1)
OBVIOUS

(* The slot at the tail comes last and is none of the others. *)
LEMMA AddSlot ==
    ASSUME NEW h \in 0..Slots, NEW t \in 0..Slots, NextSlot(t) # h,
           NEW c, c = (t - h) % (Slots + 1)
    PROVE  /\ c \in Nat /\ (NextSlot(t) - h) % (Slots + 1) = c + 1
           /\ NextSlot(t) \in 0..Slots /\ (h + (c + 1) - 1) % (Slots + 1) = t
           /\ \A i \in 1..c : (h + i - 1) % (Slots + 1) \in 0..Slots /\ (h + i - 1) % (Slots + 1) # t
<1>1. c \in 0..Slots /\ c = IF h <= t THEN t - h ELSE t - h + (Slots + 1)
  BY CountIs
<1>2. NextSlot(t) = (IF t < Slots THEN t + 1 ELSE 0) /\ NextSlot(t) \in 0..Slots
  <2>1. 1 \in 0..Slots
    OBVIOUS
  <2>2. (t + 1) % (Slots + 1) = IF t + 1 <= Slots THEN t + 1 ELSE t + 1 - (Slots + 1)
    BY <2>1, PlaceIs
  <2>3. QED
    BY <2>2 DEF NextSlot
<1>3. PICK u \in 0..Slots : u = NextSlot(t)
  BY <1>2
<1>4. (u - h) % (Slots + 1) = IF h <= u THEN u - h ELSE u - h + (Slots + 1)
  BY CountIs
<1>5. (u - h) % (Slots + 1) = c + 1
  BY <1>1, <1>2, <1>3, <1>4
<1>6. (h + c) % (Slots + 1) = IF h + c <= Slots THEN h + c ELSE h + c - (Slots + 1)
  BY <1>1, PlaceIs
<1>7. (h + c) % (Slots + 1) = t /\ h + (c + 1) - 1 = h + c
  BY <1>1, <1>6
<1>8. ASSUME NEW i \in 1..c
      PROVE  (h + i - 1) % (Slots + 1) \in 0..Slots /\ (h + i - 1) % (Slots + 1) # t
  <2>1. PICK j \in 0..Slots : j = i - 1 /\ j < c
    BY <1>1
  <2>2. /\ (h + j) % (Slots + 1) \in 0..Slots
        /\ (h + j) % (Slots + 1) = IF h + j <= Slots THEN h + j ELSE h + j - (Slots + 1)
    BY PlaceIs
  <2>3. (h + j) % (Slots + 1) # t
    BY <1>1, <2>1, <2>2
  <2>4. h + i - 1 = h + j
    BY <1>1, <2>1
  <2>5. QED
    BY <2>2, <2>3, <2>4
<1>9. QED
  BY <1>1, <1>2, <1>3, <1>5, <1>7, <1>8

(* The first k slots go, and those behind them come first. *)
LEMMA TakeSlots ==
    ASSUME NEW h \in 0..Slots, NEW t \in 0..Slots, NEW c, c = (t - h) % (Slots + 1), NEW k \in 0..c,
           NEW g, g = (h + k) % (Slots + 1)
    PROVE  /\ c \in Nat /\ g \in 0..Slots /\ (t - g) % (Slots + 1) = c - k
           /\ \A i \in 1..c - k : (g + i - 1) % (Slots + 1) = (h + (i + k) - 1) % (Slots + 1)
<1>1. c \in 0..Slots /\ c = IF h <= t THEN t - h ELSE t - h + (Slots + 1)
  BY CountIs
<1>2. k \in 0..Slots
  BY <1>1
<1>3. g \in 0..Slots /\ g = IF h + k <= Slots THEN h + k ELSE h + k - (Slots + 1)
  BY <1>2, PlaceIs
<1>4. (t - g) % (Slots + 1) = IF g <= t THEN t - g ELSE t - g + (Slots + 1)
  BY <1>3, CountIs
<1>5. (t - g) % (Slots + 1) = c - k
  BY <1>1, <1>2, <1>3, <1>4
<1>6. ASSUME NEW i \in 1..c - k
      PROVE  (g + i - 1) % (Slots + 1) = (h + (i + k) - 1) % (Slots + 1)
  <2>1. PICK j \in 0..Slots : j = i - 1 /\ j + k < c
    BY <1>1, <1>2
  <2>2. PICK l \in 0..Slots : l = j + k
    BY <1>1, <1>2, <2>1
  <2>3. (g + j) % (Slots + 1) = IF g + j <= Slots THEN g + j ELSE g + j - (Slots + 1)
    BY <1>3, PlaceIs
  <2>4. (h + l) % (Slots + 1) = IF h + l <= Slots THEN h + l ELSE h + l - (Slots + 1)
    BY PlaceIs
  <2>5. (g + j) % (Slots + 1) = (h + l) % (Slots + 1)
    BY <1>1, <1>2, <1>3, <2>1, <2>2, <2>3, <2>4
  <2>6. g + i - 1 = g + j /\ h + (i + k) - 1 = h + l
    BY <1>1, <1>2, <1>3, <2>1, <2>2
  <2>7. QED
    BY <2>5, <2>6
<1>7. QED
  BY <1>1, <1>3, <1>5, <1>6

LEMMA HeldIs ==
    ASSUME QInv
    PROVE  /\ Count \in Nat /\ Count \in 0..Slots /\ DOMAIN Held = 1..Count /\ DOMAIN Ring = 1..Count
           /\ IsEmpty <=> Count = 0
<1>1. head \in 0..Slots /\ tail \in 0..Slots
  BY DEF QInv
<1>2. Count \in 0..Slots /\ (Count = 0 <=> head = tail)
  BY <1>1, CountIs DEF Count
<1>3. QED
  BY <1>2 DEF Held, Ring, IsEmpty

-----------------------------------------------------------------------------
(* Steps that leave the ring and the messages alone *)

LEMMA ExistsAs ==
    ASSUME QInv, NEW p \in Process, Alters(p),
           \/ HasQueueOpen(p)' <=> HasQueueOpen(p)
           \/ \E q \in Process \ {p} : HasQueueOpen(q)
    PROVE  QueueExists' <=> QueueExists
BY Others DEF QueueExists

LEMMA MessagesStay ==
    ASSUME QInv, MessagesOK, NEW p \in Process, NEW step, Goes(p, step), UNCHANGED <<lengths, message>>,
           DOMAIN slots' = 0..Slots, p \in Sender /\ step \in Sending => at[p] \in Sending
    PROVE  MessagesOK'
<1>1. at'[p] = step /\ \A q \in Process \ {p} : at'[q] = at[q]
  BY DEF Goes, QInv
<1>2. Sender \subseteq Process
  BY DEF Process
<1>3. \A q \in Sender : at'[q] \in Sending => at[q] \in Sending
  BY <1>1, <1>2
<1>4. QED
  BY <1>3 DEF MessagesOK

LEMMA RingStays ==
    ASSUME QInv, RingInv, UNCHANGED <<heap, slots, head, tail, lengths>>, QueueExists' <=> QueueExists
    PROVE  FilesOK' /\ (hand' = hand => Pending' = Pending)
<1>1. Held' = Held /\ Ring' = Ring
  BY DEF Held, Ring, RingSlot, Count, TextIn
<1>2. FilesOK'
  BY <1>1 DEF FilesOK, RingInv
<1>3. QED
  BY <1>1, <1>2 DEF Pending

LEMMA Quiet ==
    ASSUME QInv, RingInv, NEW p \in Process, NEW step, Goes(p, step), Alters(p),
           UNCHANGED <<heap, slots, head, tail, lengths, message, hand>>,
           p \in Sender /\ step \in Sending => at[p] \in Sending,
           p = Receiver => at[p] # "ready" \/ hand = <<>>,
           \/ HasQueueOpen(p)' <=> HasQueueOpen(p)
           \/ \E q \in Process \ {p} : HasQueueOpen(q)
    PROVE  RingInv' /\ Pending' = Pending
<1>1. QueueExists' <=> QueueExists
  BY ExistsAs
<1>2. MessagesOK'
  <2>1. MessagesOK /\ DOMAIN slots' = 0..Slots
    BY DEF RingInv, MessagesOK
  <2>2. QED
    BY <2>1, MessagesStay
<1>3. HandOK'
  <2>1. at'[Receiver] = at[Receiver] \/ p = Receiver
    BY DEF Alters, Process
  <2>2. QED
    BY <2>1 DEF RingInv, HandOK
<1>4. FilesOK' /\ Pending' = Pending
  BY <1>1, RingStays
<1>5. QED
  BY <1>2, <1>3, <1>4 DEF RingInv

LEMMA BootRing ==
    ASSUME QInv, RingInv, Boot
    PROVE  RingInv' /\ Pending' = Pending
<1>1. /\ Receiver \in Process /\ PlaceOK(Receiver) /\ at[Receiver] = "off" /\ Goes(Receiver, "boot")
      /\ UNCHANGED <<handles, heap, slots, head, tail, lengths, message, hand>>
  BY Positions DEF Boot, shared, Process
<1>2. /\ Alters(Receiver) /\ at'[Receiver] = "boot"
      /\ \A o \in Object : Receiver \in handles'[o] <=> Receiver \in handles[o]
  BY <1>1, Going
<1>3. HasQueueOpen(Receiver)' <=> HasQueueOpen(Receiver)
  BY <1>1, <1>2 DEF HasQueueOpen, IsOpen
<1>4. QED
  BY <1>1, <1>2, <1>3, Quiet

LEMMA CreateSemaphoreRing ==
    ASSUME QInv, RingInv, CreateSemaphore
    PROVE  RingInv' /\ Pending' = Pending
<1>1. /\ Receiver \in Process /\ PlaceOK(Receiver) /\ at[Receiver] = "boot" /\ "semaphore" \in Object
      /\ UNCHANGED <<heap, slots, head, tail, lengths, message, hand>>
      /\ \E step \in {"open semaphore", "create event"} : Goes(Receiver, step)
      /\ handles' = handles \/ Holds(Receiver, "semaphore")
  BY Positions DEF CreateSemaphore, AfterCreateFails, Process
<1>2. PICK step \in {"open semaphore", "create event"} : Goes(Receiver, step)
  BY <1>1
<1>3. Receiver \notin handles["memory"] /\ "memory" \in Object
  BY <1>1 DEF PlaceOK, None, Object
<1>4. Alters(Receiver) /\ Receiver \notin handles'["memory"]
  BY <1>1, <1>2, <1>3, Going, Taking
<1>5. HasQueueOpen(Receiver)' <=> HasQueueOpen(Receiver)
  BY <1>3, <1>4 DEF HasQueueOpen, IsOpen
<1>6. Receiver \notin Sender
  BY QueueAssumption
<1>7. QED
  BY <1>1, <1>2, <1>4, <1>5, <1>6, Quiet

LEMMA CreateEventRing ==
    ASSUME QInv, RingInv, CreateEvent
    PROVE  RingInv' /\ Pending' = Pending
<1>1. /\ Receiver \in Process /\ PlaceOK(Receiver) /\ at[Receiver] = "create event" /\ "event" \in Object
      /\ UNCHANGED <<heap, slots, head, tail, lengths, message, hand>>
      /\ \E step \in {"open semaphore", "create memory"} : Goes(Receiver, step)
      /\ handles' = WithoutHandles(Receiver) \/ Holds(Receiver, "event")
  BY Positions DEF CreateEvent, CreateFails, AfterCreateFails, Process
<1>2. PICK step \in {"open semaphore", "create memory"} : Goes(Receiver, step)
  BY <1>1
<1>3. Receiver \notin handles["memory"] /\ "memory" \in Object
  BY <1>1 DEF PlaceOK, Object
<1>4. Alters(Receiver) /\ Receiver \notin handles'["memory"]
  <2>1. CASE handles' = WithoutHandles(Receiver)
    BY <1>1, <1>2, <1>3, <2>1, Closing DEF None
  <2>2. CASE Holds(Receiver, "event")
    BY <1>1, <1>2, <1>3, <2>2, Taking
  <2>3. QED
    BY <1>1, <2>1, <2>2
<1>5. HasQueueOpen(Receiver)' <=> HasQueueOpen(Receiver)
  BY <1>3, <1>4 DEF HasQueueOpen, IsOpen
<1>6. Receiver \notin Sender
  BY QueueAssumption
<1>7. QED
  BY <1>1, <1>2, <1>4, <1>5, <1>6, Quiet

(* A new queue is empty and has all its memory. *)
LEMMA CreateMemoryRing ==
    ASSUME QInv, RingInv, CreateMemory
    PROVE  RingInv' /\ Pending' = Pending
<1>1. /\ Receiver \in Process /\ PlaceOK(Receiver) /\ at[Receiver] = "create memory"
      /\ "memory" \in Object /\ UNCHANGED <<lengths, message, hand>>
  BY Positions DEF CreateMemory, Process
<1>2. \A q \in Process \ {Receiver} : None(q)
  BY <1>1, Positions DEF Alone, Makes
<1>3. ~Exists("memory") /\ Receiver \notin handles["memory"]
  BY <1>1, <1>2 DEF Exists, None, PlaceOK, QInv
<1>4. /\ head' = 0 /\ tail' = 0 /\ heap' = NewHeap /\ slots' = [i \in 0..Slots |-> 0]
      /\ Goes(Receiver, "ready")
  BY <1>3 DEF CreateMemory
<1>5. ~QueueExists
  BY <1>1, <1>2, <1>3 DEF QueueExists, HasQueueOpen, IsOpen, None
<1>6. hand = <<>>
  BY <1>1 DEF RingInv, HandOK
<1>7. Count' = 0
  BY <1>4, CountIs DEF Count
<1>8. Held' = <<>> /\ Ring' = <<>>
  BY <1>7 DEF Held, Ring
<1>9. FilesOK'
  BY <1>4, <1>8, FiledNew DEF FilesOK
<1>10. MessagesOK'
  <2>1. Receiver \notin Sender /\ MessagesOK /\ DOMAIN slots' = 0..Slots
    BY <1>4, QueueAssumption DEF RingInv
  <2>2. QED
    BY <1>1, <1>4, <2>1, MessagesStay
<1>11. HandOK'
  BY <1>1, <1>6 DEF RingInv, HandOK
<1>12. Pending' = Pending
  BY <1>1, <1>5, <1>6, <1>8 DEF Pending
<1>13. QED
  BY <1>9, <1>10, <1>11, <1>12 DEF RingInv

LEMMA OpenObjectRing ==
    ASSUME QInv, RingInv, "race" \notin Windows, NEW p \in Process, NEW o \in Object, NEW step, NEW next,
           \/ step = "open semaphore" /\ o = "semaphore" /\ next = "open event"
           \/ step = "open event" /\ o = "event" /\ next = "open memory"
           \/ /\ step = "open memory" /\ o = "memory"
              /\ next = IF p = Receiver THEN "ready" ELSE "enqueue",
           OpenObject(p, step, o, next)
    PROVE  RingInv' /\ Pending' = Pending
<1>1. /\ PlaceOK(p) /\ at[p] = step /\ NoRace(p) /\ Holds(p, o)
      /\ Receiver \in Process /\ "memory" \in Object
      /\ UNCHANGED <<lengths, message, hand>>
  BY Positions DEF OpenObject, QInv
<1>2. ~IsOpen(p)
  BY <1>1 DEF PlaceOK, IsOpen, None, Object
<1>3. \/ \E q \in Process \ {p} : HasQueueOpen(q)
      \/ \A q \in Process \ {p} : None(q)
  BY <1>1, <1>2, Undisturbed
<1>4. /\ ~HasQueueOpen(p) /\ p \notin handles[o] /\ p \notin handles["memory"]
      /\ at[p] # "ready" /\ at[p] \in Sending
  BY <1>1, <1>2 DEF HasQueueOpen, PlaceOK, None, Object, Sending
<1>5. CASE Exists(o)
  <2>1. Goes(p, next) /\ UNCHANGED <<heap, slots, head, tail>>
    BY <1>5 DEF OpenObject, shared
  <2>2. /\ Alters(p) /\ at'[p] = next
        /\ \A x \in Object : p \in handles'[x] <=> x = o \/ p \in handles[x]
    BY <1>1, <2>1, Taking
  <2>3. \/ HasQueueOpen(p)' <=> HasQueueOpen(p)
        \/ \E q \in Process \ {p} : HasQueueOpen(q)
    <3>1. CASE o = "memory"
      <4>1. \E q \in Process \ {p} : q \in handles[o]
        BY <1>4, <1>5 DEF Exists, QInv
      <4>2. QED
        BY <1>3, <4>1 DEF None
    <3>2. CASE o # "memory"
      BY <1>1, <1>4, <2>2, <3>2 DEF HasQueueOpen, IsOpen
    <3>3. QED
      BY <3>1, <3>2
  <2>4. QED
    BY <1>1, <1>4, <2>1, <2>2, <2>3, Quiet
<1>6. CASE ~Exists(o)
  <2>1. Goes(p, "close") /\ New(o)
    BY <1>6 DEF OpenObject
  <2>2. Alters(p) /\ at'[p] = "close"
    BY <1>1, <2>1, Taking
  <2>3. HasQueueOpen(p)' <=> HasQueueOpen(p)
    BY <1>4, <2>2 DEF HasQueueOpen
  <2>4. CASE o # "memory"
    <3>1. UNCHANGED <<heap, slots, head, tail>>
      BY <2>1, <2>4 DEF New
    <3>2. QED
      BY <1>1, <1>4, <2>1, <2>2, <2>3, <3>1, Quiet
  <2>5. CASE o = "memory"
    <3>1. ~QueueExists /\ ~QueueExists'
      <4>1. ~QueueExists
        BY <1>6 DEF QueueExists, HasQueueOpen, IsOpen, Exists
      <4>2. QED
        BY <2>2, <2>3, <4>1, ExistsAs
    <3>2. DOMAIN slots' = 0..Slots
      BY <2>1, <2>5 DEF New
    <3>3. MessagesOK'
      BY <1>1, <1>4, <2>1, <3>2, MessagesStay DEF RingInv
    <3>4. HandOK'
      <4>1. at'[Receiver] = at[Receiver] \/ p = Receiver
        BY <1>1, <2>2 DEF Alters
      <4>2. QED
        BY <1>1, <1>4, <4>1 DEF RingInv, HandOK
    <3>5. FilesOK' /\ Pending' = Pending
      BY <1>1, <3>1 DEF FilesOK, Pending
    <3>6. QED
      BY <3>3, <3>4, <3>5 DEF RingInv
  <2>6. QED
    BY <2>4, <2>5
<1>7. QED
  BY <1>5, <1>6

LEMMA OpenFailsRing ==
    ASSUME QInv, RingInv, NEW p \in Process, OpenFails(p)
    PROVE  RingInv' /\ Pending' = Pending
<1>1. /\ PlaceOK(p) /\ at[p] = "close" /\ handles' = WithoutHandles(p)
      /\ UNCHANGED <<heap, slots, head, tail, lengths, message, hand>>
      /\ \E step \in {"noqueue", "ready"} : Goes(p, step)
  BY Positions DEF OpenFails, shared
<1>2. PICK step \in {"noqueue", "ready"} : Goes(p, step)
  BY <1>1
<1>3. Alters(p) /\ None(p)' /\ "memory" \in Object
  BY <1>1, <1>2, Closing DEF Object
<1>4. HasQueueOpen(p)' <=> HasQueueOpen(p)
  BY <1>1, <1>3 DEF HasQueueOpen, IsOpen, None
<1>5. p \in Sender /\ step \in Sending => at[p] \in Sending
  BY DEF Sending
<1>6. QED
  BY <1>1, <1>2, <1>3, <1>4, <1>5, Quiet

LEMMA LockRing ==
    ASSUME QInv, RingInv, NEW p \in Process,
           (p \in Sender /\ LockToEnqueue(p)) \/ (p = Receiver /\ (Wait \/ LockToDequeue))
    PROVE  RingInv' /\ Pending' = Pending
<1>1. /\ UNCHANGED <<handles, heap, slots, head, tail, lengths, message, hand>>
      /\ \E step \in {"dequeue", "dequeuing", "enqueuing"} : Goes(p, step)
      /\ at[p] # "close"
  BY DEF LockToEnqueue, Wait, LockToDequeue, shared
<1>2. PICK step \in {"dequeue", "dequeuing", "enqueuing"} : Goes(p, step)
  BY <1>1
<1>3. /\ Alters(p) /\ at'[p] = step /\ \A o \in Object : p \in handles'[o] <=> p \in handles[o]
  BY <1>1, <1>2, Going
<1>4. HasQueueOpen(p)' <=> HasQueueOpen(p)
  BY <1>1, <1>2, <1>3 DEF HasQueueOpen, IsOpen
<1>5. p \in Sender /\ step \in Sending => at[p] \in Sending
  BY QueueAssumption DEF Sending, LockToEnqueue
<1>6. p = Receiver => at[p] # "ready" \/ hand = <<>>
  BY QueueAssumption DEF LockToDequeue, Wait
<1>7. QED
  BY <1>1, <1>2, <1>3, <1>4, <1>5, <1>6, Quiet

LEMMA NextNumber ==
    ASSUME NEW c \in Nat, NEW e \in Nat
    PROVE  c < e => c + 1 <= e
OBVIOUS

LEMMA Appended ==
    ASSUME NEW S, NEW l \in Seq(S), NEW n \in S, NEW k, k = Append(l, n)
    PROVE  /\ k \in Seq(S) /\ Len(k) = Len(l) + 1 /\ Len(l) \in Nat
           /\ Len(l) + 1 \in DOMAIN k /\ \A i \in DOMAIN l : i \in DOMAIN k
<1>1. k \in Seq(S) /\ Len(k) = Len(l) + 1 /\ Len(l) \in Nat
  OBVIOUS
<1>2. DOMAIN k = 1..Len(k) /\ DOMAIN l = 1..Len(l)
  BY <1>1
<1>3. QED
  BY <1>1, <1>2
-----------------------------------------------------------------------------
(* Steps that change the ring *)

LEMMA InitRing == Init => RingInv /\ Pending = <<>>
<1> SUFFICES ASSUME Init PROVE RingInv /\ Pending = <<>>
  OBVIOUS
<1>1. /\ handles = [o \in Object |-> {}] /\ lengths = <<>> /\ hand = <<>>
      /\ \A p \in Sender : at[p] = "ready"
      /\ DOMAIN slots = 0..Slots /\ DOMAIN message = Sender
  BY DEF Init, Process
<1>2. ~QueueExists
  BY <1>1 DEF QueueExists, HasQueueOpen, IsOpen, Object
<1>3. lengths \in Seq(Lengths) /\ Len(lengths) <= MaxMessages
  BY <1>1
<1>4. MessagesOK
  BY <1>1, <1>3 DEF MessagesOK, Sending
<1>5. hand \in Seq(Nat) /\ Len(hand) <= Chunk
  BY <1>1
<1>6. HandOK
  BY <1>1, <1>5 DEF HandOK
<1>7. QED
  BY <1>1, <1>2, <1>4, <1>6 DEF RingInv, FilesOK, Pending

LEMMA SendMessageRing ==
    ASSUME QInv, RingInv, NEW p \in Sender, SendMessage(p)
    PROVE  RingInv' /\ Pending' = Pending
<1>1. PICK n \in Lengths :
         /\ at[p] = "ready" /\ Len(lengths) < MaxMessages
         /\ lengths' = Append(lengths, n) /\ message' = [message EXCEPT ![p] = Len(lengths) + 1]
         /\ UNCHANGED <<handles, heap, slots, head, tail, hand>>
         /\ Goes(p, IF IsOpen(p) THEN "enqueue" ELSE "open semaphore")
  BY DEF SendMessage, shared
<1>2. PICK step \in {"enqueue", "open semaphore"} : Goes(p, step)
  BY <1>1
<1>3. p \in Process /\ p # Receiver /\ Sender \subseteq Process
  BY DEF Process
<1>4. /\ Alters(p) /\ at'[p] = step /\ \A o \in Object : p \in handles'[o] <=> p \in handles[o]
  BY <1>1, <1>2, <1>3, Going
<1>5. HasQueueOpen(p)' <=> HasQueueOpen(p)
  BY <1>1, <1>2, <1>4 DEF HasQueueOpen, IsOpen
<1>6. QueueExists' <=> QueueExists
  BY <1>3, <1>4, <1>5, ExistsAs
<1>7. /\ lengths \in Seq(Lengths) /\ DOMAIN slots = 0..Slots /\ DOMAIN message = Sender
      /\ \A q \in Sender : at[q] \in Sending => message[q] \in DOMAIN lengths
  BY DEF RingInv, MessagesOK
<1>8. /\ lengths' \in Seq(Lengths) /\ Len(lengths') = Len(lengths) + 1 /\ Len(lengths) \in Nat
      /\ Len(lengths) + 1 \in DOMAIN lengths' /\ DOMAIN lengths \subseteq DOMAIN lengths'
  <2>1. lengths \in Seq(Lengths)
    BY <1>7
  <2>2. lengths' = Append(lengths, n)
    BY <1>1
  <2>3. /\ lengths' \in Seq(Lengths) /\ Len(lengths') = Len(lengths) + 1 /\ Len(lengths) \in Nat
        /\ Len(lengths) + 1 \in DOMAIN lengths'
        /\ \A i \in DOMAIN lengths : i \in DOMAIN lengths'
    BY ONLY <2>1, <2>2, Appended
  <2>4. QED
    BY <2>3
<1>9. MessagesOK'
  <2>1. Len(lengths') <= MaxMessages
    <3>1. Len(lengths) < MaxMessages
      BY <1>1
    <3>2. Len(lengths') = Len(lengths) + 1 /\ Len(lengths) \in Nat /\ MaxMessages \in Nat
      BY <1>8, QueueAssumption
    <3>3. PICK c \in Nat : c = Len(lengths)
      BY <3>2
    <3>4. PICK e \in Nat : e = MaxMessages
      BY <3>2
    <3>5. c < e => c + 1 <= e
      BY NextNumber
    <3>6. QED
      BY <3>1, <3>2, <3>3, <3>4, <3>5
  <2>2. DOMAIN message' = Sender /\ message'[p] \in DOMAIN lengths'
    BY <1>1, <1>7, <1>8
  <2>3. ASSUME NEW q \in Sender, q # p PROVE at'[q] = at[q] /\ message'[q] = message[q]
    BY <1>1, <1>3, <1>4, <1>7, <2>3 DEF Alters
  <2>4. QED
    BY <1>1, <1>7, <1>8, <2>1, <2>2, <2>3 DEF MessagesOK
<1>10. HandOK'
  BY <1>1, <1>3, <1>4 DEF Alters, RingInv, HandOK, Process
<1>11. Held' = Held
  BY <1>1 DEF Held, RingSlot, Count
<1>12. QueueExists => Filed(heap, Held, lengths') /\ Texts(heap, Held, lengths') = Texts(heap, Held, lengths)
  <2>1. SUFFICES ASSUME QueueExists
                 PROVE  /\ Filed(heap, Held, lengths')
                        /\ Texts(heap, Held, lengths') = Texts(heap, Held, lengths)
    OBVIOUS
  <2>2. PICK h, r : h = heap /\ r = Held
    OBVIOUS
  <2>3. PICK l \in Seq(Lengths) : l = lengths
    BY <1>7
  <2>4. PICK k : k = Append(l, n) /\ k = lengths'
    BY <1>1, <2>3
  <2>5. Filed(h, r, l)
    BY <2>1, <2>2, <2>3 DEF RingInv, FilesOK
  <2>6. k = Append(l, n)
    BY <2>4
  <2>7. FiledSame(h, r, k, h, r, l)
    BY ONLY <2>5, <2>6, FiledMore
  <2>8. QED
    BY <2>2, <2>3, <2>4, <2>7 DEF FiledSame
<1>13. FilesOK'
  BY <1>1, <1>6, <1>11, <1>12 DEF FilesOK
<1>14. QueueExists => Ring' = Ring
  BY <1>1, <1>11, <1>12, RingIs
<1>15. Pending' = Pending
  BY <1>1, <1>6, <1>14 DEF Pending
<1>16. QED
  BY <1>9, <1>10, <1>13, <1>15 DEF RingInv

(* What a sender that is in its critical section has. *)
LEMMA EnqueuingIs ==
    ASSUME QInv, RingInv, NEW p \in Sender, at[p] = "enqueuing"
    PROVE  /\ p \in Process /\ IsOpen(p) /\ HasQueueOpen(p) /\ QueueExists /\ Filed(heap, Held, lengths)
           /\ lengths \in Seq(Lengths) /\ message[p] \in DOMAIN lengths
           /\ message[p] \in Number
<1>1. p \in Process
  BY DEF Process
<1>2. IsOpen(p)
  BY <1>1, Positions DEF PlaceOK
<1>3. HasQueueOpen(p)
  BY <1>2 DEF HasQueueOpen
<1>4. QueueExists
  BY <1>1, <1>3 DEF QueueExists
<1>5. lengths \in Seq(Lengths) /\ message[p] \in DOMAIN lengths /\ Len(lengths) <= MaxMessages
  BY DEF RingInv, MessagesOK, Sending
<1>6. message[p] \in Number
  <2>1. DOMAIN lengths = 1..Len(lengths) /\ Len(lengths) \in Nat
    BY <1>5
  <2>2. QED
    BY <1>5, <2>1 DEF Number
<1>7. QED
  BY <1>1, <1>2, <1>3, <1>4, <1>5, <1>6 DEF RingInv, FilesOK

LEMMA EnqueueRing ==
    ASSUME QInv, RingInv, NEW p \in Sender, Enqueue(p)
    PROVE  RingInv' /\ \E m \in Number : Pending' = Append(Pending, m)
<1>1. PICK m : m = message[p]
  OBVIOUS
<1>2. PICK a : a = AllocEntry(heap, lengths[m])
  OBVIOUS
<1>3. /\ at[p] = "enqueuing" /\ ~IsFull /\ a.offset # NoBlock
      /\ heap' = Fill(a.heap, a.offset, lengths[m], m)
      /\ slots' = [slots EXCEPT ![tail] = a.offset] /\ tail' = NextSlot(tail)
      /\ Goes(p, "ready") /\ UNCHANGED <<handles, head, message, lengths, hand>>
  BY <1>1, <1>2 DEF Enqueue
<1>4. /\ p \in Process /\ IsOpen(p) /\ HasQueueOpen(p) /\ QueueExists /\ Filed(heap, Held, lengths)
      /\ lengths \in Seq(Lengths) /\ m \in DOMAIN lengths /\ m \in Number
  BY <1>1, <1>3, EnqueuingIs
<1>5. PICK s, g : s = Append(Held, a.offset) /\ g = heap'
  OBVIOUS
<1>6. g = Fill(a.heap, a.offset, lengths[m], m)
  BY <1>3, <1>5
<1>7. /\ Filed(g, s, lengths) /\ a.offset \in Int
      /\ Texts(g, s, lengths) = Append(Texts(heap, Held, lengths), m)
  <2>1. PICK h, r : h = heap /\ r = Held
    OBVIOUS
  <2>2. PICK l \in Seq(Lengths) : l = lengths
    BY <1>4
  <2>3. PICK u \in DOMAIN l : u = m
    BY <1>4, <2>2
  <2>4. Filed(h, r, l)
    BY <1>4, <2>1, <2>2
  <2>5. a = AllocEntry(h, l[u])
    BY <1>2, <2>1, <2>2, <2>3
  <2>6. a.offset # NoBlock
    BY <1>3
  <2>7. g = Fill(a.heap, a.offset, l[u], u)
    BY <1>6, <2>2, <2>3
  <2>8. s = Append(r, a.offset)
    BY <1>5, <2>1
  <2>9. FiledWith(g, s, l, h, r, u) /\ a.offset \in Int
    BY ONLY <2>4, <2>5, <2>6, <2>7, <2>8, FiledAfter
  <2>10. QED
    BY <2>1, <2>2, <2>3, <2>9 DEF FiledWith
<1>8. Alters(p) /\ at'[p] = "ready" /\ \A o \in Object : p \in handles'[o] <=> p \in handles[o]
  BY <1>3, <1>4, Going
<1>9. HasQueueOpen(p)' /\ QueueExists'
  BY <1>3, <1>4 , <1>8 DEF HasQueueOpen, IsOpen, QueueExists
<1>10. Held' = s
  <2>1. head \in 0..Slots /\ tail \in 0..Slots /\ NextSlot(tail) # head /\ DOMAIN slots = 0..Slots
    BY <1>3 DEF QInv, RingInv, MessagesOK, IsFull
  <2>2. PICK c : c = (tail - head) % (Slots + 1)
    OBVIOUS
  <2>3. /\ c \in Nat /\ (NextSlot(tail) - head) % (Slots + 1) = c + 1
        /\ (head + (c + 1) - 1) % (Slots + 1) = tail
        /\ \A i \in 1..c : /\ (head + i - 1) % (Slots + 1) \in 0..Slots
                           /\ (head + i - 1) % (Slots + 1) # tail
    BY ONLY <2>1, <2>2, AddSlot
  <2>4. Count = c /\ Count' = c + 1
    BY <1>3, <2>2, <2>3 DEF Count
  <2>5. slots'[tail] = a.offset /\ \A i \in 0..Slots : i # tail => slots'[i] = slots[i]
    BY <1>3, <2>1
  <2>6. \A i \in 1..c : RingSlot(i)' = RingSlot(i)
    BY <1>3, <2>3, <2>5 DEF RingSlot
  <2>7. RingSlot(c + 1)' = a.offset
    BY <1>3, <2>3, <2>5 DEF RingSlot
  <2>8. PICK x, y : x = Held /\ y = Held'
    OBVIOUS
  <2>9. /\ x = [i \in 1..c |-> RingSlot(i)] /\ y = [i \in 1..c + 1 |-> RingSlot(i)']
    BY <2>4, <2>8 DEF Held
  <2>10. \A i \in 1..c : x[i] = RingSlot(i)
    BY <2>9
  <2>11. \A i \in 1..c + 1 : y[i] = IF i = c + 1 THEN a.offset ELSE x[i]
    <3>1. \A i \in 1..c + 1 : i = c + 1 \/ i \in 1..c
      BY <2>3
    <3>2. \A i \in 1..c + 1 : y[i] = RingSlot(i)'
      BY <2>9
    <3>3. QED
      BY <2>6, <2>7, <2>10, <3>1, <3>2
  <2>12. Len(x) = c
    BY <2>3, <2>9
  <2>13. s = [i \in 1..c + 1 |-> IF i = c + 1 THEN a.offset ELSE x[i]]
    BY <1>5, <2>8, <2>12
  <2>14. y = [i \in 1..c + 1 |-> y[i]]
    BY <2>9
  <2>15. y = s
    BY ONLY <2>11, <2>13, <2>14
  <2>16. QED
    BY <2>8, <2>15
<1>11. FilesOK'
  BY <1>3, <1>5, <1>7, <1>10 DEF FilesOK
<1>12. Ring' = Append(Ring, m)
  BY <1>3, <1>5, <1>7, <1>10, RingIs
<1>13. MessagesOK'
  <2>1. DOMAIN slots' = 0..Slots
    BY <1>3 DEF RingInv, MessagesOK
  <2>2. "ready" \notin Sending
    BY DEF Sending
  <2>3. QED
    BY <1>3, <1>4, <2>1, <2>2, MessagesStay DEF RingInv
<1>14. HandOK'
  BY <1>3, <1>4, <1>8 DEF Alters, RingInv, HandOK, Process
<1>15. Pending' = Append(Pending, m)
  <2>1. hand \in Seq(Int) /\ Ring \in Seq(Int)
    <3>1. hand \in Seq(Nat)
      BY DEF RingInv, HandOK
    <3>2. Count \in Nat /\ DOMAIN Ring = 1..Count
      BY HeldIs
    <3>3. \A i \in 1..Count : Ring[i] \in Int
      <4>1. \A i \in DOMAIN Held : Sent(heap, lengths, Held[i])
        BY <1>4 DEF Filed
      <4>2. DOMAIN Held = 1..Count
        BY HeldIs
      <4>3. \A i \in 1..Count : Ring[i] = Text(heap, lengths, Held[i])
        BY <4>2, RingIs DEF Texts
      <4>4. \A k \in DOMAIN lengths : k \in Int
        BY <1>4
      <4>5. QED
        BY <1>4, <4>1, <4>2, <4>3, <4>4, TextIs
    <3>4. Ring \in [1..Count -> Int]
      BY <3>2, <3>3 DEF Ring
    <3>5. QED
      BY <3>1, <3>2, <3>4
  <2>2. m \in Int
    BY <1>4 DEF Number
  <2>3. hand \o Append(Ring, m) = Append(hand \o Ring, m)
    BY <2>1, <2>2
  <2>4. QED
    BY <1>3, <1>4, <1>9, <1>12, <2>3 DEF Pending
<1>16. QED
  BY <1>4, <1>11, <1>13, <1>14, <1>15 DEF RingInv

LEMMA EnqueueFailsRing ==
    ASSUME QInv, RingInv, NEW p \in Sender, EnqueueFails(p)
    PROVE  RingInv' /\ Pending' = Pending
<1>1. PICK m : m = message[p]
  OBVIOUS
<1>2. PICK a : a = AllocEntry(heap, lengths[m])
  OBVIOUS
<1>3. /\ at[p] = "enqueuing" /\ (IsFull \/ a.offset = NoBlock)
      /\ heap' = IF IsFull THEN heap ELSE a.heap
      /\ \E step \in {"ready", "enqueue"} : Goes(p, step)
      /\ UNCHANGED <<handles, slots, head, tail, message, lengths, hand>>
  BY <1>1, <1>2 DEF EnqueueFails
<1>4. /\ p \in Process /\ IsOpen(p) /\ HasQueueOpen(p) /\ QueueExists /\ Filed(heap, Held, lengths)
      /\ lengths \in Seq(Lengths) /\ m \in DOMAIN lengths
  BY <1>1, <1>3, EnqueuingIs
<1>5. PICK step \in {"ready", "enqueue"} : Goes(p, step)
  BY <1>3
<1>6. Alters(p) /\ at'[p] = step /\ \A o \in Object : p \in handles'[o] <=> p \in handles[o]
  BY <1>3, <1>4, <1>5, Going
<1>7. HasQueueOpen(p)' /\ QueueExists'
  BY <1>4, <1>5, <1>6 DEF HasQueueOpen, IsOpen, QueueExists
<1>8. FiledSame(heap', Held, lengths, heap, Held, lengths)
  <2>1. CASE IsFull
    BY <1>3, <1>4, <2>1 DEF FiledSame
  <2>2. CASE ~IsFull
    <3>1. PICK h, r : h = heap /\ r = Held
      OBVIOUS
    <3>2. PICK l \in Seq(Lengths) : l = lengths
      BY <1>4
    <3>3. PICK u \in DOMAIN l : u = m
      BY <1>4, <3>2
    <3>4. Filed(h, r, l)
      BY <1>4, <3>1, <3>2
    <3>5. a = AllocEntry(h, l[u])
      BY <1>2, <3>1, <3>2, <3>3
    <3>6. a.offset = NoBlock
      BY <1>3, <2>2
    <3>7. FiledSame(a.heap, r, l, h, r, l)
      BY ONLY <3>4, <3>5, <3>6, FiledFull
    <3>8. QED
      BY <1>3, <2>2, <3>1, <3>2, <3>7
  <2>3. QED
    BY <2>1, <2>2
<1>9. Held' = Held
  BY <1>3 DEF Held, RingSlot, Count
<1>10. FilesOK' /\ Ring' = Ring
  BY <1>3, <1>8, <1>9, RingIs DEF FilesOK, FiledSame
<1>11. MessagesOK'
  <2>1. DOMAIN slots' = 0..Slots
    BY <1>3 DEF RingInv, MessagesOK
  <2>2. at[p] \in Sending
    BY <1>3 DEF Sending
  <2>3. QED
    BY <1>3, <1>4, <1>5, <2>1, <2>2, MessagesStay DEF RingInv
<1>12. HandOK'
  BY <1>3, <1>4, <1>6 DEF Alters, RingInv, HandOK, Process
<1>13. Pending' = Pending
  BY <1>3, <1>4, <1>7, <1>10 DEF Pending
<1>14. QED
  BY <1>10, <1>11, <1>12, <1>13 DEF RingInv

(* The heaps that freeing the entries of the ring goes through. *)
Frees(f, c) == f = [i \in 0..c |-> IF i = 0 THEN heap ELSE FreeEntry(f[i - 1], RingSlot(i))]

LEMMA FreesExist ==
    ASSUME NEW c \in Nat
    PROVE  \E f : Frees(f, c)
<1> DEFINE Bad == {k \in Nat : ~\E f : Frees(f, k)}
<1>1. SUFFICES ASSUME Bad # {} PROVE FALSE
  OBVIOUS
<1>2. Bad \subseteq Nat
  OBVIOUS
<1>3. PICK m \in Bad : \A k \in Bad : m <= k
  BY <1>1, <1>2, LeastNumber
<1>4. m \in Nat /\ ~\E f : Frees(f, m)
  BY <1>3
<1>5. m # 0
  <2>1. PICK f : f = [i \in 0..0 |-> heap]
    OBVIOUS
  <2>2. f = [i \in 0..0 |-> IF i = 0 THEN heap ELSE FreeEntry(f[i - 1], RingSlot(i))]
    BY <2>1
  <2>3. Frees(f, 0)
    BY <2>2 DEF Frees
  <2>4. QED
    BY <1>4, <2>3
<1>6. PICK j \in Nat : m = j + 1 /\ ~(m <= j)
  <2>1. m - 1 \in Nat /\ m = (m - 1) + 1 /\ ~(m <= m - 1)
    BY <1>4, <1>5
  <2>2. QED
    BY <2>1
<1>7. PICK f : Frees(f, j)
  BY <1>3, <1>6
<1>8. PICK g : g = [i \in 0..m |-> IF i = m THEN FreeEntry(f[j], RingSlot(m)) ELSE f[i]]
  OBVIOUS
<1>9. \A i \in 0..j : f[i] = IF i = 0 THEN heap ELSE FreeEntry(f[i - 1], RingSlot(i))
  BY <1>7 DEF Frees
<1>10. /\ \A i \in 0..m : i # m => i \in 0..j
       /\ \A i \in 0..m : i # 0 => i - 1 \in 0..m /\ i - 1 # m
       /\ m - 1 = j /\ m # 0
  BY <1>5, <1>6
<1>11. \A i \in 0..m : g[i] = IF i = 0 THEN heap ELSE FreeEntry(g[i - 1], RingSlot(i))
  <2>1. SUFFICES ASSUME NEW i \in 0..m
                 PROVE  g[i] = IF i = 0 THEN heap ELSE FreeEntry(g[i - 1], RingSlot(i))
    OBVIOUS
  <2>2. CASE i = m
    <3>1. j \in 0..m /\ j # m
      BY <1>6
    <3>2. g[i] = FreeEntry(f[j], RingSlot(m)) /\ g[j] = f[j]
      BY <1>8, <2>2, <3>1
    <3>3. QED
      BY <1>10, <2>2, <3>2
  <2>3. CASE i # m
    <3>1. g[i] = f[i] /\ i \in 0..j
      BY <1>8, <1>10, <2>3
    <3>2. i # 0 => g[i - 1] = f[i - 1]
      BY <1>8, <1>10
    <3>3. QED
      BY <1>9, <3>1, <3>2
  <2>4. QED
    BY <2>2, <2>3
<1>12. g = [i \in 0..m |-> g[i]]
  BY <1>8
<1>13. g = [i \in 0..m |-> IF i = 0 THEN heap ELSE FreeEntry(g[i - 1], RingSlot(i))]
  BY ONLY <1>11, <1>12
<1>14. QED
  BY <1>4, <1>13 DEF Frees

LEMMA FreedIs ==
    ASSUME QInv, NEW n
    PROVE  \E f : /\ f[0] = heap /\ Freed(n) = f[n]
                  /\ \A i \in 1..Count : f[i] = FreeEntry(f[i - 1], RingSlot(i))
<1>1. Count \in Nat
  BY HeldIs
<1>2. PICK f : f = CHOOSE g : g = [i \in 0..Count |-> IF i = 0 THEN heap
                                                      ELSE FreeEntry(g[i - 1], RingSlot(i))]
  OBVIOUS
<1>3. \E g : g = [i \in 0..Count |-> IF i = 0 THEN heap ELSE FreeEntry(g[i - 1], RingSlot(i))]
  BY <1>1, FreesExist DEF Frees
<1>4. f = [i \in 0..Count |-> IF i = 0 THEN heap ELSE FreeEntry(f[i - 1], RingSlot(i))]
  BY ONLY <1>2, <1>3
<1>5. Freed(n) = f[n]
  BY <1>2 DEF Freed
<1>6. 0 \in 0..Count /\ \A i \in 1..Count : i \in 0..Count /\ i # 0
  BY <1>1
<1>7. f[0] = heap /\ \A i \in 1..Count : f[i] = FreeEntry(f[i - 1], RingSlot(i))
  BY <1>4, <1>6
<1>8. QED
  BY <1>5, <1>7

LEMMA RingNumbers ==
    ASSUME QInv, RingInv, QueueExists
    PROVE  hand \in Seq(Nat) /\ Ring \in Seq(Nat) /\ Len(Ring) = Count
<1>1. Filed(heap, Held, lengths) /\ lengths \in Seq(Lengths) /\ hand \in Seq(Nat)
  BY DEF RingInv, MessagesOK, HandOK, FilesOK
<1>2. Count \in Nat /\ DOMAIN Ring = 1..Count /\ DOMAIN Held = 1..Count
  BY HeldIs
<1>3. ASSUME NEW i \in 1..Count PROVE Ring[i] \in Nat
  <2>1. Sent(heap, lengths, Held[i])
    BY <1>1, <1>2 DEF Filed
  <2>2. Ring[i] = Text(heap, lengths, Held[i])
    BY <1>2, RingIs DEF Texts
  <2>3. \A k \in DOMAIN lengths : k \in Nat
    BY <1>1
  <2>4. QED
    BY <1>1, <2>1, <2>2, <2>3, TextIs
<1>4. Ring \in [1..Count -> Nat]
  BY <1>2, <1>3 DEF Ring
<1>5. PICK c \in Nat : c = Count
  BY <1>2
<1>6. Ring \in Seq(Nat) /\ Len(Ring) = c
  BY <1>4, <1>5
<1>7. QED
  BY <1>1, <1>5, <1>6

LEMMA RestAs ==
    ASSUME NEW S, NEW r \in Seq(S), NEW n \in 0..Len(r)
    PROVE  /\ Rest(r, n) = [i \in 1..Len(r) - n |-> r[i + n]]
           /\ SubSeq(r, 1, n) \in Seq(S) /\ Len(SubSeq(r, 1, n)) = n
           /\ SubSeq(r, 1, n) \o Rest(r, n) = r
<1>1. PICK c \in Nat : c = Len(r) /\ DOMAIN r = 1..c /\ n \in 0..c /\ n \in Nat
  OBVIOUS
<1>2. SubSeq(r, n + 1, c) = [i \in 1..(1 + c - (n + 1)) |-> r[i + (n + 1) - 1]]
  BY <1>1
<1>3. 1 + c - (n + 1) = c - n /\ \A i \in 1..c - n : i + (n + 1) - 1 = i + n
  BY <1>1
<1>4. Rest(r, n) = [i \in 1..c - n |-> r[i + n]]
  BY <1>1, <1>2, <1>3 DEF Rest
<1>5. SubSeq(r, 1, n) = [i \in 1..n |-> r[i]]
  <2>1. SubSeq(r, 1, n) = [i \in 1..(1 + n - 1) |-> r[i + 1 - 1]]
    BY <1>1
  <2>2. 1 + n - 1 = n /\ \A i \in 1..n : i + 1 - 1 = i
    BY <1>1
  <2>3. QED
    BY <2>1, <2>2
<1>6. PICK x, y : x = SubSeq(r, 1, n) /\ y = Rest(r, n)
  OBVIOUS
<1>7. PICK d \in Nat : d = c - n /\ c = n + d
  <2>1. c - n \in Nat /\ c = n + (c - n)
    BY <1>1
  <2>2. QED
    BY <2>1
<1>8. x \in [1..n -> S] /\ y \in [1..d -> S]
  <2>1. \A i \in 1..c : r[i] \in S
    BY <1>1
  <2>2. \A i \in 1..n : i \in 1..c
    BY <1>1
  <2>3. \A i \in 1..d : i + n \in 1..c
    BY <1>1, <1>7
  <2>4. x = [i \in 1..n |-> r[i]] /\ y = [i \in 1..d |-> r[i + n]]
    BY <1>4, <1>5, <1>6, <1>7
  <2>5. QED
    BY <2>1, <2>2, <2>3, <2>4
<1>9. x \in Seq(S) /\ y \in Seq(S) /\ Len(x) = n /\ Len(y) = d
  <2>1. n \in Nat
    BY <1>1
  <2>2. QED
    BY ONLY <1>8, <2>1, d \in Nat
<1>10. PICK z : z = x \o y
  OBVIOUS
<1>11. z = [i \in 1..n + d |-> IF i <= n THEN x[i] ELSE y[i - n]]
  <2>1. x \in Seq(S) /\ y \in Seq(S)
    BY <1>9
  <2>2. /\ x \o y \in Seq(S) /\ Len(x \o y) = Len(x) + Len(y)
        /\ \A i \in 1..Len(x) + Len(y) : (x \o y)[i] = IF i <= Len(x) THEN x[i] ELSE y[i - Len(x)]
    BY ONLY <2>1, ConcatProperties
  <2>3. /\ z \in Seq(S) /\ Len(z) = n + d
        /\ \A i \in 1..n + d : z[i] = IF i <= n THEN x[i] ELSE y[i - n]
    BY <1>9, <1>10, <2>2
  <2>4. z = [i \in 1..n + d |-> z[i]]
    BY <2>3
  <2>5. QED
    BY <2>3, <2>4
<1>12. \A i \in 1..c : r[i] = IF i <= n THEN x[i] ELSE y[i - n]
  <2>1. \A i \in 1..c : IF i <= n THEN i \in 1..n ELSE i - n \in 1..c - n /\ (i - n) + n = i
    BY <1>1
  <2>2. \A i \in 1..n : x[i] = r[i]
    BY <1>5, <1>6
  <2>3. \A i \in 1..c - n : y[i] = r[i + n]
    BY <1>4, <1>6
  <2>4. QED
    BY <2>1, <2>2, <2>3
<1>13. r = [i \in 1..c |-> r[i]]
  BY <1>1
<1>14. z = r
  BY ONLY <1>7, <1>11, <1>12, <1>13
<1>15. QED
  BY <1>1, <1>4, <1>6, <1>9, <1>10, <1>14

LEMMA DequeueRing ==
    ASSUME QInv, RingInv, Dequeue
    PROVE  RingInv' /\ Pending' = Pending
<1>1. PICK k : k = IF Count < Chunk THEN Count ELSE Chunk
  OBVIOUS
<1>2. /\ at[Receiver] = "dequeuing" /\ hand' = SubSeq(Ring, 1, k) /\ heap' = Freed(k)
      /\ head' = (head + k) % (Slots + 1) /\ Goes(Receiver, "ready")
      /\ UNCHANGED <<handles, slots, tail, message, lengths>>
  BY <1>1 DEF Dequeue
<1>3. /\ Receiver \in Process /\ Receiver \notin Sender /\ IsOpen(Receiver) /\ HasQueueOpen(Receiver)
      /\ QueueExists /\ hand = <<>>
  <2>1. Receiver \in Process /\ Receiver \notin Sender
    BY QueueAssumption DEF Process
  <2>2. IsOpen(Receiver)
    BY <1>2, <2>1, Positions DEF PlaceOK
  <2>3. HasQueueOpen(Receiver) /\ hand = <<>>
    BY <1>2, <2>2 DEF HasQueueOpen, RingInv, HandOK
  <2>4. QED
    BY <2>1, <2>2, <2>3 DEF QueueExists
<1>4. Filed(heap, Held, lengths) /\ lengths \in Seq(Lengths)
  BY <1>3 DEF RingInv, FilesOK, MessagesOK
<1>5. Ring \in Seq(Nat) /\ Len(Ring) = Count /\ Count \in Nat /\ DOMAIN Held = 1..Count
  BY <1>3, HeldIs, RingNumbers
<1>6. k \in 0..Count /\ k <= Chunk
  BY <1>1, <1>5, QueueAssumption
<1>7. Held \in Seq(Int) /\ Len(Held) = Count
  <2>1. Held \in Seq(Int)
    BY <1>4 DEF Filed
  <2>2. QED
    BY <1>5, <2>1
<1>8. PICK f : /\ f[0] = heap /\ Freed(k) = f[k]
               /\ \A i \in 1..Count : f[i] = FreeEntry(f[i - 1], RingSlot(i))
  BY FreedIs
<1>9. FiledRest(f[k], heap, Held, k, lengths)
  <2>1. PICK h, r : h = heap /\ r = Held
    OBVIOUS
  <2>2. PICK l \in Seq(Lengths) : l = lengths
    BY <1>4
  <2>3. Filed(h, r, l)
    BY <1>4, <2>1, <2>2
  <2>4. f[0] = h
    BY <1>8, <2>1
  <2>5. \A i \in DOMAIN r : f[i] = FreeEntry(f[i - 1], r[i])
    BY <1>5, <1>8, <2>1 DEF Held
  <2>6. k \in 0..Len(r)
    BY <1>6, <1>7, <2>1
  <2>7. FiledRest(f[k], h, r, k, l)
    BY ONLY <2>3, <2>4, <2>5, <2>6, FiledRestIs
  <2>8. QED
    BY <2>1, <2>2, <2>7
<1>10. Held' = Rest(Held, k)
  <2>1. head \in 0..Slots /\ tail \in 0..Slots
    BY DEF QInv
  <2>2. PICK c, g : c = (tail - head) % (Slots + 1) /\ g = (head + k) % (Slots + 1)
    OBVIOUS
  <2>3. Count = c /\ k \in 0..c
    BY <1>6, <2>2 DEF Count
  <2>4. /\ (tail - g) % (Slots + 1) = c - k
        /\ \A i \in 1..c - k : (g + i - 1) % (Slots + 1) = (head + (i + k) - 1) % (Slots + 1)
    BY ONLY <2>1, <2>2, <2>3, TakeSlots
  <2>5. Count' = c - k
    BY <1>2, <2>2, <2>4 DEF Count
  <2>6. \A i \in 1..c - k : RingSlot(i)' = RingSlot(i + k)
    BY <1>2, <2>2, <2>4 DEF RingSlot
  <2>7. PICK x, y, z : x = Held /\ y = Held' /\ z = Rest(Held, k)
    OBVIOUS
  <2>8. z = [i \in 1..c - k |-> x[i + k]]
    <3>1. x \in Seq(Int) /\ Len(x) = c
      BY <1>7, <2>3, <2>7
    <3>2. k \in 0..Len(x)
      BY <2>3, <3>1
    <3>3. Rest(x, k) = [i \in 1..Len(x) - k |-> x[i + k]]
      BY <3>1, <3>2, RestAs
    <3>4. QED
      BY <2>7, <3>1, <3>3
  <2>9. \A i \in 1..c - k : i + k \in 1..c
    BY <1>5, <2>3
  <2>10. x = [i \in 1..c |-> RingSlot(i)]
    BY <2>3, <2>7 DEF Held
  <2>11. \A i \in 1..c - k : x[i + k] = RingSlot(i + k)
    BY <2>9, <2>10
  <2>12. y = [i \in 1..c - k |-> RingSlot(i)']
    BY <2>5, <2>7 DEF Held
  <2>13. \A i \in 1..c - k : RingSlot(i)' = x[i + k]
    BY <2>6, <2>11
  <2>14. y = z
    BY <2>8, <2>12, <2>13
  <2>15. QED
    BY <2>7, <2>14
<1>11. FilesOK' /\ Ring' = Rest(Ring, k)
  BY <1>2, <1>8, <1>9, <1>10, RingIs DEF FilesOK, FiledRest
<1>12. hand' \in Seq(Nat) /\ Len(hand') = k /\ hand' \o Ring' = Ring
  <2>1. PICK x \in Seq(Nat) : x = Ring
    BY <1>5
  <2>2. k \in 0..Len(x)
    BY <1>5, <1>6, <2>1
  <2>3. SubSeq(x, 1, k) \in Seq(Nat) /\ Len(SubSeq(x, 1, k)) = k /\ SubSeq(x, 1, k) \o Rest(x, k) = x
    BY <2>2, RestAs
  <2>4. QED
    BY <1>2, <1>11, <2>1, <2>3
<1>13. Alters(Receiver) /\ at'[Receiver] = "ready"
       /\ \A o \in Object : Receiver \in handles'[o] <=> Receiver \in handles[o]
  BY <1>2, <1>3, Going
<1>14. QueueExists'
  BY <1>3, <1>13 DEF QueueExists, HasQueueOpen, IsOpen
<1>15. HandOK'
  BY <1>6, <1>12, <1>13 DEF HandOK
<1>16. MessagesOK'
  <2>1. DOMAIN slots' = 0..Slots
    BY <1>2 DEF RingInv, MessagesOK
  <2>2. QED
    BY <1>2, <1>3, <2>1, MessagesStay DEF RingInv
<1>17. Pending' = Pending
  <2>1. <<>> \o Ring = Ring
    BY <1>5
  <2>2. QED
    BY <1>3, <1>12, <1>14, <2>1 DEF Pending
<1>18. QED
  BY <1>11, <1>15, <1>16, <1>17 DEF RingInv

(* What waits besides the messages in hand. *)
LEMMA PendingIs ==
    ASSUME QInv, RingInv
    PROVE  \E x \in Seq(Nat) : /\ Pending = hand \o x /\ hand \in Seq(Nat)
                               /\ x = IF QueueExists THEN Ring ELSE <<>>
<1>1. hand \in Seq(Nat)
  BY DEF RingInv, HandOK
<1>2. (IF QueueExists THEN Ring ELSE <<>>) \in Seq(Nat)
  BY RingNumbers
<1>3. QED
  BY <1>1, <1>2 DEF Pending

LEMMA DeliverRing ==
    ASSUME QInv, RingInv, Deliver
    PROVE  /\ RingInv' /\ Pending # <<>> /\ delivered' = Append(delivered, Head(Pending))
           /\ Pending' = Tail(Pending)
<1>1. PICK x \in Seq(Nat) : Pending = hand \o x /\ x = IF QueueExists THEN Ring ELSE <<>>
  BY PendingIs
<1>2. PICK y \in Seq(Nat) : y = hand
  BY PendingIs
<1>3. /\ at[Receiver] = "ready" /\ y # <<>> /\ delivered' = Append(delivered, Head(y))
      /\ hand' = Tail(y) /\ UNCHANGED <<handles, heap, slots, head, tail, at, message, lengths>>
  BY <1>2 DEF Deliver, shared
<1>4. /\ y \o x # <<>> /\ Head(y \o x) = Head(y) /\ Tail(y \o x) = Tail(y) \o x
      /\ Tail(y) \in Seq(Nat) /\ Len(Tail(y)) <= Len(y)
  <2>1. y # <<>>
    BY <1>3
  <2>2. Tail(y) \in Seq(Nat) /\ Len(Tail(y)) <= Len(y)
    BY <2>1
  <2>3. y \o x # <<>> /\ Head(y \o x) = Head(y)
    BY <2>1
  <2>4. Tail(y \o x) = Tail(y) \o x
    BY <2>1
  <2>5. QED
    BY <2>2, <2>3, <2>4
<1>5. QueueExists' <=> QueueExists
  BY <1>3 DEF QueueExists, HasQueueOpen, IsOpen
<1>6. Held' = Held /\ Ring' = Ring
  BY <1>3 DEF Held, Ring, RingSlot, Count, TextIn
<1>7. FilesOK' /\ MessagesOK'
  BY <1>3, <1>5, <1>6 DEF RingInv, FilesOK, MessagesOK
<1>8. HandOK'
  <2>1. Len(y) <= Chunk
    BY <1>2 DEF RingInv, HandOK
  <2>2. Len(Tail(y)) <= Chunk
    BY <1>4, <2>1, QueueAssumption
  <2>3. QED
    BY <1>3, <1>4, <2>2 DEF HandOK
<1>9. Pending' = Tail(y) \o x
  BY <1>1, <1>3, <1>5, <1>6 DEF Pending
<1>10. QED
  BY <1>1, <1>2, <1>3, <1>4, <1>7, <1>8, <1>9 DEF RingInv

(* Dropping none, those of the first part, or all. *)
LEMMA Dropped ==
    ASSUME NEW x \in Seq(Nat), NEW y \in Seq(Nat)
    PROVE  /\ Len(x) \in 0..Len(x \o y) /\ SubSeq(x \o y, Len(x) + 1, Len(x \o y)) = y
           /\ 0 \in 0..Len(x) /\ SubSeq(x, 0 + 1, Len(x)) = x
           /\ Len(x) \in 0..Len(x) /\ SubSeq(x, Len(x) + 1, Len(x)) = <<>>
<1>1. PICK m \in Nat : m = Len(x) /\ DOMAIN x = 1..m
  OBVIOUS
<1>2. PICK n \in Nat : n = Len(y) /\ DOMAIN y = 1..n
  OBVIOUS
<1>3. PICK z : z = x \o y
  OBVIOUS
<1>4. /\ z \in Seq(Nat) /\ Len(z) = m + n
      /\ \A i \in 1..m + n : z[i] = IF i <= m THEN x[i] ELSE y[i - m]
  BY <1>1, <1>2, <1>3, ConcatProperties
<1>5. m \in 0..m + n /\ 0 \in 0..m /\ m \in 0..m /\ 0 \in 0..m + n
  OBVIOUS
<1>6. SubSeq(z, m + 1, Len(z)) = y
  <2>1. m \in 0..Len(z)
    BY <1>4, <1>5
  <2>2. Rest(z, m) = [i \in 1..Len(z) - m |-> z[i + m]]
    BY ONLY <1>4, <2>1, RestAs
  <2>3. m + n - m = n /\ \A i \in 1..n : i + m \in 1..m + n /\ ~(i + m <= m) /\ i + m - m = i
    OBVIOUS
  <2>4. ASSUME NEW i \in 1..n PROVE z[i + m] = y[i]
    <3>1. PICK k \in 1..m + n : k = i + m /\ ~(k <= m) /\ k - m = i
      BY <2>3
    <3>2. z[k] = y[k - m]
      BY <1>4, <3>1
    <3>3. QED
      BY <3>1, <3>2
  <2>5. y = [i \in 1..n |-> y[i]]
    BY <1>2
  <2>6. Rest(z, m) = y
    BY <1>4, <2>2, <2>3, <2>4, <2>5
  <2>7. QED
    BY <2>6 DEF Rest
<1>7. SubSeq(x, 0 + 1, Len(x)) = x
  BY <1>1
<1>8. SubSeq(x, m + 1, m) = <<>>
  OBVIOUS
<1>9. QED
  BY <1>1, <1>3, <1>4, <1>5, <1>6, <1>7, <1>8

LEMMA DieRing ==
    ASSUME QInv, RingInv, NEW p \in Process, Die(p)
    PROVE  /\ RingInv'
           /\ \E n \in 0..Len(Pending) : /\ n <= Chunk \/ n = Len(Pending)
                                         /\ Pending' = SubSeq(Pending, n + 1, Len(Pending))
<1>1. /\ handles' = WithoutHandles(p) /\ hand' = (IF p = Receiver THEN <<>> ELSE hand)
      /\ Goes(p, IF p = Receiver THEN "off" ELSE "ready")
      /\ UNCHANGED <<heap, slots, head, tail, message, lengths>>
  BY DEF Die
<1>2. PICK step \in {"off", "ready"} : Goes(p, step)
  BY <1>1
<1>3. Alters(p) /\ at'[p] = step /\ None(p)' /\ "memory" \in Object
  BY <1>1, <1>2, Closing DEF Object
<1>4. ~HasQueueOpen(p)' /\ \A q \in Process \ {p} : HasQueueOpen(q)' <=> HasQueueOpen(q)
  BY <1>3, Others DEF HasQueueOpen, IsOpen, None
<1>5. QueueExists' => QueueExists
  BY <1>4 DEF QueueExists
<1>6. Held' = Held /\ Ring' = Ring
  BY <1>1 DEF Held, Ring, RingSlot, Count, TextIn
<1>7. FilesOK'
  BY <1>1, <1>5, <1>6 DEF RingInv, FilesOK
<1>8. MessagesOK'
  <2>1. DOMAIN slots' = 0..Slots /\ "off" \notin Sending /\ "ready" \notin Sending
    BY <1>1 DEF RingInv, MessagesOK, Sending
  <2>2. QED
    BY <1>1, <1>2, <2>1, MessagesStay DEF RingInv
<1>9. HandOK'
  <2>1. CASE p = Receiver
    BY <1>1, <2>1, QueueAssumption DEF HandOK
  <2>2. CASE p # Receiver
    BY <1>1, <1>3, <2>2 DEF RingInv, HandOK, Alters, Process
  <2>3. QED
    BY <2>1, <2>2
<1>10. PICK x \in Seq(Nat) : Pending = hand \o x /\ x = IF QueueExists THEN Ring ELSE <<>>
  BY PendingIs
<1>11. PICK y \in Seq(Nat) : y = hand
  BY PendingIs
<1>12. PICK z \in Seq(Nat) : z = Pending /\ z = y \o x
  <2>1. y \o x \in Seq(Nat)
    OBVIOUS
  <2>2. QED
    BY <1>10, <1>11, <2>1
<1>13. Pending' = hand' \o (IF QueueExists' THEN Ring ELSE <<>>)
  BY <1>6 DEF Pending
<1>14. \E n \in 0..Len(z) : (n <= Chunk \/ n = Len(z)) /\ Pending' = SubSeq(z, n + 1, Len(z))
  <2>1. CASE p = Receiver /\ QueueExists'
    <3>1. Pending' = x
      BY <1>1, <1>5, <1>10, <1>13, <2>1
    <3>2. Len(y) \in 0..Len(z) /\ SubSeq(z, Len(y) + 1, Len(z)) = x
      BY <1>12, Dropped
    <3>3. Len(y) <= Chunk
      BY <1>11 DEF RingInv, HandOK
    <3>4. QED
      BY <3>1, <3>2, <3>3
  <2>2. CASE Pending' = <<>>
    <3>1. Len(z) \in 0..Len(z) /\ SubSeq(z, Len(z) + 1, Len(z)) = <<>>
      BY Dropped
    <3>2. QED
      BY <2>2, <3>1
  <2>3. CASE Pending' = z
    <3>1. 0 \in 0..Len(z) /\ SubSeq(z, 0 + 1, Len(z)) = z
      BY Dropped
    <3>2. 0 <= Chunk
      BY QueueAssumption
    <3>3. QED
      BY <2>3, <3>1, <3>2
  <2>4. CASE p = Receiver /\ ~QueueExists'
    BY <1>1, <1>13, <2>2, <2>4
  <2>5. CASE p # Receiver /\ (QueueExists' <=> QueueExists)
    BY <1>1, <1>10, <1>12, <1>13, <2>3, <2>5
  <2>6. CASE p # Receiver /\ ~QueueExists' /\ QueueExists
    <3>1. ~HasQueueOpen(Receiver) /\ Receiver \in Process
      BY <1>4, <2>6 DEF QueueExists, Process
    <3>2. at[Receiver] # "ready"
      BY <3>1, Positions DEF PlaceOK, HasQueueOpen
    <3>3. hand = <<>>
      BY <3>2 DEF RingInv, HandOK
    <3>4. hand' \o <<>> = <<>>
      BY <1>1, <2>6, <3>3
    <3>5. QED
      BY <1>13, <2>2, <2>6, <3>4
  <2>7. QED
    BY <1>5, <2>1, <2>4, <2>5, <2>6
<1>15. QED
  BY <1>7, <1>8, <1>9, <1>12, <1>14 DEF RingInv

-----------------------------------------------------------------------------
LEMMA NextRing ==
    ASSUME QInv, RingInv, [Next]_vars, Windows \cap {"race", "gone"} = {}
    PROVE  RingInv' /\ [Promise!Next]_(Promise!vars)
<1>1. CASE UNCHANGED vars
  <2>1. /\ UNCHANGED <<handles, heap, slots, head, tail, at, message, lengths, hand, delivered, deaths>>
    BY <1>1 DEF vars
  <2>2. QueueExists' <=> QueueExists
    BY <2>1 DEF QueueExists, HasQueueOpen, IsOpen
  <2>3. FilesOK' /\ Pending' = Pending
    BY <2>1, <2>2, RingStays
  <2>4. MessagesOK' /\ HandOK'
    BY <2>1 DEF RingInv, MessagesOK, HandOK
  <2>5. QED
    BY <2>1, <2>3, <2>4 DEF RingInv, Promise!vars
<1>2. ASSUME RingInv' /\ Pending' = Pending, UNCHANGED <<delivered, deaths>>
      PROVE  RingInv' /\ [Promise!Next]_(Promise!vars)
  BY <1>2 DEF Promise!vars
<1>3. CASE Starts \/ Wait \/ LockToDequeue \/ Dequeue
  <2>1. UNCHANGED <<delivered, deaths>>
    BY <1>3 DEF Starts, Boot, CreateSemaphore, CreateEvent, CreateMemory, Wait, LockToDequeue,
       Dequeue, history
  <2>2. RingInv' /\ Pending' = Pending
    BY <1>3, BootRing, CreateSemaphoreRing, CreateEventRing, CreateMemoryRing, LockRing,
       DequeueRing DEF Starts, Process
  <2>3. QED
    BY <1>2, <2>1, <2>2
<1>4. CASE Deliver
  <2>1. /\ RingInv' /\ Pending # <<>> /\ delivered' = Append(delivered, Head(Pending))
        /\ Pending' = Tail(Pending) /\ UNCHANGED deaths
    BY <1>4, DeliverRing DEF Deliver
  <2>2. Promise!Deliver
    BY <2>1 DEF Promise!Deliver
  <2>3. QED
    BY <2>1, <2>2 DEF Promise!Next
<1>5. ASSUME NEW p \in Process, Opens(p) PROVE RingInv' /\ [Promise!Next]_(Promise!vars)
  <2>1. UNCHANGED <<delivered, deaths>>
    BY <1>5 DEF Opens, OpenSemaphore, OpenEvent, OpenMemory, OpenObject, OpenFails, history
  <2>2. "semaphore" \in Object /\ "event" \in Object /\ "memory" \in Object
    BY DEF Object
  <2>3. CASE OpenSemaphore(p)
    BY <1>2, <2>1, <2>2, <2>3, OpenObjectRing DEF OpenSemaphore
  <2>4. CASE OpenEvent(p)
    BY <1>2, <2>1, <2>2, <2>4, OpenObjectRing DEF OpenEvent
  <2>5. CASE OpenMemory(p)
    BY <1>2, <2>1, <2>2, <2>5, OpenObjectRing DEF OpenMemory
  <2>6. CASE OpenFails(p)
    BY <1>2, <2>1, <2>6, OpenFailsRing
  <2>7. QED
    BY <1>5, <2>3, <2>4, <2>5, <2>6 DEF Opens
<1>6. ASSUME NEW p \in Process, Die(p) PROVE RingInv' /\ [Promise!Next]_(Promise!vars)
  <2>1. deaths' = deaths + 1 /\ UNCHANGED delivered
    BY <1>6 DEF Die
  <2>2. PICK n \in 0..Len(Pending) : /\ n <= Chunk \/ n = Len(Pending)
                                     /\ Pending' = SubSeq(Pending, n + 1, Len(Pending))
    BY <1>6, DieRing
  <2>3. Promise!Die(n)
    BY <2>1, <2>2 DEF Promise!Die
  <2>4. RingInv'
    BY <1>6, DieRing
  <2>5. QED
    BY <2>3, <2>4 DEF Promise!Next
<1>7. ASSUME NEW p \in Sender, SendMessage(p) \/ LockToEnqueue(p) \/ EnqueueFails(p)
      PROVE  RingInv' /\ [Promise!Next]_(Promise!vars)
  <2>1. UNCHANGED <<delivered, deaths>> /\ p \in Process
    BY <1>7 DEF SendMessage, LockToEnqueue, EnqueueFails, history, Process
  <2>2. RingInv' /\ Pending' = Pending
    BY <1>7, <2>1, SendMessageRing, LockRing, EnqueueFailsRing
  <2>3. QED
    BY <1>2, <2>1, <2>2
<1>8. ASSUME NEW p \in Sender, Enqueue(p) PROVE RingInv' /\ [Promise!Next]_(Promise!vars)
  <2>1. UNCHANGED <<delivered, deaths>>
    BY <1>8 DEF Enqueue, history
  <2>2. RingInv' /\ \E m \in Number : Pending' = Append(Pending, m)
    BY <1>8, EnqueueRing
  <2>3. \E m \in Number : Promise!Accept(m)
    BY <2>1, <2>2 DEF Promise!Accept
  <2>4. QED
    BY <2>2, <2>3 DEF Promise!Next
<1>9. QED
  BY <1>1, <1>3, <1>4, <1>5, <1>6, <1>7, <1>8 DEF Next

LEMMA RingAlways ==
    ASSUME Windows \cap {"race", "gone"} = {}
    PROVE  Spec => [](QInv /\ RingInv)
<1>1. Init => QInv /\ RingInv
  BY InitQInv, InitRing
<1>2. QInv /\ RingInv /\ [Next]_vars => (QInv /\ RingInv)'
  BY NextQInv, NextRing
<1>3. QED
  BY <1>1, <1>2, PTL DEF Spec

(* Between critical sections the blocks tile the region, the free list is  *)
(* exactly the free ones, and each other block is in one slot: AllocEntry, *)
(* FreeEntry and CombineFreeBlocks neither lose a word nor give one away   *)
(* twice, in any order of messages, failures to find room, and deaths.     *)
THEOREM NoMessageOverwritten ==
    ASSUME Windows \cap {"race", "gone"} = {}
    PROVE  Spec => []BlocksTile
<1>1. ASSUME QInv, RingInv PROVE BlocksTile
  <2>1. SUFFICES ASSUME QueueExists
                 PROVE  /\ HeapWellFormed(heap)
                        /\ \A i, j \in 1..Count : RingSlot(i) = RingSlot(j) => i = j
                        /\ {RingSlot(i) : i \in 1..Count} = {o \in Blocks(heap) \ {Words} : ~IsFree(heap, o)}
    BY DEF BlocksTile
  <2>2. PICK B, L : Sound(heap, B, L) /\ Distinct(Held) /\ {Held[i] : i \in DOMAIN Held} = Used(heap, B)
    BY <1>1, <2>1 DEF RingInv, FilesOK, Filed
  <2>3. DOMAIN Held = 1..Count /\ \A i \in 1..Count : Held[i] = RingSlot(i)
    BY DEF Held
  <2>4. /\ HeapWellFormed(heap)
        /\ {o \in Blocks(heap) \ {Words} : ~IsFree(heap, o)} = Used(heap, B)
    BY <2>2, WellFormedIs
  <2>5. \A i, j \in 1..Count : RingSlot(i) = RingSlot(j) => i = j
    BY <2>2, <2>3 DEF Distinct
  <2>6. {RingSlot(i) : i \in 1..Count} = Used(heap, B)
    BY <2>2, <2>3
  <2>7. QED
    BY <2>4, <2>5, <2>6
<1>2. QED
  BY <1>1, RingAlways, PTL

(* FindFreeBlock puts an empty region together again, however it was cut:  *)
(* a message that fits the region at all finds room in an empty queue.     *)
THEOREM EmptyIsAsGoodAsNew ==
    ASSUME Windows \cap {"race", "gone"} = {}
    PROVE  Spec => []EmptyTakesAny
<1>1. ASSUME QInv, RingInv PROVE EmptyTakesAny
  <2>1. SUFFICES ASSUME QueueExists, IsEmpty
                 PROVE  AllocEntry(heap, Words - 2 * Header).offset # NoBlock
    BY DEF EmptyTakesAny
  <2>2. PICK B, L : Sound(heap, B, L) /\ {Held[i] : i \in DOMAIN Held} = Used(heap, B)
    BY <1>1, <2>1 DEF RingInv, FilesOK, Filed
  <2>3. Used(heap, B) = {}
    <3>1. Count = 0 /\ DOMAIN Held = 1..Count
      BY <1>1, <2>1, HeldIs
    <3>2. DOMAIN Held = {}
      BY <3>1
    <3>3. QED
      BY <2>2, <3>2
  <2>4. PICK n \in 1..Words - 2 : n = Words - 2 * Header
    BY DEF Header
  <2>5. PICK a : a = AllocEntry(heap, n)
    OBVIOUS
  <2>6. PICK h : h = heap
    OBVIOUS
  <2>7. Sound(h, B, L) /\ a = AllocEntry(h, n)
    BY <2>2, <2>5, <2>6
  <2>8. \E C, M : /\ Sound(a.heap, C, M) /\ Keeps(h, a.heap, Used(h, B))
                  /\ \/ /\ a.offset = NoBlock /\ Used(a.heap, C) = Used(h, B)
                        /\ Used(h, B) # {}
                     \/ /\ a.offset \in 1..Words - 1 /\ a.offset \notin Used(h, B)
                        /\ Used(a.heap, C) = Used(h, B) \cup {a.offset}
                        /\ BlockSize(a.heap, a.offset) >= n
    BY ONLY <2>7, AllocIs
  <2>9. a.offset \in 1..Words - 1
    BY <2>3, <2>6, <2>8
  <2>10. QED
    BY <2>4, <2>5, <2>9 DEF NoBlock
<1>2. QED
  BY <1>1, RingAlways, PTL

(* The queue implements MessageQueue: Enqueue accepts a message, and each  *)
(* accepted message is whole when it is delivered, is delivered once, in   *)
(* the order of acceptance, unless a death loses what was in hand, or all. *)
THEOREM QueueKeepsPromise ==
    ASSUME Windows \cap {"race", "gone"} = {}
    PROVE  Spec => KeepsPromise
<1>1. Init => Promise!Init
  BY InitRing DEF Init, Promise!Init
<1>2. QInv /\ RingInv /\ [Next]_vars => [Promise!Next]_(Promise!vars)
  BY NextRing
<1>3. QED
  BY <1>1, <1>2, RingAlways, PTL DEF Spec, KeepsPromise, Promise!Spec
=============================================================================
