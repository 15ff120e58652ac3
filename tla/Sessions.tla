------------------------------ MODULE Sessions ------------------------------
(***************************************************************************)
(* The sessions of an engine: CSessionManager's table of tickets, the      *)
(* timeouts of ISessionHandler on the engine's CTimedMessageQueue, and     *)
(* several engine threads that take messages off the same queue.  The      *)
(* handler is CMessageSerializerSession: a list of commands, each sent     *)
(* with a timeout once the one before it has been answered.                *)
(*                                                                         *)
(* A message is looked up (GetAt) in one step, processed under the         *)
(* session's lock in another, and its session deleted in a third: between  *)
(* the steps a thread holds a pointer and no lock.                         *)
(***************************************************************************)
EXTENDS TimedQueue, FiniteSets

CONSTANTS Worker,        \* threads of the engine (CSimpleProcessingThread)
          MaxSessions,   \* bound on the sessions ever started
          NumCommands,   \* length of a session's list of commands
          MaxKeepAlive,  \* bound on the Arc.keepAlive replies to one command
          Counters,      \* size of a ticket's counter, 255 in TIDTable
          Windows        \* the delicate windows a behaviour may enter

ASSUME SessionsAssumption ==
    /\ MaxSessions \in Nat /\ NumCommands \in Nat \ {0}
    /\ MaxKeepAlive \in Nat /\ Counters \in Nat \ {0}
    /\ Windows \subseteq {"stale", "reuse", "keepalive", "shorten", "ended", "ticket", "wrap"}

VARIABLES
    table,     \* TIDTable m_Sessions: the counter of each slot's ticket, 0 if free
    freeIDs,   \* TIDTable m_Free, last in first out
    sessions,  \* ISessionHandler objects in the order of their start
    deleted,   \* m_Deleted: sessions that Mark will free
    freed,     \* history: sessions whose memory is gone
    queue,     \* messages on the engine's port; threads take them in any order
    calls,     \* commands that other engines have not answered
    workers,   \* what each thread is doing
    timers,    \* the engine's CTimedMessageQueue
    armed      \* the timer CSimpleEventThread sleeps for

vars == <<table, freeIDs, sessions, deleted, freed, queue, calls, workers, timers, armed>>

NoSession == 0
Awake == MaxSessions * NumCommands + 1    \* CSimpleEventThread is not asleep

Started == DOMAIN sessions
Ticket == [slot : 1..MaxSessions, counter : 1..Counters]
FreeSlot == [counter |-> 0, sess |-> NoSession]
TimerID == DOMAIN timers.pool
Cmd == 1..NumCommands
Message == [type : {"reply", "error", "keepAlive", "timeout"}, ticket : Ticket, cmd : Cmd,
            id : TimerID \cup {NoID}]
Idle == [step |-> "idle"]
Work == [step : {"process", "delete"}, msg : Message, sess : Started]

(* The type of the engine's state; a ticket in use is that of a session, a *)
(* session is at a command of its list or past its end, a thread holds a   *)
(* message only with a session, and a timer's number is in the pool.       *)
TypeOK ==
    /\ table \in Seq([counter : 1..Counters, sess : Started] \cup {FreeSlot})
    /\ Len(table) <= Len(sessions) /\ Len(sessions) <= MaxSessions
    /\ freeIDs \in Seq(Ticket)
    /\ sessions \in Seq([ticket : Ticket, pos : 1..NumCommands + 1,
                         timeoutID : TimerID \cup {NoID}, answers : Nat, ended : BOOLEAN])
    /\ deleted \subseteq Started /\ freed \subseteq Started
    /\ queue \subseteq Message
    /\ calls \subseteq [ticket : Ticket, cmd : Cmd, kept : 0..MaxKeepAlive]
    /\ workers \in [Worker -> {Idle} \cup Work]
    /\ IsQueue(timers, Ticket, Cmd)
    /\ armed \in TimerID \cup {NoID, Awake}

Init ==
    /\ table = <<>> /\ freeIDs = <<>> /\ sessions = <<>>
    /\ deleted = {} /\ freed = {} /\ queue = {} /\ calls = {}
    /\ workers = [w \in Worker |-> Idle]
    /\ timers = EmptyQueue
    /\ armed = Awake

-----------------------------------------------------------------------------
(* TIDTable *)

NextTicket(t) == [slot |-> t.slot, counter |-> ((t.counter + 1) % Counters) + 1]

TicketForInsertBefore ==    \* mutant: a new slot takes the number of the one before it
    IF freeIDs # <<>> THEN NextTicket(freeIDs[Len(freeIDs)]) ELSE [slot |-> Len(table), counter |-> 1]
(* The ticket that Insert gives to the next session. *)
TicketForInsert ==
    IF freeIDs # <<>> THEN NextTicket(freeIDs[Len(freeIDs)])
    ELSE [slot |-> Len(table) + 1, counter |-> 1]

InsertSession(s) ==
    LET t == TicketForInsert
        entry == [counter |-> t.counter, sess |-> s]
    IN  IF freeIDs # <<>>
        THEN /\ table' = [table EXCEPT ![t.slot] = entry]
             /\ freeIDs' = SubSeq(freeIDs, 1, Len(freeIDs) - 1)
        ELSE table' = Append(table, entry) /\ UNCHANGED freeIDs

LookUpBySlot(t) ==    \* mutant: the counter is not compared
    t.slot \in DOMAIN table /\ table[t.slot].counter # 0
IsValid(t) == t.slot \in DOMAIN table /\ table[t.slot].counter = t.counter

Reply(t, type, cmd) == [type |-> type, ticket |-> t, cmd |-> cmd, id |-> NoID]
Timeout(i) ==
    [type |-> "timeout", ticket |-> timers.pool[i].ticket, cmd |-> timers.pool[i].cmd, id |-> i]

InHand == {workers[w].msg : w \in {v \in Worker : workers[v].step = "process"}}

(* Timeouts on their way to a session that is still in the table. *)
Undelivered == {m \in queue \cup InHand : m.type = "timeout" /\ IsValid(m.ticket)}

(* Windows at the allocation of timer i by the session with ticket t: a    *)
(* timeout that has been sent carries the number ("stale"), or the session *)
(* it was sent to still keeps it ("reuse").                                *)
MayAllocate(t, i) ==
    \A m \in Undelivered : m.id = i => IF m.ticket = t THEN "stale" \in Windows
                                       ELSE "reuse" \in Windows

(* SetTimeout and SendMessageCommand for command cmd, with q the timers    *)
(* left by what the caller did before.                                     *)
SendCommand(q, t, cmd) ==
    /\ MayAllocate(t, NextID(q))
    /\ \E after \in Places(q) : timers' = AddTimeoutMessage(q, t, cmd, after)
    /\ calls' = calls \cup {[ticket |-> t, cmd |-> cmd, kept |-> 0]}

(* TSimpleEngine::StartSession, CMessageSerializerSession::OnStartSession. *)
(* Window "wrap": the ticket's counter has come round while a timeout for  *)
(* an earlier session with the same ticket is still on its way.            *)
StartSession ==
    /\ Len(sessions) < MaxSessions
    /\ LET t == TicketForInsert
       IN  /\ (\E m \in queue \cup InHand : m.type = "timeout" /\ m.ticket = t) => "wrap" \in Windows
           /\ InsertSession(Len(sessions) + 1)
           /\ SendCommand(timers, t, 1)
           /\ sessions' = Append(sessions, [ticket |-> t, pos |-> 1, timeoutID |-> NextID(timers),
                                            answers |-> 0, ended |-> FALSE])
    /\ UNCHANGED <<deleted, freed, queue, workers, armed>>

-----------------------------------------------------------------------------
(* The engines that answer commands: each may answer, report an error, ask *)
(* for more time, or never be heard of again.                              *)

Answer ==
    \E c \in calls, type \in {"reply", "error"} :
        /\ calls' = calls \ {c}
        /\ queue' = queue \cup {Reply(c.ticket, type, c.cmd)}
        /\ UNCHANGED <<table, freeIDs, sessions, deleted, freed, workers, timers, armed>>

TimerOf(t, cmd) ==
    {i \in Busy(timers) : timers.pool[i].ticket = t /\ timers.pool[i].cmd = cmd}

(* Window "keepalive": it is sent when the timer has fired already. *)
KeepAlive ==
    \E c \in calls :
        /\ c.kept < MaxKeepAlive
        /\ TimerOf(c.ticket, c.cmd) # {} \/ "keepalive" \in Windows
        /\ calls' = (calls \ {c}) \cup {[c EXCEPT !.kept = @ + 1]}
        /\ queue' = queue \cup {Reply(c.ticket, "keepAlive", c.cmd)}
        /\ UNCHANGED <<table, freeIDs, sessions, deleted, freed, workers, timers, armed>>

-----------------------------------------------------------------------------
(* CSessionManager::ProcessMessage on thread w *)

(* A session that another thread is about to delete, or has deleted, still *)
(* gets the message: window "ended".                                       *)
Ending(s) == sessions[s].ended \/ \E w \in Worker : workers[w].step = "delete" /\ workers[w].sess = s

(* Dequeue and GetAt: a message for no session is dropped. *)
Take(w) ==
    \E m \in queue :
        /\ workers[w] = Idle
        /\ queue' = queue \ {m}
        /\ workers' = IF IsValid(m.ticket)
                      THEN [workers EXCEPT ![w] = [step |-> "process", msg |-> m,
                                                   sess |-> table[m.ticket.slot].sess]]
                      ELSE workers
        /\ UNCHANGED <<table, freeIDs, sessions, deleted, freed, calls, timers, armed>>

Finish(w) == workers' = [workers EXCEPT ![w] = Idle]
ToDelete(w) == workers' = [workers EXCEPT ![w].step = "delete"]

(* SendMessageReply or SendMessageReplyError, then FALSE to the manager. *)
AnswerClient(w, s) ==
    /\ sessions' = [sessions EXCEPT ![s].timeoutID = NoID, ![s].answers = @ + 1]
    /\ ToDelete(w)
    /\ UNCHANGED calls

(* Window "shorten": a timer that was not the first becomes it, because   *)
(* the 30 seconds are less than what was left of its time.                 *)
Overtakes(i, after) ==
    after = NoID /\ timers.first # i /\ RemoveFromList(timers, i).first # NoID

ProcessKeepAlive(w) ==
    LET s == workers[w].sess
        i == sessions[s].timeoutID
    IN  /\ workers[w].step = "process" /\ workers[w].msg.type = "keepAlive"
        /\ IF i = NoID THEN UNCHANGED timers
           ELSE \E after \in KeepAlivePlaces(timers, i) :
                    /\ Overtakes(i, after) => "shorten" \in Windows
                    /\ timers' = KeepAliveMessage(timers, i, after)
        /\ Finish(w)
        /\ UNCHANGED <<table, freeIDs, sessions, deleted, freed, queue, calls, armed>>

(* OnTimeout is OnProcessMessage, and Error.timeout is an error. *)
ProcessTimeoutUnchecked(w) ==    \* mutant: the payload is not compared with m_dwTimeoutID
    /\ workers[w].step = "process" /\ workers[w].msg.type = "timeout"
    /\ AnswerClient(w, workers[w].sess)
    /\ UNCHANGED <<table, freeIDs, deleted, freed, queue, timers, armed>>
ProcessTimeout(w) ==
    LET s == workers[w].sess
    IN  /\ workers[w].step = "process" /\ workers[w].msg.type = "timeout"
        /\ IF sessions[s].timeoutID = workers[w].msg.id THEN AnswerClient(w, s)
           ELSE Finish(w) /\ UNCHANGED <<sessions, calls>>
        /\ UNCHANGED <<table, freeIDs, deleted, freed, queue, timers, armed>>

TimeoutDeleted(s) ==
    IF sessions[s].timeoutID = NoID THEN timers ELSE DeleteMessage(timers, sessions[s].timeoutID)

NextCommandDeletingLast(w, s) ==    \* mutant: the timeout is deleted after the next one is set
    /\ calls' = calls \cup {[ticket |-> sessions[s].ticket, cmd |-> sessions[s].pos + 1, kept |-> 0]}
    /\ \E after \in Places(timers) :
          timers' = DeleteMessage(AddTimeoutMessage(timers, sessions[s].ticket, sessions[s].pos + 1, after),
                                  NextID(timers))
    /\ sessions' = [sessions EXCEPT ![s].pos = @ + 1, ![s].timeoutID = NextID(timers)]
    /\ Finish(w)
(* A reply with commands left: the next one is sent. *)
NextCommand(w, s) ==
    LET q == TimeoutDeleted(s)
    IN  /\ SendCommand(q, sessions[s].ticket, sessions[s].pos + 1)
        /\ sessions' = [sessions EXCEPT ![s].pos = @ + 1, ![s].timeoutID = NextID(q)]
        /\ Finish(w)

(* The last reply: OnComplete. *)
Complete(w, s) ==
    /\ sessions' = [sessions EXCEPT ![s].pos = NumCommands + 1, ![s].timeoutID = NoID,
                                    ![s].answers = @ + 1]
    /\ timers' = TimeoutDeleted(s)
    /\ ToDelete(w)
    /\ UNCHANGED calls

(* A reply to a session that has completed: the list is read past its end, *)
(* which raises an exception that the manager catches, or goes unnoticed.  *)
PastTheEnd(w, s) ==
    \/ Complete(w, s)
    \/ Finish(w) /\ UNCHANGED <<sessions, calls, timers>>

ProcessMessage(w) ==
    LET s == workers[w].sess
        reply == workers[w].msg.type = "reply"
    IN  /\ workers[w].step = "process" /\ workers[w].msg.type \in {"reply", "error"}
        /\ Ending(s) => "ended" \in Windows
        /\ \/ ~reply /\ AnswerClient(w, s) /\ timers' = TimeoutDeleted(s)
           \/ reply /\ sessions[s].pos < NumCommands /\ NextCommand(w, s)
           \/ reply /\ sessions[s].pos = NumCommands /\ Complete(w, s)
           \/ reply /\ sessions[s].pos > NumCommands /\ PastTheEnd(w, s)
        /\ UNCHANGED <<table, freeIDs, deleted, freed, queue, armed>>

(* CSessionManager::Delete, which looks at the slot and not at the ticket: *)
(* window "ticket", when the slot is another session's by now.             *)
Delete(w) ==
    LET t == workers[w].msg.ticket
        s == table[t.slot].sess
    IN  /\ workers[w].step = "delete"
        /\ s # NoSession /\ ~IsValid(t) => "ticket" \in Windows
        /\ IF s = NoSession THEN UNCHANGED <<sessions, deleted>>
           ELSE /\ sessions' = [sessions EXCEPT ![s].ended = TRUE]
                /\ deleted' = deleted \cup {s}
        /\ IF s # NoSession /\ IsValid(t)
           THEN /\ table' = [table EXCEPT ![t.slot] = FreeSlot]
                /\ freeIDs' = Append(freeIDs, t)
           ELSE UNCHANGED <<table, freeIDs>>
        /\ Finish(w)
        /\ UNCHANGED <<freed, queue, calls, timers, armed>>

MarkBusy ==    \* mutant: a collection that does not wait for the threads
    /\ deleted # {}
    /\ freed' = freed \cup deleted
    /\ deleted' = {}
    /\ UNCHANGED <<table, freeIDs, sessions, queue, calls, workers, timers, armed>>
(* CSessionManager::Mark, in a garbage collection: every thread is at the  *)
(* top of its loop.                                                        *)
Mark ==
    /\ deleted # {}
    /\ \A w \in Worker : workers[w] = Idle
    /\ freed' = freed \cup deleted
    /\ deleted' = {}
    /\ UNCHANGED <<table, freeIDs, sessions, queue, calls, workers, timers, armed>>

-----------------------------------------------------------------------------
(* CSimpleEventThread *)

(* GetTimeForNextMessage, and the wait begins. *)
Arm ==
    /\ armed = Awake
    /\ armed' = timers.first
    /\ timers' = [timers EXCEPT !.event = FALSE]
    /\ UNCHANGED <<table, freeIDs, sessions, deleted, freed, queue, calls, workers>>

Wake ==
    /\ armed # Awake /\ timers.event
    /\ armed' = Awake
    /\ UNCHANGED <<table, freeIDs, sessions, deleted, freed, queue, calls, workers, timers>>

ExtensionComing(t) == \E m \in queue \cup InHand : m.type = "keepAlive" /\ m.ticket = t

(* The wait times out and ProcessMessages sends the first timer, which is  *)
(* due.  The next one that is due is sent after the next wait, of length 0.*)
(* Window "keepalive": a request for more time is on its way.              *)
Fire ==
    /\ armed \notin {Awake, NoID}
    /\ armed' = Awake
    /\ IF timers.first = NoID THEN UNCHANGED <<timers, queue>>
       ELSE LET m == Timeout(timers.first)
            IN  /\ ExtensionComing(m.ticket) => "keepalive" \in Windows
                /\ queue' = queue \cup {m}
                /\ timers' = Free(RemoveFromList(timers, timers.first), timers.first)
    /\ UNCHANGED <<table, freeIDs, sessions, deleted, freed, calls, workers>>

-----------------------------------------------------------------------------
Next ==
    \/ StartSession \/ Answer \/ KeepAlive \/ Mark
    \/ \E w \in Worker : \/ Take(w) \/ ProcessKeepAlive(w) \/ ProcessTimeout(w)
                         \/ ProcessMessage(w) \/ Delete(w)
    \/ Arm \/ Wake \/ Fire

Spec == Init /\ [][Next]_vars

-----------------------------------------------------------------------------
(* Properties *)

Live(s) == ~Ending(s)

(* CTimedMessageQueue keeps its lists whole under every order of adding,   *)
(* deleting, extending and firing timers.                                  *)
TimersWellFormed == WellFormed(timers)

(* A session that waits for a command is covered: its timer runs for that  *)
(* very command, or the timeout or the answer is on its way, so the        *)
(* session cannot wait for ever.                                           *)
TimersOwned ==
    \A s \in DOMAIN sessions : Live(s) =>
        LET S == sessions[s]
        IN  \/ S.timeoutID \in TimerOf(S.ticket, S.pos)
            \/ \E m \in queue \cup InHand :
                  m.ticket = S.ticket /\ m.cmd = S.pos /\ m.type = "timeout" /\ m.id = S.timeoutID

(* The client of a session is answered once: never twice, and once it has  *)
(* been answered the session is on its way out of the table.               *)
AnsweredOnce ==
    \A s \in DOMAIN sessions : sessions[s].answers = (IF Live(s) THEN 0 ELSE 1)

(* A session whose memory is gone is out of reach: no ticket leads to one  *)
(* that a collection frees or has freed, and no thread holds on to one     *)
(* that is freed.                                                          *)
NoUseAfterFree ==
    /\ \A i \in DOMAIN table : table[i].sess \notin deleted \cup freed
    /\ \A w \in Worker : workers[w] # Idle => workers[w].sess \notin freed

(* A message is given to the session it was sent for, and a session that   *)
(* gives up on a timeout is waiting for the command that timed out.        *)
TimeoutIsReal ==
    [][\A w \in Worker : workers[w].step = "process" /\ workers'[w].step = "delete" =>
          LET m == workers[w].msg
              s == workers[w].sess
          IN  sessions[s].ticket = m.ticket /\ (m.type = "timeout" => sessions[s].pos = m.cmd)]_vars

(* The timer thread never sleeps past the first timer of the list: it      *)
(* waits for that timer, or its event is set.                              *)
WakesInTime == armed = Awake \/ timers.event \/ armed = timers.first
=============================================================================
