----------------------------- MODULE Mnemosynth -----------------------------
(***************************************************************************)
(* Mnemosynth, the replicated configuration of an arcology: a CMnemosynthDb*)
(* in every module of every machine, kept in step by CMnemosynthEngine.  A *)
(* module sends what it wrote to its machine's CentralModule, which passes *)
(* it on to the machine's other modules and to the central modules of the  *)
(* other machines.  A module may stop and start again with nothing.        *)
(*                                                                         *)
(* An endpoint is <<machine, module>>, a value is the write that made it.  *)
(* The engine has one thread; its messages arrive in the order sent.       *)
(***************************************************************************)
EXTENDS Integers, Sequences, SequencesExt, FiniteSets

CONSTANTS Endpoint,    \* <<machine, module>>
          Key,         \* entries; a collection is not told from its keys
          WriterOf,    \* [Key -> Endpoint]: the module that writes each key
          EntryAbout,  \* [Endpoint -> Key]: where Exarch keeps its status
          PortsOf,     \* where each module publishes its ports; Exarch deletes it
          Prime,       \* the machine that is Arcology Prime
          MaxWrites,   \* bound on the writes of each run of a module
          MaxStops,    \* bound on modules that stop
          MaxCheckpoints, \* bound on the checkpoints asked for at once
          Windows      \* the delicate windows a behaviour may enter

Central == "CentralModule"
IsCentral(e) == e[2] = Central
(* bLocalMachine: e's name starts with the name of n's machine.  No machine *)
(* is taken to have a name that starts with another's.                     *)
Local(n, e) == e[1] = n[1]
CentralOf(n) == <<n[1], Central>>
Modules == {e \in Endpoint : ~IsCentral(e)}
Centrals == {e \in Endpoint : IsCentral(e)}

(* Exarch writes of modules in their own machine, of machines in Prime. *)
ASSUME MnemosynthAssumption ==
    /\ IsFiniteSet(Endpoint) /\ IsFiniteSet(Key)
    /\ \A e \in Endpoint : e = <<e[1], e[2]>> /\ CentralOf(e) \in Endpoint
    /\ WriterOf \in [Key -> Endpoint] /\ EntryAbout \in [Endpoint -> Key]
    /\ PortsOf \in [Modules -> Key]
    /\ \A m \in Modules : WriterOf[EntryAbout[m]] = CentralOf(m) /\ WriterOf[PortsOf[m]] = m
    /\ \A c \in Centrals : c[1] # Prime => WriterOf[EntryAbout[c]] = <<Prime, Central>>
    /\ MaxWrites \in Nat /\ MaxStops \in Nat /\ MaxCheckpoints \in Nat
    /\ Windows \subseteq {"late", "leftover", "samepid", "reorder", "lose", "relay", "recount"}

VARIABLES
    db,         \* the CMnemosynthDb of each module
    inbox,      \* messages to its Mnemosynth engine, in order
    waiting,    \* m_LocalCheckpoints
    arcology,   \* m_ArcologyCheckpoints of each central module
    pid,        \* process of each module, 0 when it does not run
    start,      \* what CMecharcologyDb knows of each module's start
    written,    \* history: what each module has written since it started
    stops,      \* history: modules stopped so far
    connected   \* history: the connections each central module has been told of

vars == <<db, inbox, waiting, arcology, pid, start, written, stops, connected>>

Nil == <<>>
NullID == -1
NoEntry == [owner |-> NullID, seq |-> 0, val |-> Nil, has |-> FALSE]

(* A value is that of the write that made it. *)
Val == {Nil} \cup (Nat \X Nat)
EntryType == [owner : Nat \cup {NullID}, seq : Nat, val : Val, has : BOOLEAN]
EndpointType == [id : Nat, recv : Nat, sent : Nat, full : BOOLEAN, pid : Nat]
IsDb(d) ==
    /\ d = [entry |-> d.entry, ep |-> d.ep, nextID |-> d.nextID, event |-> d.event]
    /\ d.entry \in [Key -> EntryType]
    /\ d.ep \in [DOMAIN d.ep -> EndpointType] /\ DOMAIN d.ep \subseteq Endpoint
    /\ d.nextID \in Nat /\ d.event \in BOOLEAN
Watermarks == Seq([end : Endpoint, seq : Nat, id : Nat \cup {NullID}])
Message ==
    [type : {"update"}, from : Endpoint, pid : Nat, entries : SUBSET [key : Key, seq : Nat, val : Val]]
    \cup [type : {"checkpoint"}, id : Nat, wm : Watermarks]
    \cup [type : {"notify"}, for : Endpoint, id : Nat, wm : Watermarks]
    \cup [type : {"updated"}, from : Endpoint, id : Nat]

(* The type of every module's state; every database knows its own module,  *)
(* under the ID that marks its own writes, and numbers each endpoint once. *)
TypeOK ==
    /\ db = [n \in Endpoint |-> db[n]] /\ inbox \in [Endpoint -> Seq(Message)]
    /\ \A n \in Endpoint :
          /\ IsDb(db[n])
          /\ n \in DOMAIN db[n].ep /\ db[n].ep[n].id = 0
          /\ \A e, f \in DOMAIN db[n].ep : db[n].ep[e].id = db[n].ep[f].id => e = f
          /\ waiting[n] \subseteq [for : Endpoint, id : Nat, wm : Watermarks \ {<<>>}]
          /\ arcology[n] \subseteq
                [id : Nat, wm : Watermarks, asked : SUBSET Endpoint, confirmed : SUBSET Endpoint]
          /\ \A c \in arcology[n] : IsCentral(n) /\ c.confirmed \subseteq c.asked
    /\ pid \in [Endpoint -> Nat]
    /\ start \in [Endpoint -> [state : {"launched", "told", "running", "stopped"}, seq : Nat]]
    /\ written \in [Endpoint -> Seq([key : Key, val : Val])]
    /\ stops \in 0..MaxStops /\ connected \subseteq Centrals \X Centrals

(* Boot: the module itself is endpoint 0. *)
EmptyDb(n, p) ==
    [entry |-> [k \in Key |-> NoEntry],
     ep |-> [e \in {n} |-> [id |-> 0, recv |-> 0, sent |-> 0, full |-> TRUE, pid |-> p]],
     nextID |-> 1, event |-> FALSE]

(* The central modules run; their modules have been launched.  The message *)
(* of a central module about its own start changes nothing here.           *)
Init ==
    /\ db = [n \in Endpoint |-> EmptyDb(n, 1)]
    /\ inbox = [n \in Endpoint |-> <<>>]
    /\ waiting = [n \in Endpoint |-> {}]
    /\ arcology = [n \in Endpoint |-> {}]
    /\ pid = [n \in Endpoint |-> 1]
    /\ start = [n \in Endpoint |-> [state |-> IF IsCentral(n) THEN "running" ELSE "launched", seq |-> 0]]
    /\ written = [n \in Endpoint |-> <<>>]
    /\ stops = 0 /\ connected = {}

-----------------------------------------------------------------------------
(* CMnemosynthDb.  d is the database of module n. *)

AddedAs(n, e, p, id) ==
    [id |-> id, recv |-> 0, sent |-> 0, full |-> TRUE, pid |-> IF Local(n, e) THEN p ELSE 0]

GetOrAddEndpoint(n, d, e, p) ==
    IF e \notin DOMAIN d.ep
    THEN [d EXCEPT !.ep = [x \in DOMAIN @ \cup {e} |-> IF x = e THEN AddedAs(n, e, p, d.nextID) ELSE @[x]],
                   !.nextID = @ + 1]
    ELSE IF p # 0 /\ p # d.ep[e].pid
    THEN [d EXCEPT !.ep[e].pid = p, !.ep[e].recv = 0, !.ep[e].sent = 0]
    ELSE d

RemoveNothing(d, e) == d    \* mutant
RemoveEndpoint(d, e) == [d EXCEPT !.ep = [x \in DOMAIN @ \ {e} |-> @[x]]]

(* Write, and Delete when v is Nil. *)
WriteEntry(n, d, k, v) ==
    LET seq == d.ep[n].recv + 1
    IN  [d EXCEPT !.entry[k] = [owner |-> 0, seq |-> seq, val |-> v, has |-> TRUE],
                  !.ep[n].recv = seq, !.event = TRUE]

OwnedBy(d, e) == {k \in Key : d.entry[k].has /\ d.entry[k].owner = d.ep[e].id}
Entries(d, K) == {[key |-> k, seq |-> d.entry[k].seq, val |-> d.entry[k].val] : k \in K}
Update(d, e, K) == [type |-> "update", from |-> e, pid |-> d.ep[e].pid, entries |-> Entries(d, K)]

ChangedAfterNext(d, e) ==    \* mutant: off by one
    {k \in OwnedBy(d, e) : d.entry[k].seq > d.ep[e].sent + 1}
Changed(d, e) == {k \in OwnedBy(d, e) : d.entry[k].seq > d.ep[e].sent}
Full(d, e) == {k \in OwnedBy(d, e) : d.entry[k].val # Nil}

(* The central module's payloads for endpoint i about endpoints E. *)
PayloadsFor(d, i, E) ==
    LET about == IF d.ep[i].full THEN E ELSE {e \in E : Changed(d, e) # {}}
        payload(e) == Update(d, e, IF d.ep[i].full THEN Full(d, e) ELSE Changed(d, e))
    IN  SetToSeq({payload(e) : e \in about})

DeltaForOwnWrites(n, d, i) ==    \* mutant: other machines hear of the central module only
    IF ~IsCentral(n)
    THEN IF i = CentralOf(n) /\ d.ep[n].recv > d.ep[n].sent
         THEN <<Update(d, n, Changed(d, n))>> ELSE <<>>
    ELSE IF i = n \/ i \notin DOMAIN d.ep THEN <<>>
    ELSE IF Local(n, i) THEN PayloadsFor(d, i, DOMAIN d.ep \ {i})
    ELSE IF IsCentral(i) THEN PayloadsFor(d, i, {n})
    ELSE <<>>
DeltaFor(n, d, i) ==
    IF ~IsCentral(n)
    THEN IF i = CentralOf(n) /\ d.ep[n].recv > d.ep[n].sent
         THEN <<Update(d, n, Changed(d, n))>> ELSE <<>>
    ELSE IF i = n \/ i \notin DOMAIN d.ep THEN <<>>
    ELSE IF Local(n, i) THEN PayloadsFor(d, i, DOMAIN d.ep \ {i})
    ELSE IF IsCentral(i) THEN PayloadsFor(d, i, {e \in DOMAIN d.ep : Local(n, e)})
    ELSE <<>>

(* Deletion stubs that go once the delta is composed. *)
Stubs(n, d) ==
    {k \in Key : /\ d.entry[k].has /\ d.entry[k].val = Nil
                 /\ IF IsCentral(n) THEN \E e \in DOMAIN d.ep : k \in OwnedBy(d, e)
                    ELSE k \in Changed(d, n)}

AfterDelta(n, d) ==
    [d EXCEPT !.entry = [k \in Key |-> IF k \in Stubs(n, d) THEN NoEntry ELSE @[k]],
              !.ep = [e \in DOMAIN @ |-> [@[e] EXCEPT !.sent = d.ep[e].recv, !.full = FALSE]],
              !.event = FALSE]

IncorporateDelta(n, d, p) ==
    LET known == GetOrAddEndpoint(n, d, p.from, p.pid)
        old == known.ep[p.from].recv
        new == {x \in p.entries : x.seq > old}
        incorporated(k) ==
            IF \E x \in new : x.key = k
            THEN LET x == CHOOSE y \in new : y.key = k
                 IN  IF x.val = Nil /\ ~IsCentral(n) THEN NoEntry
                     ELSE [owner |-> known.ep[p.from].id, seq |-> x.seq, val |-> x.val, has |-> TRUE]
            ELSE known.entry[k]
        high == {old} \cup {x.seq : x \in new}
    IN  [known EXCEPT !.entry = [k \in Key |-> incorporated(k)],
                      !.ep[p.from].recv = CHOOSE s \in high : \A r \in high : r <= s]

(* GetSequence by ID: NULL_MNEMO_SEQ, above every sequence, when the ID is gone. *)
UpToAbove(d, id, seq) == \A e \in DOMAIN d.ep : d.ep[e].id = id => d.ep[e].recv > seq    \* mutant
UpTo(d, id, seq) == \A e \in DOMAIN d.ep : d.ep[e].id = id => d.ep[e].recv >= seq

Read(d, k) == d.entry[k].val

-----------------------------------------------------------------------------
(* Messages.  A message to a module that does not run is lost with its     *)
(* queue, unless another process keeps the queue's memory open.            *)

Reaches(e) == pid[e] # 0 \/ "leftover" \in Windows

(* inbox once n's engine has taken its first message if takes, and out[e]  *)
(* has been sent to each endpoint e.                                       *)
Deliver(n, takes, out) ==
    [e \in Endpoint |->
        (IF takes /\ e = n THEN Tail(inbox[e]) ELSE inbox[e])
            \o (IF Reaches(e) THEN out[e] ELSE <<>>)]
Silence == [e \in Endpoint |-> <<>>]
Deltas(n, d) == [e \in Endpoint |-> DeltaFor(n, d, e)]

Confirm(n, c) == [type |-> "updated", from |-> n, id |-> c.id]

(* IsNotifyRequestUpToDate: the endpoints of c that are not, the first one *)
(* with its ID looked up.  An endpoint found up to date stays so.          *)
StillToCheckFirst(d, c) ==    \* mutant: the loop returns after the first endpoint
    IF c.wm = <<>> THEN c
    ELSE LET w == Head(c.wm)
             id == IF w.end \in DOMAIN d.ep THEN d.ep[w.end].id ELSE NullID
         IN  IF id # NullID /\ UpTo(d, id, w.seq) THEN [c EXCEPT !.wm = <<>>] ELSE c
StillToCheck(d, c) ==
    LET id(w) == IF w.id # NullID THEN w.id
                 ELSE IF w.end \in DOMAIN d.ep THEN d.ep[w.end].id ELSE NullID
        upToDate(w) == w.seq = 0 \/ (id(w) # NullID /\ UpTo(d, id(w), w.seq))
        behind == {i \in DOMAIN c.wm : ~upToDate(c.wm[i])}
    IN  IF behind = {} THEN [c EXCEPT !.wm = <<>>]
        ELSE LET i == CHOOSE j \in behind : \A l \in behind : j <= l
             IN  [c EXCEPT !.wm = [SubSeq(@, i, Len(@)) EXCEPT ![1].id = id(c.wm[i])]]

(* ProcessNotifyRequests, and the checkpoint that NotifyOnEndpointUpdate adds. *)
CheckedNow(d, W) == {StillToCheck(d, c) : c \in W}
Reached(d, W) == {c \in CheckedNow(d, W) : c.wm = <<>>}
Confirmations(n, d, W) ==
    [e \in Endpoint |-> SetToSeq({Confirm(n, c) : c \in {x \in Reached(d, W) : x.for = e}})]

-----------------------------------------------------------------------------
(* A module writes and its engine listens. *)

Write(n, k, delete) ==
    /\ pid[n] # 0 /\ WriterOf[k] = n /\ k \notin Range(EntryAbout)
    /\ Cardinality({i \in DOMAIN written[n] : written[n][i].key \notin Range(EntryAbout)}) < MaxWrites
    /\ LET v == IF delete THEN Nil ELSE <<stops, db[n].ep[n].recv + 1>>
       IN  /\ delete => Read(db[n], k) # Nil
           /\ db' = [db EXCEPT ![n] = WriteEntry(n, @, k, v)]
           /\ written' = [written EXCEPT ![n] = Append(@, [key |-> k, val |-> v])]
    /\ UNCHANGED <<inbox, waiting, arcology, pid, start, stops, connected>>

Receives(n, type) == pid[n] # 0 /\ inbox[n] # <<>> /\ Head(inbox[n]).type = type

(* The engine's thread waits for the event only when it has no message; the *)
(* message it then sends itself is the next one it takes.                  *)
OnDbModified(n) ==
    /\ pid[n] # 0 /\ db[n].event /\ inbox[n] = <<>>
    /\ inbox' = Deliver(n, FALSE, Deltas(n, db[n]))
    /\ db' = [db EXCEPT ![n] = AfterDelta(n, @)]
    /\ UNCHANGED <<waiting, arcology, pid, start, written, stops, connected>>

OnUpdate(n) ==
    /\ Receives(n, "update")
    /\ LET d == IncorporateDelta(n, db[n], Head(inbox[n]))
           after == IF IsCentral(n) THEN AfterDelta(n, d) ELSE d
           deltas == IF IsCentral(n) THEN Deltas(n, d) ELSE Silence
           confirmations == Confirmations(n, after, waiting[n])
       IN  /\ db' = [db EXCEPT ![n] = after]
           /\ waiting' = [waiting EXCEPT ![n] = CheckedNow(after, @) \ Reached(after, @)]
           /\ inbox' = Deliver(n, TRUE, [e \in Endpoint |-> deltas[e] \o confirmations[e]])
    /\ UNCHANGED <<arcology, pid, start, written, stops, connected>>

-----------------------------------------------------------------------------
(* Checkpoints. *)

NotifyOnArcologyUpdate(n) ==
    /\ Receives(n, "checkpoint")
    /\ LET msg == Head(inbox[n])
           asked == DOMAIN db[n].ep
           notify == [type |-> "notify", for |-> n, id |-> msg.id, wm |-> msg.wm]
       IN  /\ arcology' = [arcology EXCEPT ![n] = @ \cup
                  {[id |-> msg.id, wm |-> msg.wm, asked |-> asked, confirmed |-> {}]}]
           /\ inbox' = Deliver(n, TRUE, [e \in Endpoint |-> IF e \in asked THEN <<notify>> ELSE <<>>])
    /\ UNCHANGED <<db, waiting, pid, start, written, stops, connected>>

NotifyOnEndpointUpdate(n) ==
    /\ Receives(n, "notify")
    /\ LET msg == Head(inbox[n])
           id(e) == IF e \in DOMAIN db[n].ep THEN db[n].ep[e].id ELSE NullID
           c == [for |-> msg.for, id |-> msg.id,
                 wm |-> [i \in DOMAIN msg.wm |-> [msg.wm[i] EXCEPT !.id = id(msg.wm[i].end)]]]
       IN  /\ waiting' = [waiting EXCEPT ![n] = @ \cup (CheckedNow(db[n], {c}) \ Reached(db[n], {c}))]
           /\ inbox' = Deliver(n, TRUE, Confirmations(n, db[n], {c}))
    /\ UNCHANGED <<db, arcology, pid, start, written, stops, connected>>

OnEndpointUpdated(n) ==
    /\ Receives(n, "updated")
    /\ LET msg == Head(inbox[n])
           marked == {[c EXCEPT !.confirmed = IF c.id = msg.id THEN @ \cup ({msg.from} \cap c.asked) ELSE @] :
                      c \in arcology[n]}
       IN  arcology' = [arcology EXCEPT ![n] = {c \in marked : c.id = msg.id => c.confirmed # c.asked}]
    /\ inbox' = Deliver(n, TRUE, Silence)
    /\ UNCHANGED <<db, waiting, pid, start, written, stops, connected>>

-----------------------------------------------------------------------------
(* Exarch, in the central module c. *)

(* c writes its entry about e in d, its database by then. *)
Recorded(c, d, e) == WriteEntry(c, d, EntryAbout[e], <<stops, d.ep[c].recv + 1>>)
Record(c, d, e) ==
    written' = [written EXCEPT ![c] = Append(@, [key |-> EntryAbout[e], val |-> <<stops, d.ep[c].recv + 1>>])]

(* A central module of another machine authenticates. *)
OnMachineConnection(c, e) ==
    /\ IsCentral(c) /\ IsCentral(e) /\ e # c /\ <<c, e>> \notin connected
    /\ connected' = connected \cup {<<c, e>>}
    /\ LET d == GetOrAddEndpoint(c, db[c], e, 0)
       IN  IF c[1] = Prime
           THEN db' = [db EXCEPT ![c] = Recorded(c, d, e)] /\ Record(c, d, e)
           ELSE db' = [db EXCEPT ![c] = [d EXCEPT !.event = TRUE]] /\ UNCHANGED written
    /\ UNCHANGED <<inbox, waiting, arcology, pid, start, stops>>

(* CArchonProcess::OnModuleStart: m tells Exarch where its writes are. *)
OnModuleStart(m) ==
    /\ pid[m] # 0 /\ start[m].state = "launched"
    /\ start' = [start EXCEPT ![m] = [state |-> "told", seq |-> db[m].ep[m].recv]]
    /\ UNCHANGED <<db, inbox, waiting, arcology, pid, written, stops, connected>>

(* RegisterForMnemosynthUpdate, of machine c with modules M: the watermark *)
(* of each.  That of c itself grew with the write just made: it stands for *)
(* the ticket that NotifyOnArcologyUpdate numbers the checkpoint with.     *)
CheckpointMessage(c, d, M) ==
    LET wm(e, s) == [end |-> e, seq |-> s, id |-> NullID]
    IN  [type |-> "checkpoint", id |-> d.ep[c].recv,
         wm |-> <<wm(c, d.ep[c].recv)>> \o SetToSeq({wm(m, start[m].seq) : m \in M})]

MsgOnModuleStart(c, m) ==
    /\ IsCentral(c) /\ Local(c, m) /\ start[m].state = "told"
    /\ start' = [start EXCEPT ![m].state = "running"]
    /\ LET d == GetOrAddEndpoint(c, db[c], m, pid[m])
           loaded == {o \in Modules : Local(c, o) /\ start[o].state # "stopped"}
           allStarted == \A o \in loaded \ {m} : start[o].state = "running"
       IN  /\ db' = [db EXCEPT ![c] = Recorded(c, d, m)]
           /\ Record(c, d, m)
           /\ inbox' = IF allStarted /\ Cardinality(arcology[c]) < MaxCheckpoints
                       THEN [inbox EXCEPT ![c] = Append(@, CheckpointMessage(c, Recorded(c, d, m), loaded))]
                       ELSE inbox
    /\ UNCHANGED <<waiting, arcology, pid, stops, connected>>

(* The process of m ends. *)
Stop(m) ==
    /\ m \in Modules /\ pid[m] # 0 /\ start[m].state = "running" /\ stops < MaxStops
    /\ pid' = [pid EXCEPT ![m] = 0]
    /\ stops' = stops + 1
    /\ UNCHANGED <<db, inbox, waiting, arcology, start, written, connected>>

(* The new process of m opens the old one's queue if it is still there. *)
Launch(m, p, d) ==
    /\ pid' = [pid EXCEPT ![m] = p]
    /\ start' = [start EXCEPT ![m] = [state |-> "launched", seq |-> 0]]
    /\ db' = [d EXCEPT ![m] = EmptyDb(m, p)]
    /\ inbox' = IF "leftover" \in Windows THEN inbox ELSE [inbox EXCEPT ![m] = <<>>]
    /\ waiting' = [waiting EXCEPT ![m] = {}]

(* Every process has an ID of its own, unless the system uses one again. *)
NewPids(m) == {stops + 1} \cup (IF "samepid" \in Windows THEN {db[m].ep[m].pid} ELSE {})

MsgOnModuleStop(c, m) ==
    /\ IsCentral(c) /\ Local(c, m) /\ pid[m] = 0 /\ start[m].state = "running"
    /\ "late" \in Windows \/ \A i \in DOMAIN inbox[c] :
          inbox[c][i].type = "update" => inbox[c][i].from # m
    /\ LET d == RemoveEndpoint(db[c], m)
           recorded == [db EXCEPT ![c] = WriteEntry(c, Recorded(c, d, m), PortsOf[m], Nil)]
           entries == <<[key |-> EntryAbout[m], val |-> <<stops, d.ep[c].recv + 1>>],
                        [key |-> PortsOf[m], val |-> Nil]>>
       IN  \/ /\ \E p \in NewPids(m) : Launch(m, p, recorded)
              /\ written' = [written EXCEPT ![c] = @ \o entries, ![m] = <<>>]
           \/ /\ db' = recorded
              /\ start' = [start EXCEPT ![m].state = "stopped"]
              /\ written' = [written EXCEPT ![c] = @ \o entries]
              /\ UNCHANGED <<inbox, waiting, pid>>
    /\ UNCHANGED <<arcology, stops, connected>>

-----------------------------------------------------------------------------
(* Between machines: Exarch's threads pass the messages on, in any order,  *)
(* and a message that cannot be sent is only logged.                       *)
Foreign(n, msg) == msg.type = "update" /\ ~Local(n, msg.from) /\ IsCentral(n)

Reorder(n) ==
    /\ \E i \in 1..(Len(inbox[n]) - 1) :
          /\ Foreign(n, inbox[n][i]) /\ Foreign(n, inbox[n][i + 1])
          /\ "reorder" \in Windows \/
                (/\ inbox[n][i].from # inbox[n][i + 1].from
                 /\ \A x \in inbox[n][i].entries, y \in inbox[n][i + 1].entries : x.key # y.key)
          /\ inbox' = [inbox EXCEPT ![n][i] = inbox[n][i + 1], ![n][i + 1] = inbox[n][i]]
    /\ UNCHANGED <<db, waiting, arcology, pid, start, written, stops, connected>>

Lose(n) ==
    /\ \E i \in 1..Len(inbox[n]) :
          /\ Foreign(n, inbox[n][i])
          /\ "lose" \in Windows \/ inbox[n][i].entries = {}
          /\ inbox' = [inbox EXCEPT ![n] = RemoveAt(@, i)]
    /\ UNCHANGED <<db, waiting, arcology, pid, start, written, stops, connected>>

Engine(n) ==
    \/ OnDbModified(n) \/ OnUpdate(n)
    \/ NotifyOnArcologyUpdate(n) \/ NotifyOnEndpointUpdate(n) \/ OnEndpointUpdated(n)

Exarch(c) ==
    \/ \E e \in Endpoint : OnMachineConnection(c, e)
    \/ \E m \in Modules : MsgOnModuleStart(c, m)
    \/ \E m \in Modules : MsgOnModuleStop(c, m)

Next ==
    \/ \E n \in Endpoint, k \in Key, delete \in BOOLEAN : Write(n, k, delete)
    \/ \E n \in Endpoint : Engine(n) \/ Exarch(n) \/ OnModuleStart(n) \/ Stop(n)
    \/ \E n \in Endpoint : Reorder(n) \/ Lose(n)

(* The threads of Mnemosynth and of Exarch run and a launched module      *)
(* starts: of the steps they can take one is taken.  Nothing makes a module *)
(* write or a process end.                                                  *)
Runs == \E n \in Endpoint : Engine(n) \/ Exarch(n) \/ OnModuleStart(n)
Spec == Init /\ [][Next]_vars /\ WF_vars(Runs)

-----------------------------------------------------------------------------
KeysOf(e) == {k \in Key : WriterOf[k] = e}

(* The value of k after the first s writes of e, in its present process. *)
Wrote(e, s, k) == {i \in 1..s : written[e][i].key = k}
LastOf(e, s, k) == LET W == Wrote(e, s, k) IN written[e][CHOOSE i \in W : \A j \in W : j <= i].val

(* What n has of e is what e wrote in its present process. *)
SameRun(n, e) == pid[e] # 0 /\ (db[n].ep[e].pid = pid[e] \/ (db[n].ep[e].pid = 0 /\ pid[e] = 1))

(* n hears of e from the module that e's process speaks to.  What another  *)
(* central module passes on after e was started again may have the numbers *)
(* of the old process, unless that is left out ("relay").                  *)
Followed(n, e) == IsCentral(n) \/ Local(n, e) \/ pid[e] = 1 \/ "relay" \in Windows

(* dwSeqRecv: "We've assimilated up to this sequence for this endpoint".   *)
(* A module that has assimilated an endpoint's writes up to a sequence     *)
(* reads, of everything that endpoint writes, what its writer read at one  *)
(* moment at or after that write: no write before it is missing and no two *)
(* keys are of different moments.                                          *)
AssimilatedUpTo ==
    \A n \in Endpoint : \A e \in DOMAIN db[n].ep :
       (pid[n] # 0 /\ SameRun(n, e) /\ Followed(n, e)) =>
          \E s \in db[n].ep[e].recv..Len(written[e]) :
             \A k \in KeysOf(e) : Wrote(e, s, k) # {} => Read(db[n], k) = LastOf(e, s, k)

(* The process that e had when c made its checkpoint p still runs: c has   *)
(* recorded no end of it since; no machine sees an end in another one.     *)
StillRuns(c, p, e) ==
    /\ pid[e] # 0
    /\ IF Local(c, e)
       THEN e \in Modules => \A i \in (p.id + 1)..Len(written[c]) :
               written[c][i] # [key |-> PortsOf[e], val |-> Nil]
       ELSE pid[e] = 1

(* n does not take what it had of a dead process of e for what it has of   *)
(* the present one.  Exarch removes e in its machine's central module; any *)
(* other one keeps the old number until it hears of the new process        *)
(* ("recount").                                                            *)
Renewed(n, e) == n \in {e, CentralOf(e)} \/ pid[e] = 1 \/ "recount" \in Windows

(* "This will register for an event when all copies of Mnemosynth on the   *)
(* machine have reached the proper sequence number."  Who confirmed a      *)
(* checkpoint has read each module of it, if both still run in the process *)
(* they had when it was made, up to what that process had written when it  *)
(* started; also when others, or they before, have stopped.  An endpoint   *)
(* that ended since is excepted: once it is removed, its GetSequence is    *)
(* 0xffffffff, and everybody who waits for it confirms.                    *)
ConfirmedIsThere ==
    \A c \in Centrals : \A p \in arcology[c] : \A e \in p.confirmed : \A i \in DOMAIN p.wm :
       LET w == p.wm[i]
       IN  (StillRuns(c, p, e) /\ StillRuns(c, p, w.end) /\ Renewed(e, w.end) /\ w.seq > 0) =>
              /\ w.end \in DOMAIN db[e].ep /\ SameRun(e, w.end)
              /\ db[e].ep[w.end].recv >= w.seq

(* Nothing is under way. *)
Quiet ==
    /\ \A n \in Endpoint : pid[n] # 0 => inbox[n] = <<>> /\ ~db[n].event
    /\ \A m \in Modules : start[m].state \in {"running", "stopped"} /\ (pid[m] = 0 => start[m].state = "stopped")
    /\ \A c, e \in Centrals : c # e => <<c, e>> \in connected

(* All modules read what each key's writer, in the process it runs now,    *)
(* wrote last.                                                             *)
Agree ==
    \A n, e \in Endpoint : (pid[n] # 0 /\ pid[e] # 0 /\ Followed(n, e)) =>
       \A k \in KeysOf(e) :
          Wrote(e, Len(written[e]), k) # {} => Read(db[n], k) = LastOf(e, Len(written[e]), k)

(* Once nothing is under way all modules agree: an update is not resent,   *)
(* so one that was skipped would be missing for good.                      *)
QuietAgree == Quiet => Agree

(* Once modules stop writing and stopping, all of them agree for good. *)
Converges == <>[]Agree

(* A checkpoint is confirmed by all it asked, if these and those it waits  *)
(* for run as they did when it was made and no watermark is at a deletion: *)
(* a full update leaves deletions out, so the sequence of one may never    *)
(* arrive.                                                                 *)
AtDeletion(wm) ==
    \E i \in DOMAIN wm :
       LET e == wm[i].end
       IN  /\ wm[i].seq > 0
           /\ \A s \in wm[i].seq..Len(written[e]) : LastOf(e, Len(written[e]), written[e][s].key) = Nil
QuietConfirmed ==
    Quiet => \A c \in Centrals : \A p \in arcology[c] :
       (\A e \in p.asked \cup {p.wm[i].end : i \in DOMAIN p.wm} : StillRuns(c, p, e)) => AtDeletion(p.wm)
=============================================================================
