------------------------------ MODULE RowStore ------------------------------
(***************************************************************************)
(* What one AeonDB table promises its clients: a durable map from keys to  *)
(* data in which an insert is atomic.  An acknowledged insert is applied;  *)
(* a crash applies the insert in flight or drops it, and changes nothing   *)
(* else; a restart changes nothing at all.                                 *)
(***************************************************************************)
CONSTANTS Key,      \* row keys
          Value,    \* row data other than nil
          Nil       \* the data of a row that was never inserted, or deleted

VARIABLES store,    \* the data of every row
          request,  \* the insert being executed, or NoRequest
          up        \* whether the table is serving requests

vars == <<store, request, up>>

Datum == Value \cup {Nil}
NoRequest == [type |-> "none"]
Insertion == [type : {"insert"}, key : Key, data : Datum]

(* The type of the store and of the request being executed. *)
TypeOK ==
    /\ store \in [Key -> Datum]
    /\ request \in Insertion \cup {NoRequest}
    /\ up \in BOOLEAN

Init ==
    /\ store = [k \in Key |-> Nil]
    /\ request = NoRequest
    /\ up = TRUE

Applied == [store EXCEPT ![request.key] = request.data]

Request(i) ==
    /\ up
    /\ request = NoRequest
    /\ request' = i
    /\ UNCHANGED <<store, up>>

Acknowledge ==
    /\ request # NoRequest
    /\ store' = Applied
    /\ request' = NoRequest
    /\ UNCHANGED up

Crash ==
    /\ up' = FALSE
    /\ request' = NoRequest
    /\ \/ UNCHANGED store
       \/ request # NoRequest /\ store' = Applied

Restart ==
    /\ ~up
    /\ up' = TRUE
    /\ UNCHANGED <<store, request>>

Next ==
    \/ \E i \in Insertion : Request(i)
    \/ Acknowledge
    \/ Crash
    \/ Restart

Spec == Init /\ [][Next]_vars
=============================================================================
