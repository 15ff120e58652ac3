---------------------------- MODULE MessageQueue ----------------------------
(***************************************************************************)
(* What an inter-process queue promises: each message that it accepts is   *)
(* delivered once, in the order of acceptance, by a receiver that takes at *)
(* most Chunk of them at a time.  A receiver that dies loses those it has  *)
(* taken, and all of them when it was the last to hold the queue.          *)
(***************************************************************************)
EXTENDS Naturals, Sequences

CONSTANTS Message, Chunk

VARIABLES pending,    \* messages accepted and not delivered, oldest first
          delivered,  \* messages delivered, oldest first
          deaths      \* how often a process has died

vars == <<pending, delivered, deaths>>

Init == pending = <<>> /\ delivered = <<>> /\ deaths = 0

Accept(m) == pending' = Append(pending, m) /\ UNCHANGED <<delivered, deaths>>

Deliver ==
    /\ pending # <<>>
    /\ delivered' = Append(delivered, Head(pending))
    /\ pending' = Tail(pending)
    /\ UNCHANGED deaths

Die(n) ==
    /\ n <= Chunk \/ n = Len(pending)
    /\ pending' = SubSeq(pending, n + 1, Len(pending))
    /\ deaths' = deaths + 1
    /\ UNCHANGED delivered

Next ==
    \/ \E m \in Message : Accept(m)
    \/ Deliver
    \/ \E n \in 0..Len(pending) : Die(n)

Spec == Init /\ [][Next]_vars

(* No message waits for ever: it is delivered, or lost in a death. *)
Progress ==
    \A m \in Message : (\E i \in DOMAIN pending : pending[i] = m) ~>
                        (\A i \in DOMAIN pending : pending[i] # m)
=============================================================================
