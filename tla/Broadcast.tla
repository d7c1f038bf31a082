------------------------------ MODULE Broadcast ------------------------------
(***************************************************************************)
(* What a chat room promises its listeners, without the goroutines,        *)
(* channels and sockets that carry it out: a listener gets the messages it *)
(* is interested in in the order they were published; a message that was   *)
(* accepted for a listener is not skipped while the listener stays; redis  *)
(* may fail to accept one, and nothing is kept for a listener that left.   *)
(***************************************************************************)
EXTENDS Sequences

CONSTANTS
  Listeners,  \* connections to the room
  Messages,   \* what may be published
  For         \* For[l] \subseteq Messages: those meant for listener l

VARIABLES
  status,     \* "out", "in" or "left"
  queue,      \* accepted for a listener and not delivered yet
  delivered   \* what each listener got

vars == <<status, queue, delivered>>

Init ==
  /\ status = [l \in Listeners |-> "out"]
  /\ queue = [l \in Listeners |-> <<>>]
  /\ delivered = [l \in Listeners |-> <<>>]

Join(l) ==
  /\ status[l] = "out"
  /\ status' = [status EXCEPT ![l] = "in"]
  /\ UNCHANGED <<queue, delivered>>

Leave(l) ==
  /\ status[l] # "left"
  /\ status' = [status EXCEPT ![l] = "left"]
  /\ queue' = [queue EXCEPT ![l] = <<>>]
  /\ UNCHANGED delivered

\* Message m is accepted for the listeners it is meant for, save the missed ones.
Publish(m, missed) ==
  /\ queue' = [l \in Listeners |->
                 IF status[l] = "in" /\ m \in For[l] /\ l \notin missed
                   THEN Append(queue[l], m) ELSE queue[l]]
  /\ UNCHANGED <<status, delivered>>

Deliver(l) ==
  /\ queue[l] # <<>>
  /\ delivered' = [delivered EXCEPT ![l] = Append(@, Head(queue[l]))]
  /\ queue' = [queue EXCEPT ![l] = Tail(@)]
  /\ UNCHANGED status

Next ==
  \/ \E l \in Listeners : Join(l) \/ Leave(l) \/ Deliver(l)
  \/ \E m \in Messages, missed \in SUBSET Listeners : Publish(m, missed)

Spec == Init /\ [][Next]_vars
=============================================================================
