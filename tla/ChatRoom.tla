------------------------------- MODULE ChatRoom -------------------------------
(***************************************************************************)
(* The connections to one chat room: pkg/app/chat/chat.go and comms.go.    *)
(*                                                                         *)
(* A connection is three goroutines: readLoop takes messages from the      *)
(* websocket, saves them and publishes them; writeLoop, which runs in the  *)
(* HTTP handler, sends the messages of others to the websocket; and the    *)
(* goroutine of Sub carries messages from the redis subscription to        *)
(* writeLoop over an unbuffered channel.  They share the channel stop,     *)
(* which handleSocketError closes for either loop.                         *)
(*                                                                         *)
(* Closing a closed channel panics.  In writeLoop the HTTP server recovers *)
(* and only the request dies; readLoop is a bare goroutine, so there the   *)
(* whole process dies (crashed).                                           *)
(*                                                                         *)
(* The context of writeLoop is only cancelled by the handler's own defer:  *)
(* the request was hijacked.  Its case ctx.Done therefore never fires.     *)
(*                                                                         *)
(* The row of a message has the room and the user that its client put into *)
(* it; only what is published has those of the connection.                 *)
(***************************************************************************)
EXTENDS Naturals, Sequences, SequencesExt, Filters

CONSTANTS
  Conns,        \* websocket connections to the room, each used once
  Users,
  UserOf,       \* the user of each connection
  Rooms,
  ThisRoom,     \* the room of the connections
  Named,        \* the room and the user that a client writes into a message
  Quota,        \* bound on the messages each connection's client sends
  MaxPublished, \* bound on the PUBLISH commands that are sent again
  None          \* no message

\* The n-th message that the client of a connection sends.
Messages == UNION {{c} \X (1..Quota[c]) : c \in Conns}

ASSUME ConnsAssumption ==
  /\ UserOf \in [Conns -> Users]
  /\ Quota \in [Conns -> Nat]
  /\ MaxPublished \in Nat
  /\ None \notin Messages
  /\ ThisRoom \in Rooms
  /\ Named \in [Messages -> [room : Rooms, user : Users]]

\* What is inserted of a message.
Row(m) == [msg |-> m, room |-> Named[m].room, user |-> Named[m].user]

VARIABLES
  reader,     \* what readLoop does next
  heard,      \* messages readLoop took from the websocket so far
  writer,     \* what writeLoop does next
  out,        \* the message writeLoop is sending
  relay,      \* the goroutine of Sub
  pend,       \* the message it offers to writeLoop
  buf,        \* messages redis sent to the subscription
  stop,       \* cr.stop is closed
  sock,       \* the websocket: "open", "closed" by a close frame, or "failed"
  db,         \* chatroom_messages, in insertion order
  published,  \* what was published on the room, in order (history)
  sent,       \* what was sent to each websocket (history)
  crashed     \* the process died of a panic

readVars  == <<reader, heard>>
writeVars == <<writer, out>>
relayVars == <<relay, pend, buf>>
logVars   == <<db, published>>
vars == <<reader, heard, writer, out, relay, pend, buf, stop, sock, db, published, sent, crashed>>

TypeOK ==
  /\ reader \in [Conns -> {"off", "recv", "save", "pub", "closing", "done"}]
  /\ heard \in [Conns -> Nat]
  /\ writer \in [Conns -> {"off", "subscribe", "select", "send", "closing",
                           "returned", "panicked"}]
  /\ relay \in [Conns -> {"off", "on", "done"}]
  /\ out \in [Conns -> Messages \cup {None}]
  /\ pend \in [Conns -> Messages \cup {None}]
  /\ buf \in [Conns -> Seq(Messages)]
  /\ stop \in [Conns -> BOOLEAN]
  /\ sock \in [Conns -> {"open", "closed", "failed"}]
  /\ db \in Seq({Row(m) : m \in Messages})
  /\ published \in Seq(Messages)
  /\ sent \in [Conns -> Seq(Messages)]
  /\ crashed \in BOOLEAN

Init ==
  /\ reader = [c \in Conns |-> "off"]
  /\ heard = [c \in Conns |-> 0]
  /\ writer = [c \in Conns |-> "off"]
  /\ out = [c \in Conns |-> None]
  /\ relay = [c \in Conns |-> "off"]
  /\ pend = [c \in Conns |-> None]
  /\ buf = [c \in Conns |-> <<>>]
  /\ stop = [c \in Conns |-> FALSE]
  /\ sock = [c \in Conns |-> "open"]
  /\ db = <<>>
  /\ published = <<>>
  /\ sent = [c \in Conns |-> <<>>]
  /\ crashed = FALSE

\* The handler is over: its context is cancelled and its socket closed.
Ended(c) == writer[c] \in {"returned", "panicked"}

\* Messages of the connection's own user are ignored by Sub.
Foreign(c, m) == UserOf[m[1]] # UserOf[c]
-----------------------------------------------------------------------------
(* The handler and the client.                                             *)

\* Start: go readLoop, then writeLoop in the handler's goroutine.
Connect(c) ==
  /\ reader[c] = "off"
  /\ reader' = [reader EXCEPT ![c] = "recv"]
  /\ writer' = [writer EXCEPT ![c] = "subscribe"]
  /\ UNCHANGED <<heard, out, relayVars, stop, sock, logVars, sent, crashed>>

\* The network or the client fails, or the client closes with a status other
\* than "normal" and "going away", which handleSocketError treats alike.
Break(c) ==
  /\ reader[c] # "off"
  /\ sock[c] = "open"
  /\ sock' = [sock EXCEPT ![c] = "failed"]
  /\ UNCHANGED <<readVars, writeVars, relayVars, stop, logVars, sent, crashed>>
-----------------------------------------------------------------------------
(* readLoop.                                                               *)

Recv(c) ==
  /\ reader[c] = "recv"
  /\ sock[c] = "open"
  /\ heard[c] < Quota[c]
  /\ heard' = [heard EXCEPT ![c] = @ + 1]
  /\ reader' = [reader EXCEPT ![c] = "save"]
  /\ UNCHANGED <<writeVars, relayVars, stop, sock, logVars, sent, crashed>>

\* The frame is not JSON or its body is empty: readLoop logs and ends, and
\* neither the websocket nor writeLoop learns of it.
RecvBad(c) ==
  /\ reader[c] = "recv"
  /\ sock[c] = "open"
  /\ reader' = [reader EXCEPT ![c] = "done"]
  /\ UNCHANGED <<heard, writeVars, relayVars, stop, sock, logVars, sent, crashed>>

\* The client's close frame, "normal" or "going away", is read and answered.
RecvClose(c) ==
  /\ reader[c] = "recv"
  /\ sock[c] = "open"
  /\ sock' = [sock EXCEPT ![c] = "closed"]
  /\ reader' = [reader EXCEPT ![c] = "closing"]
  /\ UNCHANGED <<heard, writeVars, relayVars, stop, logVars, sent, crashed>>

RecvError(c) ==
  /\ reader[c] = "recv"
  /\ sock[c] = "failed"
  /\ reader' = [reader EXCEPT ![c] = "done"]
  /\ UNCHANGED <<heard, writeVars, relayVars, stop, sock, logVars, sent, crashed>>

\* (mutant: readLoop ends without closing stop)
ReaderForgetsStop(c) ==
  /\ reader[c] = "closing"
  /\ reader' = [reader EXCEPT ![c] = "done"]
  /\ UNCHANGED <<heard, writeVars, relayVars, stop, sock, logVars, sent, crashed>>

\* handleSocketError closes stop, in readLoop.
ReaderClose(c) ==
  /\ reader[c] = "closing"
  /\ IF stop[c]
       THEN /\ crashed' = TRUE
            /\ UNCHANGED <<reader, stop>>
       ELSE /\ stop' = [stop EXCEPT ![c] = TRUE]
            /\ reader' = [reader EXCEPT ![c] = "done"]
            /\ UNCHANGED crashed
  /\ UNCHANGED <<heard, writeVars, relayVars, sock, logVars, sent>>

\* What readLoop is working on.
Current(c) == <<c, heard[c]>>

\* (mutant: a message that could not be saved is published all the same)
SaveFailsPublish(c) ==
  /\ reader[c] = "save"
  /\ reader' = [reader EXCEPT ![c] = "pub"]
  /\ UNCHANGED <<heard, writeVars, relayVars, stop, sock, logVars, sent, crashed>>

Inserted(c) == Append(db, Row(Current(c)))

\* The message is not published, and its sender is not told.  It was inserted
\* when only the answer was lost.
SaveFails(c) ==
  /\ reader[c] = "save"
  /\ db' \in {db, Inserted(c)}
  /\ reader' = [reader EXCEPT ![c] = "recv"]
  /\ UNCHANGED <<heard, writeVars, relayVars, stop, sock, published, sent, crashed>>

SaveMessage(c) ==
  /\ reader[c] = "save"
  /\ db' = Inserted(c)
  /\ reader' = [reader EXCEPT ![c] = "pub"]
  /\ UNCHANGED <<heard, writeVars, relayVars, stop, sock, published, sent, crashed>>

\* PUBLISH reaches the subscriptions, save those redis dropped or whose
\* connection go-redis is just renewing.
Publish(c, missed) ==
  /\ published' = Append(published, Current(c))
  /\ buf' = [d \in Conns |-> IF relay[d] = "on" /\ d \notin missed
                               THEN Append(buf[d], Current(c)) ELSE buf[d]]

Pub(c, missed) ==
  /\ reader[c] = "pub"
  /\ Publish(c, missed)
  /\ reader' = [reader EXCEPT ![c] = "recv"]
  /\ UNCHANGED <<heard, writeVars, relay, pend, stop, sock, db, sent, crashed>>

\* The reply is lost: go-redis sends the command again.
PubAgain(c, missed) ==
  /\ reader[c] = "pub"
  /\ Len(published) < MaxPublished
  /\ Publish(c, missed)
  /\ UNCHANGED <<readVars, writeVars, relay, pend, stop, sock, db, sent, crashed>>

PubFails(c) ==
  /\ reader[c] = "pub"
  /\ reader' = [reader EXCEPT ![c] = "recv"]
  /\ UNCHANGED <<heard, writeVars, relayVars, stop, sock, logVars, sent, crashed>>
-----------------------------------------------------------------------------
(* Sub and its goroutine.                                                  *)

Subscribe(c) ==
  /\ writer[c] = "subscribe"
  /\ writer' = [writer EXCEPT ![c] = "select"]
  /\ relay' = [relay EXCEPT ![c] = "on"]
  /\ UNCHANGED <<readVars, out, pend, buf, stop, sock, logVars, sent, crashed>>

\* (mutant: an offer that nobody took yet is overwritten)
TakeOverwrites(c) ==
  /\ relay[c] = "on"
  /\ buf[c] # <<>>
  /\ pend' = [pend EXCEPT ![c] = IF Foreign(c, Head(buf[c])) THEN Head(buf[c]) ELSE @]
  /\ buf' = [buf EXCEPT ![c] = Tail(@)]
  /\ UNCHANGED <<readVars, writeVars, relay, stop, sock, logVars, sent, crashed>>

\* The next message of the subscription is ignored or offered to writeLoop.
Take(c) ==
  /\ relay[c] = "on"
  /\ pend[c] = None
  /\ buf[c] # <<>>
  /\ pend' = [pend EXCEPT ![c] = IF Foreign(c, Head(buf[c])) THEN Head(buf[c]) ELSE None]
  /\ buf' = [buf EXCEPT ![c] = Tail(@)]
  /\ UNCHANGED <<readVars, writeVars, relay, stop, sock, logVars, sent, crashed>>

\* (mutant: the offer does not watch the context)
UnsubscribeNever(c) == relay[c] = "off" /\ Ended(c) /\ UNCHANGED vars

\* Nobody takes the offer any more: unsubscribe.  Only an offer notices that
\* the handler is over; without one the goroutine waits for a message.
Unsubscribe(c) ==
  /\ relay[c] = "on"
  /\ pend[c] # None
  /\ Ended(c)
  /\ relay' = [relay EXCEPT ![c] = "done"]
  /\ pend' = [pend EXCEPT ![c] = None]
  /\ buf' = [buf EXCEPT ![c] = <<>>]
  /\ UNCHANGED <<readVars, writeVars, stop, sock, logVars, sent, crashed>>
-----------------------------------------------------------------------------
(* writeLoop.                                                              *)

\* case msg := <-messages
Handoff(c) ==
  /\ writer[c] = "select"
  /\ pend[c] # None
  /\ out' = [out EXCEPT ![c] = pend[c]]
  /\ pend' = [pend EXCEPT ![c] = None]
  /\ writer' = [writer EXCEPT ![c] = "send"]
  /\ UNCHANGED <<readVars, relay, buf, stop, sock, logVars, sent, crashed>>

\* (mutant: stop is closed on the way out, like in the case of ctx.Done)
StoppedCloses(c) ==
  /\ writer[c] = "select"
  /\ stop[c]
  /\ writer' = [writer EXCEPT ![c] = "closing"]
  /\ UNCHANGED <<readVars, out, relayVars, stop, sock, logVars, sent, crashed>>

\* case <-cr.stop
Stopped(c) ==
  /\ writer[c] = "select"
  /\ stop[c]
  /\ writer' = [writer EXCEPT ![c] = "returned"]
  /\ UNCHANGED <<readVars, out, relayVars, stop, sock, logVars, sent, crashed>>

\* (mutant: the loop ends after a message)
SendOnce(c) ==
  /\ writer[c] = "send"
  /\ sock[c] = "open"
  /\ sent' = [sent EXCEPT ![c] = Append(@, out[c])]
  /\ out' = [out EXCEPT ![c] = None]
  /\ writer' = [writer EXCEPT ![c] = "returned"]
  /\ UNCHANGED <<readVars, relayVars, stop, sock, logVars, crashed>>

\* The message is written; this lasts until the client has read enough.
Send(c) ==
  /\ writer[c] = "send"
  /\ sock[c] = "open"
  /\ sent' = [sent EXCEPT ![c] = Append(@, out[c])]
  /\ out' = [out EXCEPT ![c] = None]
  /\ writer' = [writer EXCEPT ![c] = "select"]
  /\ UNCHANGED <<readVars, relayVars, stop, sock, logVars, crashed>>

\* (mutant: the loop goes on after an error)
SendIgnores(c) ==
  /\ writer[c] = "send"
  /\ sock[c] # "open"
  /\ out' = [out EXCEPT ![c] = None]
  /\ writer' = [writer EXCEPT ![c] = "select"]
  /\ UNCHANGED <<readVars, relayVars, stop, sock, logVars, sent, crashed>>

\* A close frame was read: the error carries its status.  Any other error
\* ends the loop.
SendFails(c) ==
  /\ writer[c] = "send"
  /\ sock[c] # "open"
  /\ out' = [out EXCEPT ![c] = None]
  /\ writer' = [writer EXCEPT ![c] = IF sock[c] = "closed" THEN "closing" ELSE "returned"]
  /\ UNCHANGED <<readVars, relayVars, stop, sock, logVars, sent, crashed>>

\* handleSocketError closes stop, in writeLoop, and the loop goes on.
WriterClose(c) ==
  /\ writer[c] = "closing"
  /\ IF stop[c]
       THEN /\ writer' = [writer EXCEPT ![c] = "panicked"]
            /\ UNCHANGED stop
       ELSE /\ stop' = [stop EXCEPT ![c] = TRUE]
            /\ writer' = [writer EXCEPT ![c] = "select"]
  /\ UNCHANGED <<readVars, out, relayVars, sock, logVars, sent, crashed>>
-----------------------------------------------------------------------------
\* Steps of readLoop that wait for postgres, redis or nothing at all.
ReadStep(c) ==
  \/ RecvError(c) \/ ReaderClose(c)
  \/ SaveMessage(c) \/ SaveFails(c)
  \/ \E missed \in SUBSET Conns : Pub(c, missed) \/ PubAgain(c, missed)
  \/ PubFails(c)

ClientStep(c) == Connect(c) \/ Break(c) \/ Recv(c) \/ RecvBad(c) \/ RecvClose(c)

RelayStep(c) == Take(c) \/ Unsubscribe(c)

WriteStep(c) ==
  \/ Subscribe(c) \/ Handoff(c) \/ Stopped(c)
  \/ Send(c) \/ SendFails(c) \/ WriterClose(c)

\* A dead process takes no step.
Next ==
  /\ ~crashed
  /\ \E c \in Conns : ReadStep(c) \/ ClientStep(c) \/ RelayStep(c) \/ WriteStep(c)

\* What writeLoop does without the client.
WriterAlone(c) ==
  Subscribe(c) \/ Handoff(c) \/ Stopped(c) \/ SendFails(c) \/ WriterClose(c)

\* The Go scheduler runs every goroutine that can go on, and calls to
\* postgres and redis return.  Clients owe nothing: they need not even read,
\* and a Send, which has no deadline, may last for ever.
Fairness ==
  \A c \in Conns :
    /\ WF_vars(~crashed /\ ReadStep(c))
    /\ WF_vars(~crashed /\ RelayStep(c))
    /\ WF_vars(~crashed /\ WriterAlone(c))

Spec == Init /\ [][Next]_vars /\ Fairness
-----------------------------------------------------------------------------
(* Properties.                                                             *)

Left(c) == sock[c] # "open"

OneOrNone(m) == IF m = None THEN <<>> ELSE <<m>>

ForeignTo(c) == {m \in Messages : Foreign(c, m)}

ForeignOf(c, s) == Those(s, ForeignTo(c))

\* The messages on their way to the client of c, the next one first.
Pipeline(c) ==
  IF Left(c) THEN <<>>
  ELSE OneOrNone(out[c]) \o OneOrNone(pend[c]) \o ForeignOf(c, buf[c])

Status(c) == IF Left(c) THEN "left" ELSE IF relay[c] = "off" THEN "out" ELSE "in"

Room == INSTANCE Broadcast WITH
  Listeners <- Conns,
  For <- [c \in Conns |-> ForeignTo(c)],
  status <- [c \in Conns |-> Status(c)],
  queue <- [c \in Conns |-> Pipeline(c)],
  delivered <- sent

\* The three goroutines implement the broadcast: whatever the interleaving,
\* messages of others reach a client in the order of publication, and none
\* that its subscription received is skipped, duplicated or reordered while
\* its socket works.
Broadcasts == Room!Spec

NonDecreasing(s, c) ==
  \A i, j \in DOMAIN s : i < j /\ s[i][1] = c /\ s[j][1] = c => s[i][2] <= s[j][2]

\* The messages of the rows, of whatever room.
History == [i \in DOMAIN db |-> db[i].msg]

\* The client named the room and the user of its connection.
Truthful(m) == Named[m] = [room |-> ThisRoom, user |-> UserOf[m[1]]]

\* The table and every live view show the messages of one connection in the
\* order its client sent them; what is live has a row, in this room's history
\* and under its user when the client named them so; and no message has two
\* rows, although redis may repeat one and an insertion may lose its answer.
HistoryAgrees ==
  /\ \A c \in Conns : NonDecreasing(History, c) /\ NonDecreasing(published, c)
  /\ \A c, d \in Conns : NonDecreasing(sent[d], c)
  /\ \A m \in ToSet(published) : \E row \in ToSet(db) :
       /\ row.msg = m
       /\ Truthful(m) => row.room = ThisRoom /\ row.user = UserOf[m[1]]
  /\ IsInjective(History)

Undelivered(c) == Len(sent[c]) < Len(ForeignOf(c, published))

\* In a room without traffic to a connection its close never panics: the
\* double close of stop needs a message that was caught on its way.
QuietCloseIsSafe ==
  \A c \in Conns :
    \/ writer[c] = "panicked"
    \/ reader[c] = "closing" /\ stop[c]
    => Undelivered(c)

\* Once a client's close frame was read, both loops end or the process dies:
\* none of them waits for the other for ever.
CloseEnds ==
  \A c \in Conns :
    reader[c] = "closing" ~> crashed \/ (reader[c] = "done" /\ Ended(c))

\* When the websocket of a connection failed, its handler ends with the next
\* message of somebody else, also when readLoop ended before without a word.
FailureEnds ==
  \A c \in Conns :
    sock[c] = "failed" /\ ForeignOf(c, buf[c]) # <<>> ~> crashed \/ Ended(c)

\* The client goes on reading: no Send lasts for ever.
Reads(c) == []<>(writer[c] # "send" \/ Left(c) \/ crashed)

\* A message that a subscription received reaches a client that goes on
\* reading, unless the websocket goes away first.
Delivers ==
  \A c \in Conns :
    Reads(c) => \A m \in Messages :
      m \in ToSet(Pipeline(c)) ~> crashed \/ Left(c) \/ m \in ToSet(sent[c])

\* The subscription of a handler that is over ends with the next message of
\* somebody else.
SubscriptionEnds ==
  \A c \in Conns :
    Ended(c) /\ ForeignOf(c, buf[c]) # <<>> ~> crashed \/ relay[c] # "on"

\* "Subscribe to messages being published by other connections": what is
\* published on another connection is sent to a client that goes on reading,
\* once its subscription received it.
GetsOtherConnections ==
  \A c \in Conns :
    Reads(c) => \A m \in Messages :
      m[1] # c /\ m \in ToSet(buf[c]) /\ ~Left(c)
        ~> crashed \/ Left(c) \/ m \in ToSet(sent[c])
=============================================================================
