----------------------------- MODULE MCChatRoom -----------------------------
(* Model values and bounds for checking ChatRoom with TLC.                 *)
EXTENDS ChatRoom

CONSTANTS a1, b1, a, b, here, there

VARIABLE mode

MCConns == {a1, b1}
MCUsers == {a, b}

MCRooms == {here, there}

\* Two users with a connection each, or one user with two connections.
MCTwoUsers == (a1 :> a) @@ (b1 :> b)
MCOneUser == (a1 :> a) @@ (b1 :> a)

\* The second message of a1 names another room and that of b1 another user.
MCNamed ==
  (<<a1, 1>> :> [room |-> here, user |-> a]) @@
  (<<a1, 2>> :> [room |-> there, user |-> a]) @@
  (<<b1, 1>> :> [room |-> here, user |-> a])

MCNamedOneWay == [m \in {<<a1, 1>>, <<a1, 2>>} |-> [room |-> here, user |-> a]]

\* One client sends and the other listens, or perhaps sends as well.
MCOneWay == (a1 :> 2) @@ (b1 :> 0)
MCQuota == (a1 :> 2) @@ (b1 :> 1)

\* One way with a command that is sent again, or each client sends a message.
MCInit == Init /\ mode \in {"one way", "both ways"}

MCNext ==
  /\ Next /\ UNCHANGED mode
  /\ mode = "one way" => heard'[b1] = 0
  /\ mode = "both ways" => heard'[a1] <= 1 /\ IsInjective(published')

MCSpec == MCInit /\ [][MCNext]_<<mode, vars>> /\ Fairness
=============================================================================
