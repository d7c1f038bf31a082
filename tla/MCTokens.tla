------------------------------- MODULE MCTokens -------------------------------
(* Tokens for TLC.  A behaviour has two browsers, a server where nothing   *)
(* fails and a user who may cease to be an admin; or one browser at a time *)
(* and a longer life, in which roles change at will, calls fail and        *)
(* answers are lost.  Browsers and handlers are interchangeable.           *)
EXTENDS Tokens, TLC

CONSTANT admin

VARIABLE mode

Acting(c) == access[c] # None \/ refresh[c] # None \/ \E h \in Handlers : client[h] = c

MCInit == Init /\ mode \in {"browsers", "failures"}

MCNext ==
  /\ Next /\ UNCHANGED mode
  /\ mode = "browsers" => now' <= 1 /\ lost' = 0 /\ (roles' # roles => roles = admin)
  /\ mode = "failures" => \E c \in Clients : \A d \in Clients \ {c} : ~Acting(d)'

MCSpec == MCInit /\ [][MCNext]_<<mode, vars>>

Interchangeable == Permutations(Clients) \cup Permutations(Handlers)
=============================================================================
