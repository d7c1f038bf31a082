------------------------------- MODULE MCApi -------------------------------
(* Two requests at a time, of one browser, and two sessions.  A behaviour *)
(* either starts the process among outages, or serves the requests of the  *)
(* sessions, or those of the page: neither of the two touches what the     *)
(* other keeps in redis.                                                   *)
EXTENDS Api

CONSTANTS r1, r2, b1, i1, i2, postgres, redis

VARIABLE mode

MCRequests == {r1, r2}
MCBrowsers == {b1}
MCIds      == {i1, i2}
MCStores   == {postgres, redis}

Serving ==
  [start |-> {"other"}, sessions |-> {"session", "other"}, pages |-> {"hits"}]

MCInit ==
  /\ Init /\ mode \in DOMAIN Serving
  /\ mode # "start" => net = [s \in Stores |-> TRUE]
  /\ mode # "pages" => rows = 0

MCNext ==
  /\ Next /\ UNCHANGED mode
  /\ mode # "start" => UNCHANGED net
  /\ mode # "pages" => UNCHANGED rows
  /\ \A r \in Requests : req'[r] # Free => req'[r].kind \in Serving[mode]

MCSpec == MCInit /\ [][MCNext]_<<vars, mode>> /\ Fairness
=============================================================================
