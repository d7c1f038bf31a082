------------------------------ MODULE MCBackups ------------------------------
(* Backups for TLC: durations of up to two seconds.  A behaviour either    *)
(* changes the configuration, from a duration of two seconds on, or asks   *)
(* for backups beside the loop's.                                          *)
EXTENDS Backups, TLC

VARIABLE mode

MCWaits == 0..2

MCInit == Init /\ mode \in {"updates", "requests"}

MCNext ==
  /\ Next /\ UNCHANGED mode
  /\ mode = "updates" => \A r \in Requests : run'[r] = "idle" 
  /\ mode = "requests" => \A u \in Updaters : at'[u] = "idle"

MCSpec == MCInit /\ [][MCNext]_<<mode, vars>> /\ Fairness
==============================================================================
