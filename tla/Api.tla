-------------------------------- MODULE Api --------------------------------
(***************************************************************************)
(* The main API server, cmd/api: a process that connects to its stores     *)
(* (Datastores), serves requests that keep state in them (Sessions), is    *)
(* killed at any time and started again.  Redis and postgres stay: what    *)
(* was in flight is lost and what was stored is found by the next process. *)
(***************************************************************************)
EXTENDS Datastores, Sessions

CONSTANTS
  Postgres, Cache,   \* the two stores
  MaxKills           \* how often the process is killed

ASSUME StoresAssumption == Stores = {Postgres, Cache} /\ MaxKills \in Nat

VARIABLE kills

datastoreVars == <<startVars, netVars>>
requestVars   == <<req, sessionVars, pageVars>>

vars == <<datastoreVars, requestVars, kills>>

TypeOK == DatastoresTypeOK /\ SessionsTypeOK /\ kills \in 0..MaxKills

Init == StartInit /\ NetInit /\ SessionsInit /\ kills = 0

StartUp == StartStep /\ UNCHANGED <<requestVars, kills>>

Network == NetStep /\ UNCHANGED <<requestVars, kills>>

\* A request of a process that serves, and what the stores answer.
Serves ==
  /\ proc = "serving"
  /\ \E r \in Requests :
       \/ \E b \in Browsers, kind \in Kinds : Begin(r, b, kind)
       \/ net[Cache] /\ Redis(r)
       \/ net[Postgres] /\ Query(r)
       \/ Failing(r) \/ Answer(r) \/ AnswerLost(r)
  /\ UNCHANGED <<datastoreVars, kills>>

Outside ==
  /\ \/ \E i \in Ids : Expire(i)
     \/ PageExpires \/ Logged
  /\ UNCHANGED <<datastoreVars, kills>>

Killed ==
  /\ proc # "down" /\ kills < MaxKills
  /\ Gone /\ Dropped
  /\ kills' = kills + 1

Next == StartUp \/ Network \/ Serves \/ Outside \/ Killed

Fairness ==
  /\ WF_vars(Start /\ UNCHANGED <<requestVars, kills>>)
  /\ WF_vars((CloseErrs \/ Serve) /\ UNCHANGED <<requestVars, kills>>)
  /\ \A s \in Stores :
       /\ WF_vars((FirstPing(s) \/ Pinged(s)) /\ UNCHANGED <<requestVars, kills>>)
       /\ WF_vars((Tick(s) \/ GiveUp(s)) /\ UNCHANGED <<requestVars, kills>>)
       /\ WF_vars(ReceiveError(s) /\ UNCHANGED <<requestVars, kills>>)

Spec == Init /\ [][Next]_vars /\ Fairness
-----------------------------------------------------------------------------
\* Requests are in flight only in a process that serves.
InFlightServed == proc # "serving" => \A r \in Requests : req[r] = Free

\* When no store goes away any more, the process serves at last, and for good.
ServesAtLast == (\A s \in Stores : <>[]net[s]) => <>[](proc = "serving")
=============================================================================
