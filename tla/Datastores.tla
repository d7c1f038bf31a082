----------------------------- MODULE Datastores -----------------------------
(***************************************************************************)
(* How the API server starts: Datastores in pkg/db, under cmd/api's main.  *)
(*                                                                         *)
(* One goroutine per store pings it until it answers or a minute is over.  *)
(* main receives one value from a channel: the first error, or the zero    *)
(* value when a third goroutine has seen both end and closes the channel.  *)
(* An error ends the process, which Kubernetes starts again.  (main reads  *)
(* the two pointers it returns after it has received: that is the order in *)
(* which the compiler evaluates `return db, rd, <-errs`.)                  *)
(*                                                                         *)
(* The minute is an event: it ends at some time after the first ping, which *)
(* fails when it ends during it.                                           *)
(***************************************************************************)
EXTENDS Integers

CONSTANTS
  Stores,      \* postgres and redis
  MaxOutages   \* how often a store goes away

ASSUME OutagesAssumption == MaxOutages \in Nat

VARIABLES
  proc,      \* the process
  net,       \* whether a store answers
  outages,   \* changes for the worse so far
  conn,      \* how far the goroutine of a store is
  minute,    \* its minute is over
  errs       \* the channel

startVars == <<proc, conn, minute, errs>>
netVars   == <<net, outages>>

DatastoresTypeOK ==
  /\ proc \in {"down", "starting", "serving"}
  /\ net \in [Stores -> BOOLEAN]
  /\ outages \in 0..MaxOutages
  /\ conn \in [Stores -> {"off", "first", "waits", "pings", "connected", "sends"}]
  /\ minute \in [Stores -> BOOLEAN]
  /\ errs \in {"open", "closed"}

StartInit ==
  /\ proc = "down" /\ errs = "open"
  /\ conn = [s \in Stores |-> "off"]
  /\ minute = [s \in Stores |-> FALSE]

NetInit ==
  /\ net \in [Stores -> BOOLEAN]
  /\ outages = 0
-----------------------------------------------------------------------------
\* A store goes away or comes back.
Outage(s) ==
  /\ net[s] /\ outages < MaxOutages
  /\ net' = [net EXCEPT ![s] = FALSE] /\ outages' = outages + 1
  /\ UNCHANGED startVars

Back(s) ==
  /\ ~net[s]
  /\ net' = [net EXCEPT ![s] = TRUE]
  /\ UNCHANGED <<outages, startVars>>

\* The process starts, and with it a goroutine for each store.  (What is
\* configured names both stores: otherwise no start ever gets past here.)
Start ==
  /\ proc = "down"
  /\ proc' = "starting" /\ errs' = "open"
  /\ conn' = [s \in Stores |-> "first"]
  /\ minute' = [s \in Stores |-> FALSE]
  /\ UNCHANGED netVars

\* The process is gone with all of its goroutines.
Gone ==
  /\ proc' = "down" /\ errs' = "open"
  /\ conn' = [s \in Stores |-> "off"]
  /\ minute' = [s \in Stores |-> FALSE]
  /\ UNCHANGED netVars

\* The first ping.
FirstPing(s) ==
  /\ conn[s] = "first"
  /\ conn' = [conn EXCEPT ![s] = IF net[s] THEN "connected" ELSE "waits"]
  /\ UNCHANGED <<proc, minute, errs, netVars>>

\* The ticker fires and the store is pinged, without a limit of time.
Tick(s) ==
  /\ conn[s] = "waits"
  /\ conn' = [conn EXCEPT ![s] = "pings"]
  /\ UNCHANGED <<proc, minute, errs, netVars>>

Pinged(s) ==
  /\ conn[s] = "pings"
  /\ conn' = [conn EXCEPT ![s] = IF net[s] THEN "connected" ELSE "waits"]
  /\ UNCHANGED <<proc, minute, errs, netVars>>

MinuteOver(s) ==
  /\ conn[s] \in {"waits", "pings"} /\ ~minute[s]
  /\ minute' = [minute EXCEPT ![s] = TRUE]
  /\ UNCHANGED <<proc, conn, errs, netVars>>

\* select finds the minute over, and perhaps a tick as well.
GiveUp(s) ==
  /\ conn[s] = "waits" /\ minute[s]
  /\ conn' = [conn EXCEPT ![s] = "sends"]
  /\ UNCHANGED <<proc, minute, errs, netVars>>

\* Both goroutines have ended.
CloseErrs ==
  /\ proc = "starting" /\ errs = "open"
  /\ \A s \in Stores : conn[s] = "connected"
  /\ errs' = "closed"
  /\ UNCHANGED <<proc, conn, minute, netVars>>

\* main receives the first error.  The other goroutine may still be trying or
\* have an error of its own that nobody receives.
ReceiveError(s) ==
  /\ proc = "starting" /\ conn[s] = "sends"
  /\ Gone

\* Mutant: the closed channel is taken for an error.
ServeNot ==
  /\ proc = "starting" /\ errs = "closed"
  /\ Gone

\* main receives from the closed channel and serves.
Serve ==
  /\ proc = "starting" /\ errs = "closed"
  /\ proc' = "serving"
  /\ UNCHANGED <<conn, minute, errs, netVars>>

StartStep ==
  \/ Start \/ CloseErrs \/ Serve
  \/ \E s \in Stores :
       \/ FirstPing(s) \/ Tick(s) \/ Pinged(s) \/ MinuteOver(s) \/ GiveUp(s)
       \/ ReceiveError(s)

NetStep == \E s \in Stores : Outage(s) \/ Back(s)
-----------------------------------------------------------------------------
\* A process that serves has connected to every store.
ServesConnected == proc = "serving" => \A s \in Stores : conn[s] = "connected"
==============================================================================
