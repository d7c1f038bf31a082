------------------------------- MODULE Backups -------------------------------
(***************************************************************************)
(* The backup service: cmd/backups.                                        *)
(*                                                                         *)
(* Start is a loop that selects between a ticker and two unbuffered        *)
(* channels.  On a tick it runs a backup itself and receives nothing       *)
(* meanwhile.  A request to PUT /config sends its value to the loop; POST  *)
(* /backup/postgres runs a backup in its own goroutine.                    *)
(*                                                                         *)
(* A backup is a pg_dump process whose output is uploaded under a name     *)
(* made of the second in which it began: backups of one second share their *)
(* file.  Time is counted in seconds.  A ticker holds one tick at most and *)
(* loses it when it is reset (as go.mod asks for Go 1.24).                 *)
(*                                                                         *)
(* Only the latest backup of each goroutine is remembered, so a few names  *)
(* are enough: one that no latest backup has is as good as a new one.      *)
(***************************************************************************)
EXTENDS Integers, FiniteSets

CONSTANTS
  Updaters,   \* goroutines that serve PUT /config
  Requests,   \* goroutines that serve POST /backup/postgres
  Loop,       \* the goroutine of Start
  Waits,      \* durations that are asked for, in seconds; 0 is any shorter one
  Maxes,      \* numbers of jobs that are asked for
  FirstWait,  \* newConfig's arguments
  FirstMax,
  Names,      \* names of files
  None

Runners == Requests \cup {Loop}

ASSUME ConfigAssumption ==
  /\ Waits \subseteq Nat /\ FirstWait \in Waits \ {0}
  /\ Maxes \subseteq Int /\ FirstMax \in Maxes
  /\ Loop \notin Requests
  /\ None \notin Waits \cup Names

ASSUME NamesAssumption ==
  /\ IsFiniteSet(Runners) /\ IsFiniteSet(Names)
  /\ Cardinality(Names) > Cardinality(Runners)

VARIABLES
  shown,    \* the configuration that GET /config shows
  period,   \* the ticker's duration
  left,     \* seconds until it ticks
  tick,     \* a tick waits in its channel
  at,       \* what an updater does next
  ask,      \* the duration it has yet to send or store
  crossed,  \* an update was received before an earlier one was stored (history)
  run,      \* how far a runner's backup is
  dump,     \* its pg_dump process
  name,     \* the name of its latest backup
  ok,       \* the latest backup was reported as a success
  second,   \* the name of the backups that began in this second
  bucket,   \* what is stored under each name
  reused    \* more than one backup had the name (history)

configVars == <<shown, at, ask, crossed>>
timeVars   == <<period, left, tick>>
nameVars   == <<name, second, reused>>
backupVars == <<run, dump, ok, bucket>>
vars == <<shown, period, left, tick, at, ask, crossed,
          run, dump, name, ok, second, bucket, reused>>

\* The durations that Update accepts.
Accepted == {d \in Waits : d >= 1}

TypeOK ==
  /\ shown \in [wait : Accepted, max : Maxes]
  /\ period \in Accepted /\ left \in 1..period /\ tick \in BOOLEAN
  /\ at \in [Updaters -> {"idle", "max", "wait", "store"}]
  /\ ask \in [Updaters -> Accepted \cup {None}]
  /\ crossed \in BOOLEAN
  /\ run \in [Runners -> {"idle", "upload", "wait"}]
  /\ dump \in [Runners -> {"none", "running", "done", "died"}]
  /\ name \in [Runners -> Names \cup {None}]
  /\ ok \in [Runners -> BOOLEAN]
  /\ second \in Names \cup {None}
  /\ bucket \in [Names -> {"nothing", "complete", "truncated"}]
  /\ reused \in [Names -> BOOLEAN]

Init ==
  /\ shown = [wait |-> FirstWait, max |-> FirstMax]
  /\ period = FirstWait /\ left = FirstWait /\ tick = FALSE
  /\ at = [u \in Updaters |-> "idle"]
  /\ ask = [u \in Updaters |-> None]
  /\ crossed = FALSE
  /\ run = [r \in Runners |-> "idle"]
  /\ dump = [r \in Runners |-> "none"]
  /\ name = [r \in Runners |-> None]
  /\ ok = [r \in Runners |-> FALSE]
  /\ second = None
  /\ bucket = [n \in Names |-> "nothing"]
  /\ reused = [n \in Names |-> FALSE]
-----------------------------------------------------------------------------
(* The configuration.                                                      *)

\* Update stores a maximum and then sends it.  A request that asks for a
\* maximum and a duration gets only this far.
AskMax(u, n) ==
  /\ at[u] = "idle"
  /\ shown' = [shown EXCEPT !.max = n]
  /\ at' = [at EXCEPT ![u] = "max"]
  /\ UNCHANGED <<ask, crossed, timeVars, backupVars, nameVars>>

\* Mutant: the duration is stored before it is sent.
StoreFirst(u, d) ==
  /\ at[u] = "idle"
  /\ d \in Accepted
  /\ at' = [at EXCEPT ![u] = "wait"]
  /\ ask' = [ask EXCEPT ![u] = d]
  /\ shown' = [shown EXCEPT !.wait = d]
  /\ UNCHANGED <<crossed, timeVars, backupVars, nameVars>>

\* A duration is sent first.  One of less than a second is refused.
AskWait(u, d) ==
  /\ at[u] = "idle"
  /\ d \in Accepted
  /\ at' = [at EXCEPT ![u] = "wait"]
  /\ ask' = [ask EXCEPT ![u] = d]
  /\ UNCHANGED <<shown, crossed, timeVars, backupVars, nameVars>>

\* The loop receives a maximum, and forgets it.
ReceiveMax(u) ==
  /\ run[Loop] = "idle"
  /\ at[u] = "max"
  /\ at' = [at EXCEPT ![u] = "idle"]
  /\ UNCHANGED <<shown, ask, crossed, timeVars, backupVars, nameVars>>

\* The loop receives a duration and resets the ticker.
ReceiveWait(u) ==
  /\ run[Loop] = "idle"
  /\ at[u] = "wait"
  /\ period' = ask[u] /\ left' = ask[u] /\ tick' = FALSE
  /\ at' = [at EXCEPT ![u] = "store"]
  /\ crossed' = (\E v \in Updaters : at[v] = "store")
  /\ UNCHANGED <<shown, ask, backupVars, nameVars>>

\* The updater goes on and stores it.
StoreWait(u) ==
  /\ at[u] = "store"
  /\ shown' = [shown EXCEPT !.wait = ask[u]]
  /\ at' = [at EXCEPT ![u] = "idle"]
  /\ ask' = [ask EXCEPT ![u] = None]
  /\ UNCHANGED <<crossed, timeVars, backupVars, nameVars>>
-----------------------------------------------------------------------------
(* Backups.                                                                *)

\* A backup gets the name of this second.  Names that no latest backup has any
\* more are cleared for the next ones.
Named(r, n) ==
  LET names == [name EXCEPT ![r] = n]
      kept  == {names[q] : q \in Runners} \ (IF second = None THEN {n} ELSE {})
  IN  /\ name' = names
      /\ second' = n
      /\ bucket' = [m \in Names |-> IF m \in kept THEN bucket[m] ELSE "nothing"]
      /\ reused' = [m \in Names |-> m \in kept /\ (reused[m] \/ m = n)]

\* The name of this second, or one that no backup has.
NameNow ==
  IF second # None THEN second
  ELSE CHOOSE n \in Names : \A q \in Runners : name[q] # n

\* BackupPostgres up to the upload: pg_dump starts, or cannot be started.
StartDump(r) ==
  \/ /\ run' = [run EXCEPT ![r] = "upload"]
     /\ dump' = [dump EXCEPT ![r] = "running"]
     /\ ok' = [ok EXCEPT ![r] = FALSE]
     /\ Named(r, NameNow)
  \/ /\ ok' = [ok EXCEPT ![r] = FALSE]
     /\ UNCHANGED <<run, dump, bucket, nameVars>>

Request(r) ==
  /\ r \in Requests
  /\ run[r] = "idle"
  /\ StartDump(r)
  /\ UNCHANGED <<configVars, timeVars>>

\* The loop takes a tick.
OnTick ==
  /\ run[Loop] = "idle"
  /\ tick
  /\ tick' = FALSE
  /\ StartDump(Loop)
  /\ UNCHANGED <<configVars, period, left>>

\* pg_dump has written everything, or dies half-way; either ends its output.
DumpEnds(r) ==
  /\ dump[r] = "running"
  /\ \E end \in {"done", "died"} : dump' = [dump EXCEPT ![r] = end]
  /\ UNCHANGED <<run, ok, bucket, configVars, timeVars, nameVars>>

\* The uploader has read all of the output and stores the object.
Uploaded(r) ==
  /\ run[r] = "upload"
  /\ dump[r] \in {"done", "died"}
  /\ run' = [run EXCEPT ![r] = "wait"]
  /\ bucket' = [bucket EXCEPT ![name[r]] =
                   IF dump[r] = "done" THEN "complete" ELSE "truncated"]
  /\ UNCHANGED <<dump, ok, configVars, timeVars, nameVars>>

Report(r, success) ==
  /\ ok' = [ok EXCEPT ![r] = success]
  /\ run' = [run EXCEPT ![r] = "idle"]
  /\ dump' = [dump EXCEPT ![r] = "none"]
  /\ UNCHANGED <<bucket, configVars, timeVars, nameVars>>

\* Mutant: the loop returns when its upload fails.
UploadFailsReturns(r) ==
  /\ run[r] = "upload"
  /\ ok' = [ok EXCEPT ![r] = FALSE]
  /\ run' = [run EXCEPT ![r] = IF r = Loop THEN "returned" ELSE "idle"]
  /\ dump' = [dump EXCEPT ![r] = "none"]
  /\ UNCHANGED <<bucket, configVars, timeVars, nameVars>>

\* The upload fails or the client of a request leaves.  pg_dump is left alone.
UploadFails(r) ==
  /\ run[r] = "upload"
  /\ Report(r, FALSE)

\* Mutant: the upload's result is reported without waiting for pg_dump.
NoWait(r) ==
  /\ run[r] = "wait"
  /\ Report(r, TRUE)

\* cmd.Wait: how pg_dump ended.
Waited(r) ==
  /\ run[r] = "wait"
  /\ Report(r, dump[r] = "done")
-----------------------------------------------------------------------------
\* Mutant: a timer that fires once instead of a ticker.
ClockOnce ==
  /\ second' = None
  /\ left' = IF left = 0 THEN 0 ELSE left - 1
  /\ tick' = (tick \/ left = 1)
  /\ UNCHANGED <<period, configVars, backupVars, name, reused>>

\* A second passes.  A tick that finds one in the channel is dropped.
Clock ==
  /\ second' = None
  /\ left' = IF left = 1 THEN period ELSE left - 1
  /\ tick' = (tick \/ left = 1)
  /\ UNCHANGED <<period, configVars, backupVars, name, reused>>

Next ==
  \/ Clock
  \/ OnTick
  \/ \E u \in Updaters :
       \/ \E n \in Maxes : AskMax(u, n)
       \/ \E d \in Waits : AskWait(u, d)
       \/ ReceiveMax(u) \/ ReceiveWait(u) \/ StoreWait(u)
  \/ \E r \in Runners :
       Request(r) \/ DumpEnds(r) \/ Uploaded(r) \/ UploadFails(r) \/ Waited(r)

\* The ticker runs, goroutines go on, and dumps and uploads end.  select picks
\* among the ready cases at random and a channel serves its senders in the
\* order they came, so a case that is ready again and again is taken.
Fairness ==
  /\ WF_vars(Clock)
  /\ SF_vars(OnTick)
  /\ \A u \in Updaters :
       SF_vars(ReceiveMax(u)) /\ SF_vars(ReceiveWait(u)) /\ WF_vars(StoreWait(u))
  /\ \A r \in Runners :
       WF_vars(DumpEnds(r)) /\ WF_vars(Uploaded(r)) /\ WF_vars(Waited(r))

Spec == Init /\ [][Next]_vars /\ Fairness
-----------------------------------------------------------------------------
(* Properties.                                                             *)

\* The duration that GET /config shows is the ticker's when no update is
\* between its send and its store, unless two updates crossed there: then the
\* first one's duration may be shown while the second one's is in force, until
\* the next update.
WaitAgrees ==
  ~crossed /\ (\A u \in Updaters : at[u] # "store") => shown.wait = period

\* A backup that was reported as a success is in the bucket, and complete
\* unless another one of the same second wrote over it.
SuccessIsStored ==
  \A r \in Runners : ok[r] =>
    \/ bucket[name[r]] = "complete"
    \/ bucket[name[r]] = "truncated" /\ reused[name[r]]

\* Every update is answered, although the loop receives nothing during its
\* backups.
UpdatesEnd == \A u \in Updaters : at[u] # "idle" ~> at[u] = "idle"

\* Scheduled backups go on for ever, whatever fails, once nobody changes the
\* configuration any more.  (Each change of the duration starts the ticker
\* over, so changes that come faster than it ticks hold the backups off.)
ScheduleGoesOn ==
  <>[](\A u \in Updaters : at[u] = "idle") => []<><<OnTick>>_vars
==============================================================================
