----------------------------- MODULE GeoipUpdate -----------------------------
(***************************************************************************)
(* The geoip update job, cmd/geoipupdate in S3 mode, and the lookup        *)
(* service that reads what it stores, services/go-geoip.                   *)
(*                                                                         *)
(* The job has one goroutine per edition and under it one per file.  An    *)
(* upload is five calls: list and delete the folder `latest`, look for the *)
(* dated object, put it, copy it to `latest`.  The clock is read before    *)
(* the first and again before the last of them.  The first error ends the  *)
(* process, which Kubernetes starts again; when there is none the lookup   *)
(* pods are deleted so that they start again and load the new files.       *)
(* A call that fails may have had its effect, and one whose answer is lost *)
(* is sent again.                                                          *)
(*                                                                         *)
(* An object is its file and the day in its key.  Days count from 1, and 0 *)
(* stands for no object.                                                   *)
(***************************************************************************)
EXTENDS Integers, Sequences, FiniteSets

CONSTANTS
  Editions,   \* what is downloaded
  Files,      \* names of files
  FilesOf,    \* the files of an edition's archive
  Pods,       \* lookup pods that the selector finds
  Uris,       \* the files that a pod loads from `latest`, in order
  MaxDay,     \* the days that are looked at
  MaxFaults   \* the failing calls and killed processes

ASSUME FilesAssumption ==
  /\ FilesOf \in [Editions -> SUBSET Files]
  /\ Uris \in Seq(Files)

ASSUME BoundsAssumption == MaxDay \in Nat \ {0} /\ MaxFaults \in Nat

Uploads == {w \in Editions \X Files : w[2] \in FilesOf[w[1]]}
Days == 1..MaxDay

VARIABLES
  today,
  stage,    \* the job: idle, running, deleting pods, or waiting for a restart
  since,    \* the day on which its process began
  edition,  \* how far the goroutine of an edition is
  at,       \* the next call of an upload
  day,      \* the date in its key
  listed,   \* the files it found in `latest`
  source,   \* the date of the object that it is about to copy there
  failed,   \* it has met an error
  todo,     \* the pods that are still to be deleted
  stored,   \* the dated objects
  latest,   \* the day of the object that `latest` holds of each file
  night,    \* (history) uploads with a midnight between their date and their copy
  late,     \* (history) the files in `latest` that such an upload copied
  loaded,   \* how many files a pod has loaded since it started
  serves,   \* the day of each file in it, from an earlier start perhaps
  calm,     \* (history) no fault and no midnight in this process
  faults    \* faults so far

jobVars    == <<stage, since, edition, todo>>
uploadVars == <<at, day, listed, source, failed, night>>
bucketVars == <<stored, latest, late>>
podVars    == <<loaded, serves>>
vars == <<today, stage, since, edition, at, day, listed, source, failed, todo,
          stored, latest, night, late, loaded, serves, calm, faults>>

TypeOK ==
  /\ today \in Days /\ since \in Days
  /\ stage \in {"idle", "run", "list", "delete", "again"}
  /\ edition \in [Editions -> {"off", "fetch", "upload", "failed"}]
  /\ at \in [Uploads -> {"off", "list", "clear", "head", "put", "date", "copy", "send", "done"}]
  /\ day \in [Uploads -> Days]
  /\ listed \in [Uploads -> SUBSET Files]
  /\ source \in [Uploads -> Days]
  /\ failed \in [Uploads -> BOOLEAN]
  /\ todo \subseteq Pods
  /\ stored \subseteq Days \X Files
  /\ latest \in [Files -> Days \cup {0}]
  /\ night \subseteq Uploads /\ late \subseteq Files
  /\ loaded \in [Pods -> 0..Len(Uris)]
  /\ serves \in [Pods -> [Files -> Days \cup {0}]]
  /\ calm \in BOOLEAN /\ faults \in 0..MaxFaults

Init ==
  /\ today = 1 /\ since = 1 /\ stage = "idle"
  /\ edition = [e \in Editions |-> "off"]
  /\ at = [w \in Uploads |-> "off"]
  /\ day = [w \in Uploads |-> 1]
  /\ listed = [w \in Uploads |-> {}]
  /\ source = [w \in Uploads |-> 1]
  /\ failed = [w \in Uploads |-> FALSE]
  /\ todo = {}
  /\ stored = {}
  /\ latest = [f \in Files |-> 0] /\ night = {} /\ late = {}
  /\ loaded = [p \in Pods |-> 0]
  /\ serves = [p \in Pods |-> [f \in Files |-> 0]]
  /\ calm = TRUE /\ faults = 0

NoFault == UNCHANGED <<calm, faults>>

\* Something goes wrong.
Fault ==
  /\ faults < MaxFaults
  /\ faults' = faults + 1
  /\ calm' = FALSE

Midnight ==
  /\ today < MaxDay
  /\ today' = today + 1
  /\ calm' = FALSE
  /\ night' = {w \in Uploads : at[w] = "copy"}
  /\ UNCHANGED <<jobVars, at, day, listed, source, failed, bucketVars, podVars, faults>>
-----------------------------------------------------------------------------
(* The job.                                                                *)

\* The process is gone, and with it every goroutine and its locals.
Ends(then) ==
  /\ stage' = then
  /\ edition' = [e \in Editions |-> "off"]
  /\ at' = [w \in Uploads |-> "off"]
  /\ day' = [w \in Uploads |-> 1]
  /\ listed' = [w \in Uploads |-> {}]
  /\ source' = [w \in Uploads |-> 1]
  /\ night' = {}
  /\ failed' = [w \in Uploads |-> FALSE]
  /\ todo' = {}

\* The schedule, or a restart of a process that failed.
Start ==
  /\ stage \in {"idle", "again"}
  /\ stage' = "run" /\ since' = today /\ calm' = TRUE
  /\ edition' = [e \in Editions |-> "fetch"]
  /\ UNCHANGED <<today, todo, uploadVars, bucketVars, podVars, faults>>

\* An edition arrives, and every file of it gets a goroutine.
Download(e) ==
  /\ stage = "run" /\ edition[e] = "fetch"
  /\ edition' = [edition EXCEPT ![e] = "upload"]
  /\ at' = [w \in Uploads |-> IF w[1] = e THEN "list" ELSE at[w]]
  /\ UNCHANGED <<today, stage, since, todo, day, listed, source, failed, night, bucketVars, podVars>>
  /\ NoFault

\* It does not, or its headers or its archive are damaged.
DownloadFails(e) ==
  /\ stage = "run" /\ edition[e] = "fetch"
  /\ edition' = [edition EXCEPT ![e] = "failed"]
  /\ UNCHANGED <<today, stage, since, todo, uploadVars, bucketVars, podVars>>
  /\ Fault

\* The first error that main receives ends the process, in the middle of
\* whatever the other goroutines do.
Smash ==
  /\ stage = "run"
  /\ \/ \E e \in Editions : edition[e] = "failed"
     \/ \E w \in Uploads : at[w] = "send"
  /\ Ends("again")
  /\ UNCHANGED <<today, since, bucketVars, podVars>>
  /\ NoFault

Killed ==
  /\ stage \in {"run", "list", "delete"}
  /\ Ends("again")
  /\ UNCHANGED <<today, since, bucketVars, podVars>>
  /\ Fault

\* Mutant: main does not wait for the goroutines of the files.
FinishedEarly ==
  /\ stage = "run"
  /\ \A e \in Editions : edition[e] = "upload"
  /\ stage' = "list"
  /\ UNCHANGED <<today, since, edition, todo, uploadVars, bucketVars, podVars>>
  /\ NoFault

\* Every goroutine has ended, none with an error: the channel is closed.
Finished ==
  /\ stage = "run"
  /\ \A e \in Editions : edition[e] = "upload"
  /\ \A w \in Uploads : at[w] = "done"
  /\ stage' = "list"
  /\ UNCHANGED <<today, since, edition, todo, uploadVars, bucketVars, podVars>>
  /\ NoFault

ListPods ==
  /\ stage = "list"
  /\ \/ /\ stage' = "delete" /\ todo' = Pods
        /\ UNCHANGED <<edition, uploadVars>>
        /\ NoFault
     \/ Ends("again") /\ Fault
  /\ UNCHANGED <<today, since, bucketVars, podVars>>

\* Mutant: the selector finds the replacement, which is deleted as well.
DeleteAgain(p) ==
  /\ stage = "delete" /\ p \in todo
  /\ \/ /\ loaded' = [loaded EXCEPT ![p] = 0]
        /\ UNCHANGED <<stage, edition, todo, uploadVars>>
        /\ NoFault
     \/ Ends("again") /\ UNCHANGED loaded /\ Fault
  /\ UNCHANGED <<today, since, bucketVars, serves>>

\* A deleted pod is replaced by one that starts from nothing.
DeletePod(p) ==
  /\ stage = "delete" /\ p \in todo
  /\ \/ /\ todo' = todo \ {p}
        /\ loaded' = [loaded EXCEPT ![p] = 0]
        /\ UNCHANGED <<stage, edition, uploadVars>>
        /\ NoFault
     \/ Ends("again") /\ UNCHANGED loaded /\ Fault
  /\ UNCHANGED <<today, since, bucketVars, serves>>

Exit ==
  /\ stage = "delete" /\ todo = {}
  /\ Ends("idle")
  /\ UNCHANGED <<today, since, bucketVars, podVars>>
  /\ NoFault
-----------------------------------------------------------------------------
(* An upload.                                                              *)

Goes(w, from, to) ==
  /\ stage = "run" /\ at[w] = from
  /\ at' = [at EXCEPT ![w] = to]
  /\ UNCHANGED <<today, jobVars, podVars>>

\* The date is taken and `latest` is listed; a failure is only logged.
ListLatest(w) ==
  /\ day' = [day EXCEPT ![w] = today]
  /\ \/ /\ Goes(w, "list", "clear")
        /\ listed' = [listed EXCEPT ![w] = {f \in Files : latest[f] # 0}]
        /\ NoFault
     \/ Goes(w, "list", "head") /\ UNCHANGED listed /\ Fault
  /\ UNCHANGED <<source, failed, night, bucketVars>>

Without(these) == [f \in Files |-> IF f \in these THEN 0 ELSE latest[f]]

\* What was listed is deleted.  An empty list is refused, and only logged.
ClearLatest(w) ==
  /\ \/ /\ Goes(w, "clear", "head") /\ NoFault
        /\ latest' = Without(listed[w])
        /\ listed' = [listed EXCEPT ![w] = {}]
     \/ /\ Goes(w, "clear", "head") /\ Fault
        /\ \E some \in SUBSET listed[w] : latest' = Without(some)
        /\ listed' = [listed EXCEPT ![w] = {}]
     \/ /\ Goes(w, "clear", "clear") /\ Fault
        /\ latest' = Without(listed[w]) /\ UNCHANGED listed
  /\ UNCHANGED <<day, source, failed, night, stored, late>>

\* Mutant: an upload whose object is there returns before the copy.
HeadReturns(w) ==
  /\ \/ Goes(w, "head", IF <<day[w], w[2]>> \in stored THEN "done" ELSE "put") /\ NoFault
     \/ Goes(w, "head", "put") /\ Fault
  /\ UNCHANGED <<day, listed, source, failed, night, bucketVars>>

\* An object that is there is kept; every error stands for one that is not.
HeadObject(w) ==
  /\ \/ Goes(w, "head", IF <<day[w], w[2]>> \in stored THEN "date" ELSE "put") /\ NoFault
     \/ Goes(w, "head", "put") /\ Fault
  /\ UNCHANGED <<day, listed, source, failed, night, bucketVars>>

\* Mutant: the error of an upload is dropped.
PutQuiet(w) ==
  /\ Goes(w, "put", "date")
  /\ \/ stored' = stored \cup {<<day[w], w[2]>>} /\ NoFault
     \/ UNCHANGED stored /\ Fault
  /\ UNCHANGED <<day, listed, source, failed, night, latest, late>>

\* The file is read and put.  A put that fails may have stored the object.
Put(w) ==
  /\ Goes(w, "put", "date")
  /\ \/ stored' = stored \cup {<<day[w], w[2]>>} /\ UNCHANGED failed /\ NoFault
     \/ /\ stored' \in {stored, stored \cup {<<day[w], w[2]>>}}
        /\ failed' = [failed EXCEPT ![w] = TRUE]
        /\ Fault
  /\ UNCHANGED <<day, listed, source, night, latest, late>>

\* Mutant: the object of the upload is copied, whatever the day is.
TakeKey(w) ==
  /\ Goes(w, "date", "copy")
  /\ source' = [source EXCEPT ![w] = day[w]]
  /\ UNCHANGED <<day, listed, failed, night, bucketVars>> /\ NoFault

\* In every case the file is copied to `latest` at the end, from the object of
\* the day it is then ...
TakeDate(w) ==
  /\ Goes(w, "date", "copy")
  /\ source' = [source EXCEPT ![w] = today]
  /\ UNCHANGED <<day, listed, failed, night, bucketVars>> /\ NoFault

\* The copy of the store, if there is such an object.  A midnight may have
\* passed since its date was taken.
Copied(w) ==
  IF <<source[w], w[2]>> \in stored
  THEN /\ latest' = [latest EXCEPT ![w[2]] = source[w]]
       /\ late' = IF w \in night THEN late \cup {w[2]} ELSE late \ {w[2]}
  ELSE UNCHANGED <<latest, late>>

\* ... by a call that may come when another upload of the file has copied a
\* newer one.  Only the error of the upload itself is sent to main.
CopyToLatest(w) ==
  /\ \/ /\ Goes(w, "copy", IF failed[w] THEN "send" ELSE "done")
        /\ source' = [source EXCEPT ![w] = 1] /\ night' = night \ {w}
        /\ \/ Copied(w) /\ NoFault
           \/ UNCHANGED <<latest, late>> /\ Fault
     \/ Goes(w, "copy", "copy") /\ UNCHANGED <<source, night>> /\ Copied(w) /\ Fault
  /\ UNCHANGED <<day, listed, failed, stored>>

Works(w) ==
  \/ ListLatest(w) \/ ClearLatest(w) \/ HeadObject(w) \/ Put(w)
  \/ TakeDate(w) \/ CopyToLatest(w)
-----------------------------------------------------------------------------
(* The lookup service.                                                     *)

\* Opening an s3 URI: the object, or an error.
Found(f) == latest[f] # 0

\* A pod loads its files one after the other; one that is missing ends it, and
\* it starts again.
Load(p) ==
  /\ loaded[p] < Len(Uris)
  /\ LET f == Uris[loaded[p] + 1] IN
       IF Found(f)
       THEN /\ loaded' = [loaded EXCEPT ![p] = @ + 1]
            /\ serves' = [serves EXCEPT ![p][f] = latest[f]]
       ELSE loaded' = [loaded EXCEPT ![p] = 0] /\ UNCHANGED serves
  /\ UNCHANGED <<today, jobVars, uploadVars, bucketVars>>
  /\ NoFault

Next ==
  \/ Midnight \/ Start \/ Smash \/ Killed \/ Finished \/ ListPods \/ Exit
  \/ \E e \in Editions : Download(e) \/ DownloadFails(e)
  \/ \E w \in Uploads : Works(w)
  \/ \E p \in Pods : DeletePod(p) \/ Load(p)

\* Goroutines go on and their calls return, Kubernetes restarts a job that
\* failed, and a download is cut off after ten minutes.  The schedule owes
\* nothing.
Fairness ==
  /\ WF_vars(stage = "again" /\ Start) /\ WF_vars(Smash) /\ WF_vars(Finished)
  /\ WF_vars(ListPods) /\ WF_vars(Exit)
  /\ \A e \in Editions : WF_vars(Download(e) \/ DownloadFails(e))
  /\ \A w \in Uploads : WF_vars(Works(w))
  /\ \A p \in Pods : WF_vars(DeletePod(p)) /\ WF_vars(Load(p))

Spec == Init /\ [][Next]_vars /\ Fairness
-----------------------------------------------------------------------------
(* Properties.                                                             *)

\* Pods are only deleted when every file of every edition has been stored since
\* the process began and no goroutine of it is left that could still change the
\* bucket or send an error on the closed channel.
RestartAfterUpload ==
  stage \in {"list", "delete"} =>
    /\ \A w \in Uploads :
         /\ at[w] = "done"
         /\ \E d \in since..today : <<d, w[2]>> \in stored
    /\ \A e \in Editions : edition[e] = "upload"

\* Uploads delete each other's files in `latest`, but never all of them: when
\* nothing failed and no midnight came in between, the last copy is there.
LatestNotEmpty ==
  stage \in {"list", "delete"} /\ calm /\ Uploads # {} =>
    \E f \in Files : latest[f] = today

\* A pod goes back to an older file than it had served before only by loading a
\* copy that was made after a midnight and dated before it: neither clearing
\* `latest`, nor restarts, nor an upload that began on an earlier day do that,
\* and the next copy of the file heals it.
NeverBack ==
  [][\A p \in Pods, f \in Files : serves'[p][f] < serves[p][f] => f \in late]_vars

\* Every update ends, after any number of restarts, once nothing fails.
UpdateEnds == stage = "run" ~> stage = "idle"
==============================================================================
