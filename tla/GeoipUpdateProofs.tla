-------------------------- MODULE GeoipUpdateProofs --------------------------
(* Proofs about GeoipUpdate, for any editions, files and pods.             *)
EXTENDS GeoipUpdate, TLAPS

USE BoundsAssumption
-----------------------------------------------------------------------------
(* Type correctness.                                                       *)

LEMMA UploadsType ==
  ASSUME NEW w \in Uploads
  PROVE  w[1] \in Editions /\ w[2] \in Files
BY DEF Uploads

LEMMA TypeFault ==
  ASSUME TypeOK, Fault \/ NoFault
  PROVE  calm' \in BOOLEAN /\ faults' \in 0..MaxFaults
<1>1. CASE Fault
  <2>1. faults \in 0..MaxFaults
    BY DEF TypeOK
  <2>2. faults' \in 0..MaxFaults
    BY <1>1, <2>1 DEF Fault
  <2>3. calm' \in BOOLEAN
    BY <1>1 DEF Fault
  <2>4. QED
    BY <2>2, <2>3
<1>2. CASE NoFault
  BY <1>2 DEF TypeOK, NoFault
<1>3. QED
  BY <1>1, <1>2

LEMMA TypeEnds ==
  ASSUME TypeOK, NEW s \in {"idle", "again"}, Ends(s), today' = today, since' = since,
         UNCHANGED <<bucketVars, serves>>, loaded' \in [Pods -> 0..Len(Uris)],
         Fault \/ NoFault
  PROVE  TypeOK'
<1>1. 1 \in Days
  BY DEF Days
<1>2. calm' \in BOOLEAN /\ faults' \in 0..MaxFaults
  BY TypeFault
<1>3. QED
  BY <1>1, <1>2 DEF TypeOK, Ends, bucketVars

LEMMA TypeNext ==
  ASSUME TypeOK, [Next]_vars
  PROVE  TypeOK'
<1> USE DEF jobVars, uploadVars, bucketVars, podVars
<1>0. Len(Uris) \in Nat
  BY FilesAssumption
<1>1. CASE Midnight
  <2>1. today' \in Days
    BY <1>1 DEF TypeOK, Midnight, Days
  <2>2. QED
    BY <1>1, <2>1 DEF TypeOK, Midnight
<1>2. CASE Start
  BY <1>2 DEF TypeOK, Start
<1>3. CASE Smash
  BY <1>3, TypeEnds DEF Smash, TypeOK
<1>4. CASE Killed
  BY <1>4, TypeEnds DEF Killed, TypeOK
<1>5. CASE Finished
  BY <1>5, TypeFault DEF TypeOK, Finished, NoFault
<1>6. CASE ListPods
  <2>1. CASE stage' = "delete" /\ todo' = Pods /\ UNCHANGED <<edition, uploadVars>> /\ NoFault
    BY <1>6, <2>1 DEF TypeOK, ListPods, NoFault
  <2>2. CASE Ends("again") /\ Fault
    BY <1>6, <2>2, TypeEnds DEF ListPods, TypeOK
  <2>3. QED
    BY <1>6, <2>1, <2>2 DEF ListPods
<1>7. CASE Exit
  BY <1>7, TypeEnds DEF Exit, TypeOK
<1>8. ASSUME NEW e \in Editions, Download(e) \/ DownloadFails(e)
      PROVE  TypeOK'
  BY <1>8, TypeFault DEF TypeOK, Download, DownloadFails
<1>9. ASSUME NEW w \in Uploads, Works(w)
      PROVE  TypeOK'
  <2>0. w[2] \in Files
    BY UploadsType
  <2>1. CASE ListLatest(w)
    BY <2>1, TypeFault DEF TypeOK, ListLatest, Goes
  <2>2. CASE ClearLatest(w)
    BY <2>2, TypeFault DEF TypeOK, ClearLatest, Without, Goes
  <2>3. CASE HeadObject(w)
    BY <2>3, TypeFault DEF TypeOK, HeadObject, Goes
  <2>4. CASE Put(w)
    <3>1. <<day[w], w[2]>> \in Days \X Files
      BY <2>0 DEF TypeOK
    <3>2. stored' \subseteq Days \X Files
      BY <2>4, <3>1 DEF Put, TypeOK
    <3>3. failed' \in [Uploads -> BOOLEAN]
      BY <2>4 DEF Put, TypeOK
    <3>4. QED
      BY <2>4, <3>2, <3>3, TypeFault DEF TypeOK, Put, Goes
  <2>5. CASE TakeDate(w)
    BY <2>5, TypeFault DEF TypeOK, TakeDate, Goes
  <2>6. CASE CopyToLatest(w)
    <3>1. Fault \/ NoFault
      BY <2>6 DEF CopyToLatest
    <3>2. /\ UNCHANGED <<today, jobVars, podVars, day, listed, failed, stored>>
          /\ at' \in [Uploads -> {"off", "list", "clear", "head", "put", "date", "copy", "send", "done"}]
          /\ source' \in [Uploads -> Days] /\ night' \subseteq Uploads
      <4>1. 1 \in Days
        BY DEF Days
      <4>2. QED
        BY <2>6, <4>1 DEF CopyToLatest, Goes, TypeOK
    <3>3. latest' \in [Files -> Days \cup {0}] /\ late' \subseteq Files
      <4>1. Copied(w) \/ UNCHANGED <<latest, late>>
        BY <2>6 DEF CopyToLatest
      <4>2. source[w] \in Days
        BY DEF TypeOK
      <4>3. QED
        BY <2>0, <4>1, <4>2 DEF Copied, TypeOK
    <3>4. QED
      BY <3>1, <3>2, <3>3, TypeFault DEF TypeOK
  <2>7. QED
    BY <1>9, <2>1, <2>2, <2>3, <2>4, <2>5, <2>6 DEF Works
<1>10. ASSUME NEW p \in Pods, DeletePod(p)
       PROVE  TypeOK'
  <2>1. CASE todo' = todo \ {p} /\ loaded' = [loaded EXCEPT ![p] = 0]
               /\ UNCHANGED <<stage, edition, uploadVars>> /\ NoFault
    BY <1>0, <1>10, <2>1 DEF TypeOK, DeletePod, NoFault
  <2>2. CASE Ends("again") /\ UNCHANGED loaded /\ Fault
    BY <1>10, <2>2, TypeEnds DEF DeletePod, TypeOK
  <2>3. QED
    BY <1>10, <2>1, <2>2 DEF DeletePod
<1>11. ASSUME NEW p \in Pods, Load(p)
       PROVE  TypeOK'
  <2> DEFINE f == Uris[loaded[p] + 1]
  <2>1. loaded[p] + 1 \in 1..Len(Uris)
    BY <1>0, <1>11 DEF TypeOK, Load
  <2>2. f \in Files
    BY <2>1, FilesAssumption
  <2> HIDE DEF f
  <2>3. loaded' \in [Pods -> 0..Len(Uris)]
    <3>1. CASE loaded' = [loaded EXCEPT ![p] = @ + 1]
      <4>1. loaded[p] + 1 \in 0..Len(Uris)
        BY <1>0, <2>1
      <4>2. QED
        BY <3>1, <4>1 DEF TypeOK
    <3>2. CASE loaded' = [loaded EXCEPT ![p] = 0]
      BY <1>0, <3>2 DEF TypeOK
    <3>3. QED
      BY <1>11, <3>1, <3>2 DEF Load
  <2>4. serves' \in [Pods -> [Files -> Days \cup {0}]]
    <3>1. CASE UNCHANGED serves
      BY <3>1 DEF TypeOK
    <3>2. CASE serves' = [serves EXCEPT ![p][f] = latest[f]]
      BY <2>2, <3>2 DEF TypeOK
    <3>3. QED
      BY <1>11, <3>1, <3>2 DEF Load, f
  <2>5. QED
    BY <1>11, <2>3, <2>4, TypeFault DEF TypeOK, Load
<1>12. CASE UNCHANGED vars
  BY <1>12 DEF TypeOK, vars
<1>13. QED
  BY <1>1, <1>2, <1>3, <1>4, <1>5, <1>6, <1>7, <1>8, <1>9, <1>10, <1>11, <1>12 DEF Next

LEMMA TypeInit == Init => TypeOK
<1>1. 1 \in Days /\ Len(Uris) \in Nat
  BY FilesAssumption DEF Days
<1>2. QED
  BY <1>1 DEF Init, TypeOK

\* The types of the state, whatever the editions, files and pods are.
THEOREM TypeCorrect == Spec => []TypeOK
<1>1. QED
  BY TypeInit, TypeNext, PTL DEF Spec
-----------------------------------------------------------------------------
(* Deleting pods only after everything is stored.                          *)

\* What the position of an upload says about the bucket.
Stands(w) ==
  /\ at[w] \notin {"off", "list"} => since <= day[w] /\ day[w] <= today
  /\ at[w] = "done" \/ (at[w] \in {"date", "copy"} /\ ~failed[w]) => <<day[w], w[2]>> \in stored

StoredInv ==
  /\ since <= today
  /\ stage \in {"idle", "again"} => \A w \in Uploads : at[w] = "off"
  /\ stage \in {"list", "delete"} =>
       /\ \A w \in Uploads : at[w] = "done"
       /\ \A e \in Editions : edition[e] = "upload"
  /\ \A w \in Uploads : Stands(w)

LEMMA StoredEnds ==
  ASSUME StoredInv, NEW s \in {"idle", "again"}, Ends(s), today' = today, since' = since
  PROVE  StoredInv'
BY DEF StoredInv, Stands, Ends

LEMMA StoredNext ==
  ASSUME TypeOK, StoredInv, [Next]_vars
  PROVE  StoredInv'
<1> USE DEF jobVars, uploadVars, bucketVars, podVars
<1>0. today \in Int /\ since \in Int /\ \A w \in Uploads : day[w] \in Int
  BY DEF TypeOK, Days
<1>1. CASE Midnight
  BY <1>0, <1>1 DEF StoredInv, Stands, Midnight
<1>2. CASE Start
  BY <1>0, <1>2 DEF StoredInv, Stands, Start
<1>3. CASE Smash
  BY <1>3, StoredEnds DEF Smash
<1>4. CASE Killed
  BY <1>4, StoredEnds DEF Killed
<1>5. CASE Finished
  BY <1>5 DEF StoredInv, Stands, Finished
<1>6. CASE ListPods
  BY <1>6, StoredEnds DEF StoredInv, Stands, ListPods
<1>7. CASE Exit
  BY <1>7, StoredEnds DEF Exit
<1>8. ASSUME NEW e \in Editions, Download(e) \/ DownloadFails(e)
      PROVE  StoredInv'
  <2>1. CASE Download(e)
    <3>1. ASSUME NEW w \in Uploads
          PROVE  Stands(w)'
      <4>1. at'[w] = "list" \/ at'[w] = at[w]
        BY <2>1 DEF Download, TypeOK
      <4>2. QED
        BY <2>1, <4>1 DEF Download, StoredInv, Stands
    <3>2. QED
      BY <2>1, <3>1 DEF Download, StoredInv
  <2>2. CASE DownloadFails(e)
    BY <2>2 DEF DownloadFails, StoredInv, Stands
  <2>3. QED
    BY <1>8, <2>1, <2>2
<1>9. ASSUME NEW w \in Uploads, Works(w)
      PROVE  StoredInv'
  <2>1. stage = "run" /\ UNCHANGED <<today, stage, since, edition>>
    BY <1>9 DEF Works, ListLatest, ClearLatest, HeadObject, Put, TakeDate, CopyToLatest, Copied, Goes
  <2>2. \A v \in Uploads : v # w =>
          at'[v] = at[v] /\ day'[v] = day[v] /\ failed'[v] = failed[v]
    BY <1>9 DEF Works, ListLatest, ClearLatest, HeadObject, Put, TakeDate, CopyToLatest, Copied, Goes, TypeOK
  <2>3. stored \subseteq stored'
    BY <1>9 DEF Works, ListLatest, ClearLatest, HeadObject, Put, TakeDate, CopyToLatest, Copied
  <2>4. \A v \in Uploads : v # w => Stands(v)'
    BY <2>1, <2>2, <2>3 DEF StoredInv, Stands
  <2>5. Stands(w)'
    <3>1. CASE ListLatest(w)
      BY <1>0, <3>1 DEF ListLatest, Goes, StoredInv, Stands, TypeOK
    <3>2. CASE ClearLatest(w)
      BY <1>0, <3>2 DEF ClearLatest, Goes, StoredInv, Stands, TypeOK
    <3>3. CASE HeadObject(w)
      BY <1>0, <3>3 DEF HeadObject, Goes, StoredInv, Stands, TypeOK
    <3>4. CASE Put(w)
      BY <1>0, <3>4 DEF Put, Goes, StoredInv, Stands, TypeOK
    <3>5. CASE TakeDate(w) \/ CopyToLatest(w)
      <4>1. /\ at[w] \in {"date", "copy"}
            /\ at'[w] = "copy" \/ at'[w] = IF failed[w] THEN "send" ELSE "done"
            /\ UNCHANGED <<day, failed, stored>>
        BY <3>5 DEF TakeDate, CopyToLatest, Goes, TypeOK
      <4>2. QED
        BY <2>1, <4>1 DEF StoredInv, Stands
    <3>6. QED
      BY <1>9, <3>1, <3>2, <3>3, <3>4, <3>5 DEF Works
  <2>6. QED
    BY <2>1, <2>4, <2>5 DEF StoredInv
<1>10. ASSUME NEW p \in Pods, DeletePod(p)
       PROVE  StoredInv'
  BY <1>10, StoredEnds DEF DeletePod, StoredInv, Stands
<1>11. ASSUME NEW p \in Pods, Load(p)
       PROVE  StoredInv'
  BY <1>11 DEF Load, StoredInv, Stands
<1>12. CASE UNCHANGED vars
  BY <1>12 DEF StoredInv, Stands, vars
<1>13. QED
  BY <1>1, <1>2, <1>3, <1>4, <1>5, <1>6, <1>7, <1>8, <1>9, <1>10, <1>11, <1>12 DEF Next

LEMMA StoredInit == Init => StoredInv
BY DEF Init, StoredInv, Stands

LEMMA StoredImplies ==
  ASSUME TypeOK, StoredInv
  PROVE  RestartAfterUpload
<1> SUFFICES ASSUME stage \in {"list", "delete"}, NEW w \in Uploads
             PROVE  \E d \in since..today : <<d, w[2]>> \in stored
  BY DEF StoredInv, RestartAfterUpload
<1>0. at[w] = "done" /\ Stands(w)
  BY DEF StoredInv
<1>1. day[w] \in since..today
  <2>1. day[w] \in Int
    BY DEF TypeOK, Days
  <2>2. QED
    BY <1>0, <2>1 DEF Stands
<1>2. <<day[w], w[2]>> \in stored
  BY <1>0 DEF Stands
<1>3. QED
  BY <1>1, <1>2

\* Lookup pods are deleted only after every file of every edition was stored.
THEOREM RestartTheorem == Spec => []RestartAfterUpload
<1>1. QED
  BY TypeInit, TypeNext, StoredInit, StoredNext, StoredImplies, PTL DEF Spec
-----------------------------------------------------------------------------
(* The dates of the copies.                                                *)

\* An upload that has cleared `latest`, or had no need to, and will copy.
Copying(w) == at[w] \in {"head", "put", "date", "copy"}

\* While nothing fails, the last copy so far is in `latest` until another
\* upload clears it, and that one copies after it.
CopiedInv ==
  /\ \A w \in Uploads : edition[w[1]] = "fetch" => at[w] = "off"
  /\ calm \/ stage \in {"idle", "again"} => \A w \in Uploads : ~failed[w]
  /\ calm => since = today
  /\ calm /\ (\E w \in Uploads : at[w] = "done") =>
       (\E f \in Files : latest[f] = today) \/ (\E w \in Uploads : Copying(w))

\* A copy is dated today unless a midnight has passed.
DatedInv ==
  /\ \A w \in Uploads : source[w] <= today
  /\ \A w \in Uploads : at[w] = "copy" /\ w \notin night => source[w] = today
  /\ \A w \in night : at[w] = "copy"
  /\ calm => night = {}

LEMMA DatedNext ==
  ASSUME TypeOK, StoredInv, CopiedInv, DatedInv, [Next]_vars
  PROVE  DatedInv'
<1> USE DEF jobVars, uploadVars, bucketVars, podVars
<1>0. /\ today \in Int /\ today >= 1 /\ night \subseteq Uploads
      /\ \A w \in Uploads : source[w] \in Int
  BY DEF TypeOK, Days
<1>1. CASE Midnight
  BY <1>0, <1>1 DEF Midnight, DatedInv
<1>2. CASE Start
  <2>1. \A w \in Uploads : at[w] = "off"
    BY <1>2 DEF Start, StoredInv
  <2>2. night = {}
    BY <1>0, <2>1 DEF DatedInv
  <2>3. QED
    BY <1>2, <2>2 DEF Start, DatedInv
<1>3. CASE \E s : Ends(s) /\ today' = today
  BY <1>0, <1>3 DEF Ends, DatedInv
<1>4. ASSUME NEW e \in Editions, Download(e)
      PROVE  DatedInv'
  <2>1. /\ UNCHANGED <<today, source, night, calm>>
        /\ \A w \in Uploads : at'[w] = at[w] \/ (w[1] = e /\ at'[w] = "list")
    BY <1>4 DEF Download, NoFault
  <2>2. \A w \in night : w[1] # e
    BY <1>4, <1>0 DEF Download, CopiedInv, DatedInv
  <2>3. QED
    BY <1>0, <2>1, <2>2 DEF DatedInv
<1>5. ASSUME NEW w \in Uploads, Works(w)
      PROVE  DatedInv'
  <2>1. /\ today' = today /\ (calm' => calm)
        /\ \A v \in Uploads : v # w => at'[v] = at[v] /\ source'[v] = source[v]
    BY <1>5 DEF Works, ListLatest, ClearLatest, HeadObject, Put, TakeDate, CopyToLatest, Goes, Fault, NoFault, TypeOK
  <2>2. CASE ListLatest(w) \/ ClearLatest(w) \/ HeadObject(w) \/ Put(w)
    <3>1. at[w] # "copy" /\ at'[w] # "copy" /\ UNCHANGED <<source, night>>
      BY <2>2 DEF ListLatest, ClearLatest, HeadObject, Put, Goes, TypeOK
    <3>2. QED
      BY <1>0, <2>1, <3>1 DEF DatedInv
  <2>3. CASE TakeDate(w)
    <3>1. at[w] # "copy" /\ at'[w] = "copy" /\ source'[w] = today /\ night' = night
      BY <2>3 DEF TakeDate, Goes, TypeOK
    <3>2. QED
      BY <1>0, <2>1, <3>1 DEF DatedInv
  <2>4. CASE CopyToLatest(w)
    <3>1. \/ at'[w] # "copy" /\ source'[w] = 1 /\ night' = night \ {w}
          \/ UNCHANGED <<at, source, night>>
      BY <2>4 DEF CopyToLatest, Goes, TypeOK
    <3>2. QED
      BY <1>0, <2>1, <3>1 DEF DatedInv
  <2>5. QED
    BY <1>5, <2>2, <2>3, <2>4 DEF Works
<1>6. CASE UNCHANGED <<today, at, source, night>> /\ (calm' => calm)
  BY <1>6 DEF DatedInv
<1>7. CASE UNCHANGED vars
  BY <1>6, <1>7 DEF vars
<1>8. CASE Next
  <2>1. CASE Smash \/ Killed \/ Exit
    BY <1>3, <2>1 DEF Smash, Killed, Exit
  <2>2. CASE Finished
    BY <1>6, <2>2 DEF Finished, NoFault
  <2>3. CASE ListPods
    BY <1>3, <1>6, <2>3 DEF ListPods, NoFault
  <2>4. ASSUME NEW p \in Pods, DeletePod(p)
        PROVE  DatedInv'
    BY <1>3, <1>6, <2>4 DEF DeletePod, NoFault
  <2>5. ASSUME NEW p \in Pods, Load(p)
        PROVE  DatedInv'
    BY <1>6, <2>5 DEF Load, NoFault
  <2>6. ASSUME NEW e \in Editions, DownloadFails(e)
        PROVE  DatedInv'
    BY <1>6, <2>6 DEF DownloadFails, Fault
  <2>7. QED
    BY <1>1, <1>2, <1>4, <1>5, <1>8, <2>1, <2>2, <2>3, <2>4, <2>5, <2>6 DEF Next
<1>9. QED
  BY <1>7, <1>8

LEMMA DatedInit == Init => DatedInv
BY DEF Init, DatedInv
-----------------------------------------------------------------------------
(* `latest` is not left empty.                                             *)

LEMMA CopiedEnds ==
  ASSUME CopiedInv, NEW s \in {"idle", "again"}, Ends(s), Fault \/ NoFault,
         UNCHANGED <<today, since>>
  PROVE  CopiedInv'
<1>1. \A w \in Uploads : at'[w] = "off" /\ ~failed'[w]
  BY DEF Ends
<1>2. calm' => calm
  BY DEF Fault, NoFault
<1>3. QED
  BY <1>1, <1>2 DEF CopiedInv

\* A step of an upload without a fault.
LEMMA UploadCopied ==
  ASSUME TypeOK, StoredInv, DatedInv, CopiedInv, calm, calm', NEW w \in Uploads, Works(w),
         \E v \in Uploads : at'[v] = "done"
  PROVE  (\E f \in Files : latest'[f] = today) \/ (\E v \in Uploads : Copying(v)')
<1> USE DEF Fault
<1>0. \A v \in Uploads : v # w => at'[v] = at[v]
  BY DEF Works, ListLatest, ClearLatest, HeadObject, Put, TakeDate, CopyToLatest, Copied, Goes, TypeOK
<1>1. CASE ListLatest(w)
  <2>1. at[w] = "list" /\ at'[w] \in {"clear", "head"} /\ UNCHANGED latest
    BY <1>1 DEF ListLatest, Goes, TypeOK, bucketVars
  <2>2. QED
    BY <1>0, <2>1 DEF CopiedInv, Copying
<1>2. CASE ClearLatest(w) \/ HeadObject(w) \/ Put(w) \/ TakeDate(w)
  <2>1. Copying(w)'
    BY <1>2 DEF ClearLatest, HeadObject, Put, TakeDate, Goes, TypeOK, Copying
  <2>2. QED
    BY <2>1
<1>3. CASE CopyToLatest(w)
  <2>1. at[w] = "copy" /\ ~failed[w] /\ Stands(w) /\ since = today
    BY <1>3 DEF CopyToLatest, Goes, CopiedInv, StoredInv
  <2>2. day[w] = today
    BY <2>1 DEF Stands, TypeOK, Days
  <2>3. <<source[w], w[2]>> \in stored /\ source[w] = today /\ w[2] \in Files
    BY <2>1, <2>2, UploadsType DEF Stands, DatedInv
  <2>4. latest'[w[2]] = today
    BY <1>3, <2>3 DEF CopyToLatest, Copied, TypeOK
  <2>5. QED
    BY <2>3, <2>4
<1>4. QED
  BY <1>1, <1>2, <1>3 DEF Works

LEMMA CopiedNext ==
  ASSUME TypeOK, StoredInv, DatedInv, CopiedInv, [Next]_vars
  PROVE  CopiedInv'
<1> USE DEF jobVars, uploadVars, bucketVars, podVars
<1>1. CASE Midnight
  BY <1>1 DEF CopiedInv, Midnight
<1>2. CASE Start
  <2>1. \A w \in Uploads : at'[w] = "off" /\ ~failed'[w]
    BY <1>2 DEF Start, StoredInv, CopiedInv
  <2>2. QED
    BY <1>2, <2>1 DEF CopiedInv, Start
<1>3. CASE Smash
  BY <1>3, CopiedEnds DEF Smash
<1>4. CASE Killed
  BY <1>4, CopiedEnds DEF Killed
<1>5. CASE Finished
  BY <1>5 DEF CopiedInv, Copying, Finished, NoFault
<1>6. CASE ListPods
  <2>1. CASE Ends("again") /\ Fault
    BY <1>6, <2>1, CopiedEnds DEF ListPods
  <2>2. CASE ~(Ends("again") /\ Fault)
    BY <1>6, <2>2 DEF ListPods, CopiedInv, Copying, NoFault
  <2>3. QED
    BY <2>1, <2>2
<1>7. CASE Exit
  BY <1>7, CopiedEnds DEF Exit
<1>8. ASSUME NEW e \in Editions, Download(e)
      PROVE  CopiedInv'
  <2>1. \A w \in Uploads : IF w[1] = e THEN at[w] = "off" /\ at'[w] = "list" ELSE at'[w] = at[w]
    BY <1>8 DEF Download, CopiedInv
  <2>2. \A w \in Uploads : edition'[w[1]] = "fetch" => at'[w] = "off"
    BY <1>8, <2>1, UploadsType DEF Download, CopiedInv, TypeOK
  <2>3. UNCHANGED <<today, stage, since, failed, latest, calm>>
    BY <1>8 DEF Download, NoFault
  <2>4. \A w \in Uploads : (at'[w] = "done" => at[w] = "done") /\ (Copying(w) => Copying(w)')
    BY <2>1 DEF Copying
  <2>5. QED
    BY <2>2, <2>3, <2>4 DEF CopiedInv
<1>9. ASSUME NEW e \in Editions, DownloadFails(e)
      PROVE  CopiedInv'
  <2>1. \A d \in Editions : edition'[d] = "fetch" => edition[d] = "fetch"
    BY <1>9 DEF DownloadFails, TypeOK
  <2>2. stage = "run" /\ UNCHANGED <<stage, at, failed>> /\ ~calm'
    BY <1>9 DEF DownloadFails, Fault
  <2>3. QED
    BY <2>1, <2>2, UploadsType DEF CopiedInv
<1>10. ASSUME NEW w \in Uploads, Works(w)
       PROVE  CopiedInv'
  <2>1. /\ stage = "run" /\ UNCHANGED <<today, stage, since, edition>>
        /\ at[w] # "off" /\ \A v \in Uploads : v # w => at'[v] = at[v]
    BY <1>10 DEF Works, ListLatest, ClearLatest, HeadObject, Put, TakeDate, CopyToLatest, Copied, Goes, TypeOK
  <2>2. calm' => calm /\ UNCHANGED failed
    BY <1>10 DEF Works, ListLatest, ClearLatest, HeadObject, Put, TakeDate, CopyToLatest, Copied, Fault, NoFault
  <2>3. \A v \in Uploads : edition'[v[1]] = "fetch" => at'[v] = "off"
    BY <2>1 DEF CopiedInv
  <2>4. ASSUME calm', \E v \in Uploads : at'[v] = "done"
        PROVE  (\E f \in Files : latest'[f] = today) \/ (\E v \in Uploads : Copying(v)')
    BY <1>10, <2>2, <2>4, UploadCopied
  <2>5. QED
    BY <2>1, <2>2, <2>3, <2>4 DEF CopiedInv
<1>11. ASSUME NEW p \in Pods, DeletePod(p)
       PROVE  CopiedInv'
  <2>1. CASE Ends("again") /\ Fault
    BY <1>11, <2>1, CopiedEnds DEF DeletePod
  <2>2. CASE ~(Ends("again") /\ Fault)
    BY <1>11, <2>2 DEF DeletePod, CopiedInv, Copying, NoFault
  <2>3. QED
    BY <2>1, <2>2
<1>12. ASSUME NEW p \in Pods, Load(p)
       PROVE  CopiedInv'
  BY <1>12 DEF Load, CopiedInv, Copying, NoFault
<1>13. CASE UNCHANGED vars
  BY <1>13 DEF CopiedInv, Copying, vars
<1>14. QED
  BY <1>1, <1>2, <1>3, <1>4, <1>5, <1>6, <1>7, <1>8, <1>9, <1>10, <1>11, <1>12, <1>13 DEF Next

LEMMA CopiedInit == Init => CopiedInv
BY DEF Init, CopiedInv

LEMMA AlwaysCopied == Spec => [](TypeOK /\ StoredInv /\ DatedInv /\ CopiedInv)
<1>1. Init => TypeOK /\ StoredInv /\ DatedInv /\ CopiedInv
  BY TypeInit, StoredInit, DatedInit, CopiedInit
<1>2. TypeOK /\ StoredInv /\ DatedInv /\ CopiedInv /\ [Next]_vars =>
        TypeOK' /\ StoredInv' /\ DatedInv' /\ CopiedInv'
  BY TypeNext, StoredNext, DatedNext, CopiedNext
<1>3. QED
  BY <1>1, <1>2, PTL DEF Spec

\* When the pods are deleted after a process without a fault and without a
\* midnight, `latest` holds an object of the day, although every upload of it
\* deletes what it finds there.
THEOREM LatestNotEmptyTheorem == Spec => []LatestNotEmpty
<1>1. StoredInv /\ CopiedInv => LatestNotEmpty
  BY DEF StoredInv, CopiedInv, Copying, LatestNotEmpty
<1>2. QED
  BY <1>1, AlwaysCopied, PTL
-----------------------------------------------------------------------------
(* Never going back.                                                       *)

\* Nothing is newer than today, and `latest` is at least as new as any pod
\* unless a late copy made it.
NewestInv ==
  /\ \A p \in Pods, f \in Files : serves[p][f] <= today
  /\ \A p \in Pods, f \in Files :
       latest[f] # 0 /\ f \notin late => serves[p][f] <= latest[f]
  /\ \A f \in Files : latest[f] <= today

LEMMA NewestNext ==
  ASSUME TypeOK, DatedInv, NewestInv, [Next]_vars
  PROVE  /\ NewestInv'
         /\ \A p \in Pods, f \in Files : serves'[p][f] < serves[p][f] => f \in late
<1> USE DEF jobVars, uploadVars, bucketVars, podVars
<1>0. /\ today \in Int
      /\ \A f \in Files : latest[f] \in Int
      /\ \A p \in Pods, f \in Files : serves[p][f] \in Int
  <2>1. Days \cup {0} \subseteq Int
    BY DEF Days
  <2>2. QED
    BY <2>1 DEF TypeOK
<1>1. CASE UNCHANGED <<today, latest, late, serves>>
  BY <1>0, <1>1 DEF NewestInv
<1>2. CASE Midnight
  BY <1>0, <1>2 DEF Midnight, NewestInv
<1>3. ASSUME NEW w \in Uploads, ClearLatest(w)
      PROVE  /\ NewestInv'
             /\ \A p \in Pods, f \in Files : serves'[p][f] < serves[p][f] => f \in late
  <2>1. UNCHANGED <<today, late, serves>>
    BY <1>3 DEF ClearLatest, Goes
  <2>2. \A f \in Files : latest'[f] = latest[f] \/ latest'[f] = 0
    BY <1>3 DEF ClearLatest, Without
  <2>3. today >= 0
    BY DEF TypeOK, Days
  <2>4. QED
    BY <1>0, <2>1, <2>2, <2>3 DEF NewestInv
<1>4. ASSUME NEW w \in Uploads, CopyToLatest(w)
      PROVE  /\ NewestInv'
             /\ \A p \in Pods, f \in Files : serves'[p][f] < serves[p][f] => f \in late
  <2>1. UNCHANGED <<today, serves>>
    BY <1>4 DEF CopyToLatest, Goes
  <2>2. /\ source[w] <= today /\ source[w] \in Int
        /\ w \notin night => source[w] = today
    BY <1>4 DEF CopyToLatest, Goes, DatedInv, TypeOK, Days
  <2>3. \A f \in Files :
          \/ latest'[f] = latest[f] /\ (f \in late' <=> f \in late)
          \/ latest'[f] = source[w] /\ (f \notin late' => w \notin night)
    BY <1>4 DEF CopyToLatest, Copied, TypeOK
  <2>4. QED
    BY <1>0, <2>1, <2>2, <2>3 DEF NewestInv
<1>5. ASSUME NEW p \in Pods, Load(p)
      PROVE  /\ NewestInv'
             /\ \A q \in Pods, f \in Files : serves'[q][f] < serves[q][f] => f \in late
  <2>1. UNCHANGED <<today, latest, late>>
    BY <1>5 DEF Load
  <2>2. \A q \in Pods, f \in Files :
          \/ serves'[q][f] = serves[q][f]
          \/ latest[f] # 0 /\ serves'[q][f] = latest[f]
    <3>1. PICK g : /\ g = Uris[loaded[p] + 1]
                   /\ \/ UNCHANGED serves
                      \/ Found(g) /\ serves' = [serves EXCEPT ![p][g] = latest[g]]
      BY <1>5 DEF Load
    <3>2. serves \in [Pods -> [Files -> Days \cup {0}]]
      BY DEF TypeOK
    <3>3. QED
      BY <3>1, <3>2 DEF Found
  <2>3. QED
    BY <1>0, <2>1, <2>2 DEF NewestInv
<1>6. CASE Next
  <2>1. ASSUME ~Midnight, \A w \in Uploads : ~ClearLatest(w) /\ ~CopyToLatest(w),
               \A p \in Pods : ~Load(p)
        PROVE  UNCHANGED <<today, latest, late, serves>>
    BY <1>6, <2>1 DEF Next, Start, Smash, Killed, Finished, ListPods, Exit, Download,
      DownloadFails, Works, ListLatest, HeadObject, Put, TakeDate, DeletePod, Goes, Ends
  <2>2. QED
    BY <1>1, <1>2, <1>3, <1>4, <1>5, <2>1
<1>7. CASE UNCHANGED vars
  BY <1>1, <1>7 DEF vars
<1>8. QED
  BY <1>6, <1>7

LEMMA NewestInit == Init => NewestInv
BY DEF Init, NewestInv

LEMMA NewestStep ==
  ASSUME TypeOK, DatedInv, NewestInv, [Next]_vars
  PROVE  [\A p \in Pods, f \in Files : serves'[p][f] < serves[p][f] => f \in late]_vars
BY NewestNext

\* No pod goes back to an older file, across restarts of the job and its own,
\* unless the copy that it loads was dated before a midnight and made after it.
THEOREM NeverBackTheorem == Spec => NeverBack
<1>1. Spec => [](TypeOK /\ DatedInv)
  BY AlwaysCopied, PTL
<1>2. TypeOK /\ DatedInv /\ NewestInv /\ [Next]_vars => NewestInv'
  BY NewestNext
<1>3. QED
  BY <1>1, <1>2, NewestInit, NewestStep, PTL DEF Spec, NeverBack
=============================================================================
