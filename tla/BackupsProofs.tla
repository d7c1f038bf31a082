---------------------------- MODULE BackupsProofs ----------------------------
(* Proofs about Backups, for any number of requests and any durations.     *)
EXTENDS Backups, Functions, FiniteSetTheorems, TLAPS

USE ConfigAssumption
-----------------------------------------------------------------------------
(* Type correctness.                                                       *)

\* What a goroutine's position says about its locals.
LocalOK ==
  /\ \A u \in Updaters : at[u] \in {"wait", "store"} => ask[u] # None
  /\ \A r \in Runners :
       /\ run[r] # "idle" => name[r] # None
       /\ dump[r] # "none" => run[r] # "idle"

TypeInv == TypeOK /\ LocalOK

\* There is always a name for the next backup.
LEMMA NameNowType ==
  ASSUME TypeOK
  PROVE  /\ NameNow \in Names
         /\ second = None => \A q \in Runners : name[q] # NameNow
         /\ second # None => NameNow = second
<1>1. CASE second # None
  BY <1>1 DEF NameNow, TypeOK
<1>2. CASE second = None
  <2> DEFINE Taken == {name[q] : q \in Runners}
  <2>1. /\ IsFiniteSet(Taken)
        /\ Cardinality(Taken) <= Cardinality(Runners)
    <3>1. name \in Surjection(Runners, Taken)
      BY DEF Surjection, TypeOK
    <3>2. QED
      BY <3>1, FS_Surjection, NamesAssumption
  <2>2. ~(Names \subseteq Taken)
    <3> SUFFICES ASSUME Names \subseteq Taken PROVE FALSE
      OBVIOUS
    <3>1. Cardinality(Names) <= Cardinality(Taken)
      BY <2>1, FS_Subset
    <3>2. /\ Cardinality(Names) \in Nat
          /\ Cardinality(Runners) \in Nat
          /\ Cardinality(Taken) \in Nat
      BY <2>1, FS_CardinalityType, NamesAssumption
    <3>3. QED
      BY <2>1, <3>1, <3>2, NamesAssumption
  <2>3. \E n \in Names : \A q \in Runners : name[q] # n
    BY <2>2
  <2>4. NameNow = CHOOSE n \in Names : \A q \in Runners : name[q] # n
    BY <1>2 DEF NameNow
  <2>5. QED
    BY <1>2, <2>3, <2>4
<1>3. QED
  BY <1>1, <1>2

\* Starting a backup, by the loop or by a request.
LEMMA TypeStart ==
  ASSUME TypeInv, NEW r \in Runners, run[r] = "idle", StartDump(r)
  PROVE  /\ run' \in [Runners -> {"idle", "upload", "wait"}]
         /\ dump' \in [Runners -> {"none", "running", "done", "died"}]
         /\ name' \in [Runners -> Names \cup {None}]
         /\ ok' \in [Runners -> BOOLEAN]
         /\ second' \in Names \cup {None}
         /\ bucket' \in [Names -> {"nothing", "complete", "truncated"}]
         /\ reused' \in [Names -> BOOLEAN]
         /\ \A q \in Runners :
              /\ run'[q] # "idle" => name'[q] # None
              /\ dump'[q] # "none" => run'[q] # "idle"
<1>1. NameNow \in Names
  BY NameNowType DEF TypeInv
<1>2. NameNow # None
  BY <1>1
<1>3. CASE Named(r, NameNow) /\ run' = [run EXCEPT ![r] = "upload"]
            /\ dump' = [dump EXCEPT ![r] = "running"] /\ ok' = [ok EXCEPT ![r] = FALSE]
  <2>1. /\ name' = [name EXCEPT ![r] = NameNow]
        /\ second' = NameNow
    BY <1>3 DEF Named
  <2>2. bucket' \in [Names -> {"nothing", "complete", "truncated"}]
    BY <1>3 DEF Named, TypeInv, TypeOK
  <2>3. reused' \in [Names -> BOOLEAN]
    BY <1>3 DEF Named, TypeInv, TypeOK
  <2>4. QED
    BY <1>1, <1>2, <1>3, <2>1, <2>2, <2>3 DEF TypeInv, TypeOK, LocalOK
<1>4. CASE ok' = [ok EXCEPT ![r] = FALSE] /\ UNCHANGED <<run, dump, bucket, nameVars>>
  BY <1>4 DEF nameVars, TypeInv, TypeOK, LocalOK
<1>5. QED
  BY <1>3, <1>4 DEF StartDump

LEMMA TypeInit == Init => TypeInv
<1> SUFFICES ASSUME Init PROVE TypeInv
  OBVIOUS
<1>1. FirstWait \in Accepted /\ FirstWait \in 1..FirstWait
  BY DEF Accepted
<1>2. QED
  BY <1>1 DEF Init, TypeInv, TypeOK, LocalOK

\* Updates keep the type invariant.
LEMMA TypeUpdater ==
  ASSUME TypeInv, NEW u \in Updaters,
         \/ \E n \in Maxes : AskMax(u, n)
         \/ \E d \in Waits : AskWait(u, d)
         \/ ReceiveMax(u) \/ ReceiveWait(u) \/ StoreWait(u)
  PROVE  TypeInv'
<1> USE DEF TypeInv, TypeOK, LocalOK, timeVars, backupVars, nameVars
<1>1. ASSUME NEW n \in Maxes, AskMax(u, n) PROVE TypeInv'
  BY <1>1 DEF AskMax
<1>2. ASSUME NEW d \in Waits, AskWait(u, d) PROVE TypeInv'
  BY <1>2 DEF AskWait, Accepted
<1>3. CASE ReceiveMax(u)
  BY <1>3 DEF ReceiveMax
<1>4. CASE ReceiveWait(u)
  <2>1. ask[u] \in Accepted /\ ask[u] \in 1..ask[u]
    BY <1>4 DEF ReceiveWait, Accepted
  <2>2. QED
    BY <1>4, <2>1 DEF ReceiveWait
<1>5. CASE StoreWait(u)
  BY <1>5 DEF StoreWait, Accepted
<1>6. QED
  BY <1>1, <1>2, <1>3, <1>4, <1>5

\* So do backups.
LEMMA TypeRunner ==
  ASSUME TypeInv, NEW r \in Runners,
         Request(r) \/ DumpEnds(r) \/ Uploaded(r) \/ UploadFails(r) \/ Waited(r)
  PROVE  TypeInv'
<1> USE DEF configVars, timeVars
<1>1. CASE Request(r)
  <2>1. run[r] = "idle" /\ StartDump(r)
    BY <1>1 DEF Request
  <2>2. QED
    BY <1>1, <2>1, TypeStart DEF Request, TypeInv, TypeOK, LocalOK
<1> USE DEF TypeInv, TypeOK, LocalOK, nameVars
<1>2. CASE DumpEnds(r)
  BY <1>2 DEF DumpEnds
<1>3. CASE Uploaded(r)
  BY <1>3 DEF Uploaded
<1>4. CASE UploadFails(r)
  BY <1>4 DEF UploadFails, Report
<1>5. CASE Waited(r)
  BY <1>5 DEF Waited, Report
<1>6. QED
  BY <1>1, <1>2, <1>3, <1>4, <1>5

LEMMA TypeNext == TypeInv /\ [Next]_vars => TypeInv'
<1> SUFFICES ASSUME TypeInv, [Next]_vars PROVE TypeInv'
  OBVIOUS
<1>1. CASE Clock
  BY <1>1 DEF Clock, TypeInv, TypeOK, LocalOK, Accepted, configVars, backupVars
<1>2. CASE OnTick
  <2>1. Loop \in Runners /\ run[Loop] = "idle" /\ StartDump(Loop)
    BY <1>2 DEF OnTick, Runners
  <2>2. QED
    BY <1>2, <2>1, TypeStart DEF OnTick, TypeInv, TypeOK, LocalOK, configVars
<1>3. CASE UNCHANGED vars
  BY <1>3 DEF vars, TypeInv, TypeOK, LocalOK
<1>4. QED
  BY <1>1, <1>2, <1>3, TypeUpdater, TypeRunner DEF Next

\* Type correctness of the backup service.
THEOREM TypeCorrect == Spec => []TypeOK
<1>1. TypeInv => TypeOK
  BY DEF TypeInv
<1>2. QED
  BY <1>1, TypeInit, TypeNext, PTL DEF Spec
-----------------------------------------------------------------------------
(* What a reported success says about the bucket.                          *)

\* What is stored under the name of a backup that succeeded.
Stored(r) ==
  \/ bucket[name[r]] = "complete"
  \/ bucket[name[r]] = "truncated" /\ reused[name[r]]

\* A success has a name and is no longer under way; an upload that waits for its pg_dump is stored
\* already; two backups with one name make it a reused one.
Files ==
  \A r \in Runners :
    /\ ok[r] => run[r] = "idle" /\ name[r] # None /\ Stored(r)
    /\ run[r] = "wait" => dump[r] \in {"done", "died"}
    /\ run[r] = "wait" /\ dump[r] = "done" => Stored(r)
    /\ \A q \in Runners :
         name[q] = name[r] /\ q # r /\ name[r] # None => reused[name[r]]

FilesInv == TypeInv /\ Files

\* Starting a backup leaves what the others stored.
LEMMA FilesStart ==
  ASSUME FilesInv, NEW r \in Runners, run[r] = "idle", StartDump(r)
  PROVE  Files'
<1> DEFINE n == NameNow
<1>1. /\ n \in Names /\ n # None
      /\ second = None => \A q \in Runners : name[q] # n
      /\ second # None => n = second
  BY NameNowType DEF FilesInv, TypeInv
<1>2. CASE Named(r, n) /\ run' = [run EXCEPT ![r] = "upload"]
            /\ dump' = [dump EXCEPT ![r] = "running"] /\ ok' = [ok EXCEPT ![r] = FALSE]
  <2>1. /\ name' = [name EXCEPT ![r] = n]
        /\ name'[r] = n
        /\ \A q \in Runners \ {r} : name'[q] = name[q]
    BY <1>2 DEF Named, FilesInv, TypeInv, TypeOK
  <2>2. ASSUME NEW q \in Runners \ {r}, name[q] # None
        PROVE  /\ bucket'[name[q]] = bucket[name[q]]
               /\ reused'[name[q]] = (reused[name[q]] \/ name[q] = n)
    <3>1. name[q] \in Names
      BY <2>2 DEF FilesInv, TypeInv, TypeOK
    <3>2. name[q] \in {name'[p] : p \in Runners} \ (IF second = None THEN {n} ELSE {})
      BY <1>1, <2>1, <2>2
    <3>3. QED
      BY <1>2, <2>1, <3>1, <3>2 DEF Named
  <2>3. ASSUME NEW q \in Runners \ {r}, name[q] = n PROVE reused'[n]
    BY <1>1, <2>2, <2>3
  <2>4. ASSUME NEW q \in Runners \ {r}, name[q] # None, Stored(q) PROVE Stored(q)'
    BY <2>1, <2>2, <2>4 DEF Stored
  <2>5. ASSUME NEW q \in Runners
        PROVE  /\ ok'[q] => run'[q] = "idle" /\ name'[q] # None /\ Stored(q)'
               /\ run'[q] = "wait" => dump'[q] \in {"done", "died"}
               /\ run'[q] = "wait" /\ dump'[q] = "done" => Stored(q)'
    <3>1. CASE q = r
      BY <1>2, <3>1 DEF FilesInv, TypeInv, TypeOK
    <3>2. CASE q # r
      BY <1>2, <2>1, <2>4, <3>2 DEF FilesInv, Files, TypeInv, TypeOK, LocalOK
    <3>3. QED
      BY <3>1, <3>2
  <2>6. ASSUME NEW p \in Runners, NEW q \in Runners,
               name'[q] = name'[p], q # p, name'[p] # None
        PROVE  reused'[name'[p]]
    <3>1. CASE p = r
      <4>1. q \in Runners \ {r} /\ name[q] = n /\ name'[p] = n
        BY <2>1, <2>6, <3>1
      <4>2. QED
        BY <2>3, <4>1
    <3>2. CASE q = r
      <4>1. p \in Runners \ {r} /\ name[p] = n /\ name'[p] = n
        BY <2>1, <2>6, <3>2
      <4>2. QED
        BY <2>3, <4>1
    <3>3. CASE p # r /\ q # r
      <4>1. name'[p] = name[p] /\ name[p] = name[q] /\ name[p] # None
        BY <2>1, <2>6, <3>3
      <4>2. reused[name[p]]
        BY <2>6, <4>1 DEF FilesInv, Files
      <4>3. reused'[name[p]]
        BY <2>2, <3>3, <4>1, <4>2
      <4>4. QED
        BY <4>1, <4>3
    <3>4. QED
      BY <3>1, <3>2, <3>3
  <2>7. QED
    BY <2>5, <2>6 DEF Files
<1>3. CASE ok' = [ok EXCEPT ![r] = FALSE] /\ UNCHANGED <<run, dump, bucket, nameVars>>
  BY <1>3 DEF nameVars, FilesInv, Files, Stored, TypeInv, TypeOK
<1>4. QED
  BY <1>2, <1>3 DEF StartDump

\* An upload under a reused name may truncate what another backup stored.
LEMMA FilesRunner ==
  ASSUME FilesInv, NEW r \in Runners,
         Request(r) \/ DumpEnds(r) \/ Uploaded(r) \/ UploadFails(r) \/ Waited(r)
  PROVE  Files'
<1>1. CASE Request(r)
  BY <1>1, FilesStart DEF Request
<1> USE DEF FilesInv, TypeInv, TypeOK, LocalOK, nameVars
<1>2. CASE DumpEnds(r)
  BY <1>2 DEF DumpEnds, Files, Stored
<1>3. CASE Uploaded(r)
  <2> DEFINE content == IF dump[r] = "done" THEN "complete" ELSE "truncated"
  <2>1. /\ name[r] \in Names
        /\ bucket' = [bucket EXCEPT ![name[r]] = content]
        /\ UNCHANGED <<dump, ok, name, reused>>
        /\ run' = [run EXCEPT ![r] = "wait"]
        /\ dump[r] \in {"done", "died"}
    BY <1>3 DEF Uploaded
  <2>2. ASSUME NEW q \in Runners, q # r, name[q] # None, Stored(q) PROVE Stored(q)'
    <3>1. CASE name[q] = name[r]
      BY <2>1, <2>2, <3>1 DEF Files, Stored
    <3>2. CASE name[q] # name[r]
      BY <2>1, <2>2, <3>2 DEF Stored
    <3>3. QED
      BY <3>1, <3>2
  <2>3. dump[r] = "done" => Stored(r)'
    BY <2>1 DEF Stored
  <2>4. ~ok[r]
    BY <1>3 DEF Uploaded, Files
  <2>5. QED
    BY <2>1, <2>2, <2>3, <2>4 DEF Files
<1>4. CASE UploadFails(r)
  BY <1>4 DEF UploadFails, Report, Files, Stored
<1>5. CASE Waited(r)
  BY <1>5 DEF Waited, Report, Files, Stored
<1>6. QED
  BY <1>1, <1>2, <1>3, <1>4, <1>5

LEMMA FilesNext == FilesInv /\ [Next]_vars => FilesInv'
<1> SUFFICES ASSUME FilesInv, [Next]_vars PROVE FilesInv'
  OBVIOUS
<1>1. TypeInv /\ TypeInv'
  BY TypeNext DEF FilesInv
<1>2. ASSUME NEW u \in Updaters,
             \/ \E n \in Maxes : AskMax(u, n)
             \/ \E d \in Waits : AskWait(u, d)
             \/ ReceiveMax(u) \/ ReceiveWait(u) \/ StoreWait(u)
      PROVE  Files'
  <2>1. UNCHANGED <<backupVars, nameVars>>
    BY <1>2 DEF AskMax, AskWait, ReceiveMax, ReceiveWait, StoreWait
  <2>2. QED
    BY <2>1 DEF backupVars, nameVars, FilesInv, Files, Stored
<1>3. ASSUME OnTick PROVE Files'
  BY <1>3, FilesStart DEF OnTick, Runners
<1>4. ASSUME Clock PROVE Files'
  BY <1>4 DEF Clock, backupVars, FilesInv, Files, Stored
<1>5. ASSUME UNCHANGED vars PROVE Files'
  BY <1>5 DEF vars, FilesInv, Files, Stored
<1>6. QED
  BY <1>1, <1>2, <1>3, <1>4, <1>5, FilesRunner DEF Next, FilesInv

\* A reported success is in the bucket, and complete unless a backup of the
\* same second wrote over it.
THEOREM SuccessTheorem == Spec => []SuccessIsStored
<1>1. Init => FilesInv
  BY TypeInit DEF Init, FilesInv, Files
<1>2. FilesInv => SuccessIsStored
  BY DEF FilesInv, Files, Stored, SuccessIsStored
<1>3. QED
  BY <1>1, <1>2, FilesNext, PTL DEF Spec
-----------------------------------------------------------------------------
(* The duration that is shown.                                             *)

\* Unless updates crossed, the one that has yet to store its duration is the
\* only one, and its duration is in force.
WaitOK ==
  ~crossed =>
    /\ \A u, v \in Updaters : at[u] = "store" /\ at[v] = "store" => u = v
    /\ \A u \in Updaters : at[u] = "store" => ask[u] = period
    /\ WaitAgrees

WaitInv == TypeInv /\ WaitOK

LEMMA WaitNext == WaitInv /\ [Next]_vars => WaitInv'
<1> SUFFICES ASSUME WaitInv, [Next]_vars PROVE WaitInv'
  OBVIOUS
<1>1. TypeInv /\ TypeInv'
  BY TypeNext DEF WaitInv
<1> USE DEF WaitInv, WaitOK, WaitAgrees, TypeInv, TypeOK
<1>2. ASSUME NEW u \in Updaters, NEW n \in Maxes, AskMax(u, n) PROVE WaitOK'
  <2>1. shown'.wait = shown.wait
    BY <1>2 DEF AskMax
  <2>2. QED
    BY <1>2, <2>1 DEF AskMax, timeVars
<1>3. ASSUME NEW u \in Updaters, NEW d \in Waits, AskWait(u, d) PROVE WaitOK'
  BY <1>3 DEF AskWait, timeVars
<1>4. ASSUME NEW u \in Updaters, ReceiveMax(u) PROVE WaitOK'
  BY <1>4 DEF ReceiveMax, timeVars
<1>5. ASSUME NEW u \in Updaters, ReceiveWait(u) PROVE WaitOK'
  BY <1>5 DEF ReceiveWait
<1>6. ASSUME NEW u \in Updaters, StoreWait(u) PROVE WaitOK'
  <2>1. shown'.wait = ask[u]
    BY <1>6 DEF StoreWait
  <2>2. QED
    BY <1>6, <2>1 DEF StoreWait, timeVars
<1>7. ASSUME UNCHANGED <<configVars, period>> PROVE WaitOK'
  BY <1>7 DEF configVars
<1>8. UNCHANGED <<configVars, period>>
      \/ \E u \in Updaters :
           \/ \E n \in Maxes : AskMax(u, n)
           \/ \E d \in Waits : AskWait(u, d)
           \/ ReceiveMax(u) \/ ReceiveWait(u) \/ StoreWait(u)
  BY DEF Next, Clock, OnTick, Request, DumpEnds, Uploaded, UploadFails, Waited, Report,
         timeVars, configVars, vars
<1>9. QED
  BY <1>1, <1>2, <1>3, <1>4, <1>5, <1>6, <1>7, <1>8

\* What GET /config shows is in force, unless updates crossed.
THEOREM WaitTheorem == Spec => []WaitAgrees
<1>1. Init => WaitInv
  BY TypeInit DEF Init, WaitInv, WaitOK, WaitAgrees
<1>2. WaitInv => WaitAgrees
  BY DEF WaitInv, WaitOK, WaitAgrees
<1>3. QED
  BY <1>1, <1>2, WaitNext, PTL DEF Spec
==============================================================================
