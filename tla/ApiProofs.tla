----------------------------- MODULE ApiProofs -----------------------------
(***************************************************************************)
(* Proofs about Api, for any requests, browsers and sessions: the types,   *)
(* that the process serves only with both stores connected, that no        *)
(* session counts too much, that one used by one request at a time counts  *)
(* exactly, that every cookie was stored before it was given away, and     *)
(* that the counter of the page gets an expiration.                        *)
(***************************************************************************)
EXTENDS Api, TLAPS

RequestStep ==
  \E r \in Requests :
    \/ \E b \in Browsers, kind \in Kinds : Begin(r, b, kind)
    \/ Redis(r) \/ Query(r) \/ Failing(r) \/ Answer(r) \/ AnswerLost(r)

DatastoreStep == StartStep \/ NetStep \/ Gone

\* What a step of the server does to each of its two halves.
LEMMA Steps ==
  ASSUME [Next]_vars
  PROVE  /\ DatastoreStep \/ UNCHANGED datastoreVars
         /\ \/ RequestStep \/ (\E i \in Ids : Expire(i)) \/ PageExpires \/ Logged
            \/ Dropped \/ UNCHANGED requestVars
  BY DEF Next, StartUp, Network, Serves, Outside, Killed, vars, DatastoreStep, RequestStep
-----------------------------------------------------------------------------
(* The start.                                                              *)

USE DEF Get, Stored

LEMMA StartTypes ==
  ASSUME DatastoresTypeOK, DatastoreStep \/ UNCHANGED datastoreVars
  PROVE  DatastoresTypeOK'
<1> USE DEF netVars, startVars
<1>1. CASE StartStep
  <2>1. CASE Start
    BY <2>1 DEF DatastoresTypeOK, Start
  <2>2. CASE CloseErrs
    BY <2>2 DEF DatastoresTypeOK, CloseErrs
  <2>3. CASE Serve
    BY <2>3 DEF DatastoresTypeOK, Serve
  <2>4. ASSUME NEW s \in Stores, FirstPing(s) \/ Tick(s) \/ Pinged(s) \/ GiveUp(s)
        PROVE  DatastoresTypeOK'
    BY <2>4 DEF DatastoresTypeOK, FirstPing, Tick, Pinged, GiveUp
  <2>5. ASSUME NEW s \in Stores, MinuteOver(s)
        PROVE  DatastoresTypeOK'
    BY <2>5 DEF DatastoresTypeOK, MinuteOver
  <2>6. ASSUME NEW s \in Stores, ReceiveError(s)
        PROVE  DatastoresTypeOK'
    BY <2>6 DEF DatastoresTypeOK, ReceiveError, Gone
  <2> QED
    BY <1>1, <2>1, <2>2, <2>3, <2>4, <2>5, <2>6 DEF StartStep
<1>2. CASE NetStep
  <2>1. ASSUME NEW s \in Stores, Outage(s)
        PROVE  DatastoresTypeOK'
    <3>1. outages' \in 0..MaxOutages
      BY <2>1, OutagesAssumption DEF DatastoresTypeOK, Outage
    <3>2. net' \in [Stores -> BOOLEAN]
      BY <2>1 DEF DatastoresTypeOK, Outage
    <3> QED
      BY <2>1, <3>1, <3>2 DEF DatastoresTypeOK, Outage
  <2>2. ASSUME NEW s \in Stores, Back(s)
        PROVE  DatastoresTypeOK'
    BY <2>2 DEF DatastoresTypeOK, Back
  <2> QED
    BY <1>2, <2>1, <2>2 DEF NetStep
<1>3. CASE Gone
  BY <1>3 DEF DatastoresTypeOK, Gone
<1>4. CASE UNCHANGED datastoreVars
  BY <1>4 DEF DatastoresTypeOK, datastoreVars
<1> QED
  BY <1>1, <1>2, <1>3, <1>4 DEF DatastoreStep

\* A process that serves, and a channel that is closed, mean two connections.
ConnectedInv ==
  (proc = "serving" \/ errs = "closed") => \A s \in Stores : conn[s] = "connected"

LEMMA StaysConnected ==
  ASSUME DatastoresTypeOK, ConnectedInv, DatastoreStep \/ UNCHANGED datastoreVars
  PROVE  ConnectedInv'
<1> USE DEF netVars, startVars, ConnectedInv
<1>1. CASE StartStep
  <2>1. CASE Start \/ CloseErrs \/ Serve
    BY <2>1 DEF Start, CloseErrs, Serve
  <2>2. ASSUME NEW s \in Stores, FirstPing(s) \/ Tick(s) \/ Pinged(s) \/ MinuteOver(s) \/ GiveUp(s)
        PROVE  ConnectedInv'
    BY <2>2 DEF FirstPing, Tick, Pinged, MinuteOver, GiveUp, DatastoresTypeOK
  <2>3. ASSUME NEW s \in Stores, ReceiveError(s)
        PROVE  ConnectedInv'
    BY <2>3 DEF ReceiveError, Gone
  <2> QED
    BY <1>1, <2>1, <2>2, <2>3 DEF StartStep
<1>2. CASE NetStep
  BY <1>2 DEF NetStep, Outage, Back
<1>3. CASE Gone
  BY <1>3 DEF Gone
<1>4. CASE UNCHANGED datastoreVars
  BY <1>4 DEF datastoreVars
<1> QED
  BY <1>1, <1>2, <1>3, <1>4 DEF DatastoreStep
-----------------------------------------------------------------------------
(* The requests.                                                           *)

\* A session that is saved has an id, one that is counted was found, and one
\* that was found has the cookie of the request.
Shape ==
  \A r \in Requests :
    /\ req[r].at = "save"  => req[r].id # None
    /\ req[r].at = "count" => req[r].hits # None
    /\ req[r].hits # None  => req[r].cookie # None
    /\ req[r].at # "free"  => req[r].of # None
    /\ req[r].at = "put" => req[r].count # None

Typed == SessionsTypeOK /\ Shape

Shaped(to) ==
  /\ to \in Request
  /\ to.at = "save"  => to.id # None
  /\ to.at = "count" => to.hits # None
  /\ to.hits # None  => to.cookie # None
  /\ to.at # "free"  => to.of # None
  /\ to.at = "put"   => to.count # None

LEMMA Moves ==
  ASSUME Typed, NEW r \in Requests, NEW to, Goes(r, to), Shaped(to)
  PROVE  req' \in [Requests -> Request] /\ Shape'
<1>1. req \in [Requests -> Request]
  BY DEF Typed, SessionsTypeOK
<1>2. req' \in [Requests -> Request]
  BY <1>1 DEF Goes, Shaped
<1>3. \A q \in Requests : req'[q] = IF q = r THEN to ELSE req[q]
  BY <1>1 DEF Goes
<1>4. Shape'
  <2> SUFFICES ASSUME NEW q \in Requests
               PROVE  /\ req'[q].at = "save"  => req'[q].id # None
                      /\ req'[q].at = "count" => req'[q].hits # None
                      /\ req'[q].hits # None  => req'[q].cookie # None
                      /\ req'[q].at # "free"  => req'[q].of # None
                      /\ req'[q].at = "put" => req'[q].count # None
    BY DEF Shape
  <2>1. CASE q = r
    BY <2>1, <1>3 DEF Shaped
  <2>2. CASE q # r
    BY <2>2, <1>3 DEF Typed, Shape
  <2> QED
    BY <2>1, <2>2
<1> QED
  BY <1>2, <1>4

LEMMA Held ==
  ASSUME Typed, NEW r \in Requests
  PROVE  Shaped(req[r])
  BY DEF Typed, SessionsTypeOK, Shape, Shaped

\* The other half of the types: what is kept in the stores and in browsers.
Kept ==
  /\ jar \in [Browsers -> Ids \cup {None}]
  /\ store \in [Ids -> Nat \cup {None}]
  /\ fresh \in SUBSET Ids /\ gone \in SUBSET Ids
  /\ served \in [Ids -> Nat] /\ exact \in [Ids -> BOOLEAN]
  /\ page \in [n : Nat \cup {None}, ttl : BOOLEAN]
  /\ rows \in 0..MaxRows /\ torn \in BOOLEAN

LEMMA BeginTyped ==
  ASSUME Typed, NEW r \in Requests, NEW b \in Browsers, NEW kind \in Kinds, Begin(r, b, kind)
  PROVE  Typed'
<1> DEFINE to == [Free EXCEPT !.at = "collect", !.of = b, !.cookie = jar[b], !.kind = kind]
<1>1. Shaped(to) /\ Goes(r, to)
  BY NoneAssumption DEF Typed, SessionsTypeOK, Request, Free, Begin, Kinds, Shaped
<1>2. req' \in [Requests -> Request] /\ Shape'
  <2> HIDE DEF to
  <2> QED
    BY <1>1, Moves
<1>3. Kept'
  BY DEF Typed, SessionsTypeOK, Begin, Inexact, Kept, pageVars
<1> QED
  BY <1>2, <1>3 DEF Typed, SessionsTypeOK, Kept

LEMMA CollectTyped ==
  ASSUME Typed, NEW r \in Requests, Collect(r)
  PROVE  Typed'
<1> DEFINE to == LET hits == IF req[r].cookie = None THEN None ELSE store[req[r].cookie]
                   IN [req[r] EXCEPT !.at = Handler(req[r].kind, hits), !.hits = hits]
<1>1. Goes(r, to)
  BY DEF Collect
<1>2. req[r].at # "free" /\ Shaped(req[r])
  BY Held DEF Collect, At
<1>3. Shaped(to)
  <2>1. CASE req[r].cookie = None
    BY <2>1, <1>2, NoneAssumption DEF Collect, At, After, Handler, Kinds, Request, Shaped
  <2>2. CASE req[r].cookie # None
    <3>1. store[req[r].cookie] \in Nat \cup {None}
      BY <1>2, <2>2 DEF Typed, SessionsTypeOK, Shaped, Request
    <3> QED
      BY <2>2, <3>1, <1>2, NoneAssumption DEF Collect, At, After, Handler, Kinds, Request, Shaped
  <2> QED
    BY <2>1, <2>2
<1>4. req' \in [Requests -> Request] /\ Shape'
  <2> HIDE DEF to
  <2> QED
    BY <1>1, <1>3, Moves
<1>5. Kept'
  BY NoneAssumption DEF Collect, At, Typed, SessionsTypeOK, Shape, Request, Kept, Inexact, Incremented, sessionVars, pageVars
<1> QED
  BY <1>4, <1>5 DEF Typed, SessionsTypeOK, Kept

LEMMA CollectFailsTyped ==
  ASSUME Typed, NEW r \in Requests, CollectFails(r)
  PROVE  Typed'
<1> DEFINE to == [req[r] EXCEPT !.at = Handler(req[r].kind, None)]
<1>1. Goes(r, to)
  BY DEF CollectFails
<1>2. req[r].at # "free" /\ Shaped(req[r])
  BY Held DEF CollectFails, At
<1>3. Shaped(to)
  BY <1>2, NoneAssumption DEF CollectFails, At, After, Handler, Kinds, Request, Shaped
<1>4. req' \in [Requests -> Request] /\ Shape'
  <2> HIDE DEF to
  <2> QED
    BY <1>1, <1>3, Moves
<1>5. Kept'
  BY NoneAssumption DEF CollectFails, At, Typed, SessionsTypeOK, Shape, Request, Kept, Inexact, Incremented, sessionVars, pageVars
<1> QED
  BY <1>4, <1>5 DEF Typed, SessionsTypeOK, Kept

LEMMA GetSessionTyped ==
  ASSUME Typed, NEW r \in Requests, GetSession(r)
  PROVE  Typed'
<1>1. PICK to : Shaped(to) /\ Goes(r, to)
  <2> DEFINE found == [req[r] EXCEPT !.at = "save", !.id = req[r].cookie, !.own = store[req[r].cookie]]
             made(n) == [req[r] EXCEPT !.at = "save", !.id = n, !.own = 0]
  <2>1. CASE req[r].cookie # None /\ store[req[r].cookie] # None
    <3>1. Goes(r, found)
      BY <2>1 DEF GetSession
    <3>2. Shaped(req[r]) /\ req[r].at # "free"
      BY Held DEF GetSession, At
    <3>3. store[req[r].cookie] \in Nat
      BY <2>1, <3>2 DEF Typed, SessionsTypeOK, Shaped, Request
    <3>4. Shaped(found)
      BY <2>1, <3>2, <3>3 DEF Request, Shaped
    <3> QED
      BY <3>1, <3>4
  <2>2. CASE ~(req[r].cookie # None /\ store[req[r].cookie] # None)
    <3>1. PICK n \in fresh : Goes(r, made(n))
      BY <2>2 DEF GetSession
    <3>2. Shaped(req[r]) /\ req[r].at # "free"
      BY Held DEF GetSession, At
    <3>3. n \in Ids /\ n # None
      BY NoneAssumption DEF Typed, SessionsTypeOK
    <3>4. Shaped(made(n))
      BY <3>2, <3>3 DEF Request, Shaped
    <3> QED
      BY <3>1, <3>4
  <2> QED
    BY <2>1, <2>2
<1>2. req' \in [Requests -> Request] /\ Shape'
  BY <1>1, Moves
<1>3. Kept'
  BY NoneAssumption DEF GetSession, At, Typed, SessionsTypeOK, Shape, Request, Kept, Inexact, Incremented, sessionVars, pageVars
<1> QED
  BY <1>2, <1>3 DEF Typed, SessionsTypeOK, Kept

LEMMA GetFailsTyped ==
  ASSUME Typed, NEW r \in Requests, GetFails(r)
  PROVE  Typed'
<1> DEFINE to == [req[r] EXCEPT !.at = After(req[r].hits)]
<1>1. Goes(r, to)
  BY DEF GetFails
<1>2. req[r].at # "free" /\ Shaped(req[r])
  BY Held DEF GetFails, At
<1>3. Shaped(to)
  BY <1>2, NoneAssumption DEF GetFails, At, After, Handler, Kinds, Request, Shaped
<1>4. req' \in [Requests -> Request] /\ Shape'
  <2> HIDE DEF to
  <2> QED
    BY <1>1, <1>3, Moves
<1>5. Kept'
  BY NoneAssumption DEF GetFails, At, Typed, SessionsTypeOK, Shape, Request, Kept, Inexact, Incremented, sessionVars, pageVars
<1> QED
  BY <1>4, <1>5 DEF Typed, SessionsTypeOK, Kept

LEMMA SaveSessionTyped ==
  ASSUME Typed, NEW r \in Requests, SaveSession(r)
  PROVE  Typed'
<1> DEFINE to == [req[r] EXCEPT !.at = After(req[r].hits), !.own = 0]
<1>1. Goes(r, to)
  BY DEF SaveSession
<1>2. req[r].at # "free" /\ Shaped(req[r])
  BY Held DEF SaveSession, At
<1>3. Shaped(to)
  BY <1>2, NoneAssumption DEF SaveSession, At, After, Handler, Kinds, Request, Shaped
<1>4. req' \in [Requests -> Request] /\ Shape'
  <2> HIDE DEF to
  <2> QED
    BY <1>1, <1>3, Moves
<1>5. Kept'
  BY NoneAssumption DEF SaveSession, At, Typed, SessionsTypeOK, Shape, Request, Kept, Inexact, Incremented, sessionVars, pageVars
<1> QED
  BY <1>4, <1>5 DEF Typed, SessionsTypeOK, Kept

LEMMA SaveFailsTyped ==
  ASSUME Typed, NEW r \in Requests, SaveFails(r)
  PROVE  Typed'
<1> DEFINE to == [req[r] EXCEPT !.at = After(req[r].hits), !.id = None, !.own = 0]
<1>1. Goes(r, to)
  BY DEF SaveFails
<1>2. req[r].at # "free" /\ Shaped(req[r])
  BY Held DEF SaveFails, At
<1>3. Shaped(to)
  BY <1>2, NoneAssumption DEF SaveFails, At, After, Handler, Kinds, Request, Shaped
<1>4. req' \in [Requests -> Request] /\ Shape'
  <2> HIDE DEF to
  <2> QED
    BY <1>1, <1>3, Moves
<1>5. Kept'
  BY NoneAssumption DEF SaveFails, At, Typed, SessionsTypeOK, Shape, Request, Kept, Inexact, Incremented, sessionVars, pageVars
<1> QED
  BY <1>4, <1>5 DEF Typed, SessionsTypeOK, Kept

LEMMA CountTyped ==
  ASSUME Typed, NEW r \in Requests, Count(r)
  PROVE  Typed'
<1> DEFINE to == [req[r] EXCEPT !.at = "answer", !.hits = None]
<1>1. Goes(r, to)
  BY DEF Count
<1>2. req[r].at # "free" /\ Shaped(req[r])
  BY Held DEF Count, At
<1>3. Shaped(to)
  BY <1>2, NoneAssumption DEF Count, At, After, Handler, Kinds, Request, Shaped
<1>4. req' \in [Requests -> Request] /\ Shape'
  <2> HIDE DEF to
  <2> QED
    BY <1>1, <1>3, Moves
<1>5. Kept'
  BY NoneAssumption DEF Count, At, Typed, SessionsTypeOK, Shape, Request, Kept, Inexact, Incremented, sessionVars, pageVars
<1> QED
  BY <1>4, <1>5 DEF Typed, SessionsTypeOK, Kept

LEMMA CountFailsTyped ==
  ASSUME Typed, NEW r \in Requests, CountFails(r)
  PROVE  Typed'
<1> DEFINE to == [req[r] EXCEPT !.at = "answer", !.hits = None]
<1>1. Goes(r, to)
  BY DEF CountFails
<1>2. req[r].at # "free" /\ Shaped(req[r])
  BY Held DEF CountFails, At
<1>3. Shaped(to)
  BY <1>2, NoneAssumption DEF CountFails, At, After, Handler, Kinds, Request, Shaped
<1>4. req' \in [Requests -> Request] /\ Shape'
  <2> HIDE DEF to
  <2> QED
    BY <1>1, <1>3, Moves
<1>5. Kept'
  BY NoneAssumption DEF CountFails, At, Typed, SessionsTypeOK, Shape, Request, Kept, Inexact, Incremented, sessionVars, pageVars
<1> QED
  BY <1>4, <1>5 DEF Typed, SessionsTypeOK, Kept

LEMMA IncrTyped ==
  ASSUME Typed, NEW r \in Requests, Incr(r)
  PROVE  Typed'
<1>1. PICK to : Shaped(to) /\ Goes(r, to)
  <2> DEFINE again(f) == [req[r] EXCEPT !.at = "query", !.first = f]
             plain == [req[r] EXCEPT !.at = "query"]
             over == [req[r] EXCEPT !.at = After(req[r].hits)]
  <2>1. Shaped(req[r]) /\ req[r].at # "free"
    BY Held DEF Incr, At
  <2>2. Shaped(again(TRUE)) /\ Shaped(again(FALSE)) /\ Shaped(plain)
    BY <2>1 DEF Request, Shaped
  <2>3. Shaped(over)
    BY NoneAssumption DEF Incr, At, After, Kinds, Typed, SessionsTypeOK, Shape, Request, Shaped
  <2>4. Goes(r, again(page.n = None)) \/ Goes(r, plain) \/ Goes(r, over)
    BY DEF Incr
  <2>5. (page.n = None) \in BOOLEAN
    OBVIOUS
  <2> HIDE DEF plain, over
  <2> QED
    BY <2>2, <2>3, <2>4, <2>5
<1>2. req' \in [Requests -> Request] /\ Shape'
  BY <1>1, Moves
<1>3. Kept'
  BY NoneAssumption DEF Incr, At, Typed, SessionsTypeOK, Shape, Request, Kept, Inexact, Incremented, sessionVars, pageVars
<1> QED
  BY <1>2, <1>3 DEF Typed, SessionsTypeOK, Kept

LEMMA IncrAgainTyped ==
  ASSUME Typed, NEW r \in Requests, IncrAgain(r)
  PROVE  Typed'
<1>1. Kept'
  BY NoneAssumption DEF IncrAgain, Typed, SessionsTypeOK, Kept, Incremented, sessionVars
<1>2. UNCHANGED req
  BY DEF IncrAgain
<1> QED
  BY <1>1, <1>2 DEF Typed, SessionsTypeOK, Kept, Shape

LEMMA IncrFailsTyped ==
  ASSUME Typed, NEW r \in Requests, IncrFails(r)
  PROVE  Typed'
<1>1. PICK to : Shaped(to) /\ Goes(r, to)
  <2> DEFINE again(f) == [req[r] EXCEPT !.at = "query", !.first = f]
             plain == [req[r] EXCEPT !.at = "query"]
             over == [req[r] EXCEPT !.at = After(req[r].hits)]
  <2>1. Shaped(req[r]) /\ req[r].at # "free"
    BY Held DEF IncrFails, At
  <2>2. Shaped(again(TRUE)) /\ Shaped(again(FALSE)) /\ Shaped(plain)
    BY <2>1 DEF Request, Shaped
  <2>3. Shaped(over)
    BY NoneAssumption DEF IncrFails, At, After, Kinds, Typed, SessionsTypeOK, Shape, Request, Shaped
  <2>4. Goes(r, again(page.n = None)) \/ Goes(r, plain) \/ Goes(r, over)
    BY DEF IncrFails
  <2>5. (page.n = None) \in BOOLEAN
    OBVIOUS
  <2> HIDE DEF plain, over
  <2> QED
    BY <2>2, <2>3, <2>4, <2>5
<1>2. req' \in [Requests -> Request] /\ Shape'
  BY <1>1, Moves
<1>3. Kept'
  BY NoneAssumption DEF IncrFails, At, Typed, SessionsTypeOK, Shape, Request, Kept, Inexact, Incremented, sessionVars, pageVars
<1> QED
  BY <1>2, <1>3 DEF Typed, SessionsTypeOK, Kept

LEMMA QueryTyped ==
  ASSUME Typed, NEW r \in Requests, Query(r)
  PROVE  Typed'
<1> DEFINE to == [req[r] EXCEPT !.at = "put", !.count = rows]
<1>1. Goes(r, to)
  BY DEF Query
<1>2. req[r].at # "free" /\ Shaped(req[r])
  BY Held DEF Query, At
<1>3. Shaped(to)
  <2>1. rows \in Nat /\ rows # None
    BY NoneAssumption, BoundsAssumption DEF Typed, SessionsTypeOK
  <2> QED
    BY <2>1, <1>2, NoneAssumption DEF Query, At, Request, Shaped
<1>4. req' \in [Requests -> Request] /\ Shape'
  <2> HIDE DEF to
  <2> QED
    BY <1>1, <1>3, Moves
<1>5. Kept'
  BY NoneAssumption DEF Query, At, Typed, SessionsTypeOK, Shape, Request, Kept, Inexact, Incremented, sessionVars, pageVars
<1> QED
  BY <1>4, <1>5 DEF Typed, SessionsTypeOK, Kept

LEMMA QueryFailsTyped ==
  ASSUME Typed, NEW r \in Requests, QueryFails(r)
  PROVE  Typed'
<1> DEFINE to == [req[r] EXCEPT !.at = After(req[r].hits), !.count = None, !.first = FALSE]
<1>1. Goes(r, to)
  BY DEF QueryFails
<1>2. req[r].at # "free" /\ Shaped(req[r])
  BY Held DEF QueryFails, At
<1>3. Shaped(to)
  BY <1>2, NoneAssumption DEF QueryFails, At, After, Handler, Kinds, Request, Shaped
<1>4. req' \in [Requests -> Request] /\ Shape'
  <2> HIDE DEF to
  <2> QED
    BY <1>1, <1>3, Moves
<1>5. Kept'
  BY NoneAssumption DEF QueryFails, At, Typed, SessionsTypeOK, Shape, Request, Kept, Inexact, Incremented, sessionVars, pageVars
<1> QED
  BY <1>4, <1>5 DEF Typed, SessionsTypeOK, Kept

LEMMA PutTyped ==
  ASSUME Typed, NEW r \in Requests, Put(r)
  PROVE  Typed'
<1> DEFINE to == [req[r] EXCEPT !.at = After(req[r].hits), !.count = None, !.first = FALSE]
<1>1. Goes(r, to)
  BY DEF Put
<1>2. req[r].at # "free" /\ Shaped(req[r])
  BY Held DEF Put, At
<1>3. Shaped(to)
  BY <1>2, NoneAssumption DEF Put, At, After, Handler, Kinds, Request, Shaped
<1>4. req' \in [Requests -> Request] /\ Shape'
  <2> HIDE DEF to
  <2> QED
    BY <1>1, <1>3, Moves
<1>5. Kept'
  BY NoneAssumption DEF Put, At, Typed, SessionsTypeOK, Shape, Request, Kept, Inexact, Incremented, sessionVars, pageVars
<1> QED
  BY <1>4, <1>5 DEF Typed, SessionsTypeOK, Kept

LEMMA PutFailsTyped ==
  ASSUME Typed, NEW r \in Requests, PutFails(r)
  PROVE  Typed'
<1> DEFINE to == [req[r] EXCEPT !.at = After(req[r].hits), !.count = None, !.first = FALSE]
<1>1. Goes(r, to)
  BY DEF PutFails
<1>2. req[r].at # "free" /\ Shaped(req[r])
  BY Held DEF PutFails, At
<1>3. Shaped(to)
  BY <1>2, NoneAssumption DEF PutFails, At, After, Handler, Kinds, Request, Shaped
<1>4. req' \in [Requests -> Request] /\ Shape'
  <2> HIDE DEF to
  <2> QED
    BY <1>1, <1>3, Moves
<1>5. Kept'
  BY NoneAssumption DEF PutFails, At, Typed, SessionsTypeOK, Shape, Request, Kept, Inexact, Incremented, sessionVars, pageVars
<1> QED
  BY <1>4, <1>5 DEF Typed, SessionsTypeOK, Kept

LEMMA AnswerTyped ==
  ASSUME Typed, NEW r \in Requests, Answer(r)
  PROVE  Typed'
<1> DEFINE to == Free
<1>1. Goes(r, to)
  BY DEF Answer
<1>2. req[r].at # "free" /\ Shaped(req[r])
  BY Held DEF Answer, At
<1>3. Shaped(to)
  BY <1>2, NoneAssumption DEF Answer, At, After, Handler, Kinds, Request, Shaped, Free
<1>4. req' \in [Requests -> Request] /\ Shape'
  <2> HIDE DEF to
  <2> QED
    BY <1>1, <1>3, Moves
<1>5. Kept'
  BY NoneAssumption DEF Answer, At, Typed, SessionsTypeOK, Shape, Request, Kept, Inexact, Incremented, sessionVars, pageVars
<1> QED
  BY <1>4, <1>5 DEF Typed, SessionsTypeOK, Kept

LEMMA AnswerLostTyped ==
  ASSUME Typed, NEW r \in Requests, AnswerLost(r)
  PROVE  Typed'
<1> DEFINE to == Free
<1>1. Goes(r, to)
  BY DEF AnswerLost
<1>2. req[r].at # "free" /\ Shaped(req[r])
  BY Held DEF AnswerLost, At
<1>3. Shaped(to)
  BY <1>2, NoneAssumption DEF AnswerLost, At, After, Handler, Kinds, Request, Shaped, Free
<1>4. req' \in [Requests -> Request] /\ Shape'
  <2> HIDE DEF to
  <2> QED
    BY <1>1, <1>3, Moves
<1>5. Kept'
  BY NoneAssumption DEF AnswerLost, At, Typed, SessionsTypeOK, Shape, Request, Kept, Inexact, Incremented, sessionVars, pageVars
<1> QED
  BY <1>4, <1>5 DEF Typed, SessionsTypeOK, Kept

LEMMA StoredTyped ==
  ASSUME Typed, (\E i \in Ids : Expire(i)) \/ PageExpires \/ Logged
  PROVE  Typed'
<1>1. CASE \E i \in Ids : Expire(i)
  BY <1>1 DEF Expire, Typed, SessionsTypeOK, Shape, Inexact, pageVars
<1>2. CASE PageExpires
  BY <1>2 DEF PageExpires, Typed, SessionsTypeOK, Shape, NoPage, sessionVars
<1>3. CASE Logged
  <2>1. rows' \in 0..MaxRows
    BY <1>3, BoundsAssumption DEF Logged, Typed, SessionsTypeOK
  <2> QED
    BY <1>3, <2>1 DEF Logged, Typed, SessionsTypeOK, Shape, sessionVars
<1> QED
  BY <1>1, <1>2, <1>3

LEMMA DroppedTyped ==
  ASSUME Typed, Dropped
  PROVE  Typed'
<1>1. Shaped(Free)
  BY NoneAssumption DEF Free, Shaped, Request, Kinds
<1>2. req' \in [Requests -> Request] /\ \A r \in Requests : req'[r] = Free
  BY <1>1 DEF Dropped, Shaped
<1>3. Shape'
  BY <1>1, <1>2 DEF Shape, Shaped
<1>4. exact' \in [Ids -> BOOLEAN]
  <2>1. \A i \in Ids : (exact[i] /\ Carry(i) = {}) \in BOOLEAN
    BY DEF Typed, SessionsTypeOK
  <2> QED
    BY <2>1 DEF Dropped
<1>5. torn' \in BOOLEAN
  <2>1. torn \in BOOLEAN /\ \A r \in Requests : req[r].first \in BOOLEAN
    BY DEF Typed, SessionsTypeOK, Request
  <2>2. CASE \E r \in Requests : req[r].first
    BY <2>1, <2>2 DEF Dropped
  <2>3. CASE ~\E r \in Requests : req[r].first
    BY <2>1, <2>3 DEF Dropped
  <2> QED
    BY <2>2, <2>3
<1> QED
  BY <1>2, <1>3, <1>4, <1>5 DEF Dropped, Typed, SessionsTypeOK

LEMMA NextTyped ==
  ASSUME Typed, [Next]_vars
  PROVE  Typed'
<1>1. CASE RequestStep
  <2>1. PICK r \in Requests :
          \/ \E b \in Browsers, kind \in Kinds : Begin(r, b, kind)
          \/ Redis(r) \/ Query(r) \/ Failing(r) \/ Answer(r) \/ AnswerLost(r)
    BY <1>1 DEF RequestStep
  <2>2. CASE \E b \in Browsers, kind \in Kinds : Begin(r, b, kind)
    BY <2>2, BeginTyped
  <2>3. CASE Redis(r) \/ Query(r)
    BY <2>3, CollectTyped, GetSessionTyped, SaveSessionTyped, CountTyped, IncrTyped, IncrAgainTyped,
       PutTyped, QueryTyped DEF Redis
  <2>4. CASE Failing(r)
    BY <2>4, CollectFailsTyped, GetFailsTyped, SaveFailsTyped, CountFailsTyped, IncrFailsTyped,
       QueryFailsTyped, PutFailsTyped DEF Failing
  <2>5. CASE Answer(r) \/ AnswerLost(r)
    BY <2>5, AnswerTyped, AnswerLostTyped
  <2> QED
    BY <2>1, <2>2, <2>3, <2>4, <2>5
<1>2. CASE (\E i \in Ids : Expire(i)) \/ PageExpires \/ Logged
  BY <1>2, StoredTyped
<1>3. CASE Dropped
  BY <1>3, DroppedTyped
<1>4. CASE UNCHANGED requestVars
  BY <1>4 DEF Typed, SessionsTypeOK, Shape, requestVars, sessionVars, pageVars
<1> QED
  BY <1>1, <1>2, <1>3, <1>4, Steps
-----------------------------------------------------------------------------
(* What sessions promise.                                                  *)

\* What a request is about to write is not too much either.
RequestCounts(r) ==
  /\ req[r].hits # None => req[r].hits + 1 <= served[req[r].cookie]
  /\ req[r].at = "save" => req[r].own <= served[req[r].id]

Known(i) == i # None => store[i] # None \/ i \in gone

\* A request has an id of its own only from the handler on, and when it is
\* answered, that id was stored.
RequestKnows(r) ==
  /\ Known(req[r].cookie)
  /\ req[r].at \in {"count", "answer"} => Known(req[r].id)
  /\ req[r].at \in {"free", "collect", "get", "incr", "query", "put"} => req[r].id = None

Promise ==
  /\ NeverOvercounted
  /\ \A b \in Browsers : Known(jar[b])
  /\ \A r \in Requests : RequestCounts(r) /\ RequestKnows(r)

LEMMA BeginKeeps ==
  ASSUME Typed, Promise, NEW r \in Requests, NEW b \in Browsers, NEW kind \in Kinds, Begin(r, b, kind)
  PROVE  Promise'
  BY NoneAssumption DEF Begin, At, Goes, Free, Typed, SessionsTypeOK, Shape, Promise, NeverOvercounted,
     RequestCounts, RequestKnows, Known, pageVars

LEMMA CollectKeeps ==
  ASSUME Typed, Promise, NEW r \in Requests, Collect(r)
  PROVE  Promise'
  BY NoneAssumption DEF Collect, At, Goes, After, Handler, Free, Typed, SessionsTypeOK, Request, Shape, Promise,
     NeverOvercounted, RequestCounts, RequestKnows, Known, sessionVars, pageVars

LEMMA CollectFailsKeeps ==
  ASSUME Typed, Promise, NEW r \in Requests, CollectFails(r)
  PROVE  Promise'
  BY NoneAssumption DEF CollectFails, At, Goes, After, Handler, Free, Typed, SessionsTypeOK, Request, Shape, Promise,
     NeverOvercounted, RequestCounts, RequestKnows, Known, sessionVars, pageVars

LEMMA GetSessionKeeps ==
  ASSUME Typed, Promise, NEW r \in Requests, GetSession(r)
  PROVE  Promise'
<1>1. req \in [Requests -> Request] /\ Shaped(req[r])
  BY Held DEF Typed, SessionsTypeOK
<1>2. UNCHANGED <<jar, store, gone, served>>
  BY DEF GetSession
<1>3. \A q \in Requests : q # r => req'[q] = req[q]
  BY <1>1 DEF GetSession, Goes
<1>4. req'[r].at = "save" /\ req'[r].cookie = req[r].cookie /\ req'[r].hits = req[r].hits
  <2> DEFINE found == [req[r] EXCEPT !.at = "save", !.id = req[r].cookie, !.own = store[req[r].cookie]]
             made(n) == [req[r] EXCEPT !.at = "save", !.id = n, !.own = 0]
  <2>1. req'[r] = found \/ \E n \in fresh : req'[r] = made(n)
    BY <1>1 DEF GetSession, Goes
  <2>2. found.at = "save" /\ found.cookie = req[r].cookie /\ found.hits = req[r].hits
    BY <1>1 DEF Shaped, Request
  <2>3. \A n \in fresh : made(n).at = "save" /\ made(n).cookie = req[r].cookie /\ made(n).hits = req[r].hits
    BY <1>1 DEF Shaped, Request
  <2> HIDE DEF found, made
  <2> QED
    BY <2>1, <2>2, <2>3
<1>5. req'[r].own <= served[req'[r].id]
  <2>1. CASE req[r].cookie # None /\ store[req[r].cookie] # None
    <3>1. req'[r].own = store[req[r].cookie] /\ req'[r].id = req[r].cookie
      BY <2>1, <1>1 DEF GetSession, Goes, Shaped, Request
    <3> QED
      BY <3>1, <2>1, <1>1 DEF Promise, NeverOvercounted, Shaped, Request
  <2>2. CASE ~(req[r].cookie # None /\ store[req[r].cookie] # None)
    <3>1. PICK n \in fresh : req'[r] = [req[r] EXCEPT !.at = "save", !.id = n, !.own = 0]
      BY <2>2, <1>1 DEF GetSession, Goes
    <3>2. served[n] \in Nat
      BY DEF Typed, SessionsTypeOK
    <3>3. req'[r].own = 0 /\ req'[r].id = n
      BY <3>1, <1>1 DEF Shaped, Request
    <3> QED
      BY <3>2, <3>3
  <2> QED
    BY <2>1, <2>2
<1>6. \A q \in Requests : RequestCounts(q)' /\ RequestKnows(q)'
  BY <1>2, <1>3, <1>4, <1>5 DEF Promise, RequestCounts, RequestKnows, Known
<1> QED
  BY <1>2, <1>6 DEF Promise, NeverOvercounted, Known

LEMMA GetFailsKeeps ==
  ASSUME Typed, Promise, NEW r \in Requests, GetFails(r)
  PROVE  Promise'
  BY NoneAssumption DEF GetFails, At, Goes, After, Handler, Free, Typed, SessionsTypeOK, Request, Shape, Promise,
     NeverOvercounted, RequestCounts, RequestKnows, Known, sessionVars, pageVars

LEMMA SaveSessionKeeps ==
  ASSUME Typed, Promise, NEW r \in Requests, SaveSession(r)
  PROVE  Promise'
  BY NoneAssumption DEF SaveSession, At, Goes, After, Handler, Free, Typed, SessionsTypeOK, Request, Shape, Promise,
     NeverOvercounted, RequestCounts, RequestKnows, Known, sessionVars, pageVars

LEMMA SaveFailsKeeps ==
  ASSUME Typed, Promise, NEW r \in Requests, SaveFails(r)
  PROVE  Promise'
  BY NoneAssumption DEF SaveFails, At, Goes, After, Handler, Free, Typed, SessionsTypeOK, Request, Shape, Promise,
     NeverOvercounted, RequestCounts, RequestKnows, Known, sessionVars, pageVars

LEMMA CountKeeps ==
  ASSUME Typed, Promise, NEW r \in Requests, Count(r)
  PROVE  Promise'
  BY NoneAssumption DEF Count, At, Goes, After, Handler, Free, Typed, SessionsTypeOK, Request, Shape, Promise,
     NeverOvercounted, RequestCounts, RequestKnows, Known, sessionVars, pageVars

LEMMA CountFailsKeeps ==
  ASSUME Typed, Promise, NEW r \in Requests, CountFails(r)
  PROVE  Promise'
  BY NoneAssumption DEF CountFails, At, Goes, After, Handler, Free, Typed, SessionsTypeOK, Request, Shape, Promise,
     NeverOvercounted, RequestCounts, RequestKnows, Known, sessionVars, pageVars

LEMMA IncrKeeps ==
  ASSUME Typed, Promise, NEW r \in Requests, Incr(r)
  PROVE  Promise'
  BY NoneAssumption DEF Incr, At, Goes, After, Handler, Free, Typed, SessionsTypeOK, Request, Shape, Promise,
     NeverOvercounted, RequestCounts, RequestKnows, Known, sessionVars, pageVars

LEMMA IncrAgainKeeps ==
  ASSUME Typed, Promise, NEW r \in Requests, IncrAgain(r)
  PROVE  Promise'
  BY DEF IncrAgain, Promise, NeverOvercounted, RequestCounts, RequestKnows, Known, sessionVars

LEMMA IncrFailsKeeps ==
  ASSUME Typed, Promise, NEW r \in Requests, IncrFails(r)
  PROVE  Promise'
<1>1. req \in [Requests -> Request] /\ Shaped(req[r])
  BY Held DEF Typed, SessionsTypeOK
<1>2. /\ \A q \in Requests : q # r => req'[q] = req[q]
      /\ req'[r].at = "query" /\ req'[r].cookie = req[r].cookie /\ req'[r].hits = req[r].hits
      /\ req'[r].id = req[r].id
  <2> DEFINE plain    == [req[r] EXCEPT !.at = "query"]
             first(f) == [req[r] EXCEPT !.at = "query", !.first = f]
  <2>1. /\ \A q \in Requests : q # r => req'[q] = req[q]
        /\ req'[r] = plain \/ \E f : req'[r] = first(f)
    BY <1>1 DEF IncrFails, Goes
  <2>2. /\ plain.at = "query" /\ plain.cookie = req[r].cookie
        /\ plain.hits = req[r].hits /\ plain.id = req[r].id
    BY <1>1 DEF Shaped, Request
  <2>3. \A f : /\ first(f).at = "query" /\ first(f).cookie = req[r].cookie
               /\ first(f).hits = req[r].hits /\ first(f).id = req[r].id
    BY <1>1 DEF Shaped, Request
  <2> HIDE DEF plain, first
  <2> QED
    BY <2>1, <2>2, <2>3
<1>3. \A q \in Requests : RequestCounts(q)' /\ RequestKnows(q)'
  BY <1>2 DEF IncrFails, At, Promise, RequestCounts, RequestKnows, Known, sessionVars
<1> QED
  BY <1>3 DEF IncrFails, Promise, NeverOvercounted, Known, sessionVars

LEMMA QueryKeeps ==
  ASSUME Typed, Promise, NEW r \in Requests, Query(r)
  PROVE  Promise'
  BY NoneAssumption DEF Query, At, Goes, After, Handler, Free, Typed, SessionsTypeOK, Request, Shape, Promise,
     NeverOvercounted, RequestCounts, RequestKnows, Known, sessionVars, pageVars

LEMMA QueryFailsKeeps ==
  ASSUME Typed, Promise, NEW r \in Requests, QueryFails(r)
  PROVE  Promise'
  BY NoneAssumption DEF QueryFails, At, Goes, After, Handler, Free, Typed, SessionsTypeOK, Request, Shape, Promise,
     NeverOvercounted, RequestCounts, RequestKnows, Known, sessionVars, pageVars

LEMMA PutKeeps ==
  ASSUME Typed, Promise, NEW r \in Requests, Put(r)
  PROVE  Promise'
  BY NoneAssumption DEF Put, At, Goes, After, Handler, Free, Typed, SessionsTypeOK, Request, Shape, Promise,
     NeverOvercounted, RequestCounts, RequestKnows, Known, sessionVars, pageVars

LEMMA PutFailsKeeps ==
  ASSUME Typed, Promise, NEW r \in Requests, PutFails(r)
  PROVE  Promise'
  BY NoneAssumption DEF PutFails, At, Goes, After, Handler, Free, Typed, SessionsTypeOK, Request, Shape, Promise,
     NeverOvercounted, RequestCounts, RequestKnows, Known, sessionVars, pageVars

LEMMA AnswerKeeps ==
  ASSUME Typed, Promise, NEW r \in Requests, Answer(r)
  PROVE  Promise'
  BY NoneAssumption DEF Answer, At, Goes, After, Handler, Free, Typed, SessionsTypeOK, Request, Shape, Promise,
     NeverOvercounted, RequestCounts, RequestKnows, Known, sessionVars, pageVars

LEMMA AnswerLostKeeps ==
  ASSUME Typed, Promise, NEW r \in Requests, AnswerLost(r)
  PROVE  Promise'
  BY NoneAssumption DEF AnswerLost, At, Goes, After, Handler, Free, Typed, SessionsTypeOK, Request, Shape, Promise,
     NeverOvercounted, RequestCounts, RequestKnows, Known, sessionVars, pageVars

LEMMA StoredKeeps ==
  ASSUME Typed, Promise, (\E i \in Ids : Expire(i)) \/ PageExpires \/ Logged
  PROVE  Promise'
<1>1. CASE \E i \in Ids : Expire(i)
  <2>1. PICK i \in Ids : Expire(i)
    BY <1>1
  <2>2. \A k \in Ids \cup {None} : Known(k) => Known(k)'
    BY <2>1, NoneAssumption DEF Expire, Known, Typed, SessionsTypeOK
  <2>3. UNCHANGED <<req, jar, served>>
    BY <2>1 DEF Expire
  <2>4. NeverOvercounted'
    BY <2>1 DEF Expire, Promise, NeverOvercounted, Typed, SessionsTypeOK
  <2>5. \A r \in Requests : RequestCounts(r)'
    BY <2>3 DEF Promise, RequestCounts
  <2>6. (\A b \in Browsers : Known(jar[b])') /\ \A r \in Requests : RequestKnows(r)'
    BY <2>2, <2>3 DEF Promise, RequestKnows, Typed, SessionsTypeOK, Request
  <2> QED
    BY <2>4, <2>5, <2>6 DEF Promise
<1>2. CASE PageExpires \/ Logged
  BY <1>2 DEF PageExpires, Logged, Promise, NeverOvercounted, RequestCounts, RequestKnows, Known,
     sessionVars
<1> QED
  BY <1>1, <1>2

LEMMA DroppedKeeps ==
  ASSUME Typed, Promise, Dropped
  PROVE  Promise'
  BY NoneAssumption DEF Dropped, Promise, NeverOvercounted, RequestCounts, RequestKnows, Known, Free

LEMMA NextKeeps ==
  ASSUME Typed, Promise, [Next]_vars
  PROVE  Promise'
<1>1. CASE RequestStep
  <2>1. PICK r \in Requests :
          \/ \E b \in Browsers, kind \in Kinds : Begin(r, b, kind)
          \/ Redis(r) \/ Query(r) \/ Failing(r) \/ Answer(r) \/ AnswerLost(r)
    BY <1>1 DEF RequestStep
  <2>2. CASE \E b \in Browsers, kind \in Kinds : Begin(r, b, kind)
    BY <2>2, BeginKeeps
  <2>3. CASE Redis(r) \/ Query(r)
    BY <2>3, CollectKeeps, GetSessionKeeps, SaveSessionKeeps, CountKeeps, IncrKeeps, IncrAgainKeeps,
       PutKeeps, QueryKeeps DEF Redis
  <2>4. CASE Failing(r)
    BY <2>4, CollectFailsKeeps, GetFailsKeeps, SaveFailsKeeps, CountFailsKeeps, IncrFailsKeeps,
       QueryFailsKeeps, PutFailsKeeps DEF Failing
  <2>5. CASE Answer(r) \/ AnswerLost(r)
    BY <2>5, AnswerKeeps, AnswerLostKeeps
  <2> QED
    BY <2>1, <2>2, <2>3, <2>4, <2>5
<1>2. CASE (\E i \in Ids : Expire(i)) \/ PageExpires \/ Logged
  BY <1>2, StoredKeeps
<1>3. CASE Dropped
  BY <1>3, DroppedKeeps
<1>4. CASE UNCHANGED requestVars
  BY <1>4 DEF Promise, NeverOvercounted, RequestCounts, RequestKnows, Known, requestVars, sessionVars
<1> QED
  BY <1>1, <1>2, <1>3, <1>4, Steps
-----------------------------------------------------------------------------
(* Theorems.                                                               *)

Inv == DatastoresTypeOK /\ ConnectedInv /\ Typed /\ Promise /\ kills \in 0..MaxKills

LEMMA InitInv == Init => Inv
<1> SUFFICES ASSUME Init
             PROVE  Inv
  OBVIOUS
<1>1. DatastoresTypeOK /\ ConnectedInv
  BY OutagesAssumption DEF Init, StartInit, NetInit, DatastoresTypeOK, ConnectedInv
<1>2. Shaped(Free) /\ Free.at = "free" /\ Free.hits = None
  BY NoneAssumption DEF Free, Shaped, Request, Kinds
<1>3. SessionsTypeOK
  BY <1>2, BoundsAssumption DEF Init, SessionsInit, SessionsTypeOK, NoPage, Shaped
<1>4. Shape
  BY <1>2 DEF Init, SessionsInit, Shape, Shaped
<1>5. kills \in 0..MaxKills
  BY StoresAssumption DEF Init
<1>6. Promise
  BY DEF Init, SessionsInit, Promise, NeverOvercounted, RequestCounts, RequestKnows, Known, Free
<1> QED
  BY <1>1, <1>3, <1>4, <1>5, <1>6 DEF Inv, Typed

LEMMA NextInv == Inv /\ [Next]_vars => Inv'
<1> SUFFICES ASSUME Inv, [Next]_vars
             PROVE  Inv'
  OBVIOUS
<1>1. DatastoresTypeOK' /\ ConnectedInv'
  BY Steps, StartTypes, StaysConnected DEF Inv
<1>2. Typed'
  BY NextTyped DEF Inv
<1>3. Promise'
  BY NextKeeps DEF Inv
<1>4. kills' \in 0..MaxKills
  BY StoresAssumption DEF Inv, Next, StartUp, Network, Serves, Outside, Killed, vars
<1> QED
  BY <1>1, <1>2, <1>3, <1>4 DEF Inv

LEMMA AlwaysInv == Spec => []Inv
  BY InitInv, NextInv, PTL DEF Spec

\* The types of the state, for any requests, browsers, sessions and bounds.
THEOREM TypeCorrect == Spec => []TypeOK
<1>1. Inv => TypeOK
  BY DEF Inv, Typed, TypeOK
<1> QED
  BY <1>1, AlwaysInv, PTL

\* The process answers requests only when it has connected to both stores.
THEOREM ServesConnectedTheorem == Spec => []ServesConnected
<1>1. Inv => ServesConnected
  BY DEF Inv, ConnectedInv, ServesConnected
<1> QED
  BY <1>1, AlwaysInv, PTL

\* However requests overlap, fail or die with the process, the count of a
\* session never exceeds the requests that found it.
THEOREM NeverOvercountedTheorem == Spec => []NeverOvercounted
<1>1. Inv => NeverOvercounted
  BY DEF Inv, Promise
<1> QED
  BY <1>1, AlwaysInv, PTL

\* A browser has the cookie of a session only if that session was stored
\* before; if redis does not have it, it has expired.
THEOREM CookieKnownTheorem == Spec => []CookieKnown
<1>1. Inv => CookieKnown
  BY DEF Inv, Promise, Known, CookieKnown
<1> QED
  BY <1>1, AlwaysInv, PTL
-----------------------------------------------------------------------------
(* What is counted exactly, and the counter of the page.                   *)

\* A request q that came with the cookie i.
Carries(q, i) == q.at # "free" /\ q.cookie = i

\* A request that is not counted yet, or any more.
Settled(q) == q.at \in {"free", "collect", "answer"} => q.hits = None

\* A request that is about to store a session that it made.
Makes(q) == q.at = "save" /\ q.id # q.cookie

\* An id that only the requests in own know of.
Unknown(i, own) ==
  /\ served[i] = 0
  /\ \A b \in Browsers : jar[b] # i
  /\ \A r \in Requests : req[r].cookie # i /\ (r \notin own => req[r].id # i)

\* How the stored count of a session, and the number of its requests, stand to
\* what the only request that carries it has read of it.
Owes(q, count, number) ==
  /\ q.hits # None => count = q.hits /\ number = q.hits + 1
  /\ q.hits = None /\ count # None => count = number
  /\ q.at = "save" /\ q.id = q.cookie => q.own = count

SettledInv == \A r \in Requests : Settled(req[r])

FreshInv == \A i \in fresh : Unknown(i, {})

MakesInv == \A r \in Requests : Makes(req[r]) => req[r].own = 0 /\ Unknown(req[r].id, {r})

\* A session that is counted exactly has one request at a time, and what that
\* one leaves is the number of those that found it.
Alone(i) == \A q, r \in Requests : Carries(req[q], i) /\ Carries(req[r], i) => q = r

Owed(i) == \A r \in Requests : Carries(req[r], i) => Owes(req[r], store[i], served[i])

Paid(i) == (\A r \in Requests : ~Carries(req[r], i)) /\ store[i] # None => store[i] = served[i]

ExactInv ==
  /\ SettledInv /\ FreshInv /\ MakesInv
  /\ \A i \in Ids : exact[i] => Alone(i) /\ Owed(i) /\ Paid(i)

FirstInv ==
  /\ \A r \in Requests : req[r].first => req[r].at \in {"query", "put"}
  /\ CounterExpires
-----------------------------------------------------------------------------
LEMMA Others ==
  ASSUME Typed, NEW r \in Requests, NEW to, Goes(r, to)
  PROVE  \A q \in Requests : req'[q] = IF q = r THEN to ELSE req[q]
  BY DEF Typed, SessionsTypeOK, Goes

\* A step of a request that neither reads nor writes its session.
LEMMA QuietExact ==
  ASSUME Typed, ExactInv, NEW r \in Requests, NEW to, Goes(r, to), req[r].at # "free",
         to.at \notin {"free", "save"}, to.cookie = req[r].cookie, to.hits = req[r].hits,
         to.id \in {req[r].id, None}, Settled(to), UNCHANGED <<jar, store, fresh, served, exact>>
  PROVE  ExactInv'
<1>1. \A q \in Requests : req'[q] = IF q = r THEN to ELSE req[q]
  BY Others
<1>2. SettledInv'
  BY <1>1 DEF ExactInv, SettledInv, Settled
<1>3. FreshInv'
  BY <1>1, NoneAssumption DEF ExactInv, FreshInv, Unknown, Typed, SessionsTypeOK
<1>4. MakesInv'
  BY <1>1, NoneAssumption DEF ExactInv, MakesInv, Makes, Unknown, Typed, Shape
<1>5. ASSUME NEW i \in Ids, exact'[i]
      PROVE  Alone(i)' /\ Owed(i)' /\ Paid(i)'
  <2>1. Alone(i) /\ Owed(i) /\ Paid(i)
    BY <1>5 DEF ExactInv
  <2>2. \A q \in Requests : Carries(req'[q], i) <=> Carries(req[q], i)
    BY <1>1 DEF Carries
  <2>3. Owed(i)'
    BY <1>1, <2>1, <2>2 DEF Owed, Owes
  <2> QED
    BY <2>1, <2>2, <2>3 DEF Alone, Paid
<1> QED
  BY <1>2, <1>3, <1>4, <1>5 DEF ExactInv

LEMMA CollectFailsExact ==
  ASSUME Typed, Promise, ExactInv, NEW r \in Requests, CollectFails(r)
  PROVE  ExactInv'
<1> DEFINE to == [req[r] EXCEPT !.at = Handler(req[r].kind, None)]
<1>1. Goes(r, to)
  BY DEF CollectFails
<1>2. Shaped(req[r]) /\ Settled(req[r]) /\ RequestKnows(r)
  BY Held DEF ExactInv, SettledInv, Promise
<1>3. /\ to.at \notin {"free", "save"} /\ to.cookie = req[r].cookie /\ to.hits = req[r].hits
      /\ to.id \in {req[r].id, None} /\ Settled(to) /\ req[r].at # "free"
  BY <1>2 DEF CollectFails, At, Handler, After, Shaped, Request, Settled
<1>4. UNCHANGED <<jar, store, fresh, served, exact>>
  BY DEF CollectFails, sessionVars
<1> HIDE DEF to
<1> QED
  BY <1>1, <1>3, <1>4, QuietExact

LEMMA GetFailsExact ==
  ASSUME Typed, Promise, ExactInv, NEW r \in Requests, GetFails(r)
  PROVE  ExactInv'
<1> DEFINE to == [req[r] EXCEPT !.at = After(req[r].hits)]
<1>1. Goes(r, to)
  BY DEF GetFails
<1>2. Shaped(req[r]) /\ Settled(req[r]) /\ RequestKnows(r)
  BY Held DEF ExactInv, SettledInv, Promise
<1>3. /\ to.at \notin {"free", "save"} /\ to.cookie = req[r].cookie /\ to.hits = req[r].hits
      /\ to.id \in {req[r].id, None} /\ Settled(to) /\ req[r].at # "free"
  BY <1>2 DEF GetFails, At, Handler, After, Shaped, Request, Settled
<1>4. UNCHANGED <<jar, store, fresh, served, exact>>
  BY DEF GetFails, sessionVars
<1> HIDE DEF to
<1> QED
  BY <1>1, <1>3, <1>4, QuietExact

LEMMA QueryExact ==
  ASSUME Typed, Promise, ExactInv, NEW r \in Requests, Query(r)
  PROVE  ExactInv'
<1> DEFINE to == [req[r] EXCEPT !.at = "put", !.count = rows]
<1>1. Goes(r, to)
  BY DEF Query
<1>2. Shaped(req[r]) /\ Settled(req[r]) /\ RequestKnows(r)
  BY Held DEF ExactInv, SettledInv, Promise
<1>3. /\ to.at \notin {"free", "save"} /\ to.cookie = req[r].cookie /\ to.hits = req[r].hits
      /\ to.id \in {req[r].id, None} /\ Settled(to) /\ req[r].at # "free"
  BY <1>2 DEF Query, At, Handler, After, Shaped, Request, Settled
<1>4. UNCHANGED <<jar, store, fresh, served, exact>>
  BY DEF Query, sessionVars
<1> HIDE DEF to
<1> QED
  BY <1>1, <1>3, <1>4, QuietExact

LEMMA QueryFailsExact ==
  ASSUME Typed, Promise, ExactInv, NEW r \in Requests, QueryFails(r)
  PROVE  ExactInv'
<1> DEFINE to == [req[r] EXCEPT !.at = After(req[r].hits), !.count = None, !.first = FALSE]
<1>1. Goes(r, to)
  BY DEF QueryFails
<1>2. Shaped(req[r]) /\ Settled(req[r]) /\ RequestKnows(r)
  BY Held DEF ExactInv, SettledInv, Promise
<1>3. /\ to.at \notin {"free", "save"} /\ to.cookie = req[r].cookie /\ to.hits = req[r].hits
      /\ to.id \in {req[r].id, None} /\ Settled(to) /\ req[r].at # "free"
  BY <1>2 DEF QueryFails, At, Handler, After, Shaped, Request, Settled
<1>4. UNCHANGED <<jar, store, fresh, served, exact>>
  BY DEF QueryFails, sessionVars
<1> HIDE DEF to
<1> QED
  BY <1>1, <1>3, <1>4, QuietExact

LEMMA PutExact ==
  ASSUME Typed, Promise, ExactInv, NEW r \in Requests, Put(r)
  PROVE  ExactInv'
<1> DEFINE to == [req[r] EXCEPT !.at = After(req[r].hits), !.count = None, !.first = FALSE]
<1>1. Goes(r, to)
  BY DEF Put
<1>2. Shaped(req[r]) /\ Settled(req[r]) /\ RequestKnows(r)
  BY Held DEF ExactInv, SettledInv, Promise
<1>3. /\ to.at \notin {"free", "save"} /\ to.cookie = req[r].cookie /\ to.hits = req[r].hits
      /\ to.id \in {req[r].id, None} /\ Settled(to) /\ req[r].at # "free"
  BY <1>2 DEF Put, At, Handler, After, Shaped, Request, Settled
<1>4. UNCHANGED <<jar, store, fresh, served, exact>>
  BY DEF Put, sessionVars
<1> HIDE DEF to
<1> QED
  BY <1>1, <1>3, <1>4, QuietExact

LEMMA PutFailsExact ==
  ASSUME Typed, Promise, ExactInv, NEW r \in Requests, PutFails(r)
  PROVE  ExactInv'
<1> DEFINE to == [req[r] EXCEPT !.at = After(req[r].hits), !.count = None, !.first = FALSE]
<1>1. Goes(r, to)
  BY DEF PutFails
<1>2. Shaped(req[r]) /\ Settled(req[r]) /\ RequestKnows(r)
  BY Held DEF ExactInv, SettledInv, Promise
<1>3. /\ to.at \notin {"free", "save"} /\ to.cookie = req[r].cookie /\ to.hits = req[r].hits
      /\ to.id \in {req[r].id, None} /\ Settled(to) /\ req[r].at # "free"
  BY <1>2 DEF PutFails, At, Handler, After, Shaped, Request, Settled
<1>4. UNCHANGED <<jar, store, fresh, served, exact>>
  BY DEF PutFails, sessionVars
<1> HIDE DEF to
<1> QED
  BY <1>1, <1>3, <1>4, QuietExact

LEMMA IncrAgainExact ==
  ASSUME ExactInv, NEW r \in Requests, IncrAgain(r)
  PROVE  ExactInv'
<1>1. UNCHANGED <<req, jar, store, fresh, gone, served, exact>>
  BY DEF IncrAgain, sessionVars
<1> QED
  BY <1>1 DEF ExactInv, SettledInv, FreshInv, MakesInv, Alone, Owed, Paid, Unknown

LEMMA IncrExact ==
  ASSUME Typed, Promise, ExactInv, NEW r \in Requests, Incr(r) \/ IncrFails(r)
  PROVE  ExactInv'
<1> DEFINE again(f) == [req[r] EXCEPT !.at = "query", !.first = f]
           plain    == [req[r] EXCEPT !.at = "query"]
           over     == [req[r] EXCEPT !.at = After(req[r].hits)]
<1>1. Goes(r, again(page.n = None)) \/ Goes(r, plain) \/ Goes(r, over)
  BY DEF Incr, IncrFails
<1>2. Shaped(req[r]) /\ req[r].at = "incr"
  BY Held DEF Incr, IncrFails, At
<1>3. /\ plain.cookie = req[r].cookie /\ plain.hits = req[r].hits /\ plain.id = req[r].id
      /\ plain.at = "query" /\ Settled(plain)
  BY <1>2 DEF Shaped, Request, Settled
<1>4. /\ over.cookie = req[r].cookie /\ over.hits = req[r].hits /\ over.id = req[r].id
      /\ over.at \notin {"free", "save"} /\ Settled(over)
  BY <1>2 DEF After, Shaped, Request, Settled
<1>5. \A f : /\ again(f).cookie = req[r].cookie /\ again(f).hits = req[r].hits
             /\ again(f).id = req[r].id /\ again(f).at = "query" /\ Settled(again(f))
  BY <1>2 DEF Shaped, Request, Settled
<1>6. UNCHANGED <<jar, store, fresh, served, exact>>
  BY DEF Incr, IncrFails, sessionVars
<1> HIDE DEF again, plain, over
<1>7. PICK to : /\ Goes(r, to) /\ to.cookie = req[r].cookie /\ to.hits = req[r].hits /\ to.id = req[r].id
                /\ to.at \notin {"free", "save"} /\ Settled(to)
  BY <1>1, <1>3, <1>4, <1>5
<1> QED
  BY <1>2, <1>6, <1>7, QuietExact

LEMMA CountExact ==
  ASSUME Typed, Promise, ExactInv, NEW r \in Requests, Count(r) \/ CountFails(r)
  PROVE  ExactInv'
<1> DEFINE to == [req[r] EXCEPT !.at = "answer", !.hits = None]
           c  == req[r].cookie
<1>1. Goes(r, to) /\ UNCHANGED <<jar, fresh, served>>
  BY DEF Count, CountFails
<1>2. Shaped(req[r]) /\ req[r].at = "count"
  BY Held DEF Count, CountFails, At
<1>3. to.at = "answer" /\ to.cookie = c /\ to.hits = None /\ to.id = req[r].id
  BY <1>2 DEF Shaped, Request
<1> HIDE DEF to
<1>4. \A q \in Requests : req'[q] = IF q = r THEN to ELSE req[q]
  BY <1>1, Others
<1>5. SettledInv'
  BY <1>3, <1>4 DEF ExactInv, SettledInv, Settled
<1>6. FreshInv'
  BY <1>1, <1>3, <1>4 DEF ExactInv, FreshInv, Unknown
<1>7. MakesInv'
  BY <1>1, <1>3, <1>4 DEF ExactInv, MakesInv, Makes, Unknown
<1>8. c \in Ids /\ req[r].hits \in Nat
  BY <1>2 DEF Shaped, Request
<1>9. ASSUME NEW i \in Ids, exact'[i]
      PROVE  Alone(i)' /\ Owed(i)' /\ Paid(i)'
  <2>1. exact[i] /\ (i = c => Count(r))
    BY <1>8, <1>9, NoneAssumption DEF Count, CountFails, Inexact, Typed, SessionsTypeOK
  <2>2. Alone(i) /\ Owed(i) /\ Paid(i)
    BY <2>1 DEF ExactInv
  <2>3. \A q \in Requests : Carries(req'[q], i) <=> Carries(req[q], i)
    BY <1>2, <1>3, <1>4 DEF Carries
  <2>4. CASE i # c
    <3>1. store'[i] = store[i]
      BY <2>4, <1>8 DEF Count, CountFails, Stored, Typed, SessionsTypeOK
    <3>2. \A q \in Requests : Carries(req'[q], i) => req'[q] = req[q]
      BY <2>4, <1>3, <1>4 DEF Carries
    <3> QED
      BY <1>1, <2>2, <2>3, <3>1, <3>2 DEF Alone, Owed, Paid
  <2>5. CASE i = c
    <3>1. Carries(req[r], i) /\ store'[i] = req[r].hits + 1
      BY <2>1, <2>5, <1>2, <1>8 DEF Count, Carries, Stored, Typed, SessionsTypeOK
    <3>2. served[i] = req[r].hits + 1
      BY <3>1, <2>2, <1>8, NoneAssumption DEF Owed, Owes
    <3>3. \A q \in Requests : Carries(req'[q], i) => q = r
      BY <3>1, <2>2, <2>3 DEF Alone
    <3>4. Owed(i)'
      BY <3>1, <3>2, <3>3, <1>1, <1>3, <1>4 DEF Owed, Owes
    <3> QED
      BY <1>1, <2>2, <2>3, <3>1, <3>4 DEF Alone, Paid
  <2> QED
    BY <2>4, <2>5
<1> QED
  BY <1>5, <1>6, <1>7, <1>9 DEF ExactInv

LEMMA SaveExact ==
  ASSUME Typed, Promise, ExactInv, NEW r \in Requests, SaveSession(r) \/ SaveFails(r)
  PROVE  ExactInv'
<1> DEFINE kept    == [req[r] EXCEPT !.at = After(req[r].hits), !.own = 0]
           dropped == [req[r] EXCEPT !.at = After(req[r].hits), !.id = None, !.own = 0]
           s       == req[r].id
<1>1. (Goes(r, kept) \/ Goes(r, dropped)) /\ UNCHANGED <<jar, fresh, served, exact>>
  BY DEF SaveSession, SaveFails
<1>2. Shaped(req[r]) /\ req[r].at = "save"
  BY Held DEF SaveSession, SaveFails, At
<1>3. kept.at \in {"answer", "count"} /\ kept.cookie = req[r].cookie /\ kept.hits = req[r].hits
      /\ kept.id = req[r].id /\ Settled(kept)
  BY <1>2 DEF After, Shaped, Request, Settled
<1>4. dropped.at \in {"answer", "count"} /\ dropped.cookie = req[r].cookie /\ dropped.hits = req[r].hits
      /\ dropped.id = None /\ Settled(dropped)
  BY <1>2 DEF After, Shaped, Request, Settled
<1> HIDE DEF kept, dropped
<1>5. PICK to : /\ Goes(r, to) /\ to.cookie = req[r].cookie /\ to.hits = req[r].hits
                /\ to.id \in {s, None} /\ to.at \in {"answer", "count"} /\ Settled(to)
  BY <1>1, <1>3, <1>4
<1>6. \A q \in Requests : req'[q] = IF q = r THEN to ELSE req[q]
  BY <1>5, Others
<1>7. s \in Ids
  BY <1>2 DEF Shaped, Request
<1>8. SettledInv'
  BY <1>5, <1>6 DEF ExactInv, SettledInv
<1>9. FreshInv'
  BY <1>1, <1>5, <1>6, NoneAssumption DEF ExactInv, FreshInv, Unknown, Typed, SessionsTypeOK
<1>10. MakesInv'
  BY <1>1, <1>5, <1>6, NoneAssumption DEF ExactInv, MakesInv, Makes, Unknown, Typed, Shape
<1>11. ASSUME NEW i \in Ids, exact'[i]
       PROVE  Alone(i)' /\ Owed(i)' /\ Paid(i)'
  <2>1. exact[i] /\ Alone(i) /\ Owed(i) /\ Paid(i)
    BY <1>1, <1>11 DEF ExactInv
  <2>2. \A q \in Requests : Carries(req'[q], i) <=> Carries(req[q], i)
    BY <1>2, <1>5, <1>6 DEF Carries
  <2>3. CASE store'[i] = store[i]
    <3>1. Owed(i)'
      BY <2>1, <2>2, <2>3, <1>1, <1>5, <1>6 DEF Owed, Owes
    <3> QED
      BY <1>1, <2>1, <2>2, <2>3, <3>1 DEF Alone, Paid
  <2>4. CASE store'[i] # store[i]
    <3>1. i = s /\ store'[i] = req[r].own
      BY <2>4, <1>7 DEF SaveSession, SaveFails, Stored, Typed, SessionsTypeOK
    <3>2. req[r].cookie # s
      BY <3>1, <2>1, <2>4, <1>2 DEF Owed, Owes, Carries
    <3>3. req[r].own = 0 /\ Unknown(s, {r})
      BY <3>2, <1>2 DEF ExactInv, MakesInv, Makes
    <3>4. \A q \in Requests : ~Carries(req'[q], i)
      BY <3>1, <3>3, <2>2 DEF Unknown, Carries
    <3>5. store'[i] = served'[i]
      BY <3>1, <3>3, <1>1 DEF Unknown
    <3> QED
      BY <3>4, <3>5 DEF Alone, Owed, Paid
  <2> QED
    BY <2>3, <2>4
<1> QED
  BY <1>8, <1>9, <1>10, <1>11 DEF ExactInv

LEMMA BeginExact ==
  ASSUME Typed, Promise, ExactInv,
         NEW r \in Requests, NEW b \in Browsers, NEW kind \in Kinds, Begin(r, b, kind)
  PROVE  ExactInv'
<1> DEFINE c  == jar[b]
           to == [Free EXCEPT !.at = "collect", !.of = b, !.cookie = c, !.kind = kind]
<1>1. Goes(r, to) /\ UNCHANGED <<jar, store, fresh, served>>
  BY DEF Begin
<1>2. req[r].at = "free" /\ c \in Ids \cup {None}
  BY DEF Begin, At, Typed, SessionsTypeOK
<1>3. to.at = "collect" /\ to.cookie = c /\ to.hits = None /\ to.id = None
  BY DEF Free
<1> HIDE DEF to
<1>4. \A q \in Requests : req'[q] = IF q = r THEN to ELSE req[q]
  BY <1>1, Others
<1>5. SettledInv'
  BY <1>3, <1>4 DEF ExactInv, SettledInv, Settled
<1>6. FreshInv'
  BY <1>1, <1>3, <1>4, NoneAssumption DEF ExactInv, FreshInv, Unknown, Typed, SessionsTypeOK
<1>7. MakesInv'
  BY <1>1, <1>3, <1>4, NoneAssumption DEF ExactInv, MakesInv, Makes, Unknown, Typed, Shape
<1>8. ASSUME NEW i \in Ids, exact'[i]
      PROVE  Alone(i)' /\ Owed(i)' /\ Paid(i)'
  <2>1. exact[i] /\ (i = c => Carry(c) = {})
    <3>1. CASE i = c
      BY <1>8, <3>1, NoneAssumption DEF Begin, Inexact, Typed, SessionsTypeOK
    <3>2. CASE i # c
      BY <1>8, <3>2, <1>2 DEF Begin, Inexact, Typed, SessionsTypeOK
    <3> QED
      BY <3>1, <3>2
  <2>2. Alone(i) /\ Owed(i) /\ Paid(i)
    BY <2>1 DEF ExactInv
  <2>3. CASE i # c
    <3>1. \A q \in Requests : /\ Carries(req'[q], i) <=> Carries(req[q], i)
                              /\ Carries(req'[q], i) => req'[q] = req[q]
      BY <2>3, <1>2, <1>3, <1>4 DEF Carries
    <3> QED
      BY <1>1, <2>2, <3>1 DEF Alone, Owed, Paid
  <2>4. CASE i = c
    <3>1. \A q \in Requests : ~Carries(req[q], i)
      BY <2>1, <2>4 DEF Carry, Carries
    <3>2. \A q \in Requests : Carries(req'[q], i) <=> q = r
      BY <2>4, <3>1, <1>3, <1>4 DEF Carries
    <3>3. store[i] # None => store[i] = served[i]
      BY <2>2, <3>1 DEF Paid
    <3>4. Owed(i)'
      BY <1>1, <1>3, <1>4, <3>2, <3>3 DEF Owed, Owes
    <3> QED
      BY <3>2, <3>4 DEF Alone, Paid
  <2> QED
    BY <2>3, <2>4
<1> QED
  BY <1>5, <1>6, <1>7, <1>8 DEF ExactInv

LEMMA CollectExact ==
  ASSUME Typed, Promise, ExactInv, NEW r \in Requests, Collect(r)
  PROVE  ExactInv'
<1> DEFINE c    == req[r].cookie
           hits == Get(c)
           to   == [req[r] EXCEPT !.at = Handler(req[r].kind, hits), !.hits = hits]
<1>1. Goes(r, to) /\ UNCHANGED <<jar, store, fresh, exact>>
  BY DEF Collect
<1>2. Shaped(req[r]) /\ req[r].at = "collect" /\ req[r].hits = None
  BY Held DEF Collect, At, ExactInv, SettledInv, Settled
<1>3. to.at \notin {"free", "collect", "save"} /\ to.cookie = c /\ to.hits = hits /\ to.id = req[r].id
      /\ Settled(to)
  BY <1>2 DEF Handler, After, Settled, Shaped, Request, Kinds
<1> HIDE DEF to
<1>4. CASE hits = None
  <2>1. UNCHANGED served
    BY <1>4 DEF Collect
  <2> QED
    BY <1>1, <1>2, <1>3, <1>4, <2>1, QuietExact
<1>5. CASE hits # None
  <2>1. c \in Ids /\ hits = store[c] /\ served' = [served EXCEPT ![c] = @ + 1]
    BY <1>2, <1>5 DEF Collect, Get, Shaped, Request
  <2>2. served \in [Ids -> Nat]
    BY DEF Typed, SessionsTypeOK
  <2> HIDE DEF hits
  <2>3. \A q \in Requests : req'[q] = IF q = r THEN to ELSE req[q]
    BY <1>1, Others
  <2>4. SettledInv'
    BY <1>3, <2>3 DEF ExactInv, SettledInv
  <2>5. FreshInv'
    BY <1>1, <1>3, <2>1, <2>2, <2>3 DEF ExactInv, FreshInv, Unknown
  <2>6. MakesInv'
    <3> SUFFICES ASSUME NEW q \in Requests, Makes(req'[q])
                 PROVE  req'[q].own = 0 /\ Unknown(req[q].id, {q})'
      BY DEF MakesInv
    <3>1. q # r /\ req'[q] = req[q]
      BY <2>3, <1>3 DEF Makes
    <3>2. req[q].own = 0 /\ Unknown(req[q].id, {q})
      BY <3>1 DEF ExactInv, MakesInv
    <3>3. served'[req[q].id] = served[req[q].id]
      BY <2>1, <2>2, <3>2 DEF Unknown
    <3> QED
      BY <1>1, <1>3, <2>3, <3>1, <3>2, <3>3 DEF Unknown
  <2>7. ASSUME NEW i \in Ids, exact'[i]
        PROVE  Alone(i)' /\ Owed(i)' /\ Paid(i)'
    <3>1. Alone(i) /\ Owed(i) /\ Paid(i)
      BY <2>7, <1>1 DEF ExactInv
    <3>2. \A q \in Requests : Carries(req'[q], i) <=> Carries(req[q], i)
      BY <1>2, <1>3, <2>3 DEF Carries
    <3>3. CASE i # c
      <4>1. served'[i] = served[i]
        BY <3>3, <2>1, <2>2
      <4>2. \A q \in Requests : Carries(req'[q], i) => req'[q] = req[q]
        BY <3>3, <1>3, <2>3 DEF Carries
      <4> QED
        BY <1>1, <3>1, <3>2, <4>1, <4>2 DEF Alone, Owed, Paid
    <3>4. CASE i = c
      <4>1. Carries(req[r], i) /\ served'[i] = served[i] + 1
        BY <3>4, <1>2, <2>1, <2>2 DEF Carries
      <4>2. store[i] = hits /\ hits = served[i]
        BY <3>4, <4>1, <3>1, <1>2, <1>5, <2>1 DEF Owed, Owes
      <4>3. \A q \in Requests : Carries(req'[q], i) => q = r
        BY <4>1, <3>1, <3>2 DEF Alone
      <4>4. Owed(i)'
        BY <4>1, <4>2, <4>3, <1>1, <1>3, <1>5, <2>3 DEF Owed, Owes
      <4> QED
        BY <3>1, <3>2, <4>1, <4>4 DEF Alone, Paid
    <3> QED
      BY <3>3, <3>4
  <2> QED
    BY <2>4, <2>5, <2>6, <2>7 DEF ExactInv
<1> QED
  BY <1>4, <1>5

LEMMA GetSessionExact ==
  ASSUME Typed, Promise, ExactInv, NEW r \in Requests, GetSession(r)
  PROVE  ExactInv'
<1> DEFINE c       == req[r].cookie
           found   == [req[r] EXCEPT !.at = "save", !.id = c, !.own = Get(c)]
           made(n) == [req[r] EXCEPT !.at = "save", !.id = n, !.own = 0]
<1>1. UNCHANGED <<jar, store, served, exact>> /\ fresh' \in SUBSET fresh
  BY DEF GetSession
<1>2. Shaped(req[r]) /\ req[r].at = "get"
  BY Held DEF GetSession, At
<1>3. found.at = "save" /\ found.cookie = c /\ found.hits = req[r].hits /\ found.id = c
      /\ found.own = Get(c)
  BY <1>2 DEF Shaped, Request
<1>4. \A n : made(n).at = "save" /\ made(n).cookie = c /\ made(n).hits = req[r].hits
             /\ made(n).id = n /\ made(n).own = 0
  BY <1>2 DEF Shaped, Request
<1>5. \/ Get(c) # None /\ Goes(r, found)
      \/ \E n \in fresh : fresh' = fresh \ {n} /\ Goes(r, made(n))
  BY DEF GetSession
<1> HIDE DEF found, made
<1>6. PICK to : /\ Goes(r, to) /\ to.at = "save" /\ to.cookie = c /\ to.hits = req[r].hits
                /\ \/ to.id = c /\ c \in Ids /\ to.own = store[c]
                   \/ to.id \in fresh /\ fresh' = fresh \ {to.id} /\ to.own = 0
  BY <1>2, <1>3, <1>4, <1>5 DEF Get, Shaped, Request
<1>7. \A q \in Requests : req'[q] = IF q = r THEN to ELSE req[q]
  BY <1>6, Others
<1>8. SettledInv'
  BY <1>6, <1>7 DEF ExactInv, SettledInv, Settled
<1>9. FreshInv'
  <2> SUFFICES ASSUME NEW i \in fresh'
               PROVE  Unknown(i, {})'
    BY DEF FreshInv
  <2>1. Unknown(i, {})
    BY <1>1 DEF ExactInv, FreshInv
  <2>2. to.id # i
    BY <2>1, <1>6 DEF Unknown
  <2> QED
    BY <2>1, <2>2, <1>1, <1>6, <1>7 DEF Unknown
<1>10. MakesInv'
  <2> SUFFICES ASSUME NEW q \in Requests, Makes(req'[q])
               PROVE  req'[q].own = 0 /\ Unknown(req[q].id, {q})'
    BY DEF MakesInv
  <2>1. CASE q = r
    <3>1. to.id \in fresh /\ to.own = 0
      BY <2>1, <1>6, <1>7 DEF Makes
    <3>2. Unknown(to.id, {})
      BY <3>1 DEF ExactInv, FreshInv
    <3> QED
      BY <2>1, <3>1, <3>2, <1>1, <1>6, <1>7 DEF Unknown
  <2>2. CASE q # r
    <3>1. Makes(req[q]) /\ req'[q] = req[q]
      BY <2>2, <1>7
    <3>2. req[q].own = 0 /\ Unknown(req[q].id, {q})
      BY <3>1 DEF ExactInv, MakesInv
    <3>3. to.id # req[q].id
      BY <3>2, <1>6 DEF ExactInv, FreshInv, Unknown
    <3> QED
      BY <2>2, <3>1, <3>2, <3>3, <1>1, <1>6, <1>7 DEF Unknown
  <2> QED
    BY <2>1, <2>2
<1>11. ASSUME NEW i \in Ids, exact'[i]
       PROVE  Alone(i)' /\ Owed(i)' /\ Paid(i)'
  <2>1. Alone(i) /\ Owed(i) /\ Paid(i)
    BY <1>1, <1>11 DEF ExactInv
  <2>2. \A q \in Requests : Carries(req'[q], i) <=> Carries(req[q], i)
    BY <1>2, <1>6, <1>7 DEF Carries
  <2>3. to.id = to.cookie => to.own = store[c]
    BY <1>2, <1>6 DEF ExactInv, FreshInv, Unknown
  <2>4. Owed(i)'
    BY <1>1, <1>6, <1>7, <2>1, <2>2, <2>3 DEF Owed, Owes, Carries
  <2> QED
    BY <1>1, <2>1, <2>2, <2>4 DEF Alone, Paid
<1> QED
  BY <1>8, <1>9, <1>10, <1>11 DEF ExactInv

LEMMA AnswerExact ==
  ASSUME Typed, Promise, ExactInv, NEW r \in Requests, Answer(r) \/ AnswerLost(r)
  PROVE  ExactInv'
<1>1. Goes(r, Free) /\ UNCHANGED <<store, fresh, served, exact>>
  BY DEF Answer, AnswerLost, sessionVars
<1>2. req[r].at = "answer" /\ req[r].hits = None
  BY DEF Answer, AnswerLost, At, ExactInv, SettledInv, Settled
<1>3. Free.at = "free" /\ Free.cookie = None /\ Free.hits = None /\ Free.id = None
  BY DEF Free
<1>4. \A q \in Requests : req'[q] = IF q = r THEN Free ELSE req[q]
  BY <1>1, Others
<1>5. \A b \in Browsers : jar'[b] \in {jar[b], req[r].id}
  BY DEF Answer, AnswerLost, sessionVars, Typed, SessionsTypeOK
<1>6. SettledInv'
  BY <1>3, <1>4 DEF ExactInv, SettledInv, Settled
<1>7. FreshInv'
  BY <1>1, <1>3, <1>4, <1>5, NoneAssumption DEF ExactInv, FreshInv, Unknown, Typed, SessionsTypeOK
<1>8. MakesInv'
  <2> SUFFICES ASSUME NEW q \in Requests, Makes(req'[q])
               PROVE  req'[q].own = 0 /\ Unknown(req[q].id, {q})'
    BY DEF MakesInv
  <2>1. q # r /\ req'[q] = req[q]
    BY <1>3, <1>4 DEF Makes
  <2>2. req[q].own = 0 /\ Unknown(req[q].id, {q}) /\ req[q].id # None
    BY <2>1 DEF ExactInv, MakesInv, Makes, Typed, Shape
  <2> QED
    BY <2>1, <2>2, <1>1, <1>3, <1>4, <1>5 DEF Unknown
<1>9. ASSUME NEW i \in Ids, exact'[i]
      PROVE  Alone(i)' /\ Owed(i)' /\ Paid(i)'
  <2>1. Alone(i) /\ Owed(i) /\ Paid(i)
    BY <1>1, <1>9 DEF ExactInv
  <2>2. \A q \in Requests : Carries(req'[q], i) <=> q # r /\ Carries(req[q], i)
    BY <1>3, <1>4 DEF Carries
  <2>3. Owed(i)'
    BY <1>1, <1>4, <2>1, <2>2 DEF Owed, Owes
  <2>4. Paid(i)'
    <3>1. CASE Carries(req[r], i)
      BY <1>1, <1>2, <2>1, <3>1 DEF Owed, Owes, Paid
    <3>2. CASE ~Carries(req[r], i)
      BY <1>1, <2>1, <2>2, <3>2 DEF Paid
    <3> QED
      BY <3>1, <3>2
  <2> QED
    BY <2>1, <2>2, <2>3, <2>4 DEF Alone
<1> QED
  BY <1>6, <1>7, <1>8, <1>9 DEF ExactInv

LEMMA OutsideExact ==
  ASSUME Typed, ExactInv, (\E i \in Ids : Expire(i)) \/ PageExpires \/ Logged \/ UNCHANGED requestVars
  PROVE  ExactInv'
<1>1. UNCHANGED <<req, jar, fresh, served>>
  BY DEF Expire, PageExpires, Logged, requestVars, sessionVars
<1>2. \A i \in Ids : exact'[i] => exact[i] /\ store'[i] = store[i]
  <2>1. CASE \E i \in Ids : Expire(i)
    <3>1. PICK e \in Ids : Expire(e)
      BY <2>1
    <3>2. exact' = [exact EXCEPT ![e] = FALSE] /\ store' = [store EXCEPT ![e] = None]
      BY <3>1, NoneAssumption DEF Expire, Inexact
    <3> QED
      BY <3>2 DEF Typed, SessionsTypeOK
  <2>2. CASE PageExpires \/ Logged \/ UNCHANGED requestVars
    BY <2>2 DEF PageExpires, Logged, requestVars, sessionVars
  <2> QED
    BY <2>1, <2>2
<1>3. SettledInv' /\ FreshInv' /\ MakesInv'
  BY <1>1 DEF ExactInv, SettledInv, FreshInv, MakesInv, Unknown
<1>4. ASSUME NEW i \in Ids, exact'[i]
      PROVE  Alone(i)' /\ Owed(i)' /\ Paid(i)'
  BY <1>1, <1>2, <1>4 DEF ExactInv, Alone, Owed, Paid
<1> QED
  BY <1>3, <1>4 DEF ExactInv

LEMMA DroppedExact ==
  ASSUME Typed, ExactInv, Dropped
  PROVE  ExactInv'
<1>1. /\ \A r \in Requests : req'[r] = Free
      /\ UNCHANGED <<jar, store, fresh, served>>
      /\ \A i \in Ids : exact'[i] => exact[i] /\ Carry(i) = {}
  BY DEF Dropped
<1>2. Free.at = "free" /\ Free.cookie = None /\ Free.hits = None /\ Free.id = None
  BY DEF Free
<1>3. SettledInv' /\ MakesInv'
  BY <1>1, <1>2 DEF SettledInv, Settled, MakesInv, Makes
<1>4. FreshInv'
  BY <1>1, <1>2, NoneAssumption DEF ExactInv, FreshInv, Unknown, Typed, SessionsTypeOK
<1>5. ASSUME NEW i \in Ids, exact'[i]
      PROVE  Alone(i)' /\ Owed(i)' /\ Paid(i)'
  <2>1. \A r \in Requests : ~Carries(req[r], i) /\ ~Carries(req'[r], i)
    BY <1>1, <1>2, <1>5 DEF Carry, Carries
  <2>2. Paid(i)
    BY <1>1, <1>5 DEF ExactInv
  <2> QED
    BY <1>1, <2>1, <2>2 DEF Alone, Owed, Paid
<1> QED
  BY <1>3, <1>4, <1>5 DEF ExactInv

LEMMA NextExact ==
  ASSUME Typed, Promise, ExactInv, [Next]_vars
  PROVE  ExactInv'
<1>1. CASE RequestStep
  <2>1. PICK r \in Requests :
          \/ \E b \in Browsers, kind \in Kinds : Begin(r, b, kind)
          \/ Redis(r) \/ Query(r) \/ Failing(r) \/ Answer(r) \/ AnswerLost(r)
    BY <1>1 DEF RequestStep
  <2>2. CASE \E b \in Browsers, kind \in Kinds : Begin(r, b, kind)
    BY <2>2, BeginExact
  <2>3. CASE Redis(r) \/ Query(r)
    BY <2>3, CollectExact, GetSessionExact, SaveExact, CountExact, IncrExact, IncrAgainExact,
       PutExact, QueryExact DEF Redis
  <2>4. CASE Failing(r)
    BY <2>4, CollectFailsExact, GetFailsExact, SaveExact, CountExact, IncrExact, QueryFailsExact,
       PutFailsExact DEF Failing
  <2>5. CASE Answer(r) \/ AnswerLost(r)
    BY <2>5, AnswerExact
  <2> QED
    BY <2>1, <2>2, <2>3, <2>4, <2>5
<1>2. CASE (\E i \in Ids : Expire(i)) \/ PageExpires \/ Logged \/ UNCHANGED requestVars
  BY <1>2, OutsideExact
<1>3. CASE Dropped
  BY <1>3, DroppedExact
<1> QED
  BY <1>1, <1>2, <1>3, Steps
-----------------------------------------------------------------------------
(* The request that made the counter.                                      *)

LEMMA StaysFirst ==
  ASSUME Typed, FirstInv, NEW r \in Requests, NEW to, Goes(r, to), UNCHANGED <<page, torn>>,
         to.first = req[r].first, to.first => to.at \in {"query", "put"}
  PROVE  FirstInv'
  BY Others DEF FirstInv, CounterExpires

LEMMA BeginFirst ==
  ASSUME Typed, FirstInv, NEW r \in Requests, NEW b \in Browsers, NEW kind \in Kinds, Begin(r, b, kind)
  PROVE  FirstInv'
<1> DEFINE to == [Free EXCEPT !.at = "collect", !.of = b, !.cookie = jar[b], !.kind = kind]
<1>1. Goes(r, to) /\ UNCHANGED <<page, torn>>
  BY DEF Begin, pageVars
<1>2. Shaped(req[r]) /\ (req[r].first => req[r].at \in {"query", "put"})
  BY Held DEF FirstInv
<1>3. to.first = req[r].first /\ (to.first => to.at \in {"query", "put"})
  BY <1>2 DEF Begin, At, Shaped, Request, Free
<1> HIDE DEF to
<1> QED
  BY <1>1, <1>3, StaysFirst

LEMMA CollectFirst ==
  ASSUME Typed, FirstInv, NEW r \in Requests, Collect(r)
  PROVE  FirstInv'
<1> DEFINE to == [req[r] EXCEPT !.at = Handler(req[r].kind, Get(req[r].cookie)), !.hits = Get(req[r].cookie)]
<1>1. Goes(r, to) /\ UNCHANGED <<page, torn>>
  BY DEF Collect, pageVars
<1>2. Shaped(req[r]) /\ (req[r].first => req[r].at \in {"query", "put"})
  BY Held DEF FirstInv
<1>3. to.first = req[r].first /\ (to.first => to.at \in {"query", "put"})
  BY <1>2 DEF Collect, At, Shaped, Request
<1> HIDE DEF to
<1> QED
  BY <1>1, <1>3, StaysFirst

LEMMA CollectFailsFirst ==
  ASSUME Typed, FirstInv, NEW r \in Requests, CollectFails(r)
  PROVE  FirstInv'
<1> DEFINE to == [req[r] EXCEPT !.at = Handler(req[r].kind, None)]
<1>1. Goes(r, to) /\ UNCHANGED <<page, torn>>
  BY DEF CollectFails, pageVars
<1>2. Shaped(req[r]) /\ (req[r].first => req[r].at \in {"query", "put"})
  BY Held DEF FirstInv
<1>3. to.first = req[r].first /\ (to.first => to.at \in {"query", "put"})
  BY <1>2 DEF CollectFails, At, Shaped, Request
<1> HIDE DEF to
<1> QED
  BY <1>1, <1>3, StaysFirst

LEMMA GetFailsFirst ==
  ASSUME Typed, FirstInv, NEW r \in Requests, GetFails(r)
  PROVE  FirstInv'
<1> DEFINE to == [req[r] EXCEPT !.at = After(req[r].hits)]
<1>1. Goes(r, to) /\ UNCHANGED <<page, torn>>
  BY DEF GetFails, pageVars
<1>2. Shaped(req[r]) /\ (req[r].first => req[r].at \in {"query", "put"})
  BY Held DEF FirstInv
<1>3. to.first = req[r].first /\ (to.first => to.at \in {"query", "put"})
  BY <1>2 DEF GetFails, At, Shaped, Request
<1> HIDE DEF to
<1> QED
  BY <1>1, <1>3, StaysFirst

LEMMA SaveSessionFirst ==
  ASSUME Typed, FirstInv, NEW r \in Requests, SaveSession(r)
  PROVE  FirstInv'
<1> DEFINE to == [req[r] EXCEPT !.at = After(req[r].hits), !.own = 0]
<1>1. Goes(r, to) /\ UNCHANGED <<page, torn>>
  BY DEF SaveSession, pageVars
<1>2. Shaped(req[r]) /\ (req[r].first => req[r].at \in {"query", "put"})
  BY Held DEF FirstInv
<1>3. to.first = req[r].first /\ (to.first => to.at \in {"query", "put"})
  BY <1>2 DEF SaveSession, At, Shaped, Request
<1> HIDE DEF to
<1> QED
  BY <1>1, <1>3, StaysFirst

LEMMA SaveFailsFirst ==
  ASSUME Typed, FirstInv, NEW r \in Requests, SaveFails(r)
  PROVE  FirstInv'
<1> DEFINE to == [req[r] EXCEPT !.at = After(req[r].hits), !.id = None, !.own = 0]
<1>1. Goes(r, to) /\ UNCHANGED <<page, torn>>
  BY DEF SaveFails, pageVars
<1>2. Shaped(req[r]) /\ (req[r].first => req[r].at \in {"query", "put"})
  BY Held DEF FirstInv
<1>3. to.first = req[r].first /\ (to.first => to.at \in {"query", "put"})
  BY <1>2 DEF SaveFails, At, Shaped, Request
<1> HIDE DEF to
<1> QED
  BY <1>1, <1>3, StaysFirst

LEMMA CountFirst ==
  ASSUME Typed, FirstInv, NEW r \in Requests, Count(r)
  PROVE  FirstInv'
<1> DEFINE to == [req[r] EXCEPT !.at = "answer", !.hits = None]
<1>1. Goes(r, to) /\ UNCHANGED <<page, torn>>
  BY DEF Count, pageVars
<1>2. Shaped(req[r]) /\ (req[r].first => req[r].at \in {"query", "put"})
  BY Held DEF FirstInv
<1>3. to.first = req[r].first /\ (to.first => to.at \in {"query", "put"})
  BY <1>2 DEF Count, At, Shaped, Request
<1> HIDE DEF to
<1> QED
  BY <1>1, <1>3, StaysFirst

LEMMA CountFailsFirst ==
  ASSUME Typed, FirstInv, NEW r \in Requests, CountFails(r)
  PROVE  FirstInv'
<1> DEFINE to == [req[r] EXCEPT !.at = "answer", !.hits = None]
<1>1. Goes(r, to) /\ UNCHANGED <<page, torn>>
  BY DEF CountFails, pageVars
<1>2. Shaped(req[r]) /\ (req[r].first => req[r].at \in {"query", "put"})
  BY Held DEF FirstInv
<1>3. to.first = req[r].first /\ (to.first => to.at \in {"query", "put"})
  BY <1>2 DEF CountFails, At, Shaped, Request
<1> HIDE DEF to
<1> QED
  BY <1>1, <1>3, StaysFirst

LEMMA QueryFirst ==
  ASSUME Typed, FirstInv, NEW r \in Requests, Query(r)
  PROVE  FirstInv'
<1> DEFINE to == [req[r] EXCEPT !.at = "put", !.count = rows]
<1>1. Goes(r, to) /\ UNCHANGED <<page, torn>>
  BY DEF Query, pageVars
<1>2. Shaped(req[r]) /\ (req[r].first => req[r].at \in {"query", "put"})
  BY Held DEF FirstInv
<1>3. to.first = req[r].first /\ (to.first => to.at \in {"query", "put"})
  BY <1>2 DEF Query, At, Shaped, Request
<1> HIDE DEF to
<1> QED
  BY <1>1, <1>3, StaysFirst

LEMMA AnswerFirst ==
  ASSUME Typed, FirstInv, NEW r \in Requests, Answer(r)
  PROVE  FirstInv'
<1> DEFINE to == Free
<1>1. Goes(r, to) /\ UNCHANGED <<page, torn>>
  BY DEF Answer, pageVars
<1>2. Shaped(req[r]) /\ (req[r].first => req[r].at \in {"query", "put"})
  BY Held DEF FirstInv
<1>3. to.first = req[r].first /\ (to.first => to.at \in {"query", "put"})
  BY <1>2 DEF Answer, At, Shaped, Request, Free
<1> HIDE DEF to
<1> QED
  BY <1>1, <1>3, StaysFirst

LEMMA AnswerLostFirst ==
  ASSUME Typed, FirstInv, NEW r \in Requests, AnswerLost(r)
  PROVE  FirstInv'
<1> DEFINE to == Free
<1>1. Goes(r, to) /\ UNCHANGED <<page, torn>>
  BY DEF AnswerLost, pageVars
<1>2. Shaped(req[r]) /\ (req[r].first => req[r].at \in {"query", "put"})
  BY Held DEF FirstInv
<1>3. to.first = req[r].first /\ (to.first => to.at \in {"query", "put"})
  BY <1>2 DEF AnswerLost, At, Shaped, Request, Free
<1> HIDE DEF to
<1> QED
  BY <1>1, <1>3, StaysFirst

LEMMA GetSessionFirst ==
  ASSUME Typed, FirstInv, NEW r \in Requests, GetSession(r)
  PROVE  FirstInv'
<1> DEFINE made(n, own) == [req[r] EXCEPT !.at = "save", !.id = n, !.own = own]
<1>1. PICK n, own : Goes(r, made(n, own))
  BY DEF GetSession
<1>2. Shaped(req[r]) /\ ~req[r].first
  BY Held DEF FirstInv, GetSession, At
<1>3. made(n, own).first = req[r].first
  BY <1>2 DEF Shaped, Request
<1>4. UNCHANGED <<page, torn>>
  BY DEF GetSession, pageVars
<1> HIDE DEF made
<1> QED
  BY <1>1, <1>2, <1>3, <1>4, StaysFirst

\* The counter is incremented, or an error says that it was not.
LEMMA IncrFirst ==
  ASSUME Typed, FirstInv, NEW r \in Requests, Incr(r) \/ IncrFails(r)
  PROVE  FirstInv'
<1> DEFINE again(f) == [req[r] EXCEPT !.at = "query", !.first = f]
           plain    == [req[r] EXCEPT !.at = "query"]
           over     == [req[r] EXCEPT !.at = After(req[r].hits)]
<1>1. Shaped(req[r]) /\ ~req[r].first
  BY Held DEF FirstInv, Incr, IncrFails, At
<1>2. ~plain.first /\ ~over.first /\ \A f : again(f).first = f /\ again(f).at = "query"
  BY <1>1 DEF Shaped, Request
<1>3. page \in [n : Nat \cup {None}, ttl : BOOLEAN]
  BY DEF Typed, SessionsTypeOK
<1>4. /\ Goes(r, again(page.n = None)) \/ (page.n # None /\ Goes(r, over)) \/ (page' = page /\ Goes(r, plain))
      /\ page' = page \/ (page'.n # None /\ page'.ttl = page.ttl)
      /\ UNCHANGED torn
  BY <1>3, NoneAssumption DEF Incr, IncrFails, Incremented
<1> HIDE DEF again, plain, over
<1>5. PICK to : /\ Goes(r, to) /\ (to.first => to.at = "query")
                /\ to.first \/ page.n # None \/ page' = page
  BY <1>2, <1>4
<1>6. \A q \in Requests : req'[q] = IF q = r THEN to ELSE req[q]
  BY <1>5, Others
<1> QED
  BY <1>1, <1>4, <1>5, <1>6 DEF FirstInv, CounterExpires

\* An INCR that made the counter and is sent again leaves no one to set it.
LEMMA IncrAgainFirst ==
  ASSUME FirstInv, NEW r \in Requests, IncrAgain(r)
  PROVE  FirstInv'
<1>1. UNCHANGED req /\ page'.ttl = page.ttl /\ torn' = (torn \/ page.n = None)
  BY DEF IncrAgain, Incremented
<1> QED
  BY <1>1 DEF FirstInv, CounterExpires

LEMMA QueryFailsFirst ==
  ASSUME Typed, FirstInv, NEW r \in Requests, QueryFails(r)
  PROVE  FirstInv'
<1> DEFINE to == [req[r] EXCEPT !.at = After(req[r].hits), !.count = None, !.first = FALSE]
<1>1. Goes(r, to) /\ UNCHANGED page /\ torn' = (torn \/ req[r].first)
  BY DEF QueryFails
<1>2. ~to.first
  BY Held DEF Shaped, Request
<1> HIDE DEF to
<1>3. \A q \in Requests : req'[q] = IF q = r THEN to ELSE req[q]
  BY <1>1, Others
<1> QED
  BY <1>1, <1>2, <1>3 DEF FirstInv, CounterExpires

LEMMA PutFailsFirst ==
  ASSUME Typed, FirstInv, NEW r \in Requests, PutFails(r)
  PROVE  FirstInv'
<1> DEFINE to == [req[r] EXCEPT !.at = After(req[r].hits), !.count = None, !.first = FALSE]
<1>1. Goes(r, to) /\ UNCHANGED page /\ torn' = (torn \/ req[r].first)
  BY DEF PutFails
<1>2. ~to.first
  BY Held DEF Shaped, Request
<1> HIDE DEF to
<1>3. \A q \in Requests : req'[q] = IF q = r THEN to ELSE req[q]
  BY <1>1, Others
<1> QED
  BY <1>1, <1>2, <1>3 DEF FirstInv, CounterExpires

LEMMA PutFirst ==
  ASSUME Typed, FirstInv, NEW r \in Requests, Put(r)
  PROVE  FirstInv'
<1> DEFINE to == [req[r] EXCEPT !.at = After(req[r].hits), !.count = None, !.first = FALSE]
<1>1. Goes(r, to) /\ page'.ttl
  BY DEF Put
<1>2. ~to.first
  BY Held DEF Shaped, Request
<1> HIDE DEF to
<1>3. \A q \in Requests : req'[q] = IF q = r THEN to ELSE req[q]
  BY <1>1, Others
<1> QED
  BY <1>1, <1>2, <1>3 DEF FirstInv, CounterExpires

LEMMA OutsideFirst ==
  ASSUME FirstInv, (\E i \in Ids : Expire(i)) \/ PageExpires \/ Logged \/ UNCHANGED requestVars
  PROVE  FirstInv'
<1>1. UNCHANGED <<req, torn>> /\ (UNCHANGED page \/ page'.n = None)
  BY DEF Expire, PageExpires, Logged, NoPage, requestVars, sessionVars, pageVars
<1> QED
  BY <1>1 DEF FirstInv, CounterExpires

LEMMA DroppedFirst ==
  ASSUME FirstInv, Dropped
  PROVE  FirstInv'
  BY DEF Dropped, Free, FirstInv, CounterExpires

LEMMA NextFirst ==
  ASSUME Typed, FirstInv, [Next]_vars
  PROVE  FirstInv'
<1>1. CASE RequestStep
  <2>1. PICK r \in Requests :
          \/ \E b \in Browsers, kind \in Kinds : Begin(r, b, kind)
          \/ Redis(r) \/ Query(r) \/ Failing(r) \/ Answer(r) \/ AnswerLost(r)
    BY <1>1 DEF RequestStep
  <2>2. CASE \E b \in Browsers, kind \in Kinds : Begin(r, b, kind)
    BY <2>2, BeginFirst
  <2>3. CASE Redis(r) \/ Query(r)
    BY <2>3, CollectFirst, GetSessionFirst, SaveSessionFirst, CountFirst, IncrFirst, IncrAgainFirst,
       PutFirst, QueryFirst DEF Redis
  <2>4. CASE Failing(r)
    BY <2>4, CollectFailsFirst, GetFailsFirst, SaveFailsFirst, CountFailsFirst, IncrFirst,
       QueryFailsFirst, PutFailsFirst DEF Failing
  <2>5. CASE Answer(r) \/ AnswerLost(r)
    BY <2>5, AnswerFirst, AnswerLostFirst
  <2> QED
    BY <2>1, <2>2, <2>3, <2>4, <2>5
<1>2. CASE (\E i \in Ids : Expire(i)) \/ PageExpires \/ Logged \/ UNCHANGED requestVars
  BY <1>2, OutsideFirst
<1>3. CASE Dropped
  BY <1>3, DroppedFirst
<1> QED
  BY <1>1, <1>2, <1>3, Steps
-----------------------------------------------------------------------------
LEMMA InitExact == Init => ExactInv /\ FirstInv
<1> SUFFICES ASSUME Init
             PROVE  ExactInv /\ FirstInv
  OBVIOUS
<1>1. /\ Free.at = "free" /\ Free.cookie = None /\ Free.hits = None /\ Free.id = None
      /\ Free.first = FALSE /\ NoPage.n = None
  BY DEF Free, NoPage
<1>2. /\ \A r \in Requests : req[r] = Free
      /\ \A b \in Browsers : jar[b] = None
      /\ \A i \in Ids : store[i] = None /\ served[i] = 0
      /\ fresh = Ids /\ page = NoPage
  BY DEF Init, SessionsInit
<1>3. SettledInv /\ FreshInv /\ MakesInv
  BY <1>1, <1>2, NoneAssumption DEF SettledInv, Settled, FreshInv, Unknown, MakesInv, Makes
<1>4. \A i \in Ids : Alone(i) /\ Owed(i) /\ Paid(i)
  BY <1>1, <1>2 DEF Alone, Owed, Paid, Carries
<1>5. FirstInv
  BY <1>1, <1>2 DEF FirstInv, CounterExpires
<1> QED
  BY <1>3, <1>4, <1>5 DEF ExactInv

LEMMA AlwaysExact == Spec => [](Inv /\ ExactInv /\ FirstInv)
<1>1. Inv /\ ExactInv /\ FirstInv /\ [Next]_vars => ExactInv' /\ FirstInv'
  BY NextExact, NextFirst DEF Inv
<1> QED
  BY <1>1, InitInv, NextInv, InitExact, PTL DEF Spec

\* A session whose requests came one at a time, none of which failed and which
\* did not expire counts every request that found it.
THEOREM QuietCountTheorem == Spec => []QuietCountIsExact
<1>1. ExactInv => QuietCountIsExact
  BY DEF ExactInv, Paid, QuietCountIsExact, Carry, Carries
<1> QED
  BY <1>1, AlwaysExact, PTL

\* However many requests increment the counter at once, a counter without an
\* expiration is about to get one from the request that made it, unless that
\* one failed, died or had its INCR sent twice.
THEOREM CounterExpiresTheorem == Spec => []CounterExpires
<1>1. FirstInv => CounterExpires
  BY DEF FirstInv
<1> QED
  BY <1>1, AlwaysExact, PTL
=============================================================================
