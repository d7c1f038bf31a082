------------------------------ MODULE Sessions ------------------------------
(***************************************************************************)
(* The requests of the API server that keep state in redis: cookie         *)
(* sessions (pkg/session, pkg/app/session.go) and the page hits            *)
(* (pkg/app/api.go).                                                       *)
(*                                                                         *)
(* Every request passes CollectSession: the session its cookie names is    *)
(* read before the handler, counted and written back after it, and nothing *)
(* in between keeps other requests with the cookie away.  The handlers are *)
(* GET /session, which reads the session again or makes a new one, and     *)
(* GET /api/hits, which increments a counter in redis and, the first time, *)
(* sets it to what a query of postgres counts; the other handlers have no  *)
(* part here but pass CollectSession too.  A call to redis or postgres is  *)
(* a step, and fails when the store is away or the browser has gone.       *)
(***************************************************************************)
EXTENDS Integers, FiniteSets

CONSTANTS
  Requests,    \* requests at the same time
  Browsers,
  Ids,         \* the random ids that sessions get
  None,        \* no cookie, no session, no key in redis
  MaxRows,     \* rows of the request log
  MaxServed,   \* requests with the cookie of a session (bound)
  MaxCount     \* the counter of the page (bound)

ASSUME BoundsAssumption == {MaxRows, MaxServed, MaxCount} \subseteq Nat

ASSUME NoneAssumption == None \notin Ids /\ None \notin Browsers /\ None \notin Int

VARIABLES
  req,       \* the requests that are served
  jar,       \* the cookie of a browser
  store,     \* redis: the hits of a session
  fresh,     \* ids not made yet
  gone,      \* (history) sessions that expired
  served,    \* (history) requests that found their session
  exact,     \* (history) of them, none met another one or a failure
  page,      \* redis: the counter of the page, and whether it expires
  rows,      \* postgres: the rows of the page
  torn       \* (history) the counter was made by an INCR that nobody sets it after

Kinds == {"session", "hits", "other"}

sessionVars == <<jar, store, fresh, gone, served, exact>>
pageVars    == <<page, rows, torn>>

Free    == [at |-> "free", of |-> None, cookie |-> None, kind |-> "session",
            hits |-> None, id |-> None, own |-> 0, count |-> None, first |-> FALSE]
NoPage  == [n |-> None, ttl |-> FALSE]

Request ==
  [at : {"free", "collect", "get", "save", "incr", "query", "put", "count", "answer"},
   of : Browsers \cup {None}, cookie : Ids \cup {None}, kind : Kinds,
   hits : Nat \cup {None}, id : Ids \cup {None}, own : Nat,
   count : Nat \cup {None}, first : BOOLEAN]

SessionsTypeOK ==
  /\ req \in [Requests -> Request]
  /\ jar \in [Browsers -> Ids \cup {None}]
  /\ store \in [Ids -> Nat \cup {None}]
  /\ fresh \in SUBSET Ids /\ gone \in SUBSET Ids
  /\ served \in [Ids -> Nat] /\ exact \in [Ids -> BOOLEAN]
  /\ page \in [n : Nat \cup {None}, ttl : BOOLEAN]
  /\ rows \in 0..MaxRows /\ torn \in BOOLEAN

SessionsInit ==
  /\ req = [r \in Requests |-> Free]
  /\ jar = [b \in Browsers |-> None]
  /\ store = [i \in Ids |-> None] /\ fresh = Ids /\ gone = {}
  /\ served = [i \in Ids |-> 0] /\ exact = [i \in Ids |-> TRUE]
  /\ page = NoPage /\ rows \in 0..MaxRows /\ torn = FALSE
-----------------------------------------------------------------------------
\* A request is at a step; it goes on with what it found there.
At(r, at) == req[r].at = at

Goes(r, upd) == req' = [req EXCEPT ![r] = upd]

Carry(i) == {r \in Requests : req[r].at # "free" /\ req[r].cookie = i}

\* The session that a cookie names, and a session that is stored.
Get(i) == IF i = None THEN None ELSE store[i]

Stored(i, v) == [store EXCEPT ![i] = v]

Inexact(i) == exact' = IF i = None THEN exact ELSE [exact EXCEPT ![i] = FALSE]

\* The bound: a browser whose session is gone may always come.
MayCome(i) ==
  IF i = None THEN TRUE
  ELSE \/ served[i] + Cardinality(Carry(i)) < MaxServed
       \/ store[i] = None /\ Carry(i) = {}

\* Requests that have to make a session.
NeedId == {r \in Requests : /\ req[r].kind = "session" /\ req[r].cookie = None
                            /\ req[r].at \in {"collect", "get"}}

\* A request comes with the cookie that the browser has now.
Begin(r, b, kind) ==
  /\ At(r, "free")
  /\ LET i == jar[b]
     IN /\ MayCome(i)
        /\ kind = "session" /\ i = None => Cardinality(NeedId) < Cardinality(fresh)
        /\ Goes(r, [Free EXCEPT !.at = "collect", !.of = b, !.cookie = i, !.kind = kind])
        /\ IF Carry(i) # {} THEN Inexact(i) ELSE UNCHANGED exact
  /\ UNCHANGED <<jar, store, fresh, gone, served, pageVars>>

\* What a handler does next; after it the request is counted when its session
\* was found before it.
After(hits) == IF hits = None THEN "answer" ELSE "count"

Handler(kind, hits) ==
  CASE kind = "session" -> "get" [] kind = "hits" -> "incr" [] OTHER -> After(hits)

\* CollectSession reads the session of the cookie.  Without one the handler
\* runs and nothing is counted.
Collect(r) ==
  /\ At(r, "collect")
  /\ LET i    == req[r].cookie
         hits == Get(i)
     IN /\ Goes(r, [req[r] EXCEPT !.at = Handler(req[r].kind, hits), !.hits = hits])
        /\ served' = IF hits = None THEN served ELSE [served EXCEPT ![i] = @ + 1]
  /\ UNCHANGED <<jar, store, fresh, gone, exact, pageVars>>

\* Nor after a failure.
CollectFails(r) ==
  /\ At(r, "collect") /\ req[r].cookie # None
  /\ Goes(r, [req[r] EXCEPT !.at = Handler(req[r].kind, None)])
  /\ UNCHANGED <<sessionVars, pageVars>>

\* The handler of GET /session reads the session again, or makes a new one.
GetSession(r) ==
  /\ At(r, "get")
  /\ LET i == req[r].cookie
     IN \/ /\ Get(i) # None
           /\ Goes(r, [req[r] EXCEPT !.at = "save", !.id = i, !.own = Get(i)])
           /\ UNCHANGED fresh
        \/ /\ Get(i) = None
           /\ fresh # {}
           /\ LET n == CHOOSE n \in fresh : TRUE  \* random: all ids are alike
              IN /\ fresh' = fresh \ {n}
                 /\ Goes(r, [req[r] EXCEPT !.at = "save", !.id = n, !.own = 0])
  /\ UNCHANGED <<jar, store, gone, served, exact, pageVars>>

GetFails(r) ==
  /\ At(r, "get") /\ req[r].cookie # None
  /\ Goes(r, [req[r] EXCEPT !.at = After(req[r].hits)])
  /\ UNCHANGED <<sessionVars, pageVars>>

\* Session.Save stores the value and then sets the cookie of the answer.
SaveSession(r) ==
  /\ At(r, "save")
  /\ store' = Stored(req[r].id, req[r].own)
  /\ Goes(r, [req[r] EXCEPT !.at = After(req[r].hits), !.own = 0])
  /\ UNCHANGED <<jar, fresh, gone, served, exact, pageVars>>

\* The value may have been stored, but the cookie is not set.
SaveFails(r) ==
  /\ At(r, "save")
  /\ store' \in {store, Stored(req[r].id, req[r].own)}
  /\ Goes(r, [req[r] EXCEPT !.at = After(req[r].hits), !.id = None, !.own = 0])
  /\ UNCHANGED <<jar, fresh, gone, served, exact, pageVars>>

\* Mutant: a copy of the value is incremented.
CountCopy(r) ==
  /\ At(r, "count")
  /\ store' = Stored(req[r].cookie, req[r].hits)
  /\ Goes(r, [req[r] EXCEPT !.at = "answer", !.hits = None])
  /\ UNCHANGED <<jar, fresh, gone, served, exact, pageVars>>

\* CollectSession counts the request and saves what it read before the
\* handler.  (The headers of the answer are gone: its cookie is not set.)
Count(r) ==
  /\ At(r, "count")
  /\ store' = Stored(req[r].cookie, req[r].hits + 1)
  /\ Goes(r, [req[r] EXCEPT !.at = "answer", !.hits = None])
  /\ UNCHANGED <<jar, fresh, gone, served, exact, pageVars>>

\* A failure is logged; the request may have been counted or not.
CountFails(r) ==
  /\ At(r, "count")
  /\ store' \in {store, Stored(req[r].cookie, req[r].hits + 1)}
  /\ Goes(r, [req[r] EXCEPT !.at = "answer", !.hits = None])
  /\ Inexact(req[r].cookie)
  /\ UNCHANGED <<jar, fresh, gone, served, pageVars>>

\* Redis drops a session that was not saved for a year.
Expire(i) ==
  /\ store[i] # None
  /\ store' = [store EXCEPT ![i] = None] /\ gone' = gone \cup {i}
  /\ Inexact(i)
  /\ UNCHANGED <<req, jar, fresh, served, pageVars>>
-----------------------------------------------------------------------------
\* GET /api/hits increments the counter; at 1 the counter is not yet set.
Incremented == [page EXCEPT !.n = IF @ = None THEN 1 ELSE @ + 1]

Incr(r) ==
  /\ At(r, "incr")
  /\ Incremented.n <= MaxCount
  /\ page' = Incremented
  /\ Goes(r, IF page'.n = 1 THEN [req[r] EXCEPT !.at = "query", !.first = page.n = None]
                            ELSE [req[r] EXCEPT !.at = After(req[r].hits)])
  /\ UNCHANGED <<sessionVars, rows, torn>>

\* An INCR whose answer is lost is sent again by the client, and the request
\* does not learn that the counter was its own: the second answer is 2.
IncrAgain(r) ==
  /\ At(r, "incr")
  /\ Incremented.n <= MaxCount
  /\ page' = Incremented
  /\ torn' = (torn \/ page.n = None)
  /\ UNCHANGED <<req, sessionVars, rows>>

\* A failure, after which the counter is set as well.
IncrFails(r) ==
  /\ At(r, "incr")
  /\ \/ /\ Goes(r, [req[r] EXCEPT !.at = "query"])
        /\ UNCHANGED page
     \/ /\ Incremented.n <= MaxCount
        /\ page' = Incremented
        /\ Goes(r, [req[r] EXCEPT !.at = "query", !.first = page.n = None])
  /\ UNCHANGED <<sessionVars, rows, torn>>

\* The rows of the page are counted in postgres ...
Query(r) ==
  /\ At(r, "query")
  /\ Goes(r, [req[r] EXCEPT !.at = "put", !.count = rows])
  /\ UNCHANGED <<sessionVars, pageVars>>

QueryFails(r) ==
  /\ At(r, "query")
  /\ Goes(r, [req[r] EXCEPT !.at = After(req[r].hits), !.count = None, !.first = FALSE])
  /\ torn' = (torn \/ req[r].first)
  /\ UNCHANGED <<sessionVars, page, rows>>

\* Mutant: the counter is set without an expiration.
PutForever(r) ==
  /\ At(r, "put")
  /\ page' = [page EXCEPT !.n = req[r].count] /\ torn' = FALSE
  /\ Goes(r, [req[r] EXCEPT !.at = After(req[r].hits), !.count = None, !.first = FALSE])
  /\ UNCHANGED <<sessionVars, rows>>

\* ... and the counter is set to them, for an hour.
Put(r) ==
  /\ At(r, "put")
  /\ page' = [n |-> req[r].count, ttl |-> TRUE] /\ torn' = FALSE
  /\ Goes(r, [req[r] EXCEPT !.at = After(req[r].hits), !.count = None, !.first = FALSE])
  /\ UNCHANGED <<sessionVars, rows>>

PutFails(r) ==
  /\ At(r, "put")
  /\ Goes(r, [req[r] EXCEPT !.at = After(req[r].hits), !.count = None, !.first = FALSE])
  /\ torn' = (torn \/ req[r].first)
  /\ UNCHANGED <<sessionVars, page, rows>>

\* The hour is over.
PageExpires ==
  /\ page.ttl
  /\ page' = NoPage
  /\ UNCHANGED <<req, sessionVars, rows, torn>>

\* The log gets a row of the page.
Logged ==
  /\ rows < MaxRows
  /\ rows' = rows + 1
  /\ UNCHANGED <<req, sessionVars, page, torn>>
-----------------------------------------------------------------------------
\* The answer reaches the browser, or does not.
Answer(r) ==
  /\ At(r, "answer")
  /\ Goes(r, Free)
  /\ jar' = IF req[r].id = None THEN jar ELSE [jar EXCEPT ![req[r].of] = req[r].id]
  /\ UNCHANGED <<store, fresh, gone, served, exact, pageVars>>

AnswerLost(r) ==
  /\ At(r, "answer")
  /\ Goes(r, Free)
  /\ UNCHANGED <<sessionVars, pageVars>>

\* The process dies, and every request with it.
Dropped ==
  /\ req' = [r \in Requests |-> Free]
  /\ exact' = [i \in Ids |-> exact[i] /\ Carry(i) = {}]
  /\ torn' = (torn \/ \E r \in Requests : req[r].first)
  /\ UNCHANGED <<jar, store, fresh, gone, served, page, rows>>

\* Calls to redis, to postgres, and calls that fail.
Redis(r) ==
  \/ Collect(r) \/ GetSession(r) \/ SaveSession(r) \/ Count(r)
  \/ Incr(r) \/ IncrAgain(r) \/ Put(r)

Failing(r) ==
  \/ CollectFails(r) \/ GetFails(r) \/ SaveFails(r) \/ CountFails(r)
  \/ IncrFails(r) \/ QueryFails(r) \/ PutFails(r)
-----------------------------------------------------------------------------
\* No session counts more requests than came with its cookie and found it.
NeverOvercounted == \A i \in Ids : store[i] # None => store[i] <= served[i]

\* Every one of them is counted, unless two came at the same time, one failed
\* or the session expired.
QuietCountIsExact ==
  \A i \in Ids : exact[i] /\ Carry(i) = {} /\ store[i] # None => store[i] = served[i]

\* The cookie of a browser names a session that was stored and may only have
\* expired.
CookieKnown == \A b \in Browsers : jar[b] # None => store[jar[b]] # None \/ jar[b] \in gone

\* A counter that does not expire is about to be set, or the request that
\* made it failed or had its INCR sent twice: requests that only overlap leave
\* none behind.
CounterExpires ==
  page.n # None /\ ~page.ttl /\ ~torn => \E r \in Requests : req[r].first
=============================================================================
