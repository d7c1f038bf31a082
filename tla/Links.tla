------------------------------- MODULE Links -------------------------------
(***************************************************************************)
(* The link shortener: services/lnsmol's link.rs, nanoid.rs and the        *)
(* handlers of main.rs, over redis.                                        *)
(*                                                                         *)
(* A counter in redis sizes new ids.  Every worker of the server has a     *)
(* clone of one store, and with it of the store's random numbers: two      *)
(* workers draw the same characters.  Which characters a start of the      *)
(* server draws is a constant of which nothing is assumed: ids drawn at    *)
(* different times, or by different starts, may be the same.               *)
(* A worker runs its requests interleaved at the awaits; the generator is  *)
(* borrowed over one, and a second borrow panics.                          *)
(***************************************************************************)
EXTENDS Integers, Sequences, FiniteSets

CONSTANTS
  Workers,    \* worker threads
  Requests,   \* creates and deletions; a create's URL is the request's own
  Characters, \* what ids are made of
  Draws,      \* the characters a start of the server draws, in their order
  MaxTries,   \* ids tried for a link (34)
  Counts,     \* the counter at first: links that expired stay in it
  MaxBoots,   \* bound: starts of the server
  MaxDrawn,   \* bound: characters that a worker draws
  MaxFails    \* bound: failures of redis commands

ASSUME LinksAssumption ==
  /\ Draws \in [1 .. MaxBoots -> [1 .. MaxDrawn -> Characters]]
  /\ MaxTries \in Nat \ {0} /\ MaxBoots \in Nat \ {0}
  /\ MaxDrawn \in Nat /\ MaxFails \in Nat
  /\ IsFiniteSet(Requests) /\ Counts \subseteq Nat

VARIABLES
  links,      \* the keys link:*, records
  count,      \* the key meta:count
  boot,       \* starts of the server
  drawn,      \* characters a worker has drawn
  busy,       \* a worker's generator is borrowed
  req,        \* the requests
  fails,      \* failures so far
  removed     \* (history) requests whose link was deleted or expired

redisVars  == <<links, count>>
workerVars == <<drawn, busy>>
vars       == <<redisVars, boot, workerVars, req, fails, removed>>

NoId == <<>>

Ids == Seq(Characters)

Requesting ==
  [at : {"new", "incr", "draw", "set", "del", "decr", "ended"},
   worker : Workers, size : Nat, id : Ids, tries : Nat, expires : {0, 1},
   answer : {"none", "ok", "refused", "error", "no id", "deleted", "not found"}]

Linked == [id : Ids, of : Requests]

TypeOK ==
  /\ links \subseteq Linked /\ count \in Nat
  /\ boot \in 1 .. MaxBoots /\ fails \in Nat
  /\ drawn \in [Workers -> Nat] /\ busy \in [Workers -> BOOLEAN]
  /\ req \in [Requests -> Requesting]
  /\ removed \subseteq Requests

Init ==
  /\ links = {} /\ count \in Counts
  /\ boot = 1
  /\ drawn = [w \in Workers |-> 0] /\ busy = [w \in Workers |-> FALSE]
  /\ \E w \in Workers :   \* any worker
       req = [r \in Requests |->
               [at |-> "new", worker |-> w, size |-> 0, id |-> NoId, tries |-> 0,
                expires |-> 1, answer |-> "none"]]
  /\ fails = 0 /\ removed = {}
-----------------------------------------------------------------------------
\* calc_id_size(n, 1e-9): 3, or the least c with n(n-1) / -2ln(1 - 1e-9) <= 64^c.
\* (Bound: counts up to 48,000, for which it is at most 10.)
CalcIdSize(n) ==
  CASE n < 2           -> 3
    [] n = 2           -> 5
    [] n \in 3 .. 12    -> 6
    [] n \in 13 .. 94   -> 7
    [] n \in 95 .. 750  -> 8
    [] n \in 751 .. 6002 -> 9
    [] OTHER           -> 10

Taken(id) == \E l \in links : l.id = id

End(r, answer) == [req[r] EXCEPT !.at = "ended", !.answer = answer]

\* A URL that does not parse or is the server's own.
Refuse(r) ==
  /\ req[r].at = "new"
  /\ req' = [req EXCEPT ![r] = End(r, "refused")]
  /\ UNCHANGED <<redisVars, boot, workerVars, fails, removed>>

\* A link is asked for at a worker, with the seconds it lasts (1: some).  Its
\* access limit is stored with it and never looked at.
Create(r, w, expires) ==
  /\ req[r].at = "new"
  /\ req' = [req EXCEPT ![r] = [@ EXCEPT !.at = "incr", !.worker = w, !.expires = expires]]
  /\ UNCHANGED <<redisVars, boot, workerVars, fails, removed>>

\* INCR: the link is counted before it is there, and sized by that.
CountIncr(r) ==
  /\ req[r].at = "incr"
  /\ count' = count + 1
  /\ req' = [req EXCEPT ![r] = [@ EXCEPT !.at = "draw", !.size = CalcIdSize(count + 1)]]
  /\ UNCHANGED <<links, boot, workerVars, fails, removed>>

\* gen_str_id: the next characters of the worker.
NextId(w, size) == [i \in 1 .. size |-> Draws[boot][drawn[w] + i]]

CanDraw(r) == drawn[req[r].worker] + req[r].size <= MaxDrawn

\* The generator is borrowed until an id is found.  While another request of
\* the worker has it, the borrow panics, and the request has no answer.
Draw(r) ==
  LET w == req[r].worker
  IN /\ req[r].at = "draw" /\ CanDraw(r)
     /\ IF busy[w]
        THEN /\ req' = [req EXCEPT ![r] = End(r, "none")]
             /\ UNCHANGED workerVars
        ELSE /\ busy'  = [busy EXCEPT ![w] = TRUE]
             /\ drawn' = [drawn EXCEPT ![w] = @ + req[r].size]
             /\ req'   = [req EXCEPT ![r] = [@ EXCEPT !.at = "set", !.id = NextId(w, req[r].size)]]
     /\ UNCHANGED <<redisVars, boot, fails, removed>>

\* SET NX EX, of a link that would never expire: redis refuses 0 seconds.
SetRefused(r) ==
  /\ req[r].at = "set" /\ req[r].expires = 0
  /\ busy' = [busy EXCEPT ![req[r].worker] = FALSE]
  /\ req'  = [req EXCEPT ![r] = End(r, "error")]
  /\ UNCHANGED <<redisVars, boot, drawn, fails, removed>>

\* Mutant: SET without NX.
SetOver(r) ==
  /\ req[r].at = "set" /\ req[r].expires > 0
  /\ links' = {l \in links : l.id # req[r].id}
                \cup {[id |-> req[r].id, of |-> r]}
  /\ busy'  = [busy EXCEPT ![req[r].worker] = FALSE]
  /\ req'   = [req EXCEPT ![r] = End(r, "ok")]
  /\ UNCHANGED <<count, boot, drawn, fails, removed>>

\* ... of an id that is free.
Set(r) ==
  /\ req[r].at = "set" /\ req[r].expires > 0 /\ ~Taken(req[r].id)
  /\ links' = links \cup {[id |-> req[r].id, of |-> r]}
  /\ busy'  = [busy EXCEPT ![req[r].worker] = FALSE]
  /\ req'   = [req EXCEPT ![r] = End(r, "ok")]
  /\ UNCHANGED <<count, boot, drawn, fails, removed>>

\* ... of one that is taken: the next is tried, or the request given up.
Collide(r) ==
  LET w == req[r].worker
  IN /\ req[r].at = "set" /\ req[r].expires > 0 /\ Taken(req[r].id) /\ CanDraw(r)
     /\ IF req[r].tries + 1 = MaxTries
        THEN /\ busy' = [busy EXCEPT ![w] = FALSE]
             /\ req'  = [req EXCEPT ![r] = End(r, "no id")]
             /\ UNCHANGED drawn
        ELSE /\ drawn' = [drawn EXCEPT ![w] = @ + req[r].size]
             /\ req'   = [req EXCEPT ![r] = [@ EXCEPT !.tries = req[r].tries + 1, !.id = NextId(w, req[r].size)]]
             /\ UNCHANGED busy
     /\ UNCHANGED <<redisVars, boot, fails, removed>>

\* A request to delete what a create answered with.
Delete(r, s) ==
  /\ req[r].at = "new" /\ req[s].answer = "ok"
  /\ req' = [req EXCEPT ![r] = [@ EXCEPT !.at = "del", !.id = req[s].id]]
  /\ UNCHANGED <<redisVars, boot, workerVars, fails, removed>>

Drop(id) ==
  /\ links'   = {l \in links : l.id # id}
  /\ removed' = removed \cup {l.of : l \in {m \in links : m.id = id}}

\* Mutant: DECR whatever DEL says.
DelAnyway(r) ==
  /\ req[r].at = "del"
  /\ Drop(req[r].id)
  /\ req' = [req EXCEPT ![r].at = "decr"]
  /\ UNCHANGED <<count, boot, workerVars, fails>>

\* DEL, and DECR for a key that was there.
Del(r) ==
  /\ req[r].at = "del"
  /\ Drop(req[r].id)
  /\ req' = [req EXCEPT ![r] = IF Taken(req[r].id) THEN [@ EXCEPT !.at = "decr"]
                               ELSE End(r, "not found")]
  /\ UNCHANGED <<count, boot, workerVars, fails>>

CountDecr(r) ==
  /\ req[r].at = "decr"
  /\ count' = count - 1
  /\ req' = [req EXCEPT ![r] = End(r, "deleted")]
  /\ UNCHANGED <<links, boot, workerVars, fails, removed>>

\* Every link expires.
Expire(l) ==
  /\ l \in links
  /\ Drop(l.id)
  /\ UNCHANGED <<count, boot, workerVars, req, fails>>
-----------------------------------------------------------------------------
\* A command of a request fails; it may have been carried out.
Undone == links' = links /\ count' = count /\ removed' = removed

Done(r) ==
  \/ req[r].at = "incr" /\ count' = count + 1 /\ UNCHANGED <<links, removed>>
  \/ /\ req[r].at = "set" /\ req[r].expires > 0 /\ ~Taken(req[r].id)
     /\ links' = links \cup {[id |-> req[r].id, of |-> r]}
     /\ UNCHANGED <<count, removed>>
  \/ req[r].at = "del" /\ Drop(req[r].id) /\ UNCHANGED count
  \/ req[r].at = "decr" /\ count' = count - 1 /\ UNCHANGED <<links, removed>>

Fail(r) ==
  /\ fails < MaxFails
  /\ req[r].at \in {"incr", "set", "del", "decr"}
  /\ fails' = fails + 1
  /\ Undone \/ Done(r)
  /\ busy' = IF req[r].at = "set" THEN [busy EXCEPT ![req[r].worker] = FALSE] ELSE busy
  /\ req'  = [req EXCEPT ![r] = End(r, "error")]
  /\ UNCHANGED <<boot, drawn>>

\* The server is started again, with new random numbers.
Restart ==
  /\ boot < MaxBoots
  /\ boot'  = boot + 1
  /\ drawn' = [w \in Workers |-> 0] /\ busy' = [w \in Workers |-> FALSE]
  /\ req'   = [r \in Requests |-> IF req[r].at \in {"new", "ended"} THEN req[r] ELSE End(r, "none")]
  /\ UNCHANGED <<redisVars, fails, removed>>

Next ==
  \/ \E r \in Requests :
       \/ Refuse(r) \/ CountIncr(r) \/ Draw(r)
       \/ SetRefused(r) \/ Set(r) \/ Collide(r)
       \/ \E w \in Workers, e \in {0, 1} : Create(r, w, e)
       \/ \E s \in Requests : Delete(r, s)
       \/ Del(r) \/ CountDecr(r) \/ Fail(r)
  \/ \E l \in links : Expire(l)
  \/ Restart

Spec == Init /\ [][Next]_vars
-----------------------------------------------------------------------------
\* Ids are sized for at least the links there are: the counter is never below
\* them, although links are counted and removed in steps of their own.
CountCovers == Cardinality(links) <= count

\* The id that a create answered with leads to its URL, until that link is
\* deleted or expires: no other create takes it over, whichever characters the
\* workers draw.
AnswerResolves ==
  \A r \in Requests :
    req[r].answer = "ok" /\ r \notin removed =>
      \E l \in links : l.id = req[r].id /\ l.of = r /\ \A m \in links : m.id = l.id => m = l
=============================================================================
