------------------------------- MODULE Invites -------------------------------
(***************************************************************************)
(* Invitations to the site: the redis-backed session store of              *)
(* pkg/invite/invite.go and the HTTP handlers of pkg/app/invite.go that    *)
(* use it.                                                                 *)
(*                                                                         *)
(* Every handler is a goroutine of the HTTP server.  It talks to redis one *)
(* command at a time and to the user table with one INSERT, so each action *)
(* below is one of those calls together with the local work around it, and *)
(* the handlers interleave between calls.  A read that only produces an    *)
(* answer (the Accept page, a 403, a 404) changes nothing and is left out. *)
(*                                                                         *)
(* A command may be carried out although its answer is lost.  The client   *)
(* library sends it again, up to a limit, and the request ends with an     *)
(* error if no answer ever comes: the ...Unanswered actions.               *)
(*                                                                         *)
(* Time is abstracted to one event per invite, TimeOut: the instant of     *)
(* Session.ExpiresAt, at which redis drops the key if the key still        *)
(* carries the expiry it was created with.                                 *)
(***************************************************************************)
EXTENDS Integers

CONSTANTS
  Ids,          \* invite ids; 256 random bits, so an id is never reused
  Handlers,     \* goroutines serving requests
  Users,        \* accounts whose claims may reach the authenticated handlers
  Admins,       \* the users whose claims hold RoleAdmin
  Emails,       \* addresses a login or an invite may name
  Roles,        \* roles an admin may attach to an invite
  RequestTTLs,  \* values of CreateInviteRequest.TTL; 0 when left out
  DefaultTTL,   \* defaultInviteTTL
  None,         \* redis.Nil, the empty Email, a local variable not yet set
  MaxAttempts   \* bound on the sign-up attempts charged to one invite

Person == Users \cup Emails
OptEmail == Emails \cup {None}

\* invite.Session.  ExpiresAt is the event TimeOut; ID is metadata of List.
Session == [by : Users, ttl : Int, email : OptEmail, roles : SUBSET Roles]

\* CreateInviteRequest without Timeout, which only positions TimeOut.
Request == [ttl : RequestTTLs, email : OptEmail, roles : SUBSET Roles]

ASSUME ConstantsAssumption ==
  /\ Admins \subseteq Users
  /\ RequestTTLs \subseteq Int
  /\ DefaultTTL \in Nat \ {0}
  /\ MaxAttempts \in Nat

ASSUME NoneAssumption ==
  /\ None \notin Ids
  /\ None \notin Users
  /\ None \notin Emails
  /\ None \notin Session

VARIABLES
  store,     \* redis: invite id -> session
  armed,     \* invites whose redis key carries an expiry
  timedOut,  \* invites whose ExpiresAt is in the past
  issued,    \* the session each Create wrote (history)
  knows,     \* who was handed the link of each invite
  attempts,  \* sign-up attempts charged and let through, per invite (history)
  doubtful,  \* ... charged, but with no answer of redis (yet) (history)
  accounts,  \* rows of the user table created through invites
  pc,        \* what each handler does next
  on,        \* the invite it works on
  who,       \* the claims of its request
  copy,      \* its local session
  keys       \* the reply to its KEYS command

storeVars   == <<store, armed>>
historyVars == <<timedOut, issued, knows, attempts, doubtful, accounts>>
localVars   == <<on, who, copy, keys>>
vars == <<store, armed, timedOut, issued, knows, attempts, doubtful, accounts, pc, on, who, copy, keys>>

Account == [email : Emails, roles : SUBSET Roles, via : Ids]

PC == {"idle", "mail", "spent", "put", "reput", "register", "cleanup", "ownerDel", "mget"}

TypeOK ==
  /\ store \in [Ids -> Session \cup {None}]
  /\ armed \subseteq Ids
  /\ timedOut \subseteq Ids
  /\ issued \in [Ids -> Session \cup {None}]
  /\ knows \in [Ids -> SUBSET Person]
  /\ attempts \in [Ids -> Nat]
  /\ doubtful \in [Ids -> Int]
  /\ accounts \subseteq Account
  /\ pc \in [Handlers -> PC]
  /\ on \in [Handlers -> Ids \cup {None}]
  /\ who \in [Handlers -> Users \cup {None}]
  /\ copy \in [Handlers -> Session \cup {None}]
  /\ keys \in [Handlers -> SUBSET Ids]

Init ==
  /\ store = [i \in Ids |-> None]
  /\ armed = {}
  /\ timedOut = {}
  /\ issued = [i \in Ids |-> None]
  /\ knows = [i \in Ids |-> {}]
  /\ attempts = [i \in Ids |-> 0]
  /\ doubtful = [i \in Ids |-> 0]
  /\ accounts = {}
  /\ pc = [h \in Handlers |-> "idle"]
  /\ on = [h \in Handlers |-> None]
  /\ who = [h \in Handlers |-> None]
  /\ copy = [h \in Handlers |-> None]
  /\ keys = [h \in Handlers |-> {}]
-----------------------------------------------------------------------------
(* The redis commands of SessionStore.                                     *)

Live(i) == store[i] # None

\* put: SET with KEEPTTL.  A key that is gone comes back without an expiry.
Put(i, s) ==
  /\ store' = [store EXCEPT ![i] = s]
  /\ UNCHANGED armed

\* DEL, which also forgets the expiry.
Del(i) ==
  /\ store' = [store EXCEPT ![i] = None]
  /\ armed' = armed \ {i}

Goto(h, label) == pc' = [pc EXCEPT ![h] = label]

\* The request is answered; the goroutine's variables are gone.
Return(h) ==
  /\ Goto(h, "idle")
  /\ on' = [on EXCEPT ![h] = None]
  /\ who' = [who EXCEPT ![h] = None]
  /\ copy' = [copy EXCEPT ![h] = None]
  /\ keys' = [keys EXCEPT ![h] = {}]
-----------------------------------------------------------------------------
(* Create.                                                                 *)

IsAdmin(u) == u \in Admins

\* (mutant: the roles of the request are not checked)
MayCreateAnyRoles(u, p) == IsAdmin(u) \/ p.ttl = 0

\* Only an admin may choose the TTL, the timeout or the roles.
MayCreate(u, p) == IsAdmin(u) \/ (p.ttl = 0 /\ p.roles = {})

NewSession(u, p) ==
  [by |-> u, ttl |-> IF p.ttl = 0 THEN DefaultTTL ELSE p.ttl,
   email |-> p.email, roles |-> p.roles]

\* SET with the timeout, under a fresh id.
Create(h, u, i, p) ==
  /\ pc[h] = "idle"
  /\ issued[i] = None
  /\ MayCreate(u, p)
  /\ store' = [store EXCEPT ![i] = NewSession(u, p)]
  /\ armed' = armed \cup {i}
  /\ issued' = [issued EXCEPT ![i] = NewSession(u, p)]
  /\ on' = [on EXCEPT ![h] = i]
  /\ who' = [who EXCEPT ![h] = u]
  /\ Goto(h, "mail")
  /\ UNCHANGED <<timedOut, knows, attempts, doubtful, accounts, copy, keys>>

\* The answer of that SET was lost, and it is carried out a second time, within
\* seconds and so before the timeout.
CreateUnanswered(h) ==
  /\ pc[h] = "mail"
  /\ on[h] \notin timedOut
  /\ store' = [store EXCEPT ![on[h]] = issued[on[h]]]
  /\ armed' = armed \cup {on[h]}
  /\ UNCHANGED <<historyVars, pc, localVars>>

\* Who gets the link: the creator in the answer, the named address by mail.
Recipients(u, s) == {u} \cup ({s.email} \cap Emails)

\* The mail is sent, or there is none to send, and the answer is the link.
Deliver(h) ==
  /\ pc[h] = "mail"
  /\ knows' = [knows EXCEPT ![on[h]] = @ \cup Recipients(who[h], issued[on[h]])]
  /\ Return(h)
  /\ UNCHANGED <<storeVars, timedOut, issued, attempts, doubtful, accounts>>

\* The mailer fails, or no answer to the SET came: the answer is a 500 and the
\* session stays stored.
MailFails(h) ==
  /\ pc[h] = "mail"
  /\ Return(h)
  /\ UNCHANGED <<storeVars, historyVars>>
-----------------------------------------------------------------------------
(* Accept and SignUp.                                                      *)

\* A request for an invite comes from someone who was given its link, or to
\* whom the link was forwarded.
Reachable(i) == knows[i] # {}

\* (mutant: an invite without limit counts as spent)
SpentOrUnlimited(s) == s.ttl <= 0

Spent(s) == s.ttl = 0

\* (mutant: the TTL of an invite without limit is decremented too)
ChargedAlways(s) == [s EXCEPT !.ttl = @ - 1]

\* The session after one more attempt; a negative TTL means no limit.
Charged(s) == IF s.ttl > 0 THEN [s EXCEPT !.ttl = @ - 1] ELSE s

\* View, called by Accept and through Get by SignUp, finds no attempt left.
FindSpent(h, i) ==
  /\ pc[h] = "idle"
  /\ Reachable(i)
  /\ Live(i)
  /\ Spent(store[i])
  /\ on' = [on EXCEPT ![h] = i]
  /\ Goto(h, "spent")
  /\ UNCHANGED <<storeVars, historyVars, who, copy, keys>>

\* ... and deletes the invite before refusing the request with ErrInviteTTL;
\* a failing DEL is logged.
Refuse(h) ==
  /\ pc[h] = "spent"
  /\ Del(on[h]) \/ UNCHANGED storeVars
  /\ Return(h)
  /\ UNCHANGED historyVars

\* SignUp: Get reads the session and charges its copy, which has to be
\* written back when that changed it.
SignUp(h, i) ==
  /\ pc[h] = "idle"
  /\ Reachable(i)
  /\ Live(i)
  /\ ~Spent(store[i])
  /\ copy' = [copy EXCEPT ![h] = Charged(store[i])]
  /\ Goto(h, IF store[i].ttl > 0 THEN "put" ELSE "register")
  /\ on' = [on EXCEPT ![h] = i]
  /\ UNCHANGED <<storeVars, historyVars, who, keys>>

Bounded(i) == attempts[i] + doubtful[i] < MaxAttempts

\* Get writes its copy back, which charges the attempt; a SET that is sent
\* again writes what it wrote before.
PutBack(h) ==
  /\ pc[h] \in {"put", "reput"}
  /\ Put(on[h], copy[h])
  /\ \/ pc[h] = "put" /\ Bounded(on[h]) /\ UNCHANGED doubtful
     \/ pc[h] = "reput" /\ doubtful' = [doubtful EXCEPT ![on[h]] = @ - 1]
  /\ attempts' = [attempts EXCEPT ![on[h]] = @ + 1]
  /\ Goto(h, "register")
  /\ UNCHANGED <<timedOut, issued, knows, accounts, localVars>>

\* The SET is carried out and its answer lost.
PutUnanswered(h) ==
  /\ pc[h] \in {"put", "reput"}
  /\ Put(on[h], copy[h])
  /\ \/ /\ pc[h] = "put" /\ Bounded(on[h])
        /\ doubtful' = [doubtful EXCEPT ![on[h]] = @ + 1]
     \/ pc[h] = "reput" /\ UNCHANGED doubtful
  /\ Goto(h, "reput")
  /\ UNCHANGED <<timedOut, issued, knows, attempts, accounts, localVars>>

\* The SET fails or stays unanswered, the login is malformed or empty, its
\* address is not the invite's, or the INSERT fails: the request ends with an
\* error.
GiveUp(h) ==
  /\ pc[h] \in {"put", "reput", "register"}
  /\ Return(h)
  /\ UNCHANGED <<storeVars, historyVars>>

EmailFree(e) == \A a \in accounts : a.email # e

\* users.Create, one INSERT under the unique_email constraint.
Register(h, e) ==
  /\ pc[h] = "register"
  /\ copy[h].email \in {None, e}
  /\ EmailFree(e)
  /\ accounts' = accounts \cup {[email |-> e, roles |-> copy[h].roles, via |-> on[h]]}
  /\ Goto(h, "cleanup")
  /\ UNCHANGED <<storeVars, timedOut, issued, knows, attempts, doubtful, localVars>>

\* Destroy the invite after a success; a failing DEL is only logged.
Cleanup(h) ==
  /\ pc[h] = "cleanup"
  /\ Del(on[h]) \/ UNCHANGED storeVars
  /\ Return(h)
  /\ UNCHANGED historyVars
-----------------------------------------------------------------------------
(* Delete and List.                                                        *)

\* (mutant: anyone with an account may delete)
OwnsAny(u, i) == u \in Users

Owns(u, i) == store[i].by = u

\* OwnerDel: GET the session and compare its creator with the claims ...
Delete(h, u, i) ==
  /\ pc[h] = "idle"
  /\ Reachable(i)
  /\ Live(i)
  /\ Owns(u, i)
  /\ on' = [on EXCEPT ![h] = i]
  /\ who' = [who EXCEPT ![h] = u]
  /\ Goto(h, "ownerDel")
  /\ UNCHANGED <<storeVars, historyVars, copy, keys>>

\* ... then DEL it, or answer 500 when redis fails.
OwnerDel(h) ==
  /\ pc[h] = "ownerDel"
  /\ Del(on[h]) \/ UNCHANGED storeVars
  /\ Return(h)
  /\ UNCHANGED historyVars

\* The answer of a DEL, of whatever handler, is lost: it is sent again.
DelUnanswered(h) ==
  /\ pc[h] \in {"spent", "cleanup", "ownerDel"}
  /\ Del(on[h])
  /\ UNCHANGED <<historyVars, pc, localVars>>

\* List: KEYS ...
List(h, u) ==
  /\ pc[h] = "idle"
  /\ \E i \in Ids : Live(i)
  /\ keys' = [keys EXCEPT ![h] = {i \in Ids : Live(i)}]
  /\ who' = [who EXCEPT ![h] = u]
  /\ Goto(h, "mget")
  /\ UNCHANGED <<storeVars, historyVars, on, copy>>

\* The sessions List puts in its answer to user u.
Visible(u, i) == IsAdmin(u) \/ Owns(u, i)

\* ... then MGET, and the links of the visible sessions are the answer.
MGet(h) ==
  /\ pc[h] = "mget"
  /\ \A i \in keys[h] : Live(i)
  /\ knows' = [i \in Ids |-> IF i \in keys[h] /\ Visible(who[h], i)
                               THEN knows[i] \cup {who[h]} ELSE knows[i]]
  /\ Return(h)
  /\ UNCHANGED <<storeVars, timedOut, issued, attempts, doubtful, accounts>>

\* A key that went away after KEYS is a nil in the reply to MGET: the type
\* assertion panics and the request dies without an answer.
ListPanics(h) ==
  /\ pc[h] = "mget"
  /\ \E i \in keys[h] : ~Live(i)
  /\ Return(h)
  /\ UNCHANGED <<storeVars, historyVars>>
-----------------------------------------------------------------------------
\* The clock passes ExpiresAt of invite i.
TimeOut(i) ==
  /\ issued[i] # None
  /\ i \notin timedOut
  /\ timedOut' = timedOut \cup {i}
  /\ store' = IF i \in armed THEN [store EXCEPT ![i] = None] ELSE store
  /\ armed' = armed \ {i}
  /\ UNCHANGED <<issued, knows, attempts, doubtful, accounts, pc, localVars>>

Handle(h) ==
  \/ \E u \in Users, i \in Ids, p \in Request : Create(h, u, i, p)
  \/ CreateUnanswered(h)
  \/ Deliver(h)
  \/ MailFails(h)
  \/ \E i \in Ids : FindSpent(h, i) \/ SignUp(h, i)
  \/ Refuse(h)
  \/ PutBack(h)
  \/ PutUnanswered(h)
  \/ GiveUp(h)
  \/ \E e \in Emails : Register(h, e)
  \/ Cleanup(h)
  \/ \E u \in Users, i \in Ids : Delete(h, u, i)
  \/ OwnerDel(h)
  \/ DelUnanswered(h)
  \/ \E u \in Users : List(h, u)
  \/ MGet(h)
  \/ ListPanics(h)

Next ==
  \/ \E h \in Handlers : Handle(h)
  \/ \E i \in Ids : TimeOut(i)

Spec == Init /\ [][Next]_vars
-----------------------------------------------------------------------------
(* Properties.                                                             *)

Unlimited(i) == issued[i].ttl < 0

\* A session grants no more than what Create wrote: whatever the interleaving
\* of the read-modify-write in Get, only the TTL ever differs, it never grows
\* past the granted one, and an invite without limit never acquires one.
Within(s, i) ==
  /\ issued[i] # None
  /\ <<s.by, s.email, s.roles>> = <<issued[i].by, issued[i].email, issued[i].roles>>
  /\ IF Unlimited(i) THEN s.ttl = issued[i].ttl ELSE s.ttl \in 0..issued[i].ttl

\* Every stored session grants no more than the invite that was issued, and
\* neither does the copy a handler is about to act on.
GrantsAsIssued ==
  /\ \A i \in Ids : Live(i) => Within(store[i], i)
  /\ \A h \in Handlers : copy[h] # None => Within(copy[h], on[h])

\* What was charged to an invite: the attempts let through, and those whose SET
\* was carried out without an answer, which are refused in the end.
Charges(i) == attempts[i] + doubtful[i]

\* No attempt is lost: an invite is refused as spent (ErrInviteTTL) only after
\* as many sign-up attempts as its TTL granted were let through, or charged by a
\* SET whose answer was lost, even when concurrent sign-ups overwrite each
\* other's count and redis is sent the same command several times.
NoAttemptLost ==
  \A h \in Handlers :
    pc[h] = "spent" => /\ ~Unlimited(on[h])
                       /\ Charges(on[h]) >= issued[on[h]].ttl

\* Every account made through an invite has that invite's roles and, if it
\* names an address, that address; a role beyond the default one comes only
\* from an invite of an admin; an invite that names an address makes at most
\* one account, although Cleanup comes after the INSERT and may fail.
AccountsJustified ==
  /\ \A a \in accounts :
       /\ issued[a.via] # None
       /\ a.roles = issued[a.via].roles
       /\ issued[a.via].email \in {None, a.email}
       /\ a.roles # {} => IsAdmin(issued[a.via].by)
  /\ \A a, b \in accounts :
       a.via = b.via /\ issued[a.via].email # None => a = b

\* The link of an invite is handed only to its creator, to the address it
\* names and to admins, although List reads all sessions.
LinksKept ==
  \A i \in Ids : knows[i] # {} =>
    issued[i] # None /\ knows[i] \subseteq {issued[i].by, issued[i].email} \cup Admins

Disappears(i) == Live(i) /\ store'[i] = None

RemovalAllowed(i) ==
  \/ i \in timedOut'
  \/ ~Unlimited(i) /\ Charges(i) >= issued[i].ttl
  \/ \E a \in accounts : a.via = i
  \/ \E h \in Handlers : pc[h] = "ownerDel" /\ on[h] = i /\ who[h] = issued[i].by

\* A live invite disappears only because its time is over, its attempts are
\* used up, an account was made from it, or its creator deletes it.
RemovalJustified == [][\A i \in Ids : Disappears(i) => RemovalAllowed(i)]_vars

\* "TTL is the number of sign-up attempts before destroying the session."
AttemptsWithinTTL ==
  \A i \in Ids : issued[i] # None /\ ~Unlimited(i) => attempts[i] <= issued[i].ttl

\* "ExpiresAt is the timestamp [...] at which the session expires": past it,
\* and with no request under way on the invite, the session is gone.
ExpiredIsGone ==
  \A i \in timedOut : Live(i) => \E h \in Handlers : on[h] = i
=============================================================================
