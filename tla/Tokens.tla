-------------------------------- MODULE Tokens --------------------------------
(***************************************************************************)
(* The tokens of one user: the handlers of TokenService in pkg/app/auth.go *)
(* over the redis token store of pkg/auth/token_store.go, and the browsers *)
(* that hold the tokens (frontend/legacy/api/auth.ts).  The store has one  *)
(* key per user and no handler touches another user's, so one user is all  *)
(* there is to it.                                                         *)
(*                                                                         *)
(* A handler is a goroutine; each action below is one call it makes to     *)
(* postgres, redis or the clock together with the local work around it.  A *)
(* request that is refused changes nothing and is left out, and so is      *)
(* everything Hydra keeps.                                                 *)
(*                                                                         *)
(* Time counts seconds, the resolution of a JWT's dates.  A token is its   *)
(* claims, and the signature a function of them: two logins within one     *)
(* second give the same token.  NotBefore, which Refresh sets and Login    *)
(* copies, is left out: the model takes some tokens of one second for      *)
(* equal that the code tells apart, and so only accepts more.              *)
(***************************************************************************)
EXTENDS Naturals

CONSTANTS
  Clients,     \* browsers of the user
  Handlers,    \* goroutines serving requests
  RoleSets,    \* values of the user's column "roles"
  AccessLife,  \* auth.Expiration
  RefreshLife, \* auth.RefreshExpiration, also the timeout of the store
  MaxTime,     \* bound on the clock
  MaxLost,     \* bound on the requests that break off or lose their answer
  None         \* no token, no date, no claims

ASSUME LivesAssumption ==
  /\ AccessLife \in Nat \ {0}
  /\ RefreshLife \in Nat \ {0}
  /\ MaxTime \in Nat
  /\ MaxLost \in Nat

Time == 0..MaxTime

\* A signed auth.Claims.
Token == [roles : RoleSets, iat : Time]

ASSUME NoneAssumption == None \notin Time \cup RoleSets \cup Token

VARIABLES
  now,       \* the clock
  roles,     \* the user's row: its roles
  store,     \* redis, key rt:<id>: the refresh token and when it goes
  access,    \* the access token of each browser
  refresh,   \* the refresh token of each browser
  pc,        \* what each handler does next
  op,        \* the request it serves
  client,    \* the browser it answers
  claims,    \* the roles in its claims
  minted,    \* the access token it made
  body,      \* the refresh token it made (Token, Login) or was sent (Refresh)
  lost,      \* requests that broke off or lost their answer so far
  cut,       \* when the last quiet revocation was, unless undone (history)
  since,     \* roles the user has had since then (history)
  relogin    \* whether a password was accepted since then (history)

localVars == <<pc, op, client, claims, minted, body>>
cutVars   == <<cut, since, relogin>>
vars == <<now, roles, store, access, refresh, pc, op, client, claims, minted, body,
          lost, cut, since, relogin>>

Entry == [token : Token, till : Nat]

TypeOK ==
  /\ now \in Time
  /\ roles \in RoleSets
  /\ store \in Entry \cup {None}
  /\ access \in [Clients -> Token \cup {None}]
  /\ refresh \in [Clients -> Token \cup {None}]
  /\ pc \in [Handlers -> {"idle", "mint", "set", "remint", "del", "reply"}]
  /\ op \in [Handlers -> {"token", "login", "refresh", "revoke", None}]
  /\ client \in [Handlers -> Clients \cup {None}]
  /\ claims \in [Handlers -> RoleSets \cup {None}]
  /\ minted \in [Handlers -> Token \cup {None}]
  /\ body \in [Handlers -> Token \cup {None}]
  /\ lost \in 0..MaxLost
  /\ cut \in Time \cup {None}
  /\ since \subseteq RoleSets
  /\ relogin \in BOOLEAN

Init ==
  /\ now = 0
  /\ roles \in RoleSets
  /\ store = None
  /\ access = [c \in Clients |-> None]
  /\ refresh = [c \in Clients |-> None]
  /\ pc = [h \in Handlers |-> "idle"]
  /\ op = [h \in Handlers |-> None]
  /\ client = [h \in Handlers |-> None]
  /\ claims = [h \in Handlers |-> None]
  /\ minted = [h \in Handlers |-> None]
  /\ body = [h \in Handlers |-> None]
  /\ lost = 0
  /\ cut = None
  /\ since = {}
  /\ relogin = FALSE
-----------------------------------------------------------------------------
(* Dates and the store.                                                    *)

\* A parsed token is valid: isValid for access, ValidateRefreshToken for
\* refresh tokens.
Valid(t, life) == t # None /\ now < t.iat + life

Stored == store # None

\* (mutants: a valid signature is enough; any stored token of the user will do)
MatchesSigned(t) == TRUE
MatchesAny(t) == Stored

\* Get and the comparison that follows it.
Matches(t) == Stored /\ store.token = t

\* newAccessToken and initRefreshToken read the clock in the same second.
Signed(rs) == [roles |-> rs, iat |-> now]

Set(t) == store' = [token |-> t, till |-> now + RefreshLife]

Goto(h, label) == pc' = [pc EXCEPT ![h] = label]

\* The request is over; the goroutine's variables are gone.
Return(h) ==
  /\ Goto(h, "idle")
  /\ op' = [op EXCEPT ![h] = None]
  /\ client' = [client EXCEPT ![h] = None]
  /\ claims' = [claims EXCEPT ![h] = None]
  /\ minted' = [minted EXCEPT ![h] = None]
  /\ body' = [body EXCEPT ![h] = None]

Lose ==
  /\ lost < MaxLost
  /\ lost' = lost + 1
-----------------------------------------------------------------------------
(* Token and Login.                                                        *)

Begin(h, c, o, rs) ==
  /\ pc[h] = "idle"
  /\ Goto(h, "mint")
  /\ op' = [op EXCEPT ![h] = o]
  /\ client' = [client EXCEPT ![h] = c]
  /\ claims' = [claims EXCEPT ![h] = rs]
  /\ UNCHANGED <<minted, body>>

\* The password was right; the claims have the roles of the user's row.
\* Login only looks at the password when there is no valid access token.
WithPassword(h, c) ==
  /\ \/ Begin(h, c, "token", roles)
     \/ ~Valid(access[c], AccessLife) /\ Begin(h, c, "login", roles)
  /\ relogin' = TRUE
  /\ UNCHANGED <<now, roles, store, access, refresh, lost, cut, since>>

\* Login of a browser with a valid access token (ImplicitUser): its claims
\* are used again as they are.  This goes on with the old session.
WithClaims(h, c) ==
  /\ Valid(access[c], AccessLife)
  /\ Begin(h, c, "login", access[c].roles)
  /\ cut' = None
  /\ UNCHANGED <<now, roles, store, access, refresh, lost, since, relogin>>

\* NewTokenResponse.
Mint(h) ==
  /\ pc[h] = "mint"
  /\ minted' = [minted EXCEPT ![h] = Signed(claims[h])]
  /\ body' = [body EXCEPT ![h] = Signed(claims[h])]
  /\ Goto(h, "set")
  /\ UNCHANGED <<now, roles, store, access, refresh, op, client, claims, lost, cutVars>>

\* Hydra refuses the challenge.
HydraFails(h) ==
  /\ pc[h] = "mint"
  /\ Lose
  /\ Return(h)
  /\ UNCHANGED <<now, roles, store, access, refresh, cutVars>>

StoreToken(h) ==
  /\ pc[h] = "set"
  /\ Set(body[h])
  /\ Goto(h, "reply")
  /\ UNCHANGED <<now, roles, access, refresh, op, client, claims, minted, body, lost, cutVars>>

\* SET fails, or only its reply is lost.
StoreFails(h) ==
  /\ pc[h] = "set"
  /\ Lose
  /\ Set(body[h]) \/ UNCHANGED store
  /\ Return(h)
  /\ UNCHANGED <<now, roles, access, refresh, cutVars>>
-----------------------------------------------------------------------------
(* Refresh.                                                                *)

\* The token is valid and is the stored one.  An error of GET gives an empty
\* token, which is refused like any other that differs.
RefreshCheck(h, c) ==
  /\ pc[h] = "idle"
  /\ Valid(refresh[c], RefreshLife)
  /\ Matches(refresh[c])
  /\ Goto(h, "remint")
  /\ op' = [op EXCEPT ![h] = "refresh"]
  /\ client' = [client EXCEPT ![h] = c]
  /\ body' = [body EXCEPT ![h] = refresh[c]]
  /\ UNCHANGED <<now, roles, store, access, refresh, claims, minted, lost, cutVars>>

\* NewAccessToken, with the roles of the refresh token.
Remint(h) ==
  /\ pc[h] = "remint"
  /\ minted' = [minted EXCEPT ![h] = Signed(body[h].roles)]
  /\ Goto(h, "reply")
  /\ UNCHANGED <<now, roles, store, access, refresh, op, client, claims, body, lost, cutVars>>
-----------------------------------------------------------------------------
(* The answer.                                                             *)

\* Token and Refresh answer with both tokens, which storeToken keeps; Login
\* only sets the cookie.
Reply(h) ==
  /\ pc[h] = "reply"
  /\ access' = [access EXCEPT ![client[h]] = minted[h]]
  /\ refresh' = IF op[h] = "login" THEN refresh
                ELSE [refresh EXCEPT ![client[h]] = body[h]]
  /\ Return(h)
  /\ UNCHANGED <<now, roles, store, lost, cutVars>>

LoseReply(h) ==
  /\ pc[h] = "reply"
  /\ Lose
  /\ Return(h)
  /\ UNCHANGED <<now, roles, store, access, refresh, cutVars>>
-----------------------------------------------------------------------------
(* Revoke.                                                                 *)

\* A valid access token (GuardMiddleware) and the stored refresh token.  An
\* error of GET gives an empty token, which equals that of an empty body.
RevokeCheck(h, c) ==
  /\ pc[h] = "idle"
  /\ Valid(access[c], AccessLife)
  /\ \/ Matches(refresh[c]) /\ UNCHANGED lost
     \/ Lose
  /\ Goto(h, "del")
  /\ op' = [op EXCEPT ![h] = "revoke"]
  /\ client' = [client EXCEPT ![h] = c]
  /\ UNCHANGED <<now, roles, store, access, refresh, claims, minted, body, cutVars>>

Quiet(h) == \A g \in Handlers \ {h} : pc[g] = "idle"

\* DEL, whatever the key holds by now.
RevokeDel(h) ==
  /\ pc[h] = "del"
  /\ store' = None
  /\ Return(h)
  /\ IF Quiet(h)
       THEN cut' = now /\ since' = {roles} /\ relogin' = FALSE
       ELSE UNCHANGED cutVars
  /\ UNCHANGED <<now, roles, access, refresh, lost>>

RevokeFails(h) ==
  /\ pc[h] = "del"
  /\ Lose
  /\ store' \in {store, None}
  /\ Return(h)
  /\ UNCHANGED <<now, roles, access, refresh, cutVars>>
-----------------------------------------------------------------------------
(* The environment.                                                        *)

\* A second passes: redis drops the key at its time, and a browser the cookie
\* of an access token that expires.
Tick ==
  /\ now < MaxTime
  /\ now' = now + 1
  /\ store' = IF Stored /\ store.till <= now' THEN None ELSE store
  /\ access' = [c \in Clients |->
                  IF access[c] # None /\ access[c].iat + AccessLife <= now'
                    THEN None ELSE access[c]]
  /\ UNCHANGED <<roles, refresh, localVars, lost, cutVars>>

\* userStore.Update.
ChangeRoles(r) ==
  /\ r # roles
  /\ roles' = r
  /\ since' = since \cup {r}
  /\ UNCHANGED <<now, store, access, refresh, localVars, lost, cut, relogin>>

Handler(h) ==
  \/ \E c \in Clients : \/ WithPassword(h, c) \/ WithClaims(h, c)
                        \/ RefreshCheck(h, c) \/ RevokeCheck(h, c)
  \/ Mint(h) \/ HydraFails(h) \/ StoreToken(h) \/ StoreFails(h)
  \/ Remint(h) \/ Reply(h) \/ LoseReply(h)
  \/ RevokeDel(h) \/ RevokeFails(h)

Next ==
  \/ \E h \in Handlers : Handler(h)
  \/ \E r \in RoleSets : ChangeRoles(r)
  \/ Tick

Spec == Init /\ [][Next]_vars
-----------------------------------------------------------------------------
(* Properties.                                                             *)

\* The tokens somebody holds or is about to get.
Held(t) ==
  \/ \E c \in Clients : access[c] = t \/ refresh[c] = t
  \/ \E h \in Handlers : minted[h] = t \/ body[h] = t
  \/ store # None /\ store.token = t

\* A revocation with no other request of the user under way ends all of the
\* user's sessions, on every browser: until a password is accepted again (or
\* a browser goes on with its access token) no refresh token works and no
\* token is newer than the revocation.
RevocationEnds ==
  cut # None /\ ~relogin
    => /\ ~Stored
       /\ \A t \in Token : Held(t) => t.iat <= cut

\* After such a revocation every new token has roles that the user had after
\* it, however many refreshes, logins and changes of the roles follow: roles
\* taken away before it do not come back with a token that slept somewhere.
RolesRenewed ==
  cut # None => \A t \in Token : Held(t) /\ t.iat > cut => t.roles \in since

\* The store forgets a refresh token that was neither replaced nor revoked
\* only when no browser can use it any more: the key outlives the token.
FullLife == Stored => store.till >= store.token.iat + RefreshLife

\* "the client should still have the refresh token": with no request under
\* way, a browser that was given a refresh token has the one the store expects.
StillHasRefresh ==
  Stored /\ (\A h \in Handlers : pc[h] = "idle")
    => \A c \in Clients : refresh[c] \in {None, store.token}
=============================================================================
