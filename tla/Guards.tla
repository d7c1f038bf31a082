------------------------------- MODULE Guards -------------------------------
(***************************************************************************)
(* Who is let in at the routes of the API server: GuardMiddleware, Guard,  *)
(* ImplicitUser and isValid of pkg/auth/jwt.go, AdminOnly of role.go, and  *)
(* ConsentHandler of pkg/app/auth.go, which asks for the user behind the   *)
(* claims again.                                                           *)
(*                                                                         *)
(* One user, whose row may change or go while its tokens are about.  What  *)
(* the tokens are made of is in Tokens; here is how long they open a door, *)
(* so a sign-in, a login with claims and a refresh are one step each, and  *)
(* any number of browsers and programs hold what was signed.  A request    *)
(* may carry a token in the cookie and another in the header.              *)
(***************************************************************************)
EXTENDS Naturals, FiniteSets

CONSTANTS
  Arrivals,       \* connections, each with a request or none
  AccessSpan,     \* auth.Expiration
  RefreshSpan,    \* auth.RefreshExpiration
  MaxMinute,      \* bound: time
  MaxSigned       \* bound: tokens

ASSUME GuardsAssumption ==
  AccessSpan \in Nat \ {0} /\ RefreshSpan \in Nat \ {0} /\ MaxMinute \in Nat

VARIABLES
  minute,   \* the clock
  row,      \* the roles in the user's row
  kept,     \* the refresh token in redis
  signed,   \* the tokens that were signed
  arrival,  \* the request of each connection, the last one when answered
  had       \* (history) when the row had which roles

guardsVars == <<minute, row, kept, signed, arrival, had>>

Minutes == 0 .. MaxMinute

\* Lists of roles; no row is no list.
RoleSets == {{"admin"}, {"default"}}

Gone == {"no row"}

\* auth.Claims, its audience named by the kind.  (history) Whether the roles
\* come from a refresh token, and whether a Login took them over from claims.
Pass == [kind : {"access", "refresh"}, roles : RoleSets, iat : Minutes,
         renewed : BOOLEAN, carried : BOOLEAN]

NoPass == [kind |-> "none"]

\* A header that says "Bearer" and no more.
BarePass == [kind |-> "bare"]

Routes == {"admin", "consent", "login", "old"}

GuardsTypeOK ==
  /\ minute \in Minutes /\ row \in RoleSets \cup {Gone}
  /\ kept \in Pass \cup {NoPass} /\ signed \subseteq Pass
  /\ had \subseteq Minutes \X (RoleSets \cup {Gone})
  /\ \A a \in Arrivals :
       /\ arrival[a].at \in {"new", "handler", "accept", "answered"}
       /\ arrival[a].route \in Routes /\ arrival[a].when \in Minutes
       /\ arrival[a].claims \in Pass \cup {NoPass}
       /\ arrival[a].granted \in RoleSets \cup {Gone}
       /\ arrival[a].status \in {0, 200, 400, 401, 403, 500}

GuardsInit ==
  /\ minute = 0 /\ row \in RoleSets /\ kept = NoPass /\ signed = {}
  /\ arrival = [a \in Arrivals |->
       [at |-> "new", route |-> "login", when |-> 0, claims |-> NoPass,
        granted |-> Gone, status |-> 0]]
  /\ had = {<<0, row>>}
-----------------------------------------------------------------------------
(* The user and its tokens.                                                *)

PassTick ==
  /\ minute < MaxMinute /\ minute' = minute + 1
  /\ had' = had \cup {<<minute + 1, row>>}
  /\ UNCHANGED <<row, kept, signed, arrival>>

\* userStore.Update and Delete.
SetRow(roles) ==
  /\ row # Gone /\ roles # row
  /\ row' = roles /\ had' = had \cup {<<minute, roles>>}
  /\ UNCHANGED <<minute, kept, signed, arrival>>

Access(roles, renewed, carried) ==
  [kind |-> "access", roles |-> roles, iat |-> minute, renewed |-> renewed, carried |-> carried]

SignPasses(passes) == signed' = signed \cup passes /\ Cardinality(signed') <= MaxSigned

\* responseToken: both tokens are signed, one is stored.
SignBoth(roles, carried) ==
  LET access == Access(roles, FALSE, carried)
      refresh == [access EXCEPT !.kind = "refresh"]
  IN SignPasses({access, refresh}) /\ kept' = refresh

\* Token, or Login with a password: the roles are those of the row.
SignInPass ==
  /\ row # Gone
  /\ SignBoth(row, FALSE)
  /\ UNCHANGED <<minute, row, arrival, had>>

\* Refresh: the stored token's roles are signed again, the row is not read.
RenewPass ==
  /\ kept # NoPass /\ minute < kept.iat + RefreshSpan
  /\ SignPasses({Access(kept.roles, TRUE, kept.carried)})
  /\ UNCHANGED <<minute, row, kept, arrival, had>>
-----------------------------------------------------------------------------
(* The guards.                                                             *)

\* GetToken: the cookie, if there is one, else the header.
GetToken(inCookie, inHeader) == IF inCookie # NoPass THEN inCookie ELSE inHeader

\* ParseWithClaims knows the signature and the dates.
Parses(p) ==
  p \in Pass /\ minute < p.iat + (IF p.kind = "access" THEN AccessSpan ELSE RefreshSpan)

\* (mutant: the audience is not looked at)
IsValidAnyAudience(p) == TRUE

IsValid(p) == p.kind = "access"

AdminRole(p) == "admin" \in p.roles

\* What a guard answers; 0 when the request passes.  Guard of the old site turns
\* isValid's error into one of the server.
Refusal(route, p) ==
  CASE route = "login" -> 0
    [] ~Parses(p) -> 401
    [] Parses(p) /\ ~IsValid(p) -> IF route = "old" THEN 500 ELSE 400
    [] route = "admin" /\ Parses(p) /\ IsValid(p) /\ ~AdminRole(p) -> 403
    [] OTHER -> 0

\* A request arrives and goes through the middleware.  ImplicitUser lets it pass
\* without claims; a bare header makes GetBearerToken slice past its end, and the
\* server drops the connection.
Arrive(a, route, inCookie, inHeader) ==
  /\ arrival[a].at \in {"new", "answered"}
  /\ LET p == GetToken(inCookie, inHeader)
         status == IF p = BarePass THEN 500 ELSE Refusal(route, p)
     IN arrival' = [arrival EXCEPT ![a] =
          [at |-> IF status = 0 THEN "handler" ELSE "answered", route |-> route,
           when |-> minute, granted |-> Gone, status |-> status,
           claims |-> IF status = 0 /\ Parses(p) /\ IsValid(p) THEN p ELSE NoPass]]
  /\ UNCHANGED <<minute, row, kept, signed, had>>

Answered(a, status) ==
  arrival' = [arrival EXCEPT ![a].at = "answered", ![a].status = status]

Reply(a, status) ==
  Answered(a, status) /\ UNCHANGED <<minute, row, kept, signed, had>>

\* The handlers of the admin routes and of the old page only read.
HandlerReads(a) ==
  /\ arrival[a].at = "handler" /\ arrival[a].route \in {"admin", "old"}
  /\ Reply(a, 200)

\* Login without claims and a wrong password, or with claims and no row.
LoginRefused(a) ==
  /\ arrival[a].at = "handler" /\ arrival[a].route = "login"
  /\ arrival[a].claims = NoPass \/ row = Gone
  /\ Reply(a, 401)

\* Login with claims: the row has to be there, but what is signed again, for a
\* whole new life of both tokens, are the roles of the claims.
LoginWithPass(a) ==
  /\ arrival[a].at = "handler" /\ arrival[a].route = "login"
  /\ arrival[a].claims # NoPass /\ row # Gone
  /\ SignBoth(arrival[a].claims.roles, TRUE)
  /\ Answered(a, 200)
  /\ UNCHANGED <<minute, row, had>>

\* ConsentHandler: users.Get.
ConsentGet(a) ==
  /\ arrival[a].at = "handler" /\ arrival[a].route = "consent" /\ row # Gone
  /\ arrival' = [arrival EXCEPT ![a].at = "accept", ![a].granted = row]
  /\ UNCHANGED <<minute, row, kept, signed, had>>

\* No row any more, or no challenge in the request.
ConsentRefused(a) ==
  /\ arrival[a].at = "handler" /\ arrival[a].route = "consent"
  /\ (row = Gone /\ Reply(a, 401)) \/ Reply(a, 400)

\* AcceptConsentRequest: the id token gets the roles that were read.
ConsentAccept(a) == arrival[a].at = "accept" /\ Reply(a, 200)

\* GetConsentRequest, whose status is handed on, or AcceptConsentRequest fails.
ConsentFails(a) ==
  arrival[a].at = "accept" /\ \E status \in {400, 500} : Reply(a, status)

GuardsNext ==
  \/ PassTick \/ SignInPass \/ RenewPass
  \/ \E roles \in RoleSets \cup {Gone} : SetRow(roles)
  \/ \E a \in Arrivals :
       \/ \E route \in Routes, c \in signed \cup {NoPass},
             h \in signed \cup {NoPass, BarePass} : Arrive(a, route, c, h)
       \/ HandlerReads(a) \/ LoginRefused(a) \/ LoginWithPass(a)
       \/ ConsentGet(a) \/ ConsentRefused(a)
       \/ ConsentAccept(a) \/ ConsentFails(a)

GuardsSpec == GuardsInit /\ [][GuardsNext]_guardsVars
-----------------------------------------------------------------------------
\* p was signed for a user whose row was there at t, with p's roles unless a
\* Login took them over from other claims.
SignedFor(p, t) ==
  \E roles \in RoleSets : <<t, roles>> \in had /\ (~p.carried => roles = p.roles)

\* A request is admitted for a user whose row was there not longer ago than an
\* access token lives, and if it was renewed, than a refresh token lives on top:
\* so long does a deleted user get in.  The roles are those that the row had at
\* that time, and so long does a role that was taken away open a guarded route;
\* only a user who goes on logging in on a valid token keeps roles for longer,
\* and then roles that the row had once.
AdmittedInTime ==
  \A a \in Arrivals :
    arrival[a].claims # NoPass =>
      /\ \E t \in 0 .. arrival[a].when :
           /\ SignedFor(arrival[a].claims, t)
           /\ arrival[a].when < t + AccessSpan
                                  + (IF arrival[a].claims.renewed THEN RefreshSpan ELSE 0)
      /\ \E t \in 0 .. arrival[a].when : <<t, arrival[a].claims.roles>> \in had

\* What a consent hands on are roles that the row had during its request, however
\* old the claims are; a user who is gone before it gives none.
ConsentIsCurrent ==
  \A a \in Arrivals :
    arrival[a].granted # Gone =>
      \E t \in arrival[a].when .. minute : <<t, arrival[a].granted>> \in had

\* A guarded handler runs for an admin if it is an admin's and for a user in any
\* case.
GuardsHold ==
  /\ AdmittedInTime /\ ConsentIsCurrent
  /\ \A a \in Arrivals :
       arrival[a].route # "login" /\ arrival[a].status \in {0, 200} =>
         /\ arrival[a].claims # NoPass
         /\ arrival[a].route = "admin" => "admin" \in arrival[a].claims.roles
=============================================================================
