----------------------------- MODULE TokensProofs -----------------------------
(* Proofs about Tokens, for any number of browsers and requests, any roles *)
(* and any lives of the tokens.                                            *)
EXTENDS Tokens, TLAPS

USE LivesAssumption, NoneAssumption

-----------------------------------------------------------------------------
(* Type correctness.  What a handler holds is tied to where it stands.     *)

LocalOK ==
  \A h \in Handlers :
    /\ pc[h] # "idle" => client[h] \in Clients
    /\ pc[h] = "mint" => claims[h] \in RoleSets
    /\ pc[h] \in {"set", "reply"} => minted[h] \in Token
    /\ pc[h] \in {"set", "remint", "reply"} => body[h] \in Token
    /\ pc[h] \in {"idle", "del"} => minted[h] = None /\ body[h] = None

TypeInv == TypeOK /\ LocalOK

\* Signing gives a token of this second.
LEMMA SignedType ==
  ASSUME TypeInv, NEW rs \in RoleSets
  PROVE  Signed(rs) \in Token /\ Signed(rs).iat = now /\ Signed(rs).roles = rs
BY DEF Signed, Token, TypeInv, TypeOK

\* What the store holds after a SET.
LEMMA SetType ==
  ASSUME TypeInv, NEW t \in Token, Set(t)
  PROVE  store' \in Entry /\ store'.token = t /\ store'.till = now + RefreshLife
BY DEF Set, Entry, TypeInv, TypeOK, Time

\* The type invariant holds initially.
LEMMA TypeInit == Init => TypeInv
<1> SUFFICES ASSUME Init PROVE TypeInv
  OBVIOUS
<1>1. 0 \in Time /\ 0 \in 0..MaxLost
  BY DEF Time
<1>2. TypeOK
  BY <1>1 DEF Init, TypeOK
<1>3. LocalOK
  BY DEF Init, LocalOK
<1>4. QED
  BY <1>2, <1>3 DEF TypeInv

\* Every action of a handler keeps the type invariant.
LEMMA TypeHandler ==
  ASSUME TypeInv, NEW h \in Handlers, Handler(h)
  PROVE  TypeInv'
<1> USE DEF TypeInv, TypeOK, LocalOK, Goto
<1>1. ASSUME NEW c \in Clients, WithPassword(h, c) PROVE TypeInv'
  BY <1>1 DEF WithPassword, Begin
<1>2. ASSUME NEW c \in Clients, WithClaims(h, c) PROVE TypeInv'
  <2>1. access[c].roles \in RoleSets
    BY <1>2 DEF WithClaims, Valid, Token
  <2>2. QED
    BY <1>2, <2>1 DEF WithClaims, Begin
<1>3. ASSUME NEW c \in Clients, RefreshCheck(h, c) PROVE TypeInv'
  BY <1>3 DEF RefreshCheck, Valid, cutVars
<1>4. ASSUME NEW c \in Clients, RevokeCheck(h, c) PROVE TypeInv'
  BY <1>4 DEF RevokeCheck, Lose, cutVars
<1>5. CASE Mint(h)
  <2>1. Signed(claims[h]) \in Token
    BY <1>5, SignedType DEF Mint
  <2>2. QED
    BY <1>5, <2>1 DEF Mint, cutVars
<1>6. CASE HydraFails(h)
  BY <1>6 DEF HydraFails, Return, Lose, cutVars
<1>7. CASE StoreToken(h)
  <2>1. store' \in Entry
    BY <1>7, SetType DEF StoreToken
  <2>2. QED
    BY <1>7, <2>1 DEF StoreToken, cutVars
<1>8. CASE StoreFails(h)
  <2>1. store' \in Entry \cup {None}
    BY <1>8, SetType DEF StoreFails
  <2>2. QED
    BY <1>8, <2>1 DEF StoreFails, Return, Lose, cutVars
<1>9. CASE Remint(h)
  <2>1. Signed(body[h].roles) \in Token
    BY <1>9, SignedType DEF Remint, Token
  <2>2. QED
    BY <1>9, <2>1 DEF Remint, cutVars
<1>10. CASE Reply(h)
  BY <1>10 DEF Reply, Return, cutVars
<1>11. CASE LoseReply(h)
  BY <1>11 DEF LoseReply, Return, Lose, cutVars
<1>12. CASE RevokeDel(h)
  BY <1>12 DEF RevokeDel, Return, cutVars
<1>13. CASE RevokeFails(h)
  BY <1>13 DEF RevokeFails, Return, Lose, cutVars
<1>14. QED
  BY <1>1, <1>2, <1>3, <1>4, <1>5, <1>6, <1>7, <1>8, <1>9, <1>10, <1>11, <1>12,
     <1>13 DEF Handler

\* Every step keeps the type invariant.
LEMMA TypeNext == TypeInv /\ [Next]_vars => TypeInv'
<1> SUFFICES ASSUME TypeInv, [Next]_vars PROVE TypeInv'
  OBVIOUS
<1>1. ASSUME NEW h \in Handlers, Handler(h) PROVE TypeInv'
  BY <1>1, TypeHandler
<1>2. ASSUME NEW r \in RoleSets, ChangeRoles(r) PROVE TypeInv'
  BY <1>2 DEF ChangeRoles, TypeInv, TypeOK, LocalOK, localVars
<1>3. CASE Tick
  BY <1>3 DEF Tick, TypeInv, TypeOK, LocalOK, localVars, cutVars, Time
<1>4. CASE UNCHANGED vars
  BY <1>4 DEF vars, TypeInv, TypeOK, LocalOK
<1>5. QED
  BY <1>1, <1>2, <1>3, <1>4 DEF Next

\* Type correctness of the token service.
THEOREM TypeCorrect == Spec => []TypeOK
<1>1. TypeInv => TypeOK
  BY DEF TypeInv
<1>2. QED
  BY <1>1, TypeInit, TypeNext, PTL DEF Spec
-----------------------------------------------------------------------------
(* Where tokens come from.                                                 *)

\* The token that a handler signs next.
Signs(h, t) ==
  \/ pc[h] = "mint" /\ t = Signed(claims[h])
  \/ pc[h] = "remint" /\ t = Signed(body[h].roles)

\* A handler passes on tokens that somebody holds, or signs a new one.
LEMMA HeldHandler ==
  ASSUME TypeInv, NEW h \in Handlers, Handler(h), NEW t \in Token, Held(t)'
  PROVE  Held(t) \/ Signs(h, t)
<1> USE DEF TypeInv, TypeOK, LocalOK, Goto, Held
<1>1. ASSUME NEW c \in Clients, WithPassword(h, c) PROVE Held(t)
  BY <1>1 DEF WithPassword, Begin
<1>2. ASSUME NEW c \in Clients, WithClaims(h, c) PROVE Held(t)
  BY <1>2 DEF WithClaims, Begin
<1>3. ASSUME NEW c \in Clients, RefreshCheck(h, c) PROVE Held(t)
  BY <1>3 DEF RefreshCheck
<1>4. ASSUME NEW c \in Clients, RevokeCheck(h, c) PROVE Held(t)
  BY <1>4 DEF RevokeCheck
<1>5. CASE Mint(h)
  BY <1>5 DEF Mint, Signs
<1>6. CASE HydraFails(h)
  BY <1>6 DEF HydraFails, Return
<1>7. CASE StoreToken(h)
  <2>1. store'.token = body[h]
    BY <1>7, SetType DEF StoreToken
  <2>2. QED
    BY <1>7, <2>1 DEF StoreToken
<1>8. CASE StoreFails(h)
  <2>1. store' = store \/ store'.token = body[h]
    BY <1>8, SetType DEF StoreFails
  <2>2. QED
    BY <1>8, <2>1 DEF StoreFails, Return
<1>9. CASE Remint(h)
  BY <1>9 DEF Remint, Signs
<1>10. CASE Reply(h)
  BY <1>10 DEF Reply, Return
<1>11. CASE LoseReply(h)
  BY <1>11 DEF LoseReply, Return
<1>12. CASE RevokeDel(h)
  BY <1>12 DEF RevokeDel, Return
<1>13. CASE RevokeFails(h)
  BY <1>13 DEF RevokeFails, Return
<1>14. QED
  BY <1>1, <1>2, <1>3, <1>4, <1>5, <1>6, <1>7, <1>8, <1>9, <1>10, <1>11, <1>12,
     <1>13 DEF Handler

\* A change of the roles or of the time brings no token into being.
LEMMA HeldElsewhere ==
  ASSUME TypeInv, NEW t \in Token, Held(t)',
         (\E r \in RoleSets : ChangeRoles(r)) \/ Tick \/ UNCHANGED vars
  PROVE  Held(t)
BY DEF TypeInv, TypeOK, Held, ChangeRoles, Tick, Stored, localVars, vars
-----------------------------------------------------------------------------
(* Dates: nothing is signed or revoked in the future, and the stored key   *)
(* outlives its token.                                                     *)

NotFuture ==
  /\ \A t \in Token : Held(t) => t.iat <= now
  /\ cut # None => cut <= now

DatesInv == TypeInv /\ NotFuture /\ FullLife

\* What a handler signs carries the date of this second.
LEMMA SignsNow ==
  ASSUME TypeInv, NEW h \in Handlers, NEW t \in Token, Signs(h, t)
  PROVE  t.iat = now
<1>1. CASE pc[h] = "mint" /\ t = Signed(claims[h])
  BY <1>1, SignedType DEF TypeInv, LocalOK
<1>2. CASE pc[h] = "remint" /\ t = Signed(body[h].roles)
  BY <1>2, SignedType DEF TypeInv, LocalOK, Token
<1>3. QED
  BY <1>1, <1>2 DEF Signs

\* Handlers do not move the clock, and cut only to the present.
LEMMA HandlerClock ==
  ASSUME NEW h \in Handlers, Handler(h)
  PROVE  now' = now /\ cut' \in {cut, None, now}
BY DEF Handler, WithPassword, WithClaims, RefreshCheck, RevokeCheck, Mint, HydraFails,
       StoreToken, StoreFails, Remint, Reply, LoseReply, RevokeDel, RevokeFails, cutVars

\* A handler stores a token that somebody holds, for a refresh token's life
\* from now on, or leaves the store alone, or empties it.
LEMMA HandlerStore ==
  ASSUME TypeInv, NEW h \in Handlers, Handler(h)
  PROVE  \/ store' = store
         \/ store' = None
         \/ /\ pc[h] = "set"
            /\ body[h] \in Token
            /\ store' \in Entry
            /\ store'.token = body[h]
            /\ store'.till = now + RefreshLife
<1>1. CASE StoreToken(h)
  BY <1>1, SetType DEF StoreToken, TypeInv, LocalOK
<1>2. CASE StoreFails(h)
  BY <1>2, SetType DEF StoreFails, TypeInv, LocalOK
<1>3. CASE ~StoreToken(h) /\ ~StoreFails(h)
  BY <1>3 DEF Handler, WithPassword, WithClaims, RefreshCheck, RevokeCheck, Mint,
       HydraFails, Remint, Reply, LoseReply, RevokeDel, RevokeFails
<1>4. QED
  BY <1>1, <1>2, <1>3

\* Dates hold initially.
LEMMA DatesInit == Init => DatesInv
<1> SUFFICES ASSUME Init PROVE DatesInv
  OBVIOUS
<1>1. \A t \in Token : ~Held(t)
  BY DEF Init, Held
<1>2. NotFuture /\ FullLife
  BY <1>1 DEF Init, NotFuture, FullLife, Stored
<1>3. QED
  BY <1>2, TypeInit DEF DatesInv

\* Every step keeps the dates.
LEMMA DatesNext == DatesInv /\ [Next]_vars => DatesInv'
<1> SUFFICES ASSUME DatesInv, [Next]_vars PROVE DatesInv'
  OBVIOUS
<1>1. TypeInv /\ TypeInv'
  BY TypeNext DEF DatesInv
<1>2. now \in Nat /\ now' \in Nat /\ (cut # None => cut \in Nat)
  BY <1>1 DEF TypeInv, TypeOK, Time
<1>3. ASSUME NEW h \in Handlers, Handler(h) PROVE NotFuture' /\ FullLife'
  <2>1. now' = now /\ cut' \in {cut, None, now}
    BY <1>3, HandlerClock
  <2>2. ASSUME NEW t \in Token, Held(t)' PROVE t.iat <= now'
    <3>1. CASE Held(t)
      BY <3>1, <2>1 DEF DatesInv, NotFuture
    <3>2. CASE Signs(h, t)
      BY <3>2, <2>1, <1>1, <1>2, SignsNow
    <3>3. QED
      BY <1>1, <1>3, <2>2, <3>1, <3>2, HeldHandler
  <2>3. NotFuture'
    BY <1>2, <2>1, <2>2 DEF DatesInv, NotFuture
  <2>4. FullLife'
    <3>1. CASE store' = store \/ store' = None
      BY <3>1 DEF DatesInv, FullLife, Stored
    <3>2. CASE /\ pc[h] = "set"
               /\ body[h] \in Token
               /\ store' \in Entry
               /\ store'.token = body[h]
               /\ store'.till = now + RefreshLife
      <4>1. body[h].iat <= now /\ body[h].iat \in Nat
        BY <3>2 DEF DatesInv, NotFuture, Held, Token, Time
      <4>2. QED
        BY <3>2, <4>1, <1>2 DEF FullLife
    <3>3. QED
      BY <1>1, <1>3, <3>1, <3>2, HandlerStore
  <2>5. QED
    BY <2>3, <2>4
<1>4. CASE (\E r \in RoleSets : ChangeRoles(r)) \/ Tick \/ UNCHANGED vars
  <2>1. now <= now' /\ cut' = cut
    BY <1>2, <1>4 DEF ChangeRoles, Tick, vars, cutVars
  <2>2. \A t \in Token : Held(t)' => Held(t) /\ t.iat \in Nat
    BY <1>1, <1>4, HeldElsewhere DEF Token, Time
  <2>3. NotFuture'
    BY <1>2, <2>1, <2>2 DEF DatesInv, NotFuture
  <2>4. store' \in {store, None}
    BY <1>4 DEF ChangeRoles, Tick, vars
  <2>5. FullLife'
    BY <2>4 DEF DatesInv, FullLife, Stored
  <2>6. QED
    BY <1>1, <2>3, <2>5 DEF DatesInv
<1>5. QED
  BY <1>1, <1>3, <1>4 DEF Next, DatesInv

\* The stored key outlives its token.
THEOREM FullLifeTheorem == Spec => []FullLife
<1>1. DatesInv => FullLife
  BY DEF DatesInv
<1>2. QED
  BY <1>1, DatesInit, DatesNext, PTL DEF Spec
-----------------------------------------------------------------------------
(* A quiet revocation ends the sessions: afterwards no handler has a token *)
(* to pass on, and none can get one from the store.                        *)

Ended ==
  cut # None /\ ~relogin
    => /\ ~Stored
       /\ \A h \in Handlers : pc[h] \in {"idle", "del"}
       /\ \A t \in Token : Held(t) => t.iat <= cut

EndInv == DatesInv /\ Ended

\* A handler keeps it.
LEMMA EndHandler ==
  ASSUME EndInv, NEW h \in Handlers, Handler(h), (cut # None)', ~relogin'
  PROVE  /\ ~Stored'
         /\ \A g \in Handlers : pc'[g] \in {"idle", "del"}
         /\ \A t \in Token : Held(t)' => t.iat <= cut'
<1>1. TypeInv /\ DatesInv
  BY DEF EndInv, DatesInv
<1>2. ASSUME RevokeDel(h), Quiet(h)
      PROVE  /\ ~Stored'
             /\ \A g \in Handlers : pc'[g] \in {"idle", "del"}
             /\ \A t \in Token : Held(t)' => t.iat <= cut'
  <2>1. ~Stored' /\ cut' = now
    BY <1>2 DEF RevokeDel, Stored
  <2>2. \A g \in Handlers : pc'[g] \in {"idle", "del"}
    BY <1>1, <1>2 DEF RevokeDel, Quiet, Return, Goto, TypeInv, TypeOK
  <2>3. ASSUME NEW t \in Token, Held(t)' PROVE Held(t)
    BY <1>1, <1>2, <2>3, HeldHandler DEF RevokeDel, Signs
  <2>4. QED
    BY <1>1, <2>1, <2>2, <2>3 DEF DatesInv, NotFuture
<1>3. ASSUME UNCHANGED cutVars
      PROVE  /\ ~Stored'
             /\ \A g \in Handlers : pc'[g] \in {"idle", "del"}
             /\ \A t \in Token : Held(t)' => t.iat <= cut'
  <2>1. /\ ~Stored
        /\ \A g \in Handlers : pc[g] \in {"idle", "del"}
        /\ \A t \in Token : Held(t) => t.iat <= cut
    BY <1>3 DEF EndInv, Ended, cutVars
  <2>2. ASSUME NEW c \in Clients, RefreshCheck(h, c) PROVE FALSE
    BY <2>1, <2>2 DEF RefreshCheck, Matches
  <2>3. \A t \in Token : Held(t)' => Held(t)
    BY <1>1, <2>1, HeldHandler DEF Signs
  <2>4. \/ \E c \in Clients : WithPassword(h, c) \/ WithClaims(h, c)
        \/ \E c \in Clients : RevokeCheck(h, c)
        \/ RevokeDel(h)
        \/ RevokeFails(h)
    BY <2>1, <2>2 DEF Handler, Mint, HydraFails, StoreToken, StoreFails, Remint, Reply,
         LoseReply
  <2>5. ~(\E c \in Clients : WithPassword(h, c) \/ WithClaims(h, c))
    BY DEF WithPassword, WithClaims
  <2>6. ~Stored'
    BY <2>1, <2>4, <2>5 DEF RevokeCheck, RevokeDel, RevokeFails, Stored
  <2>7. \A g \in Handlers : pc'[g] \in {"idle", "del"}
    BY <1>1, <2>1, <2>4, <2>5
       DEF RevokeCheck, RevokeDel, RevokeFails, Return, Goto, TypeInv, TypeOK
  <2>8. QED
    BY <1>3, <2>1, <2>3, <2>6, <2>7 DEF cutVars
<1>4. (RevokeDel(h) /\ Quiet(h)) \/ UNCHANGED cutVars
  BY DEF Handler, WithPassword, WithClaims, RefreshCheck, RevokeCheck, Mint, HydraFails,
         StoreToken, StoreFails, Remint, Reply, LoseReply, RevokeDel, RevokeFails
<1>5. QED
  BY <1>2, <1>3, <1>4

\* Every step keeps it.
LEMMA EndNext == EndInv /\ [Next]_vars => EndInv'
<1> SUFFICES ASSUME EndInv, [Next]_vars PROVE EndInv'
  OBVIOUS
<1>1. DatesInv /\ DatesInv' /\ TypeInv
  BY DatesNext DEF EndInv, DatesInv
<1>2. ASSUME NEW h \in Handlers, Handler(h) PROVE Ended'
  BY <1>2, EndHandler DEF Ended
<1>3. CASE (\E r \in RoleSets : ChangeRoles(r)) \/ Tick \/ UNCHANGED vars
  <2>1. \A t \in Token : Held(t)' => Held(t)
    BY <1>1, <1>3, HeldElsewhere
  <2>2. UNCHANGED <<pc, cut, relogin>> /\ store' \in {store, None}
    BY <1>3 DEF ChangeRoles, Tick, vars, localVars, cutVars
  <2>3. Ended'
    BY <2>1, <2>2 DEF EndInv, Ended, Stored
  <2>4. QED
    BY <1>1, <2>3 DEF EndInv
<1>4. QED
  BY <1>1, <1>2, <1>3 DEF Next, EndInv

\* A revocation with no other request of the user under way ends the user's
\* sessions until a password is accepted again.
THEOREM RevocationTheorem == Spec => []RevocationEnds
<1>1. Init => EndInv
  BY DatesInit DEF Init, EndInv, Ended
<1>2. EndInv => RevocationEnds
  BY DEF EndInv, Ended, RevocationEnds
<1>3. QED
  BY <1>1, <1>2, EndNext, PTL DEF Spec
-----------------------------------------------------------------------------
(* Roles after a revocation: whatever a new token can be made from carries *)
(* roles of the time since then.                                           *)

Renewed ==
  cut # None
    => /\ roles \in since
       /\ Stored => store.token.roles \in since
       /\ \A h \in Handlers :
            /\ pc[h] = "mint" => claims[h] \in since
            /\ pc[h] \in {"set", "remint"} => body[h].roles \in since
       /\ \A t \in Token : Held(t) /\ t.iat > cut => t.roles \in since

RenewInv == DatesInv /\ Renewed

\* A quiet revocation starts with the roles of the user's row.
LEMMA RenewRevoke ==
  ASSUME RenewInv, NEW h \in Handlers, RevokeDel(h), Quiet(h)
  PROVE  Renewed'
<1>1. TypeInv /\ NotFuture
  BY DEF RenewInv, DatesInv
<1>2. ~Stored' /\ cut' = now /\ roles' \in since'
  BY DEF RevokeDel, Stored
<1>3. \A g \in Handlers : pc'[g] = "idle"
  BY <1>1 DEF RevokeDel, Quiet, Return, Goto, TypeInv, TypeOK
<1>4. ASSUME NEW t \in Token, Held(t)' PROVE t.iat <= now
  <2>1. Held(t)
    BY <1>1, <1>4, HeldHandler DEF RevokeDel, Signs, Handler
  <2>2. QED
    BY <1>1, <2>1 DEF NotFuture
<1>5. \A t \in Token : Held(t)' => ~(t.iat > cut')
  BY <1>1, <1>2, <1>4 DEF Token, Time, TypeInv, TypeOK
<1>6. QED
  BY <1>2, <1>3, <1>5 DEF Renewed

\* A handler that does not move cut uses claims and tokens from after it.
LEMMA RenewHandler ==
  ASSUME RenewInv, NEW h \in Handlers, Handler(h), UNCHANGED <<cut, since, roles>>,
         cut # None
  PROVE  Renewed'
<1>1. TypeInv /\ TypeInv'
  BY TypeHandler DEF RenewInv, DatesInv
<1> USE DEF TypeInv, TypeOK, LocalOK, Goto
<1>2. /\ roles \in since
      /\ Stored => store.token.roles \in since
      /\ \A g \in Handlers :
           /\ pc[g] = "mint" => claims[g] \in since
           /\ pc[g] \in {"set", "remint"} => body[g].roles \in since
      /\ \A t \in Token : Held(t) /\ t.iat > cut => t.roles \in since
  BY DEF RenewInv, Renewed
<1>3. Stored' => store'.token.roles \in since
  BY <1>1, <1>2, HandlerStore DEF Stored
<1>4. ASSUME NEW g \in Handlers
      PROVE  /\ pc'[g] = "mint" => claims'[g] \in since
             /\ pc'[g] \in {"set", "remint"} => body'[g].roles \in since
  <2>1. CASE g # h
    BY <1>1, <1>2, <2>1
       DEF Handler, WithPassword, WithClaims, Begin, RefreshCheck, RevokeCheck, Mint,
           HydraFails, StoreToken, StoreFails, Remint, Reply, LoseReply, RevokeDel,
           RevokeFails, Return
  <2>2. CASE g = h
    <3>1. ASSUME NEW c \in Clients, WithPassword(h, c) PROVE claims'[h] \in since /\ pc'[h] = "mint"
      BY <1>1, <1>2, <3>1 DEF WithPassword, Begin
    <3>2. ASSUME NEW c \in Clients, WithClaims(h, c) PROVE FALSE
      BY <3>2 DEF WithClaims
    <3>3. ASSUME NEW c \in Clients, RefreshCheck(h, c)
          PROVE  body'[h].roles \in since /\ pc'[h] = "remint"
      BY <1>1, <1>2, <3>3 DEF RefreshCheck, Matches
    <3>4. ASSUME Mint(h) PROVE body'[h].roles \in since /\ pc'[h] = "set"
      BY <1>1, <1>2, <3>4, SignedType DEF Mint
    <3>5. ASSUME NEW c \in Clients, RevokeCheck(h, c) PROVE pc'[h] = "del"
      BY <1>1, <3>5 DEF RevokeCheck
    <3>6. ASSUME \/ HydraFails(h) \/ StoreToken(h) \/ StoreFails(h) \/ Remint(h)
                 \/ Reply(h) \/ LoseReply(h) \/ RevokeDel(h) \/ RevokeFails(h)
          PROVE  pc'[h] \in {"idle", "reply"}
      BY <1>1, <3>6 DEF HydraFails, StoreToken, StoreFails, Remint, Reply, LoseReply,
                        RevokeDel, RevokeFails, Return
    <3>7. QED
      BY <2>2, <3>1, <3>2, <3>3, <3>4, <3>5, <3>6 DEF Handler
  <2>3. QED
    BY <2>1, <2>2
<1>5. ASSUME NEW t \in Token, Held(t)', t.iat > cut PROVE t.roles \in since
  <2>1. CASE Held(t)
    BY <1>2, <1>5, <2>1
  <2>2. CASE Signs(h, t)
    BY <1>1, <1>2, <2>2, SignedType DEF Signs, Token
  <2>3. QED
    BY <1>1, <1>5, <2>1, <2>2, HeldHandler
<1>6. QED
  BY <1>2, <1>3, <1>4, <1>5 DEF Renewed

\* Every step keeps it.
LEMMA RenewNext == RenewInv /\ [Next]_vars => RenewInv'
<1> SUFFICES ASSUME RenewInv, [Next]_vars PROVE RenewInv'
  OBVIOUS
<1>1. DatesInv /\ DatesInv' /\ TypeInv
  BY DatesNext DEF RenewInv, DatesInv
<1>2. ASSUME NEW h \in Handlers, Handler(h) PROVE Renewed'
  <2>1. CASE cut' = None
    BY <2>1 DEF Renewed
  <2>2. CASE RevokeDel(h) /\ Quiet(h)
    BY <2>2, RenewRevoke
  <2>3. \/ cut' = None
        \/ RevokeDel(h) /\ Quiet(h)
        \/ UNCHANGED <<cut, since, roles>>
    BY <1>2 DEF Handler, WithPassword, WithClaims, RefreshCheck, RevokeCheck, Mint,
         HydraFails, StoreToken, StoreFails, Remint, Reply, LoseReply, RevokeDel,
         RevokeFails, cutVars
  <2>4. CASE UNCHANGED <<cut, since, roles>> /\ cut # None
    BY <1>2, <2>4, RenewHandler
  <2>5. QED
    BY <2>1, <2>2, <2>3, <2>4
<1>3. CASE \E r \in RoleSets : ChangeRoles(r)
  <2>1. \A t \in Token : Held(t)' => Held(t)
    BY <1>1, <1>3, HeldElsewhere
  <2>2. Renewed'
    BY <1>3, <2>1 DEF ChangeRoles, RenewInv, Renewed, Stored, localVars
  <2>3. QED
    BY <1>1, <2>2 DEF RenewInv
<1>4. CASE Tick \/ UNCHANGED vars
  <2>1. \A t \in Token : Held(t)' => Held(t)
    BY <1>1, <1>4, HeldElsewhere
  <2>2. UNCHANGED <<roles, pc, claims, body, cut, since>> /\ store' \in {store, None}
    BY <1>4 DEF Tick, vars, localVars, cutVars
  <2>3. Renewed'
    BY <2>1, <2>2 DEF RenewInv, Renewed, Stored
  <2>4. QED
    BY <1>1, <2>3 DEF RenewInv
<1>5. QED
  BY <1>1, <1>2, <1>3, <1>4 DEF Next, RenewInv

\* After such a revocation every new token carries roles that the user had
\* since then.
THEOREM RolesTheorem == Spec => []RolesRenewed
<1>1. Init => RenewInv
  BY DatesInit DEF Init, RenewInv, Renewed
<1>2. RenewInv => RolesRenewed
  BY DEF RenewInv, Renewed, RolesRenewed
<1>3. QED
  BY <1>1, <1>2, RenewNext, PTL DEF Spec
=============================================================================
