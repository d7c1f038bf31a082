---------------------------- MODULE AccessProofs ----------------------------
(* Proofs about who gets in: Invites, Guards, Accounts and MemoryTokens,   *)
(* for any number of invites, requests, users, roles, addresses, rows and  *)
(* tokens and any life of the tokens.                                      *)
EXTENDS Invites, Guards, Accounts, MemoryTokens, TLAPS

-----------------------------------------------------------------------------
(* The guards.  A token knows since when its roles are out of date: those  *)
(* of a sign-in were read when it was signed, and those of a renewed one   *)
(* when the refresh token was.  Roles that a Login took over were the      *)
(* row's once, and the row was there when they were.                       *)

Places == {"new", "handler", "accept", "answered"}

Claims == Pass \cup {NoPass}

Grants == RoleSets \cup {Gone}

Answers == {0, 200, 400, 401, 403, 500}

RequestSet ==
  [at : Places, route : Routes, when : Minutes, claims : Claims, granted : Grants,
   status : Answers]

GuardsType ==
  /\ minute \in Minutes /\ row \in RoleSets \cup {Gone}
  /\ kept \in Pass \cup {NoPass} /\ signed \subseteq Pass
  /\ had \subseteq Minutes \X (RoleSets \cup {Gone})
  /\ arrival \in [Arrivals -> RequestSet]

\* What is known of a token: the row was there when the user signed in, and its
\* roles were read then or, if they were taken over, once.
Founded(p, now, past) ==
  /\ p.iat <= now
  /\ \E t \in 0 .. p.iat :
       /\ \E roles \in RoleSets : <<t, roles>> \in past /\ (~p.carried => roles = p.roles)
       /\ IF p.renewed THEN p.iat < t + RefreshSpan ELSE p.iat = t
  /\ \E t \in 0 .. p.iat : <<t, p.roles>> \in past

Admitted(a) ==
  arrival[a].claims # NoPass =>
    /\ \E t \in 0 .. arrival[a].when :
         /\ SignedFor(arrival[a].claims, t)
         /\ arrival[a].when < t + AccessSpan
                                + (IF arrival[a].claims.renewed THEN RefreshSpan ELSE 0)
    /\ \E t \in 0 .. arrival[a].when : <<t, arrival[a].claims.roles>> \in had

Current(a) ==
  arrival[a].granted # Gone =>
    \E t \in arrival[a].when .. minute : <<t, arrival[a].granted>> \in had

Guarded(a) ==
  arrival[a].route # "login" /\ arrival[a].status \in {0, 200} =>
    /\ arrival[a].claims # NoPass
    /\ arrival[a].route = "admin" => "admin" \in arrival[a].claims.roles

RequestInv(a) ==
  /\ Admitted(a) /\ Current(a) /\ Guarded(a)
  /\ arrival[a].when <= minute
  /\ arrival[a].at \in {"handler", "accept"} => arrival[a].status = 0

GuardsInv ==
  /\ GuardsType
  /\ <<minute, row>> \in had
  /\ \A p \in signed : Founded(p, minute, had)
  /\ kept # NoPass => Founded(kept, minute, had) /\ ~kept.renewed
  /\ \A a \in Arrivals : RequestInv(a)

LEMMA GuardsInvInit == GuardsInit => GuardsInv
<1> SUFFICES ASSUME GuardsInit PROVE GuardsInv
  OBVIOUS
<1>1. GuardsType
  BY GuardsAssumption DEF GuardsInit, GuardsType, RequestSet, Minutes, Routes, Places, Claims, Grants, Answers
<1>2. \A a \in Arrivals : RequestInv(a)
  BY DEF GuardsInit, RequestInv, Admitted, Current, Guarded
<1> QED
  BY <1>1, <1>2 DEF GuardsInit, GuardsInv

\* A step of the user or the clock: what was known stays so.
LEMMA StillFounded ==
  ASSUME GuardsInv, had \subseteq had', minute' \in {minute, minute + 1}, arrival' = arrival
  PROVE  /\ \A p \in Pass : Founded(p, minute, had) => Founded(p, minute', had')
         /\ \A a \in Arrivals : RequestInv(a)'
<1>1. minute \in Nat /\ minute' \in Nat /\ minute <= minute'
  BY GuardsAssumption DEF GuardsInv, GuardsType, Minutes
<1>2. ASSUME NEW p \in Pass, Founded(p, minute, had) PROVE Founded(p, minute', had')
  <2>1. p.iat \in Nat
    BY GuardsAssumption DEF Pass, Minutes
  <2> QED
    BY <1>1, <1>2, <2>1 DEF Founded
<1>3. ASSUME NEW a \in Arrivals PROVE RequestInv(a)'
  <2>1. RequestInv(a) /\ arrival[a].when \in Nat
    BY GuardsAssumption DEF GuardsInv, GuardsType, RequestSet, Minutes
  <2>2. Current(a)'
    <3>1. arrival[a].when .. minute \subseteq arrival[a].when .. minute'
      BY <1>1, <2>1
    <3> QED
      BY <2>1, <3>1 DEF RequestInv, Current
  <2>3. Admitted(a)'
    BY <2>1 DEF RequestInv, Admitted, SignedFor
  <2> QED
    BY <1>1, <2>1, <2>2, <2>3 DEF RequestInv, Guarded
<1> QED
  BY <1>2, <1>3

\* What is known of the requests when one of them takes a step.
LEMMA OthersStay ==
  ASSUME GuardsInv, NEW a \in Arrivals, NEW r \in RequestSet,
         arrival' = [arrival EXCEPT ![a] = r], UNCHANGED <<minute, had>>, RequestInv(a)'
  PROVE  /\ arrival' \in [Arrivals -> RequestSet]
         /\ \A b \in Arrivals : RequestInv(b)'
<1>1. ASSUME NEW b \in Arrivals \ {a} PROVE RequestInv(b)'
  <2>1. RequestInv(b) /\ arrival'[b] = arrival[b]
    BY DEF GuardsInv, GuardsType
  <2> QED
    BY <2>1 DEF RequestInv, Admitted, SignedFor, Current, Guarded
<1> QED
  BY <1>1 DEF GuardsInv, GuardsType

\* A step of one request and of nothing else.
LEMMA OneRequest ==
  ASSUME GuardsInv, NEW a \in Arrivals, NEW r \in RequestSet,
         arrival' = [arrival EXCEPT ![a] = r], UNCHANGED <<minute, row, kept, signed, had>>,
         RequestInv(a)'
  PROVE  GuardsInv'
<1>1. arrival' \in [Arrivals -> RequestSet] /\ \A b \in Arrivals : RequestInv(b)'
  BY OthersStay
<1>2. GuardsType'
  BY <1>1 DEF GuardsInv, GuardsType
<1> QED
  BY <1>1, <1>2 DEF GuardsInv

LEMMA NowFounded ==
  ASSUME GuardsInv, NEW p, NEW t \in 0 .. minute, p.iat = minute,
         NEW roles \in RoleSets, <<t, roles>> \in had, ~p.carried => roles = p.roles,
         IF p.renewed THEN minute < t + RefreshSpan ELSE minute = t,
         NEW s \in 0 .. minute, <<s, p.roles>> \in had
  PROVE  Founded(p, minute, had)
<1>1. minute \in Nat
  BY GuardsAssumption DEF GuardsInv, GuardsType, Minutes
<1> QED
  BY <1>1 DEF Founded

\* Both tokens of a sign-in, for a row that is there now.
BothFounded ==
  /\ signed' \subseteq Pass /\ kept' \in Pass /\ ~kept'.renewed
  /\ Founded(kept', minute, had)
  /\ \A p \in signed' : Founded(p, minute, had)

LEMMA SignBothFounded ==
  ASSUME GuardsInv, NEW roles \in RoleSets, NEW carried \in BOOLEAN, SignBoth(roles, carried),
         row \in RoleSets, ~carried => roles = row,
         NEW s \in 0 .. minute, <<s, roles>> \in had
  PROVE  BothFounded
<1> DEFINE access == Access(roles, FALSE, carried)
           refresh == [access EXCEPT !.kind = "refresh"]
<1>1. signed' = signed \cup {access, refresh} /\ kept' = refresh
  BY DEF SignBoth, SignPasses
<1>2. /\ access \in Pass /\ access.iat = minute /\ access.roles = roles
      /\ access.renewed = FALSE /\ access.carried = carried
      /\ refresh \in Pass /\ refresh.iat = minute /\ refresh.roles = roles
      /\ refresh.renewed = FALSE /\ refresh.carried = carried
  <2>1. minute \in Minutes
    BY DEF GuardsInv, GuardsType
  <2> QED
    BY <2>1 DEF Access, Pass
<1>3. minute \in 0 .. minute /\ <<minute, row>> \in had
  BY GuardsAssumption DEF GuardsInv, GuardsType, Minutes
<1> HIDE DEF access, refresh
<1>4. Founded(access, minute, had)
  BY <1>2, <1>3, NowFounded
<1>5. Founded(refresh, minute, had)
  BY <1>2, <1>3, NowFounded
<1>6. \A p \in signed : p \in Pass /\ Founded(p, minute, had)
  BY DEF GuardsInv, GuardsType
<1> QED
  BY <1>1, <1>2, <1>4, <1>5, <1>6 DEF BothFounded

LEMMA UserStep ==
  ASSUME GuardsInv,
         PassTick \/ SignInPass \/ RenewPass \/ \E roles \in RoleSets \cup {Gone} : SetRow(roles)
  PROVE  GuardsInv'
<1>0. minute \in Nat /\ minute \in Minutes /\ minute <= MaxMinute
  BY GuardsAssumption DEF GuardsInv, GuardsType, Minutes
<1>1. arrival' = arrival /\ had \subseteq had' /\ minute' \in {minute, minute + 1}
  <2>1. CASE PassTick
    BY <2>1 DEF PassTick
  <2>2. CASE SignInPass \/ RenewPass
    BY <2>2 DEF SignInPass, SignBoth, RenewPass
  <2>3. CASE \E roles \in RoleSets \cup {Gone} : SetRow(roles)
    BY <2>3 DEF SetRow
  <2> QED
    BY <2>1, <2>2, <2>3
<1>2. /\ \A p \in Pass : Founded(p, minute, had) => Founded(p, minute', had')
      /\ \A a \in Arrivals : RequestInv(a)'
  BY <1>1, StillFounded
<1>3. /\ \A p \in signed : p \in Pass /\ Founded(p, minute', had')
      /\ kept # NoPass => Founded(kept, minute', had') /\ ~kept.renewed
  BY <1>2 DEF GuardsInv, GuardsType
<1>4. CASE PassTick
  <2>1. GuardsType'
    BY <1>0, <1>1, <1>4, GuardsAssumption DEF GuardsInv, GuardsType, PassTick, Minutes
  <2> QED
    BY <1>2, <1>3, <1>4, <2>1 DEF GuardsInv, PassTick
<1>5. CASE \E roles \in RoleSets \cup {Gone} : SetRow(roles)
  <2>1. GuardsType'
    BY <1>1, <1>5 DEF GuardsInv, GuardsType, SetRow
  <2> QED
    BY <1>2, <1>3, <1>5, <2>1 DEF GuardsInv, SetRow
<1>6. CASE SignInPass
  <2>1. /\ row # Gone /\ SignBoth(row, FALSE) /\ UNCHANGED <<minute, row, arrival, had>>
    BY <1>6 DEF SignInPass
  <2>2. row \in RoleSets /\ <<minute, row>> \in had /\ minute \in 0 .. minute
    BY <1>0, <2>1 DEF GuardsInv, GuardsType
  <2>3. BothFounded
    BY <2>1, <2>2, SignBothFounded
  <2>4. GuardsType'
    BY <2>1, <2>3 DEF GuardsInv, GuardsType, BothFounded
  <2> QED
    BY <1>2, <2>1, <2>3, <2>4 DEF GuardsInv, BothFounded
<1>7. CASE RenewPass
  <2> DEFINE access == Access(kept.roles, TRUE, kept.carried)
  <2>1. /\ kept # NoPass /\ minute < kept.iat + RefreshSpan /\ signed' = signed \cup {access}
        /\ UNCHANGED <<minute, row, kept, arrival, had>>
    BY <1>7 DEF RenewPass, SignPasses
  <2>2. /\ kept \in Pass /\ kept.roles \in RoleSets /\ kept.iat \in Nat
        /\ kept.carried \in BOOLEAN
    BY <2>1, GuardsAssumption DEF GuardsInv, GuardsType, Pass, Minutes
  <2>3. /\ access \in Pass /\ access.iat = minute /\ access.roles = kept.roles
        /\ access.renewed = TRUE /\ access.carried = kept.carried
    BY <1>0, <2>2 DEF Access, Pass
  <2> HIDE DEF access
  <2>4. /\ kept.iat \in 0 .. minute
        /\ \E roles \in RoleSets :
              <<kept.iat, roles>> \in had /\ (~kept.carried => roles = kept.roles)
        /\ \E s \in 0 .. minute : <<s, kept.roles>> \in had
    <3>1. Founded(kept, minute, had) /\ ~kept.renewed
      BY <2>1 DEF GuardsInv
    <3> QED
      BY <1>0, <2>2, <3>1 DEF Founded
  <2>5. Founded(access, minute, had)
    <3>1. PICK roles \in RoleSets :
            <<kept.iat, roles>> \in had /\ (~kept.carried => roles = kept.roles)
      BY <2>4
    <3>2. PICK s \in 0 .. minute : <<s, kept.roles>> \in had
      BY <2>4
    <3> QED
      BY <2>1, <2>3, <2>4, <3>1, <3>2, NowFounded
  <2>6. GuardsType'
    BY <2>1, <2>3 DEF GuardsInv, GuardsType
  <2> QED
    BY <1>2, <1>3, <2>1, <2>5, <2>6 DEF GuardsInv
<1> QED
  BY <1>4, <1>5, <1>6, <1>7

\* A token that opens a door was signed, is not out of date and is of its kind.
LEMMA ArriveInv ==
  ASSUME GuardsInv, NEW a \in Arrivals, NEW route \in Routes,
         NEW c \in signed \cup {NoPass}, NEW h \in signed \cup {NoPass, BarePass},
         Arrive(a, route, c, h)
  PROVE  GuardsInv'
<1> DEFINE p == GetToken(c, h)
           status == IF p = BarePass THEN 500 ELSE Refusal(route, p)
           r == [at |-> IF status = 0 THEN "handler" ELSE "answered", route |-> route,
                 when |-> minute, granted |-> Gone, status |-> status,
                 claims |-> IF status = 0 /\ Parses(p) /\ IsValid(p) THEN p ELSE NoPass]
<1>1. arrival' = [arrival EXCEPT ![a] = r] /\ UNCHANGED <<minute, row, kept, signed, had>>
  BY DEF Arrive
<1>2. Parses(p) => p \in signed /\ p \in Pass
  <2>1. p \in signed \cup {NoPass, BarePass}
    BY DEF GetToken
  <2>2. NoPass \notin Pass /\ BarePass \notin Pass
    BY DEF NoPass, BarePass, Pass
  <2>3. Parses(p) => p \in Pass
    BY DEF Parses
  <2> HIDE DEF p
  <2> QED
    BY <2>1, <2>2, <2>3
<1>3. status \in {0, 200, 400, 401, 403, 500} /\ status # 200
  BY DEF Refusal
<1>4. /\ route # "login" /\ status = 0 => Parses(p) /\ IsValid(p) /\ p # BarePass
      /\ route = "admin" /\ status = 0 => AdminRole(p)
  <2>1. CASE p = BarePass
    BY <2>1
  <2>2. CASE p # BarePass
    <3>1. status = Refusal(route, p)
      BY <2>2
    <3> HIDE DEF p, status
    <3>2. route # "login" /\ status = 0 => Parses(p) /\ IsValid(p)
      BY <3>1 DEF Refusal
    <3>3. route = "admin" /\ status = 0 => AdminRole(p)
      BY <3>1, <3>2 DEF Refusal
    <3> QED
      BY <2>2, <3>2, <3>3
  <2> QED
    BY <2>1, <2>2
<1>5. minute \in Minutes /\ minute \in Nat
  BY GuardsAssumption DEF GuardsInv, GuardsType, Minutes
<1> HIDE DEF p, status
<1>6. r \in RequestSet
  BY <1>2, <1>3, <1>5 DEF RequestSet, Places, Claims, Grants, Answers
<1>7. arrival'[a] = r
  BY <1>1 DEF GuardsInv, GuardsType
<1>8. Admitted(a)'
  <2> SUFFICES ASSUME arrival'[a].claims # NoPass
               PROVE  /\ \E t \in 0 .. minute :
                           /\ SignedFor(p, t)
                           /\ minute < t + AccessSpan
                                          + (IF p.renewed THEN RefreshSpan ELSE 0)
                      /\ \E t \in 0 .. minute : <<t, p.roles>> \in had
    <3>1. arrival'[a].claims # NoPass => arrival'[a].claims = p
      BY <1>7
    <3>2. arrival'[a].when = minute /\ had' = had
      BY <1>1, <1>7
    <3> QED
      BY <3>1, <3>2 DEF Admitted, SignedFor
  <2>1. p \in signed /\ p \in Pass /\ Parses(p) /\ p.kind = "access" /\ Founded(p, minute, had)
    BY <1>2, <1>7 DEF IsValid, GuardsInv
  <2>2. p.iat \in Nat /\ minute < p.iat + AccessSpan /\ p.iat <= minute
    BY <2>1, GuardsAssumption DEF Parses, Pass, Minutes, Founded
  <2>3. PICK t \in 0 .. p.iat : /\ SignedFor(p, t)
                                /\ IF p.renewed THEN p.iat < t + RefreshSpan ELSE p.iat = t
    BY <2>1 DEF Founded, SignedFor
  <2>6. PICK s \in 0 .. p.iat : <<s, p.roles>> \in had
    BY <2>1 DEF Founded
  <2>4. t \in 0 .. minute /\ s \in 0 .. minute
    BY <1>5, <2>2
  <2>5. minute < t + AccessSpan + (IF p.renewed THEN RefreshSpan ELSE 0)
    <3>1. CASE p.renewed
      BY <1>5, <2>2, <2>3, <3>1, GuardsAssumption
    <3>2. CASE ~p.renewed
      BY <1>5, <2>2, <2>3, <3>2, GuardsAssumption
    <3> QED
      BY <3>1, <3>2
  <2> QED
    BY <2>3, <2>4, <2>5, <2>6
<1>9. Current(a)'
  BY <1>7 DEF Current
<1>10. Guarded(a)'
  <2> SUFFICES ASSUME route # "login", status \in {0, 200}
               PROVE  /\ r.claims # NoPass
                      /\ route = "admin" => "admin" \in r.claims.roles
    BY <1>7 DEF Guarded
  <2>1. status = 0 /\ Parses(p) /\ IsValid(p)
    BY <1>3, <1>4
  <2>2. r.claims = p /\ p.kind = "access"
    BY <2>1 DEF IsValid
  <2>3. p # NoPass
    BY <2>2 DEF NoPass
  <2> QED
    BY <1>4, <2>1, <2>2, <2>3 DEF AdminRole
<1>11. RequestInv(a)'
  <2>1. arrival'[a].when <= minute'
    BY <1>1, <1>5, <1>7
  <2>2. arrival'[a].at \in {"handler", "accept"} => arrival'[a].status = 0
    BY <1>7
  <2> QED
    BY <1>8, <1>9, <1>10, <2>1, <2>2 DEF RequestInv
<1> HIDE DEF r
<1> QED
  BY <1>1, <1>6, <1>11, OneRequest

\* What an answer leaves of a request.
LEMMA AnsweredInv ==
  ASSUME GuardsInv, NEW a \in Arrivals, NEW status \in {200, 400, 401, 500},
         Answered(a, status), UNCHANGED <<minute, had>>, status = 200 => arrival[a].status = 0
  PROVE  /\ arrival' \in [Arrivals -> RequestSet]
         /\ \A b \in Arrivals : RequestInv(b)'
<1> DEFINE r == [arrival[a] EXCEPT !.at = "answered", !.status = status]
<1>1. arrival[a] \in RequestSet /\ arrival \in [Arrivals -> RequestSet] /\ RequestInv(a)
  BY DEF GuardsInv, GuardsType
<1>2. /\ r \in RequestSet /\ r.at = "answered" /\ r.status = status
      /\ r.route = arrival[a].route /\ r.when = arrival[a].when
      /\ r.claims = arrival[a].claims /\ r.granted = arrival[a].granted
  <2>1. "answered" \in Places /\ status \in Answers
    BY DEF Places, Answers
  <2>0. r \in RequestSet
    BY <1>1, <2>1 DEF RequestSet
  <2>2. r.at = "answered" /\ r.status = status
    BY <1>1 DEF RequestSet
  <2>3. r.route = arrival[a].route /\ r.when = arrival[a].when
    BY <1>1 DEF RequestSet
  <2>4. r.claims = arrival[a].claims /\ r.granted = arrival[a].granted
    BY <1>1 DEF RequestSet
  <2> QED
    BY <2>0, <2>2, <2>3, <2>4
<1>3. arrival' = [arrival EXCEPT ![a] = r]
  <2>1. arrival' = [arrival EXCEPT ![a].at = "answered", ![a].status = status]
    BY DEF Answered
  <2>2. arrival' \in [Arrivals -> RequestSet] /\ arrival'[a] = r
    BY <1>1, <1>2, <2>1
  <2>3. \A b \in Arrivals \ {a} : arrival'[b] = arrival[b]
    BY <1>1, <2>1
  <2> DEFINE f == [arrival EXCEPT ![a] = r]
  <2>4. f \in [Arrivals -> RequestSet] /\ \A b \in Arrivals : f[b] = arrival'[b]
    BY <1>1, <1>2, <2>2, <2>3
  <2> HIDE DEF f
  <2>5. arrival' = f
    BY <2>2, <2>4
  <2> QED
    BY <2>5 DEF f
<1> HIDE DEF r
<1>4. arrival'[a] = r
  BY <1>1, <1>3
<1>5. RequestInv(a)'
  <2>1. Admitted(a)'
    <3>1. arrival'[a].claims = arrival[a].claims /\ arrival'[a].when = arrival[a].when /\ had' = had
      BY <1>2, <1>3, <1>4
    <3> QED
      BY <1>1, <3>1 DEF RequestInv, Admitted, SignedFor
  <2>2. Current(a)'
    BY <1>1, <1>2, <1>3, <1>4 DEF RequestInv, Current
  <2>3. Guarded(a)'
    BY <1>1, <1>2, <1>3, <1>4 DEF RequestInv, Guarded
  <2> QED
    BY <1>1, <1>2, <1>3, <1>4, <2>1, <2>2, <2>3 DEF RequestInv
<1> QED
  BY <1>2, <1>3, <1>5, OthersStay

LEMMA ReplyInv ==
  ASSUME GuardsInv, NEW a \in Arrivals, NEW status \in {200, 400, 401, 500}, Reply(a, status),
         status = 200 => arrival[a].status = 0
  PROVE  GuardsInv'
<1>1. arrival' \in [Arrivals -> RequestSet] /\ \A b \in Arrivals : RequestInv(b)'
  BY AnsweredInv DEF Reply
<1>2. UNCHANGED <<minute, row, kept, signed, had>>
  BY DEF Reply
<1> QED
  BY <1>1, <1>2 DEF GuardsInv, GuardsType

\* Login with claims signs roles that the row had once, for a row that is there.
LEMMA LoginWithPassInv ==
  ASSUME GuardsInv, NEW a \in Arrivals, LoginWithPass(a)
  PROVE  GuardsInv'
<1> DEFINE p == arrival[a].claims
<1>1. /\ arrival[a].at = "handler" /\ p # NoPass /\ row # Gone /\ SignBoth(p.roles, TRUE)
      /\ Answered(a, 200) /\ UNCHANGED <<minute, row, had>>
  BY DEF LoginWithPass
<1>2. /\ RequestInv(a) /\ arrival[a].status = 0 /\ row \in RoleSets
      /\ p \in Pass /\ p.roles \in RoleSets
      /\ arrival[a].when \in Nat /\ minute \in Nat /\ arrival[a].when <= minute
  BY <1>1, GuardsAssumption DEF GuardsInv, GuardsType, RequestInv, RequestSet, Claims, Pass, Minutes
<1>3. arrival' \in [Arrivals -> RequestSet] /\ \A b \in Arrivals : RequestInv(b)'
  BY <1>1, <1>2, AnsweredInv
<1>4. PICK s \in 0 .. minute : <<s, p.roles>> \in had
  BY <1>1, <1>2 DEF RequestInv, Admitted
<1>5. BothFounded
  BY <1>1, <1>2, <1>4, SignBothFounded
<1>6. GuardsType'
  BY <1>1, <1>3, <1>5 DEF GuardsInv, GuardsType, BothFounded
<1> QED
  BY <1>1, <1>3, <1>5, <1>6 DEF GuardsInv, BothFounded

LEMMA ConsentGetInv ==
  ASSUME GuardsInv, NEW a \in Arrivals, ConsentGet(a)
  PROVE  GuardsInv'
<1> DEFINE r == [arrival[a] EXCEPT !.at = "accept", !.granted = row]
<1>1. /\ arrival[a] \in RequestSet /\ arrival \in [Arrivals -> RequestSet] /\ RequestInv(a)
      /\ row \in RoleSets \cup {Gone} /\ minute \in Nat /\ arrival[a].when \in Nat
      /\ arrival[a].at = "handler"
  BY GuardsAssumption DEF GuardsInv, GuardsType, RequestSet, Minutes, ConsentGet
<1>2. /\ r \in RequestSet /\ r.at = "accept" /\ r.status = arrival[a].status
      /\ r.route = arrival[a].route /\ r.when = arrival[a].when
      /\ r.claims = arrival[a].claims /\ r.granted = row
  <2>1. "accept" \in Places /\ row \in Grants
    BY <1>1 DEF Places, Grants
  <2>2. r \in RequestSet
    BY <1>1, <2>1 DEF RequestSet
  <2> QED
    BY <1>1, <2>2 DEF RequestSet
<1>3. arrival' = [arrival EXCEPT ![a] = r] /\ UNCHANGED <<minute, row, kept, signed, had>>
  BY <1>1 DEF ConsentGet
<1> HIDE DEF r
<1>4. arrival'[a] = r
  BY <1>1, <1>3
<1>5. RequestInv(a)'
  <2>1. Admitted(a)'
    <3>1. arrival'[a].claims = arrival[a].claims /\ arrival'[a].when = arrival[a].when /\ had' = had
      BY <1>2, <1>3, <1>4
    <3> QED
      BY <1>1, <3>1 DEF RequestInv, Admitted, SignedFor
  <2>2. Current(a)'
    <3>1. minute \in arrival[a].when .. minute /\ <<minute, row>> \in had
      BY <1>1 DEF RequestInv, GuardsInv
    <3> QED
      BY <1>2, <1>3, <1>4, <3>1 DEF Current
  <2>3. Guarded(a)'
    BY <1>1, <1>2, <1>3, <1>4 DEF RequestInv, Guarded
  <2> QED
    BY <1>1, <1>2, <1>3, <1>4, <2>1, <2>2, <2>3 DEF RequestInv
<1> QED
  BY <1>2, <1>3, <1>5, OneRequest

LEMMA HandlerInv ==
  ASSUME GuardsInv, NEW a \in Arrivals,
         \/ HandlerReads(a) \/ LoginRefused(a) \/ ConsentRefused(a)
         \/ ConsentAccept(a) \/ ConsentFails(a)
  PROVE  GuardsInv'
<1>1. arrival[a].at \in {"handler", "accept"} => arrival[a].status = 0
  BY DEF GuardsInv, RequestInv
<1> QED
  BY <1>1, ReplyInv DEF HandlerReads, LoginRefused, ConsentRefused, ConsentAccept, ConsentFails

LEMMA GuardsInvNext == GuardsInv /\ [GuardsNext]_guardsVars => GuardsInv'
<1> SUFFICES ASSUME GuardsInv, [GuardsNext]_guardsVars PROVE GuardsInv'
  OBVIOUS
<1>1. CASE UNCHANGED guardsVars
  <2>1. \A a \in Arrivals : RequestInv(a)'
    BY <1>1 DEF guardsVars, GuardsInv, RequestInv, Admitted, SignedFor, Current, Guarded
  <2> QED
    BY <1>1, <2>1 DEF guardsVars, GuardsInv, GuardsType
<1>2. CASE PassTick \/ SignInPass \/ RenewPass
           \/ \E roles \in RoleSets \cup {Gone} : SetRow(roles)
  BY <1>2, UserStep
<1>3. ASSUME NEW a \in Arrivals,
             \/ \E route \in Routes, c \in signed \cup {NoPass},
                   h \in signed \cup {NoPass, BarePass} : Arrive(a, route, c, h)
             \/ HandlerReads(a) \/ LoginRefused(a) \/ LoginWithPass(a)
             \/ ConsentGet(a) \/ ConsentRefused(a) \/ ConsentAccept(a) \/ ConsentFails(a)
      PROVE  GuardsInv'
  <2>1. CASE \E route \in Routes, c \in signed \cup {NoPass},
               h \in signed \cup {NoPass, BarePass} : Arrive(a, route, c, h)
    BY <2>1, ArriveInv, Zenon
  <2>2. CASE ConsentGet(a)
    BY <2>2, ConsentGetInv
  <2>3. CASE \/ HandlerReads(a) \/ LoginRefused(a) \/ ConsentRefused(a)
             \/ ConsentAccept(a) \/ ConsentFails(a)
    BY <2>3, HandlerInv
  <2>4. CASE LoginWithPass(a)
    BY <2>4, LoginWithPassInv
  <2> QED
    BY <1>3, <2>1, <2>2, <2>3, <2>4, Zenon
<1> QED
  BY <1>1, <1>2, <1>3, Zenon DEF GuardsNext

\* Tokens, requests and what is known of the user stay of their kinds.
THEOREM GuardsTypeCorrect == GuardsSpec => []GuardsTypeOK
<1>1. GuardsInv => GuardsTypeOK
  BY DEF GuardsInv, GuardsType, RequestSet, Places, Claims, Grants, Answers, GuardsTypeOK
<1> QED
  BY GuardsInvInit, GuardsInvNext, <1>1, PTL DEF GuardsSpec

\* Nobody passes a guard without a token of its kind whose roles let him in, and
\* whose user was there no longer ago than the lives of the tokens add up to, with
\* these roles unless a Login took them over; a consent is given with roles that
\* are current.
THEOREM GuardsTheorem == GuardsSpec => []GuardsHold
<1>1. GuardsInv => GuardsHold
  BY DEF GuardsInv, RequestInv, Admitted, Current, Guarded, GuardsHold, AdmittedInTime,
         ConsentIsCurrent
<1> QED
  BY GuardsInvInit, GuardsInvNext, <1>1, PTL DEF GuardsSpec

-----------------------------------------------------------------------------
(* The accounts.  Between finding a row and writing to it, an operator     *)
(* relies on what others may do to the row meanwhile: they may delete it,  *)
(* but its id is not used again; they may write to it, but it can still be *)
(* read; and if they changed its address, the operator was overtaken.      *)

RoleNumbers == {RoleInvalid} \cup DOMAIN RoleNames

KnownRow == {r \in UserRow : Scannable(r)}

Begun == [at : {"flags"}, id : {0}, foreign : {FALSE}, past : {{}}]

Stages == {"find", "create", "update", "done", "failed"}

AnyId == 0 .. MaxUsers

Running ==
  [at : Stages, id : AnyId, foreign : BOOLEAN, past : SUBSET Operators, row : KnownRow]

UsersInv ==
  /\ users \in [UserIds -> UserRow \cup {NoUser}] /\ serial \in AnyId
  /\ \A i \in UserIds : Exists(i) => i <= serial
  /\ \A i, j \in UserIds : Exists(i) /\ Exists(j) /\ users[i].email = users[j].email => i = j

\* The row may have another address than the one asked for.
MayMove(o, i) == operator[o].foreign \/ (Moved(i) /\ Overtaken(o, i))

OperatorInv(o) ==
  /\ operator[o].past \subseteq Finished
  /\ operator[o].at = "update" =>
       LET i == operator[o].id IN
       /\ i \in 1 .. serial
       /\ Exists(i) =>
            /\ Scannable(users[i])
            /\ users[i].email = operator[o].row.email \/ MayMove(o, i)

AccountsInv ==
  /\ UsersInv
  /\ operator \in [Operators -> Begun \cup Running] /\ DOMAIN caller = Callers
  /\ \A o \in Operators : OperatorInv(o)

LEMMA ParsedType ==
  ASSUME NEW list
  PROVE  Parsed(list) \subseteq RoleNumbers
<1> SUFFICES ASSUME NEW s PROVE ParseRole(s) \in RoleNumbers
  BY DEF Parsed
<1> DEFINE known == {r \in DOMAIN RoleNames : RoleNames[r] = s}
<1>1. CASE known = {}
  BY <1>1 DEF ParseRole, RoleNumbers
<1>2. CASE known # {}
  <2>1. (CHOOSE r \in known : TRUE) \in known
    BY <1>2
  <2> QED
    BY <1>2, <2>1 DEF ParseRole, RoleNumbers
<1> QED
  BY <1>1, <1>2

LEMMA AccountsInvInit == AccountsInit => AccountsInv
<1> SUFFICES ASSUME AccountsInit PROVE AccountsInv
  OBVIOUS
<1>1. UsersInv
  BY AccountsAssumption DEF AccountsInit, UsersInv, UserIds, AnyId, Exists
<1>2. operator \in [Operators -> Begun \cup Running] /\ DOMAIN caller = Callers
  BY DEF AccountsInit, Begun
<1>3. \A o \in Operators : OperatorInv(o)
  BY DEF AccountsInit, OperatorInv
<1> QED
  BY <1>1, <1>2, <1>3 DEF AccountsInv

\* A step changes one row, or none.
OneRow ==
  \/ users' = users
  \/ \E k \in UserIds : \A j \in UserIds \ {k} : users'[j] = users[j]

\* A row is added.
LEMMA CreateUsers ==
  ASSUME UsersInv, NEW row2 \in UserRow, CreateAccount(row2), ~EmailTaken(row2.email, 0)
  PROVE  /\ UsersInv' /\ serial <= serial'
         /\ \A i \in UserIds : Exists(i) => users'[i] = users[i]
         /\ \A i \in UserIds : i <= serial /\ Exists(i)' => Exists(i)
         /\ OneRow
<1> DEFINE new == IF row2.roles = {} THEN [row2 EXCEPT !.roles = {RoleDefault}] ELSE row2
<1>1. new \in UserRow /\ new.email = row2.email
  <2>1. RoleDefault \in DOMAIN RoleNames
    BY DEF RoleDefault, RoleNames
  <2> QED
    BY <2>1 DEF UserRow
<1>2. serial < MaxUsers /\ users' = [users EXCEPT ![serial + 1] = new] /\ serial' = serial + 1
  BY DEF CreateAccount
<1> HIDE DEF new
<1>3. /\ serial \in Nat /\ serial + 1 \in UserIds /\ serial' \in AnyId /\ MaxUsers \in Nat
      /\ \A i \in UserIds : i \in Nat /\ i >= 1 /\ i <= MaxUsers
      /\ users \in [UserIds -> UserRow \cup {NoUser}]
  BY <1>2, AccountsAssumption DEF UsersInv, UserIds, AnyId
<1>4. users'[serial + 1] = new /\ \A i \in UserIds : i # serial + 1 => users'[i] = users[i]
  BY <1>2, <1>3
<1>5. ~Exists(serial + 1)
  BY <1>3 DEF UsersInv
<1>6. \A i \in UserIds : Exists(i) => users[i].email # new.email
  <2> SUFFICES ASSUME NEW i \in UserIds, Exists(i), users[i].email = row2.email PROVE FALSE
    BY <1>1
  <2>1. i \in Addressed(row2.email) /\ i # 0
    BY <1>3 DEF Addressed
  <2> QED
    BY <2>1 DEF EmailTaken
<1>7. users' \in [UserIds -> UserRow \cup {NoUser}]
  BY <1>1, <1>2, <1>3
<1>8. \A i \in UserIds : Exists(i)' => i <= serial'
  BY <1>2, <1>3, <1>4 DEF UsersInv, Exists
<1>9. \A i, j \in UserIds : Exists(i)' /\ Exists(j)' /\ users'[i].email = users'[j].email => i = j
  BY <1>4, <1>6 DEF UsersInv, Exists
<1>10. \A i \in UserIds : Exists(i) => users'[i] = users[i]
  BY <1>4, <1>5
<1>11. \A i \in UserIds : i <= serial /\ Exists(i)' => Exists(i)
  BY <1>3, <1>4 DEF Exists
<1>12. OneRow
  BY <1>3, <1>4 DEF OneRow
<1> QED
  BY <1>2, <1>3, <1>7, <1>8, <1>9, <1>10, <1>11, <1>12 DEF UsersInv

LEMMA DeleteUsers ==
  ASSUME UsersInv, NEW i \in UserIds, DeleteAccount(i)
  PROVE  /\ UsersInv' /\ serial' = serial /\ OneRow
         /\ \A j \in UserIds : Exists(j)' => users'[j] = users[j]
<1>1. users \in [UserIds -> UserRow \cup {NoUser}]
  BY DEF UsersInv
<1>2. /\ users' = [users EXCEPT ![i] = NoUser] /\ serial' = serial
  BY DEF DeleteAccount
<1>3. \A j \in UserIds : Exists(j)' => users'[j] = users[j] /\ Exists(j)
  BY <1>1, <1>2 DEF Exists
<1>4. users' \in [UserIds -> UserRow \cup {NoUser}]
  BY <1>1, <1>2
<1>5. OneRow
  BY <1>1, <1>2 DEF OneRow
<1> QED
  BY <1>2, <1>3, <1>4, <1>5 DEF UsersInv

\* A row is written over.
LEMMA UpdateUsers ==
  ASSUME UsersInv, NEW i \in UserIds, Exists(i), NEW row2 \in UserRow,
         ~EmailTaken(row2.email, i), users' = [users EXCEPT ![i] = row2], serial' = serial
  PROVE  /\ UsersInv'
         /\ users'[i] = row2 /\ \A j \in UserIds \ {i} : users'[j] = users[j]
<1>1. users \in [UserIds -> UserRow \cup {NoUser}]
  BY DEF UsersInv
<1>2. users'[i] = row2 /\ (\A j \in UserIds \ {i} : users'[j] = users[j])
      /\ users' \in [UserIds -> UserRow \cup {NoUser}]
  BY <1>1
<1>3. \A j \in UserIds \ {i} : Exists(j) => users[j].email # row2.email
  BY DEF EmailTaken, Addressed
<1>4. \A j \in UserIds : Exists(j)' => Exists(j)
  BY <1>2 DEF Exists
<1>5. \A j, k \in UserIds : Exists(j)' /\ Exists(k)' /\ users'[j].email = users'[k].email => j = k
  BY <1>2, <1>3, <1>4 DEF UsersInv
<1> QED
  BY <1>2, <1>4, <1>5 DEF UsersInv

\* AccountsKept, for one account.
RowKept(i) ==
  Exists(i) /\ users'[i] # users[i] =>
    \/ users'[i] = NoUser /\ UNCHANGED <<serial, operator, caller>>
    \/ \E o \in Operators : Overwrites(o, i)

RowsKept == OneRow /\ \A i \in UserIds : RowKept(i)

LEMMA RowsAreKept == RowsKept => AccountsKept
BY DEF RowsKept, OneRow, RowKept, AccountsKept

\* What an operator relies on, whoever takes the step.
OperatorsKeep ==
  /\ serial <= serial'
  /\ \A i \in UserIds : i <= serial /\ Exists(i)' => Exists(i)
  /\ \A i \in UserIds : RowKept(i)
  /\ \A o \in Operators :
       /\ operator[o].at = "done" => operator'[o] = operator[o]
       /\ operator'[o].at = "done" =>
            operator'[o].id = operator[o].id /\ operator'[o].foreign = operator[o].foreign

\* What was done stays done.
LEMMA MoreFinished ==
  ASSUME OperatorsKeep
  PROVE  Finished \subseteq Finished'
BY DEF OperatorsKeep, Finished

LEMMA OperatorWaits ==
  ASSUME AccountsInv, OperatorsKeep, serial' \in AnyId,
         NEW o \in Operators, operator'[o] = operator[o]
  PROVE  OperatorInv(o)'
<1> DEFINE i == operator[o].id
<1>0. /\ Finished \subseteq Finished' /\ operator[o].past \subseteq Finished
  BY MoreFinished DEF AccountsInv, OperatorInv
<1> SUFFICES ASSUME operator[o].at = "update"
             PROVE  /\ i \in 1 .. serial'
                    /\ Exists(i)' =>
                         /\ Scannable(users'[i])
                         /\ users'[i].email = operator[o].row.email \/ MayMove(o, i)'
  BY <1>0 DEF OperatorInv
<1>1. /\ serial \in Nat /\ serial' \in Nat /\ MaxUsers \in Nat /\ serial <= MaxUsers
      /\ serial <= serial' /\ i \in 1 .. serial
  BY AccountsAssumption DEF AccountsInv, UsersInv, AnyId, OperatorInv, OperatorsKeep
<1>2. i \in UserIds /\ i <= serial /\ i \in 1 .. serial'
  BY <1>1 DEF UserIds
<1>3. SUFFICES ASSUME Exists(i)'
               PROVE  /\ Scannable(users'[i])
                      /\ users'[i].email = operator[o].row.email \/ MayMove(o, i)'
  BY <1>2
<1>4. Exists(i) /\ RowKept(i)
  BY <1>2, <1>3 DEF OperatorsKeep
<1>5. /\ Scannable(users[i])
      /\ users[i].email = operator[o].row.email \/ MayMove(o, i)
  BY <1>4 DEF AccountsInv, OperatorInv
<1>6. Moved(i) => Moved(i)'
  BY <1>0 DEF Moved, OperatorsKeep, Finished
<1>7. Overtaken(o, i) => Overtaken(o, i)'
  BY <1>0 DEF Overtaken, OperatorsKeep, Finished
<1>8. MayMove(o, i) => MayMove(o, i)'
  BY <1>6, <1>7 DEF MayMove
<1>9. CASE users'[i] = users[i]
  BY <1>5, <1>8, <1>9
<1>10. CASE users'[i] # users[i]
  <2>1. users'[i] # NoUser
    BY <1>3 DEF Exists
  <2>2. PICK p \in Operators : Overwrites(p, i)
    BY <1>4, <1>10, <2>1 DEF RowKept
  <2>3. /\ operator[p].at = "update" /\ operator'[p].at = "done" /\ operator'[p].id = i
        /\ operator'[p].foreign = operator[p].foreign
    BY <2>2 DEF Overwrites, OperatorsKeep
  <2>4. p \in Finished' /\ p \notin operator'[o].past
    BY <1>0, <2>3 DEF Finished
  <2>5. Overtaken(o, i)'
    BY <2>3, <2>4 DEF Overtaken
  <2>6. CASE users'[i].email = users[i].email
    BY <1>5, <1>8, <2>2, <2>6 DEF Overwrites
  <2>7. CASE users'[i].email # users[i].email
    <3>1. Moved(i)'
      <4>1. CASE operator[p].foreign
        BY <2>3, <2>4, <4>1 DEF Moved
      <4>2. CASE Moved(i)
        BY <1>6, <4>2
      <4> QED
        BY <2>2, <2>7, <4>1, <4>2 DEF Overwrites
    <3> QED
      BY <2>2, <2>5, <3>1 DEF Overwrites, MayMove
  <2> QED
    BY <2>6, <2>7
<1> QED
  BY <1>9, <1>10

\* A step that takes no operator's turn: a sign-up or a deletion.
LEMMA OthersStep ==
  ASSUME AccountsInv, UsersInv', serial <= serial', operator' = operator, caller' = caller,
         \A i \in UserIds : i <= serial /\ Exists(i)' => Exists(i), OneRow,
         \A i \in UserIds : Exists(i) =>
           users'[i] = users[i] \/ (users'[i] = NoUser /\ serial' = serial)
  PROVE  AccountsInv' /\ RowsKept
<1>1. \A i \in UserIds : RowKept(i)
  BY DEF RowKept
<1>2. OperatorsKeep
  BY <1>1 DEF OperatorsKeep
<1>3. \A o \in Operators : OperatorInv(o)'
  BY <1>2, OperatorWaits DEF UsersInv
<1> QED
  BY <1>1, <1>3 DEF AccountsInv, RowsKept

LEMMA SignUpInv ==
  ASSUME AccountsInv, NEW name \in Words, NEW email \in Words, NEW pw \in Passwords, NEW list,
         SignUpWith(name, email, pw, list)
  PROVE  AccountsInv' /\ RowsKept
<1> DEFINE r == [name |-> name, email |-> email, pw |-> pw, roles |-> Parsed(list)]
<1>1. r \in UserRow /\ r.email = email
  BY ParsedType DEF UserRow, RoleNumbers
<1>2. UsersInv /\ CreateAccount(r) /\ ~EmailTaken(email, 0) /\ UNCHANGED <<operator, caller>>
  BY DEF SignUpWith, AccountsInv
<1> HIDE DEF r
<1> QED
  BY <1>1, <1>2, CreateUsers, OthersStep

LEMMA DeleteInv ==
  ASSUME AccountsInv, NEW i \in UserIds, DeleteAccount(i)
  PROVE  AccountsInv' /\ RowsKept
<1>1. UsersInv /\ UNCHANGED <<operator, caller>>
  BY DEF AccountsInv, DeleteAccount
<1>2. serial \in Nat
  BY <1>1, AccountsAssumption DEF UsersInv, AnyId
<1>3. /\ UsersInv' /\ serial' = serial /\ OneRow
      /\ \A j \in UserIds : Exists(j)' => users'[j] = users[j]
  BY <1>1, DeleteUsers
<1>4. \A j \in UserIds : /\ Exists(j)' => Exists(j)
                         /\ users'[j] = users[j] \/ users'[j] = NoUser
  BY <1>3 DEF Exists
<1> QED
  BY <1>1, <1>2, <1>3, <1>4, OthersStep

\* A step of one operator.
LEMMA OperatorStep ==
  ASSUME AccountsInv, UsersInv', OperatorsKeep, NEW o \in Operators, NEW r \in Begun \cup Running,
         operator' = [operator EXCEPT ![o] = r], caller' = caller, OperatorInv(o)'
  PROVE  AccountsInv'
<1>1. operator \in [Operators -> Begun \cup Running]
  BY DEF AccountsInv
<1>2. \A p \in Operators \ {o} : operator'[p] = operator[p]
  BY <1>1
<1>3. \A p \in Operators : OperatorInv(p)'
  BY <1>2, OperatorWaits DEF UsersInv
<1>4. operator' \in [Operators -> Begun \cup Running]
  BY <1>1
<1> QED
  BY <1>3, <1>4 DEF AccountsInv

LEMMA RunningType ==
  ASSUME AccountsInv, NEW o \in Operators, operator[o].at \in Stages
  PROVE  operator[o] \in Running /\ operator[o].row \in KnownRow
<1>1. operator[o] \in Begun \cup Running /\ "flags" \notin Stages
  BY DEF AccountsInv, Stages
<1>2. operator[o] \in Running
  BY <1>1 DEF Begun
<1> QED
  BY <1>2 DEF Running

LEMMA ReadFlagsInv ==
  ASSUME AccountsInv, NEW o \in Operators, NEW name \in Words, NEW email \in Words,
         NEW pw \in Passwords, NEW list, ReadFlags(o, name, email, pw, list)
  PROVE  AccountsInv' /\ RowsKept
<1> DEFINE w == [name |-> name, email |-> email, pw |-> pw, roles |-> Parsed(list)]
           r == [at |-> "find", id |-> 0, foreign |-> FALSE, past |-> {}, row |-> w]
<1>1. w \in KnownRow
  BY ParsedType DEF ReadFlags, KnownRoles, KnownRow, UserRow, RoleNumbers, Scannable
<1>2. 0 \in AnyId /\ "find" \in Stages /\ serial \in AnyId /\ serial <= serial
  BY AccountsAssumption DEF AnyId, Stages, AccountsInv, UsersInv
<1> HIDE DEF w
<1>3. r \in Running /\ r.at = "find" /\ r.past = {}
  BY <1>1, <1>2 DEF Running
<1>4. /\ operator' = [operator EXCEPT ![o] = r] /\ UNCHANGED <<users, serial, caller>>
      /\ operator[o].at = "flags"
  BY DEF ReadFlags, w
<1> HIDE DEF r
<1>5. operator'[o] = r /\ \A p \in Operators \ {o} : operator'[p] = operator[p]
  BY <1>4 DEF AccountsInv
<1>6. RowsKept
  BY <1>4 DEF RowsKept, OneRow, RowKept
<1>7. OperatorsKeep
  BY <1>2, <1>3, <1>4, <1>5, <1>6 DEF OperatorsKeep, RowsKept, Exists
<1>8. OperatorInv(o)'
  BY <1>3, <1>5 DEF OperatorInv
<1>9. UsersInv'
  BY <1>4 DEF AccountsInv, UsersInv, Exists
<1> QED
  BY <1>3, <1>4, <1>6, <1>7, <1>8, <1>9, OperatorStep

\* An operator goes on with the same row in mind.
LEMMA GoesOn ==
  ASSUME AccountsInv, UsersInv', NEW o \in Operators, operator[o].at \in Stages \ {"done"},
         operator'[o] \in Running, operator'[o].at \in Stages,
         operator'[o].at = "done" =>
           operator'[o].id = operator[o].id /\ operator'[o].foreign = operator[o].foreign,
         operator' = [operator EXCEPT ![o] = operator'[o]], caller' = caller,
         serial <= serial',
         \A i \in UserIds : i <= serial /\ Exists(i)' => Exists(i),
         RowsKept,
         OperatorInv(o)'
  PROVE  AccountsInv'
<1>1. \A p \in Operators \ {o} : operator'[p] = operator[p]
  BY DEF AccountsInv
<1>2. OperatorsKeep
  BY <1>1 DEF OperatorsKeep, RowsKept
<1> QED
  BY <1>2, OperatorStep

LEMMA OneOperator ==
  ASSUME AccountsInv, NEW o \in Operators, NEW r \in Running,
         operator' \in [Operators -> Begun \cup Running], operator'[o] = r,
         \A p \in Operators \ {o} : operator'[p] = operator[p]
  PROVE  operator' = [operator EXCEPT ![o] = operator'[o]]
<1> DEFINE f == [operator EXCEPT ![o] = operator'[o]]
<1>1. operator \in [Operators -> Begun \cup Running]
  BY DEF AccountsInv
<1>2. f \in [Operators -> Begun \cup Running] /\ \A p \in Operators : f[p] = operator'[p]
  BY <1>1
<1> HIDE DEF f
<1>3. operator' = f
  BY <1>2
<1> QED
  BY <1>3 DEF f

LEMMA FindInv ==
  ASSUME AccountsInv, NEW o \in Operators, FindAccount(o)
  PROVE  AccountsInv' /\ RowsKept
<1> DEFINE word == operator[o].row.email
           found == Named(word) \cup Addressed(word)
<1>1. /\ operator \in [Operators -> Begun \cup Running] /\ operator[o] \in Running
      /\ operator[o].at = "find" /\ UNCHANGED <<users, serial, caller>>
      /\ "create" \in Stages /\ "update" \in Stages /\ "failed" \in Stages /\ "find" \in Stages
      /\ MaxUsers \in Nat /\ serial \in Nat /\ serial <= serial
  <2>1. operator[o].at = "find" /\ UNCHANGED <<users, serial, caller>>
    BY DEF FindAccount
  <2>2. operator[o] \in Running
    BY <2>1, RunningType DEF Stages
  <2> QED
    BY <2>1, <2>2, AccountsAssumption DEF AccountsInv, UsersInv, AnyId, Stages
<1>2. RowsKept
  BY <1>1 DEF RowsKept, OneRow, RowKept
<1>3. UsersInv' /\ \A i \in UserIds : Exists(i)' => Exists(i)
  BY <1>1 DEF AccountsInv, UsersInv, Exists
<1>4. ASSUME NEW x \in {"create", "failed"}, operator' = [operator EXCEPT ![o].at = x]
      PROVE  AccountsInv'
  <2>1. /\ operator'[o] = [operator[o] EXCEPT !.at = x]
        /\ \A p \in Operators \ {o} : operator'[p] = operator[p]
    BY <1>1, <1>4
  <2>2. [operator[o] EXCEPT !.at = x] \in Running /\ x \in Stages
    BY <1>1 DEF Running
  <2>3. operator'[o].at = x
    BY <1>1, <2>1 DEF Running
  <2>4. operator' = [operator EXCEPT ![o] = operator'[o]]
    BY <1>1, <1>4, <2>1
  <2>5. OperatorInv(o)'
    <3>1. operator'[o].past = operator[o].past /\ operator[o].past \subseteq Finished
      BY <1>1, <2>1 DEF Running, AccountsInv, OperatorInv
    <3>2. Finished \subseteq Finished'
      BY <1>1, <2>1 DEF Finished
    <3> QED
      BY <2>3, <3>1, <3>2 DEF OperatorInv
  <2> QED
    <3>1. serial <= serial' /\ operator[o].at \in Stages \ {"done"} /\ x # "done"
      BY <1>1
    <3> QED
      BY <1>1, <1>2, <1>3, <2>1, <2>2, <2>3, <2>4, <2>5, <3>1, GoesOn
<1>5. ASSUME NEW i \in found, Scannable(users[i]),
             operator' = [operator EXCEPT ![o].at = "update", ![o].id = i,
                                          ![o].foreign = users[i].email # word,
                                          ![o].past = Finished]
      PROVE  AccountsInv'
  <2> DEFINE r == [operator[o] EXCEPT !.at = "update", !.id = i,
                                      !.foreign = users[i].email # word,
                                      !.past = Finished]
  <2>1. /\ i \in UserIds /\ Exists(i) /\ i \in AnyId /\ i \in 1 .. serial
    BY <1>1, <1>5 DEF Named, Addressed, UserIds, AnyId, AccountsInv, UsersInv
  <2>2. /\ r \in Running /\ r.at = "update" /\ r.id = i /\ r.row = operator[o].row
        /\ r.foreign = (users[i].email # word) /\ r.past = Finished
    <3>1. Finished \in SUBSET Operators
      BY DEF Finished
    <3> QED
      BY <1>1, <2>1, <3>1 DEF Running
  <2>3. operator'[o] = r /\ \A p \in Operators \ {o} : operator'[p] = operator[p]
    BY <1>1, <1>5
  <2> HIDE DEF r
  <2>4. operator' \in [Operators -> Begun \cup Running]
    BY <1>1, <1>5, <2>2, <2>3
  <2>5. operator' = [operator EXCEPT ![o] = operator'[o]]
    BY <2>2, <2>3, <2>4, OneOperator
  <2>6. OperatorInv(o)'
    <3>1. /\ operator'[o].id = i /\ operator'[o].row.email = word
          /\ operator'[o].foreign = (users[i].email # word)
      BY <2>2, <2>3
    <3>2. users'[i] = users[i] /\ Exists(i)' /\ serial' = serial
      BY <1>1, <2>1 DEF Exists
    <3>3. operator'[o].past \subseteq Finished'
      BY <1>1, <2>2, <2>3 DEF Finished
    <3> QED
      BY <1>5, <2>1, <3>1, <3>2, <3>3 DEF OperatorInv, MayMove
  <2> QED
    BY <1>1, <1>2, <1>3, <2>2, <2>3, <2>5, <2>6, GoesOn
<1> QED
  BY <1>2, <1>4, <1>5 DEF FindAccount

LEMMA CreateInv ==
  ASSUME AccountsInv, NEW o \in Operators, CreateFound(o)
  PROVE  AccountsInv' /\ RowsKept
<1> DEFINE x == IF EmailTaken(operator[o].row.email, 0) THEN "failed" ELSE "done"
<1>1. /\ operator \in [Operators -> Begun \cup Running] /\ operator[o] \in Running
      /\ operator[o].at = "create" /\ caller' = caller /\ operator[o].row \in UserRow
      /\ "create" \in Stages /\ x \in Stages /\ x # "update"
      /\ MaxUsers \in Nat /\ serial \in Nat /\ UsersInv
  BY RunningType, AccountsAssumption
  DEF CreateFound, AccountsInv, UsersInv, AnyId, Stages, KnownRow
<1>2. operator' = [operator EXCEPT ![o].at = x]
  BY DEF CreateFound
<1>3. /\ UsersInv' /\ serial <= serial' /\ OneRow
      /\ \A i \in UserIds : Exists(i) => users'[i] = users[i]
      /\ \A i \in UserIds : i <= serial /\ Exists(i)' => Exists(i)
  <2>1. CASE EmailTaken(operator[o].row.email, 0)
    BY <1>1, <2>1 DEF CreateFound, UsersInv, Exists, OneRow
  <2>2. CASE ~EmailTaken(operator[o].row.email, 0)
    <3>1. CreateAccount(operator[o].row)
      BY <2>2 DEF CreateFound
    <3> QED
      BY <1>1, <2>2, <3>1, CreateUsers
  <2> QED
    BY <2>1, <2>2
<1>4. RowsKept
  BY <1>3 DEF RowsKept, RowKept
<1> HIDE DEF x
<1>5. /\ operator'[o] = [operator[o] EXCEPT !.at = x]
      /\ \A p \in Operators \ {o} : operator'[p] = operator[p]
  BY <1>1, <1>2
<1>6. /\ operator'[o] \in Running /\ operator'[o].at = x
      /\ operator'[o].id = operator[o].id /\ operator'[o].foreign = operator[o].foreign
      /\ operator'[o].past = operator[o].past
  BY <1>1, <1>5 DEF Running
<1>7. operator' = [operator EXCEPT ![o] = operator'[o]]
  BY <1>1, <1>2, <1>5
<1>8. OperatorInv(o)'
  <2>1. operator[o].past \subseteq Finished /\ Finished \subseteq Finished'
    BY <1>1, <1>5 DEF AccountsInv, OperatorInv, Finished
  <2> QED
    BY <1>1, <1>6, <2>1 DEF OperatorInv
<1> QED
  BY <1>1, <1>3, <1>4, <1>6, <1>7, <1>8, GoesOn

LEMMA UpdateInv ==
  ASSUME AccountsInv, NEW o \in Operators, UpdateFound(o)
  PROVE  AccountsInv' /\ RowsKept
<1> DEFINE k == operator[o].id
           w == operator[o].row
           bad == ~Exists(k) \/ EmailTaken(w.email, k)
           x == IF bad THEN "failed" ELSE "done"
<1>1. /\ operator \in [Operators -> Begun \cup Running] /\ operator[o] \in Running
      /\ operator[o].at = "update" /\ UNCHANGED <<serial, caller>> /\ w \in UserRow
      /\ Scannable(w) /\ "update" \in Stages /\ x \in Stages /\ x # "update"
      /\ MaxUsers \in Nat /\ serial \in Nat /\ serial <= MaxUsers /\ UsersInv /\ OperatorInv(o)
  BY RunningType, AccountsAssumption
  DEF UpdateFound, AccountsInv, UsersInv, AnyId, Stages, KnownRow
<1>2. operator' = [operator EXCEPT ![o].at = x]
  BY DEF UpdateFound
<1>3. k \in UserIds
  BY <1>1 DEF OperatorInv, UserIds
<1>4. /\ operator'[o] = [operator[o] EXCEPT !.at = x]
      /\ \A p \in Operators \ {o} : operator'[p] = operator[p]
  BY <1>1, <1>2
<1>5. /\ operator'[o] \in Running /\ operator'[o].at = x
      /\ operator'[o].id = k /\ operator'[o].foreign = operator[o].foreign
      /\ operator'[o].past = operator[o].past
  BY <1>1, <1>4 DEF Running
<1>6. OperatorInv(o)'
  <2>1. operator[o].past \subseteq Finished /\ Finished \subseteq Finished'
    BY <1>1, <1>4 DEF AccountsInv, OperatorInv, Finished
  <2> QED
    BY <1>1, <1>5, <2>1 DEF OperatorInv
<1>7. operator' = [operator EXCEPT ![o] = operator'[o]]
  BY <1>1, <1>2, <1>4
<1>8. UsersInv' /\ (\A i \in UserIds : Exists(i)' => Exists(i)) /\ RowsKept
  <2>1. CASE bad
    <3>1. users' = users
      BY <2>1 DEF UpdateFound
    <3> QED
      BY <1>1, <3>1 DEF UsersInv, RowsKept, OneRow, RowKept, Exists
  <2>2. CASE ~bad
    <3>1. users' = [users EXCEPT ![k] = w] /\ Exists(k) /\ ~EmailTaken(w.email, k) /\ x = "done"
      BY <2>2 DEF UpdateFound
    <3>2. /\ UsersInv' /\ users'[k] = w
          /\ \A j \in UserIds \ {k} : users'[j] = users[j]
      BY <1>1, <1>3, <3>1, UpdateUsers
    <3>3. \A i \in UserIds : Exists(i)' => Exists(i)
      BY <3>1, <3>2 DEF Exists
    <3>4. /\ Scannable(users[k])
          /\ users[k].email = w.email \/ MayMove(o, k)
      BY <1>1, <3>1 DEF OperatorInv
    <3>5. Overwrites(o, k)
      BY <1>1, <1>5, <3>1, <3>2, <3>4 DEF Overwrites, MayMove
    <3>6. OneRow /\ RowKept(k) /\ \A i \in UserIds \ {k} : RowKept(i)
      BY <1>3, <3>2, <3>5 DEF OneRow, RowKept
    <3> QED
      BY <3>2, <3>3, <3>6 DEF RowsKept
  <2> QED
    BY <2>1, <2>2
<1>9. serial <= serial' /\ caller' = caller /\ operator[o].at \in Stages \ {"done"}
  BY <1>1
<1> HIDE DEF x, k, w
<1>10. operator'[o].at \in Stages /\ operator'[o].id = operator[o].id
  BY <1>1, <1>5 DEF k
<1> QED
  BY <1>5, <1>6, <1>7, <1>8, <1>9, <1>10, GoesOn


LEMMA LogInInv ==
  ASSUME AccountsInv, NEW c \in Callers, NEW by \in {"email", "name"}, NEW word \in Words,
         NEW pw \in Passwords, LogIn(c, by, word, pw)
  PROVE  AccountsInv' /\ RowsKept /\ RefusedForCause
<1> DEFINE found == Matching(by, word)
           asked == [at |-> "refused", id |-> 0, by |-> by, word |-> word, pw |-> pw,
                     failed |-> FALSE]
<1>1. /\ UNCHANGED <<users, serial, operator>> /\ DOMAIN caller' = Callers
      /\ \A d \in Callers \ {c} : caller'[d] = caller[d]
  BY DEF LogIn, AccountsInv
<1>2. AccountsInv'
  <2>1. UsersInv' /\ \A o \in Operators : OperatorInv(o)'
    BY <1>1 DEF AccountsInv, UsersInv, OperatorInv, Exists, MayMove, Moved, Overtaken, Finished
  <2> QED
    BY <1>1, <2>1 DEF AccountsInv
<1>3. RowsKept
  BY <1>1 DEF RowsKept, OneRow, RowKept
<1>4. CASE caller' = [caller EXCEPT ![c] = asked] /\ found = {}
  <2> SUFFICES ASSUME NEW i \in UserIds, Exists(i), Scannable(users[i]), users[i].pw = pw
               PROVE  IF by = "email" THEN users[i].email # word
                      ELSE users[i].name # word \/ Named(word) # {i}
    BY <1>1, <1>2, <1>3, <1>4 DEF RefusedForCause, AccountsInv
  <2> QED
    BY <1>4 DEF Matching, Named, Addressed
<1>5. ASSUME NEW j \in found,
             caller' = [caller EXCEPT ![c] = IF Scannable(users[j]) /\ users[j].pw = pw
                                             THEN [asked EXCEPT !.at = "in", !.id = j] ELSE asked]
      PROVE  RefusedForCause
  <2>1. CASE Scannable(users[j]) /\ users[j].pw = pw
    <3>1. caller'[c].at = "in"
      BY <1>5, <2>1 DEF AccountsInv
    <3> QED
      BY <1>1, <3>1 DEF RefusedForCause
  <2>2. CASE ~ (Scannable(users[j]) /\ users[j].pw = pw)
    <3>1. caller'[c] = asked
      BY <1>5, <2>2 DEF AccountsInv
    <3> SUFFICES ASSUME NEW i \in UserIds, Exists(i), Scannable(users[i]), users[i].pw = pw
                 PROVE  IF by = "email" THEN users[i].email # word
                        ELSE users[i].name # word \/ Named(word) # {i}
      BY <1>1, <3>1 DEF RefusedForCause
    <3>2. i # j
      BY <2>2
    <3>3. CASE by = "email"
      <4>1. j \in UserIds /\ Exists(j) /\ users[j].email = word
        BY <1>5, <3>3 DEF Matching, Addressed
      <4> QED
        BY <3>2, <3>3, <4>1 DEF AccountsInv, UsersInv
    <3>4. CASE by = "name"
      BY <1>5, <3>2, <3>4 DEF Matching
    <3> QED
      BY <3>3, <3>4
  <2> QED
    BY <2>1, <2>2
<1>6. CASE caller' = [caller EXCEPT ![c] = [asked EXCEPT !.failed = TRUE]]
  <2>1. caller'[c].failed
    BY <1>6 DEF AccountsInv
  <2> QED
    BY <1>1, <1>2, <1>3, <2>1 DEF RefusedForCause
<1> QED
  BY <1>2, <1>3, <1>4, <1>5, <1>6 DEF LogIn

\* A statement of user-gen fails.
LEMMA FailsInv ==
  ASSUME AccountsInv, NEW o \in Operators, OperatorFails(o)
  PROVE  AccountsInv' /\ RowsKept
<1>1. /\ operator \in [Operators -> Begun \cup Running] /\ operator[o] \in Running
      /\ operator[o].at \in Stages \ {"done"} /\ UNCHANGED <<users, serial, caller>>
      /\ operator' = [operator EXCEPT ![o].at = "failed"] /\ "failed" \in Stages
      /\ serial \in Nat
  BY RunningType, AccountsAssumption DEF OperatorFails, AccountsInv, UsersInv, AnyId, Stages
<1>2. /\ operator'[o] = [operator[o] EXCEPT !.at = "failed"]
      /\ \A p \in Operators \ {o} : operator'[p] = operator[p]
  BY <1>1
<1>3. /\ operator'[o] \in Running /\ operator'[o].at = "failed"
      /\ operator'[o].past = operator[o].past
  BY <1>1, <1>2 DEF Running
<1>4. OperatorInv(o)'
  <2>1. operator[o].past \subseteq Finished /\ Finished \subseteq Finished'
    BY <1>1, <1>2 DEF AccountsInv, OperatorInv, Finished
  <2> QED
    BY <1>3, <2>1 DEF OperatorInv
<1>5. RowsKept /\ UsersInv' /\ \A i \in UserIds : Exists(i)' => Exists(i)
  BY <1>1 DEF RowsKept, OneRow, RowKept, AccountsInv, UsersInv, Exists
<1>6. operator' = [operator EXCEPT ![o] = operator'[o]] /\ serial <= serial'
  BY <1>1, <1>2
<1> QED
  BY <1>1, <1>3, <1>4, <1>5, <1>6, GoesOn

LEMMA AccountsInvNext ==
  ASSUME AccountsInv, [AccountsNext]_accountsVars
  PROVE  AccountsInv' /\ [RefusedForCause /\ AccountsKept]_accountsVars
<1> DEFINE Goal == AccountsInv' /\ RowsKept /\ RefusedForCause
<1>0. caller' = caller => RefusedForCause
  BY DEF RefusedForCause
<1>1. ASSUME Goal PROVE AccountsInv' /\ [RefusedForCause /\ AccountsKept]_accountsVars
  BY <1>1, RowsAreKept
<1>2. CASE UNCHANGED accountsVars
  <2>1. UsersInv' /\ \A o \in Operators : OperatorInv(o)'
    BY <1>2 DEF accountsVars, AccountsInv, UsersInv, OperatorInv, Exists, MayMove, Moved, Overtaken,
       Finished
  <2> QED
    BY <1>2, <2>1 DEF accountsVars, AccountsInv
<1>3. ASSUME NEW name \in Words, NEW email \in Words, NEW pw \in Passwords,
             NEW list \in RoleLists, SignUpWith(name, email, pw, list)
      PROVE  Goal
  BY <1>0, <1>3, SignUpInv DEF SignUpWith
<1>4. ASSUME NEW name \in Words, NEW email \in Words, NEW pw \in Passwords,
             NEW list \in RoleLists, NEW o \in Operators, ReadFlags(o, name, email, pw, list)
      PROVE  Goal
  BY <1>0, <1>4, ReadFlagsInv DEF ReadFlags
<1>5. ASSUME NEW i \in UserIds, DeleteAccount(i) PROVE Goal
  BY <1>0, <1>5, DeleteInv DEF DeleteAccount
<1>6. ASSUME NEW c \in Callers, NEW by \in {"email", "name"}, NEW word \in Words,
             NEW pw \in Passwords, LogIn(c, by, word, pw)
      PROVE  Goal
  BY <1>6, LogInInv
<1>7. ASSUME NEW o \in Operators, FindAccount(o) PROVE Goal
  BY <1>0, <1>7, FindInv DEF FindAccount
<1>8. ASSUME NEW o \in Operators, CreateFound(o) PROVE Goal
  BY <1>0, <1>8, CreateInv DEF CreateFound
<1>9. ASSUME NEW o \in Operators, UpdateFound(o) PROVE Goal
  BY <1>0, <1>9, UpdateInv DEF UpdateFound
<1>10. ASSUME NEW o \in Operators, OperatorFails(o) PROVE Goal
  BY <1>0, <1>10, FailsInv DEF OperatorFails
<1> HIDE DEF Goal
<1>11. AccountsNext => Goal
  BY <1>3, <1>4, <1>5, <1>6, <1>7, <1>8, <1>9, <1>10, Zenon DEF AccountsNext
<1> QED
  BY <1>1, <1>2, <1>11

\* A row that is there changes only by the run of user-gen that found it, to what
\* was asked of the run, and not to an address that was not its own but for a user
\* name that is one; and whoever gives the right password gets in, for any number
\* of accounts, operators and logins in any order.
THEOREM AccountsHoldTheorem == AccountsSpec => AccountsHold
<1>1. AccountsInv /\ [AccountsNext]_accountsVars
        => AccountsInv' /\ [RefusedForCause /\ AccountsKept]_accountsVars
  BY AccountsInvNext
<1> QED
  BY AccountsInvInit, <1>1, PTL DEF AccountsSpec, AccountsHold

-----------------------------------------------------------------------------
(* The token store in memory.                                              *)

USE MemoryAssumption

LEMMA MemoryTypeInit == MemoryInit => MemoryTypeOK
BY DEF MemoryInit, MemoryTypeOK, NoEntry, Entry, Sets

LEMMA RemoveType ==
  ASSUME MemoryTypeOK, Remove
  PROVE  entry' = NoEntry /\ lost' \subseteq Sets
<1>1. entry # NoEntry => entry.set \in Sets
  BY DEF MemoryTypeOK, Entry
<1> QED
  BY <1>1 DEF MemoryTypeOK, Remove

LEMMA MemoryTypeNext ==
  ASSUME MemoryTypeOK, [MemoryNext]_memoryVars
  PROVE  MemoryTypeOK'
<1> USE DEF MemoryTypeOK, Sets, Entry, NoEntry
<1>1. CASE MemoryTick
  BY <1>1 DEF MemoryTick
<1>2. CASE TidyDelete
  BY <1>2, RemoveType DEF TidyDelete
<1>3. CASE MemoryDel
  BY <1>3 DEF MemoryDel
<1>4. ASSUME NEW s \in Sets, MemorySet(s) PROVE MemoryTypeOK'
  BY <1>4 DEF MemorySet, Fires
<1>5. ASSUME NEW s \in Sets, Fire(s) PROVE MemoryTypeOK'
  BY <1>5 DEF Fire
<1>6. ASSUME NEW s \in Sets, TidyReceive(s) PROVE MemoryTypeOK'
  <2>1. s \in 0 .. MaxSets /\ timer[s] \in [at : {"unset", "wait", "send", "over"}, fires : 0 .. MaxTick + Timeout]
    OBVIOUS
  <2>2. timer' \in [Sets -> [at : {"unset", "wait", "send", "over"}, fires : 0 .. MaxTick + Timeout]]
    BY <1>6, <2>1 DEF TidyReceive
  <2> QED
    BY <1>6, <2>1, <2>2 DEF TidyReceive
<1>7. ASSUME NEW g \in Getters, GetRead(g) PROVE MemoryTypeOK'
  BY <1>7 DEF GetRead
<1>8. ASSUME NEW g \in Getters, GetFound(g) \/ GetExpired(g) PROVE MemoryTypeOK'
  <2>1. CASE GetFound(g)
    BY <2>1 DEF GetFound
  <2>2. CASE GetExpired(g)
    BY <2>2 DEF GetExpired
  <2> QED
    BY <1>8, <2>1, <2>2
<1>9. ASSUME NEW g \in Getters, GetDelete(g) PROVE MemoryTypeOK'
  BY <1>9, RemoveType DEF GetDelete
<1>10. CASE UNCHANGED memoryVars
  BY <1>10 DEF memoryVars
<1> QED
  BY <1>1, <1>2, <1>3, <1>4, <1>5, <1>6, <1>7, <1>8, <1>9, <1>10 DEF MemoryNext

\* The types of the store in memory, for every bound.
THEOREM MemoryTypeCorrect == MemorySpec => []MemoryTypeOK
BY MemoryTypeInit, MemoryTypeNext, PTL DEF MemorySpec
-----------------------------------------------------------------------------
(* No token is taken too early without a reason, and none is forgotten.    *)

\* Whoever is about to delete has waited for the end of some token.
Waited ==
  /\ \A s \in Sets : timer[s].at = "send" => timer[s].fires <= tick
  /\ tidy # 0 => timer[tidy].fires <= tick
  /\ \A g \in Getters : getter[g].at = "del" => getter[g].read.expires < tick

\* The token that is kept is the last one, and its timer is set to its end.
Newest ==
  entry # NoEntry =>
    /\ entry.set \in Sets /\ entry.expires = timer[entry.set].fires
    /\ timer[entry.set].at \in {"wait", "send"} \/ tidy = entry.set
    /\ \A s \in Sets : entry.set < s => timer[s].at = "unset"

\* When nothing was on its way as the token came, what is on its way now is its
\* own.
OwnOnly ==
  entry # NoEntry /\ entry.set \notin doomed =>
    /\ \A s \in Sets : timer[s].at \in {"wait", "send"} => s = entry.set
    /\ tidy # 0 => tidy = entry.set
    /\ \A g \in Getters : getter[g].at \in {"look", "del"} => getter[g].read = entry

\* A call that reads on has found a token.
Reads ==
  /\ tidy # 0 => timer[tidy].at = "over"
  /\ \A g \in Getters : getter[g].at \in {"look", "del"} => getter[g].read # NoEntry

\* Tokens are set in the order of their names.
InTurn == \A r, s \in Sets : r < s /\ timer[s].at # "unset" => timer[r].at # "unset"

DeletionInv == Waited /\ Newest /\ OwnOnly /\ Reads /\ InTurn /\ lost \subseteq doomed

LEMMA DeletionInit == MemoryInit => DeletionInv
BY DEF MemoryInit, DeletionInv, Waited, Newest, OwnOnly, Reads, InTurn

LEMMA DeletionNext ==
  ASSUME MemoryTypeOK, DeletionInv, [MemoryNext]_memoryVars
  PROVE  DeletionInv'
<1> USE DEF MemoryTypeOK, Sets, Entry, NoEntry, DeletionInv, Waited, Newest, OwnOnly, Reads, InTurn
<1>1. CASE MemoryTick
  BY <1>1 DEF MemoryTick
<1>2. CASE TidyDelete
  <2>1. entry # NoEntry => entry.set \in Sets /\ entry.expires \in Nat
    OBVIOUS
  <2>2. entry # NoEntry /\ tick < entry.expires => entry.set \in doomed
    BY <1>2, <2>1 DEF TidyDelete
  <2>3. lost' \subseteq doomed' /\ entry' = NoEntry
    BY <1>2, <2>2 DEF TidyDelete, Remove
  <2> QED
    BY <1>2, <2>3 DEF TidyDelete
<1>3. CASE MemoryDel
  BY <1>3 DEF MemoryDel
<1>4. ASSUME NEW s \in Sets, MemorySet(s) PROVE DeletionInv'
  <2>1. /\ entry' = [set |-> s, expires |-> tick + Timeout]
        /\ timer' = [timer EXCEPT ![s] = [at |-> "wait", fires |-> tick + Timeout]]
        /\ doomed' = IF Underway THEN doomed \cup {s} ELSE doomed
        /\ UNCHANGED <<tick, tidy, getter, lost>>
        /\ timer[s].at = "unset" /\ \A r \in Sets : r < s => timer[r].at # "unset"
    BY <1>4 DEF MemorySet, Fires
  <2>2. /\ timer'[s] = [at |-> "wait", fires |-> tick + Timeout]
        /\ \A r \in Sets : r # s => timer'[r] = timer[r]
    BY <2>1
  <2>3. tidy # 0 => tidy # s
    BY <2>1
  <2>4. Waited' /\ Reads'
    BY <2>1, <2>2, <2>3
  <2>5. \A r \in Sets : s < r => timer[r].at = "unset"
    BY <2>1
  <2>6. Newest' /\ InTurn'
    BY <2>1, <2>2, <2>5
  <2>7. OwnOnly'
    BY <2>1, <2>2 DEF Underway
  <2> QED
    BY <2>1, <2>4, <2>6, <2>7
<1>5. ASSUME NEW s \in Sets, Fire(s) PROVE DeletionInv'
  BY <1>5 DEF Fire
<1>6. ASSUME NEW s \in Sets, TidyReceive(s) PROVE DeletionInv'
  BY <1>6 DEF TidyReceive
<1>7. ASSUME NEW g \in Getters, GetRead(g) PROVE DeletionInv'
  BY <1>7 DEF GetRead
<1>8. ASSUME NEW g \in Getters, GetFound(g) \/ GetExpired(g) PROVE DeletionInv'
  <2>1. CASE GetFound(g)
    BY <2>1 DEF GetFound
  <2>2. CASE GetExpired(g)
    BY <2>2 DEF GetExpired
  <2> QED
    BY <1>8, <2>1, <2>2
<1>9. ASSUME NEW g \in Getters, GetDelete(g) PROVE DeletionInv'
  BY <1>9 DEF GetDelete, Remove
<1>10. CASE UNCHANGED memoryVars
  BY <1>10 DEF memoryVars
<1> QED
  BY <1>1, <1>2, <1>3, <1>4, <1>5, <1>6, <1>7, <1>8, <1>9, <1>10 DEF MemoryNext

\* A token is lost before its end only if it was stored while the deletion of
\* an older one was on its way, and no token is forgotten.
THEOREM TokensTimeOutTheorem == MemorySpec => []TokensTimeOut
<1>1. DeletionInv => TokensTimeOut
  BY DEF DeletionInv, Newest, TokensTimeOut
<1> QED
  BY MemoryTypeInit, MemoryTypeNext, DeletionInit, DeletionNext, <1>1, PTL DEF MemorySpec
-----------------------------------------------------------------------------
(* The invites.                                                            *)

USE ConstantsAssumption, NoneAssumption

-----------------------------------------------------------------------------
(* Facts about the helpers.                                                *)

\* A session written by Create is a session.
LEMMA NewSessionType ==
  ASSUME NEW u \in Users, NEW p \in Request
  PROVE  NewSession(u, p) \in Session
BY DEF NewSession, Session, Request

\* Charging an attempt keeps a session a session and only lowers its TTL.
LEMMA ChargedSession ==
  ASSUME NEW s \in Session, ~Spent(s)
  PROVE  /\ Charged(s) \in Session
         /\ Charged(s).by = s.by
         /\ Charged(s).email = s.email
         /\ Charged(s).roles = s.roles
         /\ Charged(s).ttl = IF s.ttl > 0 THEN s.ttl - 1 ELSE s.ttl
BY DEF Charged, Session, Spent
-----------------------------------------------------------------------------
(* Type correctness.  What a handler holds is tied to where it stands.     *)

WorkingPC == PC \ {"idle", "mget"}

\* Only issued invites are stored or worked on.
LocalOK ==
  /\ \A i \in Ids : issued[i] = None => store[i] = None
  /\ \A h \in Handlers :
       /\ pc[h] \in WorkingPC => on[h] \in Ids /\ issued[on[h]] # None
       /\ pc[h] \in {"mail", "ownerDel", "mget"} => who[h] \in Users
       /\ pc[h] \in {"put", "reput", "register"} => copy[h] # None
       /\ copy[h] # None => pc[h] \in {"put", "reput", "register", "cleanup"}

TypeInv == TypeOK /\ LocalOK

\* The type invariant holds initially.
LEMMA TypeInit == Init => TypeInv
<1>1. Init => TypeOK
  BY DEF Init, TypeOK, PC
<1>2. Init => LocalOK
  BY DEF Init, LocalOK, WorkingPC, PC
<1>3. QED
  BY <1>1, <1>2 DEF TypeInv

\* Every action of a handler keeps the type invariant.
LEMMA TypeHandle ==
  ASSUME TypeInv, NEW h \in Handlers, Handle(h)
  PROVE  TypeInv'
<1> USE DEF TypeInv, TypeOK, LocalOK, PC, WorkingPC, Goto
<1>1. ASSUME NEW u \in Users, NEW i \in Ids, NEW p \in Request, Create(h, u, i, p)
      PROVE  TypeInv'
  <2>1. NewSession(u, p) \in Session /\ NewSession(u, p) # None
    BY NewSessionType
  <2>2. QED
    BY <1>1, <2>1 DEF Create
<1>2. CASE Deliver(h)
  <2>1. issued[on[h]] \in Session /\ who[h] \in Users
    BY <1>2 DEF Deliver
  <2>2. Recipients(who[h], issued[on[h]]) \subseteq Person
    BY <2>1 DEF Recipients, Person
  <2>3. knows' \in [Ids -> SUBSET Person]
    BY <1>2, <2>2 DEF Deliver
  <2>4. QED
    BY <1>2, <2>3 DEF Deliver, Return, storeVars
<1>3. CASE MailFails(h)
  BY <1>3 DEF MailFails, Return, storeVars, historyVars
<1>4. ASSUME NEW i \in Ids, FindSpent(h, i) PROVE TypeInv'
  BY <1>4 DEF FindSpent, Live, storeVars, historyVars
<1>5. ASSUME NEW i \in Ids, SignUp(h, i) PROVE TypeInv'
  <2>1. store[i] \in Session
    BY <1>5 DEF SignUp, Live
  <2>2. Charged(store[i]) \in Session /\ Charged(store[i]) # None
    BY <1>5, <2>1, ChargedSession DEF SignUp
  <2>3. QED
    BY <1>5, <2>2 DEF SignUp, Live, storeVars, historyVars
<1>6. CASE Refuse(h)
  BY <1>6 DEF Refuse, Del, Return, storeVars, historyVars
<1>7. CASE PutBack(h)
  BY <1>7 DEF PutBack, Put, localVars
<1>8. CASE GiveUp(h)
  BY <1>8 DEF GiveUp, Return, storeVars, historyVars
<1>9. ASSUME NEW e \in Emails, Register(h, e) PROVE TypeInv'
  <2>1. copy[h] \in Session /\ on[h] \in Ids
    BY <1>9 DEF Register
  <2>2. [email |-> e, roles |-> copy[h].roles, via |-> on[h]] \in Account
    BY <2>1 DEF Account, Session
  <2>3. QED
    BY <1>9, <2>2 DEF Register, storeVars, localVars
<1>10. CASE Cleanup(h)
  BY <1>10 DEF Cleanup, Del, Return, storeVars, historyVars
<1>11. ASSUME NEW u \in Users, NEW i \in Ids, Delete(h, u, i) PROVE TypeInv'
  BY <1>11 DEF Delete, Live, storeVars, historyVars
<1>12. CASE OwnerDel(h)
  BY <1>12 DEF OwnerDel, Del, Return, storeVars, historyVars
<1>13. ASSUME NEW u \in Users, List(h, u) PROVE TypeInv'
  BY <1>13 DEF List, storeVars, historyVars
<1>14. CASE MGet(h)
  <2>1. who[h] \in Person
    BY <1>14 DEF MGet, Person
  <2>2. knows' \in [Ids -> SUBSET Person]
    BY <1>14, <2>1 DEF MGet
  <2>3. QED
    BY <1>14, <2>2 DEF MGet, Return, storeVars
<1>15. CASE ListPanics(h)
  BY <1>15 DEF ListPanics, Return, storeVars, historyVars
<1>17. CASE CreateUnanswered(h)
  BY <1>17 DEF CreateUnanswered, historyVars, localVars
<1>18. CASE PutUnanswered(h)
  BY <1>18 DEF PutUnanswered, Put, localVars
<1>19. CASE DelUnanswered(h)
  BY <1>19 DEF DelUnanswered, Del, historyVars, localVars
<1>16. QED
  BY <1>1, <1>2, <1>3, <1>4, <1>5, <1>6, <1>7, <1>8, <1>9, <1>10, <1>11, <1>12,
     <1>13, <1>14, <1>15, <1>17, <1>18, <1>19 DEF Handle

\* Every step keeps the type invariant.
LEMMA TypeNext == TypeInv /\ [Next]_vars => TypeInv'
<1> SUFFICES ASSUME TypeInv, [Next]_vars PROVE TypeInv'
  OBVIOUS
<1>1. ASSUME NEW h \in Handlers, Handle(h) PROVE TypeInv'
  BY <1>1, TypeHandle
<1>2. ASSUME NEW i \in Ids, TimeOut(i) PROVE TypeInv'
  BY <1>2 DEF TypeInv, TypeOK, LocalOK, TimeOut, localVars
<1>3. CASE UNCHANGED vars
  BY <1>3 DEF TypeInv, TypeOK, LocalOK, vars
<1>4. QED
  BY <1>1, <1>2, <1>3 DEF Next

\* Type correctness of the invitation store and of the requests on it.
THEOREM TypeCorrect == Spec => []TypeOK
<1>1. TypeInv => TypeOK
  BY DEF TypeInv
<1>2. QED
  BY <1>1, TypeInit, TypeNext, PTL DEF Spec
-----------------------------------------------------------------------------
(* What is stored grants no more than what was issued.                     *)

GrantsInv == TypeInv /\ GrantsAsIssued

\* Charging an attempt to a session keeps it within the invite issued.
LEMMA ChargedWithin ==
  ASSUME TypeInv, NEW i \in Ids, Live(i), Within(store[i], i), ~Spent(store[i])
  PROVE  Within(Charged(store[i]), i)
<1>1. store[i] \in Session /\ issued[i] \in Session
  BY DEF TypeInv, TypeOK, Live, Within
<1>2. QED
  BY <1>1, ChargedSession DEF Within, Unlimited, Session, Spent

\* Every action of a handler keeps GrantsAsIssued.
LEMMA GrantsHandle ==
  ASSUME GrantsInv, NEW h \in Handlers, Handle(h)
  PROVE  GrantsAsIssued'
<1> USE DEF GrantsInv, TypeInv, TypeOK, LocalOK, GrantsAsIssued, Live, Within, Unlimited, Goto,
       WorkingPC, PC
<1>1. ASSUME NEW u \in Users, NEW i \in Ids, NEW p \in Request, Create(h, u, i, p)
      PROVE  GrantsAsIssued'
  <2>1. NewSession(u, p) \in Session /\ NewSession(u, p) # None
    BY NewSessionType
  <2>2. NewSession(u, p).ttl \in Int
    BY <2>1 DEF Session
  <2>3. QED
    BY <1>1, <2>1, <2>2 DEF Create
<1>2. CASE Deliver(h)
  BY <1>2 DEF Deliver, Return, storeVars
<1>3. CASE MailFails(h)
  BY <1>3 DEF MailFails, Return, storeVars, historyVars
<1>4. ASSUME NEW i \in Ids, FindSpent(h, i) PROVE GrantsAsIssued'
  BY <1>4 DEF FindSpent, storeVars, historyVars
<1>5. ASSUME NEW i \in Ids, SignUp(h, i) PROVE GrantsAsIssued'
  <2>1. Within(Charged(store[i]), i)
    BY <1>5, ChargedWithin DEF SignUp
  <2>2. QED
    BY <1>5, <2>1 DEF SignUp, storeVars, historyVars
<1>6. CASE Refuse(h)
  BY <1>6 DEF Refuse, Del, Return, storeVars, historyVars
<1>7. CASE PutBack(h)
  BY <1>7 DEF PutBack, Put, localVars
<1>8. CASE GiveUp(h)
  BY <1>8 DEF GiveUp, Return, storeVars, historyVars
<1>9. ASSUME NEW e \in Emails, Register(h, e) PROVE GrantsAsIssued'
  BY <1>9 DEF Register, storeVars, localVars
<1>10. CASE Cleanup(h)
  BY <1>10 DEF Cleanup, Del, Return, storeVars, historyVars
<1>11. ASSUME NEW u \in Users, NEW i \in Ids, Delete(h, u, i) PROVE GrantsAsIssued'
  BY <1>11 DEF Delete, storeVars, historyVars
<1>12. CASE OwnerDel(h)
  BY <1>12 DEF OwnerDel, Del, Return, storeVars, historyVars
<1>13. ASSUME NEW u \in Users, List(h, u) PROVE GrantsAsIssued'
  BY <1>13 DEF List, storeVars, historyVars
<1>14. CASE MGet(h)
  BY <1>14 DEF MGet, Return, storeVars
<1>15. CASE ListPanics(h)
  BY <1>15 DEF ListPanics, Return, storeVars, historyVars
<1>17. CASE CreateUnanswered(h)
  <2>1. issued[on[h]] \in Session /\ issued[on[h]].ttl \in Int
    BY <1>17 DEF CreateUnanswered, Session
  <2>2. Within(issued[on[h]], on[h])
    BY <1>17, <2>1 DEF CreateUnanswered
  <2>3. QED
    BY <1>17, <2>1, <2>2 DEF CreateUnanswered, historyVars, localVars
<1>18. CASE PutUnanswered(h)
  BY <1>18 DEF PutUnanswered, Put, localVars
<1>19. CASE DelUnanswered(h)
  BY <1>19 DEF DelUnanswered, Del, historyVars, localVars
<1>16. QED
  BY <1>1, <1>2, <1>3, <1>4, <1>5, <1>6, <1>7, <1>8, <1>9, <1>10, <1>11, <1>12,
     <1>13, <1>14, <1>15, <1>17, <1>18, <1>19 DEF Handle
-----------------------------------------------------------------------------
(* The remaining attempts and the attempts made add up to at least the     *)
(* attempts granted, in the store and in the copy about to be written.     *)

Counted ==
  /\ \A i \in Ids : Charges(i) >= 0
  /\ \A i \in Ids : Live(i) /\ ~Unlimited(i) =>
       store[i].ttl + Charges(i) >= issued[i].ttl
  /\ \A h \in Handlers : pc[h] \in {"put", "reput"} =>
       ~Unlimited(on[h])
  /\ \A h \in Handlers : pc[h] = "put" =>
       copy[h].ttl + Charges(on[h]) + 1 >= issued[on[h]].ttl
  /\ \A h \in Handlers : pc[h] = "reput" =>
       copy[h].ttl + Charges(on[h]) >= issued[on[h]].ttl

CountInv == GrantsInv /\ Counted /\ NoAttemptLost

\* Every action of a handler keeps the count, and refuses only spent invites.
LEMMA CountHandle ==
  ASSUME CountInv, NEW h \in Handlers, Handle(h)
  PROVE  (Counted /\ NoAttemptLost)'
<1> DEFINE Goal == (Counted /\ NoAttemptLost)'
<1> USE DEF CountInv, GrantsInv, TypeInv, TypeOK, LocalOK, GrantsAsIssued, Counted, NoAttemptLost,
       Live, Within, Unlimited, Goto, WorkingPC, PC, Charges
<1>1. ASSUME NEW u \in Users, NEW i \in Ids, NEW p \in Request, Create(h, u, i, p)
      PROVE  Goal
  <2>1. NewSession(u, p) \in Session /\ NewSession(u, p) # None
    BY NewSessionType
  <2>2. NewSession(u, p).ttl \in Int
    BY <2>1 DEF Session
  <2>3. store[i] = None /\ on' = [on EXCEPT ![h] = i] /\ pc' = [pc EXCEPT ![h] = "mail"]
        /\ \A g \in Handlers : pc[g] \in WorkingPC => on[g] # i
    BY <1>1 DEF Create
  <2>4. \A j \in Ids : attempts[j] \in Nat /\ doubtful[j] \in Int
    OBVIOUS
  <2>5. \A j \in Ids \ {i} : store'[j] = store[j] /\ issued'[j] = issued[j]
    BY <1>1 DEF Create
  <2>6. store'[i] = NewSession(u, p) /\ issued'[i] = NewSession(u, p)
    BY <1>1 DEF Create
  <2>7. attempts' = attempts /\ doubtful' = doubtful /\ copy' = copy
    BY <1>1 DEF Create
  <2>8. ASSUME NEW j \in Ids, Live(j)', ~Unlimited(j)'
        PROVE  (store[j].ttl + Charges(j) >= issued[j].ttl)'
    BY <2>1, <2>2, <2>4, <2>5, <2>6, <2>7, <2>8
  <2>9. QED
    BY <2>3, <2>5, <2>7, <2>8
<1>2. CASE Deliver(h)
  BY <1>2 DEF Deliver, Return, storeVars
<1>3. CASE MailFails(h)
  BY <1>3 DEF MailFails, Return, storeVars, historyVars
<1>4. ASSUME NEW i \in Ids, FindSpent(h, i) PROVE Goal
  BY <1>4 DEF Spent, Session, FindSpent, storeVars, historyVars
<1>5. ASSUME NEW i \in Ids, SignUp(h, i) PROVE Goal
  <2>1. store[i] \in Session /\ issued[i] \in Session
    BY <1>5 DEF SignUp
  <2>2. Charged(store[i]).ttl = IF store[i].ttl > 0 THEN store[i].ttl - 1 ELSE store[i].ttl
    BY <1>5, <2>1, ChargedSession DEF SignUp
  <2>3. store[i].ttl \in Int /\ issued[i].ttl \in Int
    BY <2>1 DEF Session
  <2>4. QED
    BY <1>5, <2>2, <2>3 DEF SignUp, storeVars, historyVars
<1>6. CASE Refuse(h)
  BY <1>6 DEF Refuse, Del, Return, storeVars, historyVars
<1>7. CASE PutBack(h)
  BY <1>7 DEF Session, PutBack, Put, localVars
<1>8. CASE GiveUp(h)
  BY <1>8 DEF GiveUp, Return, storeVars, historyVars
<1>9. ASSUME NEW e \in Emails, Register(h, e) PROVE Goal
  BY <1>9 DEF Register, storeVars, localVars
<1>10. CASE Cleanup(h)
  BY <1>10 DEF Cleanup, Del, Return, storeVars, historyVars
<1>11. ASSUME NEW u \in Users, NEW i \in Ids, Delete(h, u, i) PROVE Goal
  BY <1>11 DEF Delete, storeVars, historyVars
<1>12. CASE OwnerDel(h)
  BY <1>12 DEF OwnerDel, Del, Return, storeVars, historyVars
<1>13. ASSUME NEW u \in Users, List(h, u) PROVE Goal
  BY <1>13 DEF List, storeVars, historyVars
<1>14. CASE MGet(h)
  BY <1>14 DEF MGet, Return, storeVars
<1>15. CASE ListPanics(h)
  BY <1>15 DEF ListPanics, Return, storeVars, historyVars
<1>17. CASE CreateUnanswered(h)
  <2>1. issued[on[h]] \in Session /\ issued[on[h]].ttl \in Int
    BY <1>17 DEF CreateUnanswered, Session
  <2>2. QED
    BY <1>17, <2>1 DEF CreateUnanswered, historyVars, localVars
<1>18. CASE PutUnanswered(h)
  <2> DEFINE i == on[h]
  <2>1. /\ i \in Ids /\ issued[i] # None /\ ~Unlimited(i)
        /\ copy[h] \in Session /\ copy[h].ttl \in Int
        /\ \A j \in Ids : issued[j] # None => issued[j].ttl \in Int
        /\ \A j \in Ids : store[j] # None => store[j].ttl \in Int /\ issued[j] # None
    BY <1>18 DEF PutUnanswered, Session
  <2>2. /\ store' = [store EXCEPT ![i] = copy[h]] /\ pc' = [pc EXCEPT ![h] = "reput"]
        /\ UNCHANGED <<issued, on, copy, attempts>>
    BY <1>18 DEF PutUnanswered, Put, localVars
  <2>3. \A j \in Ids : Charges(j) \in Int /\ Charges(j)' \in Int /\ Charges(j)' >= Charges(j)
    BY <1>18, <2>2 DEF PutUnanswered
  <2>4. copy[h].ttl + Charges(i)' >= issued[i].ttl
    <3>1. CASE pc[h] = "put"
      <4>1. copy[h].ttl + Charges(i) + 1 >= issued[i].ttl
        BY <3>1 DEF CountInv
      <4>2. Charges(i)' = Charges(i) + 1
        <5>1. doubtful' = [doubtful EXCEPT ![i] = @ + 1] /\ attempts' = attempts /\ on' = on
          BY <1>18, <3>1 DEF PutUnanswered, localVars
        <5>2. attempts[i] \in Nat /\ doubtful[i] \in Int /\ doubtful'[i] = doubtful[i] + 1
          BY <2>1, <5>1
        <5> QED
          BY <5>1, <5>2
      <4> HIDE DEF Charges
      <4> QED
        BY <2>1, <2>3, <4>1, <4>2
    <3>2. CASE pc[h] = "reput"
      <4>1. copy[h].ttl + Charges(i) >= issued[i].ttl
        BY <3>2 DEF CountInv
      <4>2. Charges(i)' = Charges(i)
        <5>1. doubtful' = doubtful /\ attempts' = attempts /\ on' = on
          BY <1>18, <3>2 DEF PutUnanswered, localVars
        <5> QED
          BY <5>1
      <4> QED
        BY <4>1, <4>2
    <3> QED
      BY <1>18, <3>1, <3>2 DEF PutUnanswered
  <2>5. /\ \A j \in Ids : Charges(j) >= 0
        /\ \A j \in Ids : Live(j) /\ ~Unlimited(j) => store[j].ttl + Charges(j) >= issued[j].ttl
        /\ \A g \in Handlers : pc[g] \in {"put", "reput"} =>
              /\ ~Unlimited(on[g]) /\ on[g] \in Ids /\ issued[on[g]] # None
              /\ copy[g] \in Session
    BY DEF CountInv
  <2>6. \A g \in Handlers : pc[g] \in {"put", "reput"} => copy[g].ttl \in Int
    BY <2>5 DEF Session
  <2>7. (\A j \in Ids : Charges(j) >= 0)'
    BY <2>3, <2>5
  <2>8. ASSUME NEW j \in Ids, Live(j)', ~Unlimited(j)'
        PROVE  (store[j].ttl + Charges(j) >= issued[j].ttl)'
    <3>1. CASE j = i
      BY <2>2, <2>4, <3>1
    <3>2. CASE j # i
      <4>1. store'[j] = store[j] /\ issued'[j] = issued[j]
        BY <2>2, <3>2
      <4> HIDE DEF Charges
      <4> QED
        BY <2>1, <2>3, <2>5, <2>8, <4>1
    <3> QED
      BY <3>1, <3>2
  <2> HIDE DEF Charges
  <2>9. ASSUME NEW g \in Handlers, pc'[g] = "put"
        PROVE  (copy[g].ttl + Charges(on[g]) + 1 >= issued[on[g]].ttl)'
    <3>1. pc[g] = "put" /\ copy[g].ttl + Charges(on[g]) + 1 >= issued[on[g]].ttl
      BY <2>2, <2>9
    <3>2. copy[g].ttl \in Int /\ on[g] \in Ids /\ issued[on[g]].ttl \in Int
      BY <2>1, <2>5, <2>6, <3>1
    <3> QED
      BY <2>2, <2>3, <3>1, <3>2
  <2>10. ASSUME NEW g \in Handlers, pc'[g] = "reput"
         PROVE  (copy[g].ttl + Charges(on[g]) >= issued[on[g]].ttl)'
    <3>1. CASE g = h
      BY <2>2, <2>4, <3>1
    <3>2. CASE g # h
      <4>1. pc[g] = "reput" /\ copy[g].ttl + Charges(on[g]) >= issued[on[g]].ttl
        BY <2>2, <2>10, <3>2
      <4>2. copy[g].ttl \in Int /\ on[g] \in Ids /\ issued[on[g]].ttl \in Int
        BY <2>1, <2>5, <2>6, <4>1
      <4> QED
        BY <2>2, <2>3, <4>1, <4>2
    <3> QED
      BY <3>1, <3>2
  <2>11. ASSUME NEW g \in Handlers, pc'[g] = "spent"
         PROVE  (~Unlimited(on[g]) /\ Charges(on[g]) >= issued[on[g]].ttl)'
    <3>1. pc[g] = "spent" /\ ~Unlimited(on[g]) /\ Charges(on[g]) >= issued[on[g]].ttl
      BY <2>2, <2>11
    <3>2. on[g] \in Ids /\ issued[on[g]].ttl \in Int
      BY <2>1, <3>1
    <3> QED
      BY <2>2, <2>3, <3>1, <3>2
  <2>12. ASSUME NEW g \in Handlers, pc'[g] \in {"put", "reput"} PROVE ~Unlimited(on[g])'
    BY <2>1, <2>2, <2>5, <2>12
  <2> QED
    BY <2>7, <2>8, <2>9, <2>10, <2>11, <2>12
<1>19. CASE DelUnanswered(h)
  BY <1>19 DEF DelUnanswered, Del, historyVars, localVars
<1>16. QED
  BY <1>1, <1>2, <1>3, <1>4, <1>5, <1>6, <1>7, <1>8, <1>9, <1>10, <1>11, <1>12,
     <1>13, <1>14, <1>15, <1>17, <1>18, <1>19 DEF Handle
-----------------------------------------------------------------------------
(* The accounts made through invites.                                      *)

Justified(a) ==
  /\ issued[a.via] # None
  /\ a.roles = issued[a.via].roles
  /\ issued[a.via].email \in {None, a.email}

AccountsOK ==
  /\ \A a \in accounts : Justified(a)
  /\ \A a, b \in accounts : a.email = b.email => a = b
  /\ \A i \in Ids : issued[i] # None /\ issued[i].roles # {} => IsAdmin(issued[i].by)
  /\ \A h \in Handlers : pc[h] = "cleanup" => \E a \in accounts : a.via = on[h]

AccountInv == GrantsInv /\ AccountsOK

\* Every action of a handler keeps the accounts justified.
LEMMA AccountHandle ==
  ASSUME AccountInv, NEW h \in Handlers, Handle(h)
  PROVE  AccountsOK'
<1> USE DEF AccountInv, GrantsInv, TypeInv, TypeOK, LocalOK, GrantsAsIssued, AccountsOK, Justified,
       Account, Live, Within, Goto, WorkingPC, PC, IsAdmin
<1>1. ASSUME NEW u \in Users, NEW i \in Ids, NEW p \in Request, Create(h, u, i, p)
      PROVE  AccountsOK'
  <2>1. NewSession(u, p) \in Session /\ NewSession(u, p) # None
    BY NewSessionType
  <2>2. NewSession(u, p).roles # {} => IsAdmin(NewSession(u, p).by)
    BY <1>1 DEF Create, MayCreate, NewSession
  <2>3. QED
    BY <1>1, <2>1, <2>2 DEF Create
<1>2. CASE Deliver(h)
  BY <1>2 DEF Deliver, Return, storeVars
<1>3. CASE MailFails(h)
  BY <1>3 DEF MailFails, Return, storeVars, historyVars
<1>4. ASSUME NEW i \in Ids, FindSpent(h, i) PROVE AccountsOK'
  BY <1>4 DEF FindSpent, storeVars, historyVars
<1>5. ASSUME NEW i \in Ids, SignUp(h, i) PROVE AccountsOK'
  BY <1>5 DEF SignUp, storeVars, historyVars
<1>6. CASE Refuse(h)
  BY <1>6 DEF Refuse, Del, Return, storeVars, historyVars
<1>7. CASE PutBack(h)
  BY <1>7 DEF PutBack, Put, localVars
<1>8. CASE GiveUp(h)
  BY <1>8 DEF GiveUp, Return, storeVars, historyVars
<1>9. ASSUME NEW e \in Emails, Register(h, e) PROVE AccountsOK'
  <2> DEFINE new == [email |-> e, roles |-> copy[h].roles, via |-> on[h]]
  <2>1. Justified(new) /\ on[h] \in Ids
    BY <1>9 DEF Register
  <2>2. accounts' = accounts \cup {new} /\ \A a \in accounts : a.email # new.email
    BY <1>9 DEF Register, EmailFree
  <2>3. new.email = e /\ new.via = on[h]
    OBVIOUS
  <2>4. issued' = issued /\ on' = on /\ pc' = [pc EXCEPT ![h] = "cleanup"]
    BY <1>9 DEF Register, storeVars, localVars
  <2> HIDE DEF new
  <2>5. QED
    BY <2>1, <2>2, <2>3, <2>4
<1>10. CASE Cleanup(h)
  BY <1>10 DEF Cleanup, Del, Return, storeVars, historyVars
<1>11. ASSUME NEW u \in Users, NEW i \in Ids, Delete(h, u, i)
      PROVE  AccountsOK'
  BY <1>11 DEF Delete, storeVars, historyVars
<1>12. CASE OwnerDel(h)
  BY <1>12 DEF OwnerDel, Del, Return, storeVars, historyVars
<1>13. ASSUME NEW u \in Users, List(h, u) PROVE AccountsOK'
  BY <1>13 DEF List, storeVars, historyVars
<1>14. CASE MGet(h)
  BY <1>14 DEF MGet, Return, storeVars
<1>15. CASE ListPanics(h)
  BY <1>15 DEF ListPanics, Return, storeVars, historyVars
<1>17. CASE CreateUnanswered(h)
  BY <1>17 DEF CreateUnanswered, historyVars, localVars
<1>18. CASE PutUnanswered(h)
  BY <1>18 DEF PutUnanswered, Put, localVars
<1>19. CASE DelUnanswered(h)
  BY <1>19 DEF DelUnanswered, Del, historyVars, localVars
<1>16. QED
  BY <1>1, <1>2, <1>3, <1>4, <1>5, <1>6, <1>7, <1>8, <1>9, <1>10, <1>11, <1>12,
     <1>13, <1>14, <1>15, <1>17, <1>18, <1>19 DEF Handle
-----------------------------------------------------------------------------
(* Who is handed a link, and who deletes.                                  *)

Kept ==
  /\ LinksKept
  /\ \A h \in Handlers :
       /\ pc[h] \in {"mail", "ownerDel"} => who[h] = issued[on[h]].by
       /\ \A i \in keys[h] : issued[i] # None

KeptInv == GrantsInv /\ Kept

\* Every action of a handler hands links only to those who may have them.
LEMMA KeptHandle ==
  ASSUME KeptInv, NEW h \in Handlers, Handle(h)
  PROVE  Kept'
<1> USE DEF KeptInv, GrantsInv, TypeInv, TypeOK, LocalOK, GrantsAsIssued, Kept, LinksKept,
       Live, Within, Goto, WorkingPC, PC
<1>1. ASSUME NEW u \in Users, NEW i \in Ids, NEW p \in Request, Create(h, u, i, p)
      PROVE  Kept'
  <2>1. NewSession(u, p) \in Session /\ NewSession(u, p) # None
    BY NewSessionType
  <2>2. NewSession(u, p).by = u
    BY DEF NewSession
  <2>3. QED
    BY <1>1, <2>1, <2>2 DEF Create
<1>2. CASE Deliver(h)
  <2> DEFINE i == on[h]
  <2>1. i \in Ids /\ issued[i] # None /\ who[h] = issued[i].by
    BY <1>2 DEF Deliver
  <2>2. Recipients(who[h], issued[i]) \subseteq {issued[i].by, issued[i].email}
    BY <2>1 DEF Recipients
  <2>3. \A j \in Ids : knows'[j] = IF j = i THEN knows[j] \cup Recipients(who[h], issued[i])
                                            ELSE knows[j]
    BY <1>2 DEF Deliver
  <2>4. LinksKept'
    BY <1>2, <2>1, <2>2, <2>3 DEF Deliver
  <2>5. QED
    BY <1>2, <2>4 DEF Deliver, Return, storeVars
<1>3. CASE MailFails(h)
  BY <1>3 DEF MailFails, Return, storeVars, historyVars
<1>4. ASSUME NEW i \in Ids, FindSpent(h, i) PROVE Kept'
  BY <1>4 DEF FindSpent, storeVars, historyVars
<1>5. ASSUME NEW i \in Ids, SignUp(h, i) PROVE Kept'
  BY <1>5 DEF SignUp, storeVars, historyVars
<1>6. CASE Refuse(h)
  BY <1>6 DEF Refuse, Del, Return, storeVars, historyVars
<1>7. CASE PutBack(h)
  BY <1>7 DEF PutBack, Put, localVars
<1>8. CASE GiveUp(h)
  BY <1>8 DEF GiveUp, Return, storeVars, historyVars
<1>9. ASSUME NEW e \in Emails, Register(h, e) PROVE Kept'
  BY <1>9 DEF Register, storeVars, localVars
<1>10. CASE Cleanup(h)
  BY <1>10 DEF Cleanup, Del, Return, storeVars, historyVars
<1>11. ASSUME NEW u \in Users, NEW i \in Ids, Delete(h, u, i) PROVE Kept'
  BY <1>11 DEF Owns, Delete, storeVars, historyVars
<1>12. CASE OwnerDel(h)
  BY <1>12 DEF OwnerDel, Del, Return, storeVars, historyVars
<1>13. ASSUME NEW u \in Users, List(h, u) PROVE Kept'
  BY <1>13 DEF List, storeVars, historyVars
<1>14. CASE MGet(h)
  <2>1. /\ \A i \in keys[h] : Live(i) /\ i \in Ids
        /\ knows' = [i \in Ids |-> IF i \in keys[h] /\ Visible(who[h], i)
                                     THEN knows[i] \cup {who[h]} ELSE knows[i]]
        /\ UNCHANGED <<store, issued>>
    BY <1>14 DEF MGet, storeVars
  <2>2. ASSUME NEW i \in Ids, i \in keys[h], Visible(who[h], i)
        PROVE  issued[i] # None /\ who[h] \in {issued[i].by, issued[i].email} \cup Admins
    BY <2>1, <2>2 DEF Visible, Owns, IsAdmin
  <2>3. LinksKept'
    BY <2>1, <2>2
  <2>4. QED
    BY <1>14, <2>1, <2>3 DEF MGet, Return
<1>15. CASE ListPanics(h)
  BY <1>15 DEF ListPanics, Return, storeVars, historyVars
<1>17. CASE CreateUnanswered(h)
  BY <1>17 DEF CreateUnanswered, historyVars, localVars
<1>18. CASE PutUnanswered(h)
  BY <1>18 DEF PutUnanswered, Put, localVars
<1>19. CASE DelUnanswered(h)
  BY <1>19 DEF DelUnanswered, Del, historyVars, localVars
<1>16. QED
  BY <1>1, <1>2, <1>3, <1>4, <1>5, <1>6, <1>7, <1>8, <1>9, <1>10, <1>11, <1>12,
     <1>13, <1>14, <1>15, <1>17, <1>18, <1>19 DEF Handle
-----------------------------------------------------------------------------
(* The whole inductive invariant, and what follows from it.                *)

SafeInv == GrantsInv /\ Counted /\ NoAttemptLost /\ AccountsOK /\ Kept

\* The inductive invariant holds initially.
LEMMA SafeInit == Init => SafeInv
<1> SUFFICES ASSUME Init PROVE SafeInv
  OBVIOUS
<1>1. TypeInv
  BY TypeInit
<1>2. GrantsAsIssued /\ Counted /\ NoAttemptLost
  BY DEF Init, GrantsAsIssued, Counted, NoAttemptLost, Live, Charges
<1>3. AccountsOK /\ Kept
  BY DEF Init, AccountsOK, Kept, LinksKept
<1>4. QED
  BY <1>1, <1>2, <1>3 DEF SafeInv, GrantsInv

\* Every step keeps the inductive invariant.
LEMMA SafeNext == SafeInv /\ [Next]_vars => SafeInv'
<1> SUFFICES ASSUME SafeInv, [Next]_vars PROVE SafeInv'
  OBVIOUS
<1>1. TypeInv'
  BY TypeNext DEF SafeInv, GrantsInv
<1>2. ASSUME NEW h \in Handlers, Handle(h) PROVE SafeInv'
  <2>1. GrantsAsIssued'
    BY <1>2, GrantsHandle DEF SafeInv
  <2>2. (Counted /\ NoAttemptLost)'
    BY <1>2, CountHandle DEF SafeInv, CountInv
  <2>3. AccountsOK'
    BY <1>2, AccountHandle DEF SafeInv, AccountInv
  <2>4. Kept'
    BY <1>2, KeptHandle DEF SafeInv, KeptInv
  <2>5. QED
    BY <1>1, <2>1, <2>2, <2>3, <2>4 DEF SafeInv, GrantsInv
<1>3. ASSUME NEW i \in Ids, TimeOut(i) PROVE SafeInv'
  <2> USE <1>3 DEF SafeInv, GrantsInv, TypeInv, TypeOK, LocalOK, TimeOut, localVars, Live
  <2>1. GrantsAsIssued'
    BY DEF GrantsAsIssued, Within, Unlimited
  <2>2. (Counted /\ NoAttemptLost)'
    BY DEF Counted, NoAttemptLost, Charges, Unlimited
  <2>3. AccountsOK'
    BY DEF AccountsOK, Justified
  <2>4. Kept'
    BY DEF Kept, LinksKept
  <2>5. QED
    BY <1>1, <2>1, <2>2, <2>3, <2>4
<1>4. CASE UNCHANGED vars
  BY <1>1, <1>4 DEF SafeInv, GrantsInv, vars, GrantsAsIssued, Within, Unlimited, Live, Counted,
     NoAttemptLost, Charges, AccountsOK, Justified, Kept, LinksKept
<1>5. QED
  BY <1>2, <1>3, <1>4 DEF Next

\* The inductive invariant is an invariant.
LEMMA Safe == Spec => []SafeInv
BY SafeInit, SafeNext, PTL DEF Spec

\* A stored session, and the copy a request acts on, never grants more than
\* the invite that Create issued.
THEOREM GrantsTheorem == Spec => []GrantsAsIssued
<1>1. SafeInv => GrantsAsIssued
  BY DEF SafeInv, GrantsInv
<1>2. QED
  BY <1>1, Safe, PTL

\* An invite is refused as spent only after all the attempts it granted.
THEOREM NoAttemptLostTheorem == Spec => []NoAttemptLost
<1>1. SafeInv => NoAttemptLost
  BY DEF SafeInv
<1>2. QED
  BY <1>1, Safe, PTL

\* Accounts have the roles and the address their invite was issued for, only
\* admins give roles, and a named address yields at most one account.
THEOREM AccountsTheorem == Spec => []AccountsJustified
<1>1. SafeInv => AccountsJustified
  <2> SUFFICES ASSUME SafeInv PROVE AccountsJustified
    OBVIOUS
  <2> USE DEF SafeInv, GrantsInv, TypeInv, TypeOK, AccountsOK, Justified, Account
  <2>1. \A a \in accounts : a.roles # {} => IsAdmin(issued[a.via].by)
    OBVIOUS
  <2>2. ASSUME NEW a \in accounts, NEW b \in accounts, a.via = b.via,
               issued[a.via].email # None
        PROVE  a = b
    BY <2>2
  <2>3. QED
    BY <2>1, <2>2 DEF AccountsJustified
<1>2. QED
  BY <1>1, Safe, PTL

\* Links are handed only to the creator, the named address and admins.
THEOREM LinksTheorem == Spec => []LinksKept
<1>1. SafeInv => LinksKept
  BY DEF SafeInv, Kept
<1>2. QED
  BY <1>1, Safe, PTL

\* A live invite is removed only for a reason: its time, its attempts, an
\* account made from it, or its creator.
THEOREM RemovalTheorem == Spec => RemovalJustified
<1> DEFINE Ok == \A i \in Ids : Disappears(i) => RemovalAllowed(i)
<1>1. ASSUME SafeInv, [Next]_vars PROVE Ok \/ UNCHANGED vars
  <2> SUFFICES ASSUME NEW i \in Ids, Live(i), store'[i] = None, Next PROVE RemovalAllowed(i)
    BY <1>1 DEF Disappears
  <2> USE <1>1 DEF SafeInv, GrantsInv, TypeInv, TypeOK, LocalOK, Live
  <2>1. ASSUME NEW h \in Handlers, Handle(h) PROVE RemovalAllowed(i)
    <3>1. ASSUME NEW u \in Users, NEW j \in Ids, NEW p \in Request, Create(h, u, j, p)
          PROVE  FALSE
      BY <3>1, NewSessionType DEF Create
    <3>2. CASE Refuse(h)
      BY <3>2 DEF Refuse, Del, storeVars, NoAttemptLost, RemovalAllowed
    <3>3. CASE PutBack(h) \/ PutUnanswered(h) \/ CreateUnanswered(h)
      BY <3>3 DEF PutBack, PutUnanswered, CreateUnanswered, Put
    <3>4. CASE Cleanup(h)
      BY <3>4 DEF Cleanup, Del, storeVars, AccountsOK, RemovalAllowed
    <3>5. CASE OwnerDel(h)
      BY <3>5 DEF OwnerDel, Del, storeVars, Kept, RemovalAllowed
    <3>6. Deliver(h) \/ MailFails(h) \/ GiveUp(h) \/ MGet(h) \/ ListPanics(h) => store' = store
      BY DEF Deliver, MailFails, GiveUp, MGet, ListPanics, storeVars
    <3>7. ASSUME NEW j \in Ids, FindSpent(h, j) \/ SignUp(h, j) PROVE store' = store
      BY <3>7 DEF FindSpent, SignUp, storeVars
    <3>8. ASSUME NEW u \in Users, NEW j \in Ids, Delete(h, u, j) PROVE store' = store
      BY <3>8 DEF Delete, storeVars
    <3>9. ASSUME NEW u \in Users, List(h, u) PROVE store' = store
      BY <3>9 DEF List, storeVars
    <3>10. ASSUME NEW e \in Emails, Register(h, e) PROVE store' = store
      BY <3>10 DEF Register, storeVars
    <3>11. CASE DelUnanswered(h)
      BY <3>11 DEF DelUnanswered, Del, historyVars, localVars, NoAttemptLost, AccountsOK, Kept,
         RemovalAllowed
    <3>12. QED
      BY <2>1, <3>1, <3>2, <3>3, <3>4, <3>5, <3>6, <3>7, <3>8, <3>9, <3>10, <3>11 DEF Handle
  <2>2. ASSUME NEW j \in Ids, TimeOut(j) PROVE RemovalAllowed(i)
    BY <2>2 DEF TimeOut, RemovalAllowed
  <2>3. QED
    BY <2>1, <2>2 DEF Next
<1>2. SafeInv /\ [Next]_vars => [Ok]_vars
  BY <1>1
<1>3. QED
  BY <1>2, Safe, PTL DEF Spec, RemovalJustified
=============================================================================
