---------------------------- MODULE StoresProofs ----------------------------
(* Proofs about the smaller stores and what changes them, each by itself:  *)
(* the sessions of the hooks server, the login managers of a browser's     *)
(* tabs, the chat rooms, the link shortener, and the file server.          *)
EXTENDS Links, Rooms, SignIn, LoginManager, FileServer, FiniteSetTheorems, SequenceTheorems, TLAPS
-----------------------------------------------------------------------------
(* SignIn.                                                                 *)

CallSteps == {"new", "del", "exchange", "user", "set", "ok", "not found", "error", "lost"}

CallRecords ==
  [at : CallSteps, state : Nat, code : Nat, browser : Browsers, met : SUBSET Calls]

\* A round of tidy: no later than now.
Round(r, now) ==
  r = Idle \/ r \in [on : {TRUE}, at : 0 .. now, left : {r.left}]

\* The types, and what is made by whom.
SessionTypes ==
  /\ clock \in 0 .. MaxClock /\ crashes \in Nat
  /\ issued \in 0 .. MaxStates
  /\ codes \in Seq(GithubUsers) /\ Len(codes) <= MaxCodes
  /\ DOMAIN states \subseteq 1 .. issued /\ DOMAIN sessions \subseteq Calls
  /\ tidying \in [Stores -> {tidying[k] : k \in Stores}]
  /\ \A k \in Stores : Round(tidying[k], clock)
  /\ call \in [Calls -> CallRecords]
  /\ spent \subseteq DOMAIN codes
  /\ cookie \in [Browsers -> Calls \cup {NoCookie}]
  /\ \A c \in Calls :
       call[c].at # "new" => call[c].state \in 1 .. issued /\ call[c].code \in DOMAIN codes

\* A call that makes a session is over; sessions of this process are kept.
MadeInv ==
  \A c \in DOMAIN made :
    /\ c \in Calls /\ call[c].at = "ok"
    /\ made[c].at \in Nat /\ made[c].process \in 0 .. crashes
    /\ made[c].process = crashes /\ c \notin out /\ clock <= made[c].at + SessionTTL =>
         /\ c \in DOMAIN sessions
         /\ sessions[c] = [user |-> codes[call[c].code], at |-> made[c].at]

\* A call that changed its code for a token; no two did it for one code.
Changed(c) == call[c].at \in {"user", "set", "ok"}

ChangedInv ==
  /\ \A c \in Calls : Changed(c) => call[c].code \in spent
  /\ \A c, d \in Calls : c # d /\ Changed(c) /\ Changed(d) => call[c].code # call[d].code

\* A state that a call has deleted is not there any more, so who found one met
\* none that had.
DeletedInv ==
  \A c \in Calls :
    /\ call[c].at \in {"exchange", "user", "set", "ok", "error"} =>
         call[c].state \notin DOMAIN states
    /\ call[c].at # "not found" => call[c].met = {}

SessionInv == SessionTypes /\ MadeInv /\ ChangedInv /\ DeletedInv

LEMMA SessionInit == SignInInit => SessionInv
<1> SUFFICES ASSUME SignInInit PROVE SessionInv
  OBVIOUS
<1>1. DOMAIN states = {} /\ DOMAIN sessions = {} /\ DOMAIN made = {} /\ issued = 0
  BY DEF SignInInit
<1>2. /\ clock = 0 /\ crashes = 0 /\ codes = <<>> /\ spent = {}
      /\ tidying = [k \in Stores |-> Idle] /\ cookie = [b \in Browsers |-> NoCookie]
      /\ \E b \in Browsers :
           call = [c \in Calls |->
                    [at |-> "new", state |-> 0, code |-> 0, browser |-> b, met |-> {}]]
  BY DEF SignInInit
<1>3. SessionTypes
  BY <1>1, <1>2, SignInAssumption DEF SessionTypes, Round, CallRecords, CallSteps
<1>4. \A c \in Calls : call[c].at = "new" /\ call[c].met = {}
  BY <1>2
<1>5. MadeInv /\ ChangedInv /\ DeletedInv
  BY <1>1, <1>4 DEF MadeInv, ChangedInv, Changed, DeletedInv
<1>6. QED
  BY <1>3, <1>5 DEF SessionInv

\* What a step of a call does to the calls.
LEMMA CallStep ==
  ASSUME SessionTypes, NEW c \in Calls, NEW s \in CallSteps, At(c, s)
  PROVE  /\ call' \in [Calls -> CallRecords]
         /\ call'[c].at = s /\ call'[c].state = call[c].state
         /\ call'[c].code = call[c].code /\ call'[c].met = call[c].met
         /\ \A d \in Calls : d # c => call'[d] = call[d]
<1>1. call \in [Calls -> CallRecords] /\ call[c] \in CallRecords
  BY DEF SessionTypes
<1>2. [call[c] EXCEPT !.at = s] \in CallRecords /\ [call[c] EXCEPT !.at = s].at = s
        /\ [call[c] EXCEPT !.at = s].state = call[c].state
        /\ [call[c] EXCEPT !.at = s].code = call[c].code
        /\ [call[c] EXCEPT !.at = s].met = call[c].met
  BY <1>1 DEF CallRecords
<1>3. call' = [call EXCEPT ![c] = [call[c] EXCEPT !.at = s]]
  BY DEF At
<1> DEFINE q == [call[c] EXCEPT !.at = s]
<1> HIDE DEF q
<1>4. call' = [call EXCEPT ![c] = q]
  BY <1>3 DEF q
<1>5. /\ q \in CallRecords /\ q.at = s /\ q.state = call[c].state
      /\ q.code = call[c].code /\ q.met = call[c].met
  BY <1>2 DEF q
<1>6. QED
  BY <1>1, <1>4, <1>5

\* Steps of a call on its way that touch neither store nor GitHub.
LEMMA WayStep ==
  ASSUME SessionInv, NEW c \in Calls, NEW s \in CallSteps, At(c, s),
         call[c].at \notin {"new", "ok", "not found"}, s # "new",
         s \in {"user", "set", "ok"} => Changed(c),
         DOMAIN states' \subseteq DOMAIN states, call[c].state \notin DOMAIN states',
         spent' \in {spent, spent \cup {call[c].code}},
         UNCHANGED <<clock, issued, sessions, tidying, codes, cookie, crashes, made, out>>
  PROVE  SessionInv'
<1>1. /\ call' \in [Calls -> CallRecords]
      /\ call'[c].at = s /\ call'[c].state = call[c].state
      /\ call'[c].code = call[c].code /\ call'[c].met = call[c].met
      /\ \A d \in Calls : d # c => call'[d] = call[d]
  BY CallStep DEF SessionInv
<1>2. call[c].code \in DOMAIN codes /\ call[c].state \in 1 .. issued
  BY DEF SessionInv, SessionTypes
<1>3. SessionTypes'
  BY <1>1, <1>2 DEF SessionInv, SessionTypes
<1>4. MadeInv'
  BY <1>1 DEF SessionInv, MadeInv
<1>5. ChangedInv'
  <2>1. \A d \in Calls : Changed(d)' => Changed(d) /\ call'[d].code = call[d].code
    BY <1>1 DEF Changed
  <2>2. spent \subseteq spent'
    OBVIOUS
  <2>3. QED
    BY <2>1, <2>2 DEF SessionInv, ChangedInv
<1>6. DeletedInv'
  BY <1>1 DEF SessionInv, DeletedInv
<1>7. QED
  BY <1>3, <1>4, <1>5, <1>6 DEF SessionInv

LEMMA RoundGoesOn ==
  ASSUME NEW r, NEW now, Round(r, now), r # Idle, NEW left
  PROVE  Round([r EXCEPT !.left = left], now)
<1>1. PICK l : r \in [on : {TRUE}, at : 0 .. now, left : {l}]
  BY DEF Round
<1> DEFINE s == [r EXCEPT !.left = left]
<1>2. s \in [on : {TRUE}, at : 0 .. now, left : {left}]
  BY <1>1
<1> HIDE DEF s
<1>3. s.left = left
  BY <1>2
<1>4. Round(s, now)
  BY <1>2, <1>3 DEF Round
<1>5. QED
  BY <1>4 DEF s

LEMMA SessionLogin ==
  ASSUME SessionInv, Login
  PROVE  SessionInv'
<1>1. issued \in 0 .. MaxStates /\ issued < MaxStates
  BY DEF SessionInv, SessionTypes, Login
<1>2. issued' = issued + 1 /\ issued' \in 0 .. MaxStates
  BY <1>1, SignInAssumption DEF Login
<1>3. DOMAIN states' = DOMAIN states \cup {issued + 1}
  BY DEF Login, With
<1>4. 1 .. issued \subseteq 1 .. issued' /\ issued + 1 \in 1 .. issued' /\ issued + 1 \notin 1 .. issued
  BY <1>1, <1>2, SignInAssumption
<1>5. UNCHANGED <<clock, sessions, tidying, call, githubVars, cookie, crashes, made, out>>
  BY DEF Login
<1>6. SessionTypes'
  BY <1>1, <1>2, <1>3, <1>4, <1>5, SignInAssumption DEF SessionInv, SessionTypes, githubVars
<1>7. MadeInv' /\ ChangedInv'
  BY <1>5 DEF SessionInv, MadeInv, ChangedInv, Changed, githubVars
<1>8. DeletedInv'
  BY <1>3, <1>4, <1>5 DEF SessionInv, SessionTypes, DeletedInv
<1>9. QED
  BY <1>6, <1>7, <1>8 DEF SessionInv

LEMMA SessionGrant ==
  ASSUME SessionInv, NEW u \in GithubUsers, Grant(u)
  PROVE  SessionInv'
<1>1. codes \in Seq(GithubUsers) /\ Len(codes) < MaxCodes /\ Len(codes) \in Nat
  BY DEF SessionInv, SessionTypes, Grant
<1>2. UNCHANGED <<clock, issued, storeVars, call, spent, cookie, crashes, made, out>>
  BY DEF Grant
<1>3. /\ codes' \in Seq(GithubUsers) /\ Len(codes') <= MaxCodes
      /\ DOMAIN codes \subseteq DOMAIN codes' /\ \A k \in DOMAIN codes : codes'[k] = codes[k]
  BY <1>1, SignInAssumption DEF Grant
<1>4. SessionTypes'
  BY <1>2, <1>3 DEF SessionInv, SessionTypes, storeVars
<1>5. MadeInv'
  <2>1. \A c \in DOMAIN made : codes'[call[c].code] = codes[call[c].code]
    BY <1>3 DEF SessionInv, SessionTypes, MadeInv
  <2>2. QED
    BY <1>2, <2>1 DEF SessionInv, MadeInv, storeVars
<1>6. ChangedInv' /\ DeletedInv'
  BY <1>2 DEF SessionInv, ChangedInv, Changed, DeletedInv, storeVars
<1>7. QED
  BY <1>4, <1>5, <1>6 DEF SessionInv

LEMMA SessionAuthGet ==
  ASSUME SessionInv, NEW c \in Calls, NEW b \in Browsers, NEW s \in StateIds,
         NEW k \in CodeIds, AuthGet(c, b, s, k)
  PROVE  SessionInv'
<1> DEFINE q == [at |-> IF s \in DOMAIN states THEN "del" ELSE "not found",
                 state |-> s, code |-> k, browser |-> b, met |-> Deleters(s)]
<1>1. /\ q \in CallRecords /\ q.at \in {"del", "not found"} /\ q.state = s /\ q.code = k
      /\ q.at = "del" => s \in DOMAIN states
      /\ q.met = Deleters(s)
  BY DEF CallRecords, CallSteps, StateIds, CodeIds, Deleters
<1>2. call' = [call EXCEPT ![c] = q]
  BY DEF AuthGet
<1> HIDE DEF q
<1>3. /\ call \in [Calls -> CallRecords] /\ call[c].at = "new"
      /\ s \in 1 .. issued /\ k \in DOMAIN codes
  <2>1. issued \in 0 .. MaxStates /\ s \in 1 .. MaxStates /\ s <= issued
    BY DEF SessionInv, SessionTypes, AuthGet, StateIds
  <2>2. s \in 1 .. issued
    BY <2>1, SignInAssumption
  <2>3. QED
    BY <2>2 DEF SessionInv, SessionTypes, AuthGet
<1>4. call' \in [Calls -> CallRecords] /\ \A d \in Calls : call'[d] = IF d = c THEN q ELSE call[d]
  BY <1>1, <1>2, <1>3
<1>5. UNCHANGED <<clock, issued, storeVars, githubVars, cookie, crashes, made, out>>
  BY DEF AuthGet
<1>6. SessionTypes'
  BY <1>1, <1>3, <1>4, <1>5 DEF SessionInv, SessionTypes, storeVars, githubVars
<1>7. MadeInv'
  BY <1>3, <1>4, <1>5 DEF SessionInv, MadeInv, storeVars, githubVars
<1>8. ChangedInv'
  BY <1>1, <1>4, <1>5 DEF SessionInv, ChangedInv, Changed, githubVars
<1>9. s \in DOMAIN states => Deleters(s) = {}
  BY DEF SessionInv, DeletedInv, Deleters
<1>10. DeletedInv'
  BY <1>1, <1>4, <1>5, <1>9 DEF SessionInv, DeletedInv, storeVars
<1>11. QED
  BY <1>6, <1>7, <1>8, <1>10 DEF SessionInv

LEMMA SessionAuthDel ==
  ASSUME SessionInv, NEW c \in Calls, AuthDel(c)
  PROVE  SessionInv'
<1>1. DOMAIN states' \subseteq DOMAIN states /\ call[c].state \notin DOMAIN states'
  BY DEF AuthDel, Restrict
<1>2. QED
  BY <1>1, WayStep DEF AuthDel, CallSteps, githubVars

\* GitHub takes a code once: nobody else has changed this one.
LEMMA SessionExchange ==
  ASSUME SessionInv, NEW c \in Calls, Exchange(c)
  PROVE  SessionInv'
<1>0. call[c].at = "exchange" /\ call[c].state \notin DOMAIN states
  BY DEF Exchange, SessionInv, DeletedInv
<1>1. CASE call[c].code \in spent
  BY <1>0, <1>1, WayStep DEF Exchange, CallSteps, storeVars
<1>2. CASE call[c].code \notin spent
  <2>1. /\ call[c].at = "exchange" /\ At(c, "user") /\ spent' = spent \cup {call[c].code}
        /\ UNCHANGED <<clock, issued, storeVars, codes, cookie, crashes, made, out>>
    BY <1>2 DEF Exchange
  <2>2. /\ call' \in [Calls -> CallRecords]
        /\ call'[c].at = "user" /\ call'[c].state = call[c].state
        /\ call'[c].code = call[c].code /\ call'[c].met = call[c].met
        /\ \A d \in Calls : d # c => call'[d] = call[d]
    BY <2>1, CallStep DEF SessionInv, CallSteps
  <2>3. call[c].state \in 1 .. issued /\ call[c].code \in DOMAIN codes
    BY <2>1 DEF SessionInv, SessionTypes
  <2>4. SessionTypes'
    BY <2>1, <2>2, <2>3 DEF SessionInv, SessionTypes, storeVars
  <2>5. MadeInv'
    BY <2>1, <2>2 DEF SessionInv, MadeInv, storeVars
  <2>6. \A d \in Calls : d # c /\ Changed(d)' => Changed(d) /\ call'[d] = call[d] /\ call[d].code \in spent
    BY <2>2 DEF SessionInv, ChangedInv, Changed
  <2>7. \A d \in Calls : Changed(d)' => call'[d].code \in spent'
    BY <2>1, <2>2, <2>6
  <2>8. \A d, e \in Calls :
          d # e /\ Changed(d)' /\ Changed(e)' => call'[d].code # call'[e].code
    BY <1>2, <2>2, <2>6 DEF SessionInv, ChangedInv
  <2>9. DeletedInv'
    BY <1>0, <2>1, <2>2 DEF SessionInv, DeletedInv, storeVars
  <2>10. QED
    BY <2>4, <2>5, <2>7, <2>8, <2>9 DEF SessionInv, ChangedInv
<1>3. QED
  BY <1>1, <1>2

LEMMA SessionGithubFails ==
  ASSUME SessionInv, NEW c \in Calls, GithubFails(c)
  PROVE  SessionInv'
<1>1. call[c].at \in {"exchange", "user"} /\ call[c].state \notin DOMAIN states
  BY DEF GithubFails, SessionInv, DeletedInv
<1>2. QED
  BY <1>1, WayStep DEF GithubFails, CallSteps, storeVars

LEMMA SessionUsersGet ==
  ASSUME SessionInv, NEW c \in Calls, UsersGet(c)
  PROVE  SessionInv'
<1>1. call[c].at = "user" /\ call[c].state \notin DOMAIN states
  BY DEF UsersGet, SessionInv, DeletedInv
<1>2. QED
  BY <1>1, WayStep DEF UsersGet, CallSteps, storeVars, githubVars, Changed

LEMMA SessionSessionSet ==
  ASSUME SessionInv, NEW c \in Calls, SessionSet(c)
  PROVE  SessionInv'
<1> DEFINE u == codes[call[c].code]
<1>1. /\ call' \in [Calls -> CallRecords]
      /\ call'[c].at = "ok" /\ call'[c].state = call[c].state
      /\ call'[c].code = call[c].code /\ call'[c].met = call[c].met
      /\ \A d \in Calls : d # c => call'[d] = call[d]
  BY CallStep DEF SessionInv, SessionSet, CallSteps
<1>2. call[c].at = "set"
        /\ UNCHANGED <<clock, issued, states, tidying, githubVars, crashes, out>>
  BY DEF SessionSet
<1>3. /\ DOMAIN sessions' = DOMAIN sessions \cup {c}
      /\ sessions'[c] = [user |-> u, at |-> clock]
      /\ \A d \in DOMAIN sessions : d # c => sessions'[d] = sessions[d]
  BY DEF SessionSet, With
<1>4. /\ DOMAIN made' = DOMAIN made \cup {c}
      /\ made'[c] = [at |-> clock, process |-> crashes]
      /\ \A d \in DOMAIN made : d # c => made'[d] = made[d]
  BY DEF SessionSet, With
<1>5. cookie' \in [Browsers -> Calls \cup {NoCookie}]
  BY DEF SessionSet, SessionInv, SessionTypes
<1>6. SessionTypes'
  BY <1>1, <1>2, <1>3, <1>5 DEF SessionInv, SessionTypes, githubVars
<1>7. ASSUME NEW d \in DOMAIN made'
      PROVE  /\ d \in Calls /\ call'[d].at = "ok"
             /\ made'[d].at \in Nat /\ made'[d].process \in 0 .. crashes'
             /\ made'[d].process = crashes' /\ d \notin out' /\ clock' <= made'[d].at + SessionTTL =>
                  d \in DOMAIN sessions'
                    /\ sessions'[d] = [user |-> codes'[call'[d].code], at |-> made'[d].at]
  <2>1. CASE d = c
    <3>1. clock \in Nat /\ crashes \in Nat
      BY SignInAssumption DEF SessionInv, SessionTypes
    <3>2. QED
      BY <1>1, <1>2, <1>3, <1>4, <2>1, <3>1 DEF githubVars
  <2>2. CASE d # c
    <3>1. d \in DOMAIN made /\ made'[d] = made[d]
      BY <1>4, <2>2
    <3>2. QED
      BY <1>1, <1>2, <1>3, <2>2, <3>1 DEF SessionInv, MadeInv, githubVars
  <2>3. QED
    BY <2>1, <2>2
<1>8. MadeInv'
  BY <1>7 DEF MadeInv
<1>9. ChangedInv'
  BY <1>1, <1>2 DEF SessionInv, ChangedInv, Changed, githubVars
<1>10. DeletedInv'
  BY <1>1, <1>2 DEF SessionInv, DeletedInv
<1>11. QED
  BY <1>6, <1>8, <1>9, <1>10 DEF SessionInv

LEMMA SessionSignOut ==
  ASSUME SessionInv, NEW b \in Browsers, SignOut(b)
  PROVE  SessionInv'
<1>1. /\ DOMAIN sessions' = DOMAIN sessions \ {cookie[b]} /\ out' = out \cup {cookie[b]}
      /\ \A c \in DOMAIN sessions' : sessions'[c] = sessions[c]
      /\ UNCHANGED <<clock, issued, states, tidying, call, githubVars, cookie, crashes, made>>
  BY DEF SignOut, Restrict
<1>2. SessionTypes'
  BY <1>1 DEF SessionInv, SessionTypes, githubVars
<1>3. MadeInv'
  BY <1>1 DEF SessionInv, MadeInv, githubVars
<1>4. ChangedInv' /\ DeletedInv'
  BY <1>1 DEF SessionInv, ChangedInv, Changed, DeletedInv, githubVars
<1>5. QED
  BY <1>2, <1>3, <1>4 DEF SessionInv

LEMMA SessionTidy ==
  ASSUME SessionInv, NEW k \in Stores, Tidy(k)
  PROVE  SessionInv'
<1> DEFINE r == [on |-> TRUE, at |-> clock, left |-> DOMAIN Map(k)]
<1>1. clock \in 0 .. clock => r \in [on : {TRUE}, at : 0 .. clock, left : {r.left}]
  OBVIOUS
<1>2. tidying' = [tidying EXCEPT ![k] = r]
  BY DEF Tidy
<1> HIDE DEF r
<1>3. clock \in Nat /\ tidying \in [Stores -> {tidying[j] : j \in Stores}]
  BY SignInAssumption DEF SessionInv, SessionTypes
<1>4. Round(r, clock)
  <2>1. clock \in 0 .. clock
    BY <1>3
  <2>2. QED
    BY <1>1, <2>1 DEF Round
<1>5. \A j \in Stores : tidying'[j] = IF j = k THEN r ELSE tidying[j]
  BY <1>2, <1>3
<1>6. tidying' \in [Stores -> {tidying'[j] : j \in Stores}]
  BY <1>2, <1>3, <1>5
<1>7. UNCHANGED <<clock, issued, states, sessions, call, githubVars, cookie, crashes, made, out>>
  BY DEF Tidy
<1>8. SessionTypes'
  BY <1>4, <1>5, <1>6, <1>7 DEF SessionInv, SessionTypes, githubVars
<1>9. MadeInv' /\ ChangedInv' /\ DeletedInv'
  BY <1>7 DEF SessionInv, MadeInv, ChangedInv, Changed, DeletedInv, githubVars
<1>10. QED
  BY <1>8, <1>9 DEF SessionInv

\* A round reads the clock once and is late: what it deletes is past its time.
LEMMA SessionVisit ==
  ASSUME SessionInv, NEW k \in Stores, Visit(k)
  PROVE  SessionInv'
<1>1. PICK key \in tidying[k].left :
        LET gone == IF key \in DOMAIN Map(k) /\ Past(k, tidying[k].at, key) THEN {key} ELSE {}
            left == tidying[k].left \ {key}
        IN /\ states'   = IF k = "states" THEN Restrict(states, DOMAIN states \ gone) ELSE states
           /\ sessions' = IF k = "sessions" THEN Restrict(sessions, DOMAIN sessions \ gone) ELSE sessions
           /\ tidying'  = [tidying EXCEPT ![k] = IF left = {} THEN Idle ELSE [@ EXCEPT !.left = left]]
  BY DEF Visit
<1> DEFINE gone == IF key \in DOMAIN Map(k) /\ Past(k, tidying[k].at, key) THEN {key} ELSE {}
           left == tidying[k].left \ {key}
           r == IF left = {} THEN Idle ELSE [tidying[k] EXCEPT !.left = left]
<1>2. /\ states'   = IF k = "states" THEN Restrict(states, DOMAIN states \ gone) ELSE states
      /\ sessions' = IF k = "sessions" THEN Restrict(sessions, DOMAIN sessions \ gone) ELSE sessions
      /\ tidying'  = [tidying EXCEPT ![k] = r]
  BY <1>1
<1>3. UNCHANGED <<clock, issued, call, githubVars, cookie, crashes, made, out>>
  BY DEF Visit
<1>4. /\ tidying \in [Stores -> {tidying[j] : j \in Stores}] /\ Round(tidying[k], clock)
      /\ tidying[k] # Idle /\ clock \in Nat
  BY SignInAssumption DEF SessionInv, SessionTypes, Visit
<1>5. tidying[k].at \in 0 .. clock
  BY <1>4 DEF Round
<1>6. Round(r, clock)
  <2>1. Round([tidying[k] EXCEPT !.left = left], clock)
    BY <1>4, RoundGoesOn
  <2>2. QED
    BY <2>1 DEF Round
<1> HIDE DEF left, r
<1>7. \A j \in Stores : tidying'[j] = IF j = k THEN r ELSE tidying[j]
  BY <1>2, <1>4
<1>8. tidying' \in [Stores -> {tidying'[j] : j \in Stores}]
  BY <1>2, <1>4, <1>7
<1>9. DOMAIN states' \subseteq DOMAIN states /\ DOMAIN sessions' \subseteq DOMAIN sessions
        /\ \A c \in DOMAIN sessions' : sessions'[c] = sessions[c]
  BY <1>2 DEF Restrict
<1>10. SessionTypes'
  BY <1>3, <1>6, <1>7, <1>8, <1>9 DEF SessionInv, SessionTypes, githubVars
<1>11. \A c \in DOMAIN sessions \ DOMAIN sessions' : tidying[k].at > sessions[c].at + SessionTTL
  BY <1>2 DEF Restrict, Map, Past, Stores
<1>12. ASSUME NEW c \in DOMAIN made, made[c].process = crashes, c \notin out,
              clock <= made[c].at + SessionTTL
       PROVE  /\ c \in DOMAIN sessions'
              /\ sessions'[c] = [user |-> codes[call[c].code], at |-> made[c].at]
  <2>1. /\ c \in DOMAIN sessions /\ sessions[c] = [user |-> codes[call[c].code], at |-> made[c].at]
        /\ made[c].at \in Nat
    BY <1>12 DEF SessionInv, MadeInv
  <2>2. ~(tidying[k].at > sessions[c].at + SessionTTL)
    <3>1. sessions[c].at = made[c].at /\ tidying[k].at \in Nat /\ tidying[k].at <= clock
      BY <1>4, <1>5, <2>1
    <3>2. QED
      BY <1>4, <1>12, <2>1, <3>1, SignInAssumption
  <2>3. QED
    BY <1>9, <1>11, <2>1, <2>2
<1>13. MadeInv'
  BY <1>3, <1>12 DEF SessionInv, MadeInv, githubVars
<1>14. ChangedInv' /\ DeletedInv'
  BY <1>3, <1>9 DEF SessionInv, ChangedInv, Changed, DeletedInv, githubVars
<1>15. QED
  BY <1>10, <1>13, <1>14 DEF SessionInv

LEMMA SessionCrash ==
  ASSUME SessionInv, Crash
  PROVE  SessionInv'
<1>1. /\ crashes' = crashes + 1 /\ crashes \in Nat
      /\ states' = <<>> /\ sessions' = <<>> /\ tidying' = [k \in Stores |-> Idle]
      /\ UNCHANGED <<clock, issued, githubVars, cookie, made, out>>
  BY DEF Crash, SessionInv, SessionTypes
<1>2. \A c \in Calls : call[c] \in CallRecords
  BY DEF SessionInv, SessionTypes
<1>3. \A c \in Calls :
        /\ [call[c] EXCEPT !.at = "lost"] \in CallRecords
        /\ [call[c] EXCEPT !.at = "lost"].at = "lost"
        /\ [call[c] EXCEPT !.at = "lost"].state = call[c].state
        /\ [call[c] EXCEPT !.at = "lost"].code = call[c].code
        /\ [call[c] EXCEPT !.at = "lost"].met = call[c].met
  BY <1>2 DEF CallRecords, CallSteps
<1>4. call' = [c \in Calls |->
        IF call[c].at \in {"del", "exchange", "user", "set"} THEN [call[c] EXCEPT !.at = "lost"]
        ELSE call[c]]
  BY DEF Crash
<1>5. /\ call' \in [Calls -> CallRecords]
      /\ \A c \in Calls :
           /\ call'[c].state = call[c].state /\ (call[c].at = "new" => call'[c].at = "new")
           /\ call'[c].code = call[c].code /\ call'[c].met = call[c].met
           /\ call[c].at = "new" <=> call'[c].at = "new"
           /\ call[c].at = "not found" <=> call'[c].at = "not found"
           /\ call[c].at = "ok" => call'[c] = call[c]
           /\ call'[c].at \in {"user", "set", "ok"} => call[c].at = "ok"
  <2>1. ASSUME NEW c \in Calls
        PROVE  /\ call'[c] \in CallRecords
               /\ call'[c].state = call[c].state /\ (call[c].at = "new" => call'[c].at = "new")
               /\ call'[c].code = call[c].code /\ call'[c].met = call[c].met
               /\ call[c].at = "new" <=> call'[c].at = "new"
               /\ call[c].at = "not found" <=> call'[c].at = "not found"
               /\ call[c].at = "ok" => call'[c] = call[c]
               /\ call'[c].at \in {"user", "set", "ok"} => call[c].at = "ok"
    <3>1. CASE call[c].at \in {"del", "exchange", "user", "set"}
      <4>1. call'[c] = [call[c] EXCEPT !.at = "lost"]
        BY <1>4, <3>1
      <4>2. QED
        BY <1>3, <3>1, <4>1
    <3>2. CASE call[c].at \notin {"del", "exchange", "user", "set"}
      <4>1. call'[c] = call[c]
        BY <1>4, <3>2
      <4>2. QED
        BY <1>2, <3>2, <4>1
    <3>3. QED
      BY <3>1, <3>2
  <2>2. call' \in [Calls -> CallRecords]
    BY <1>4, <2>1
  <2>3. QED
    BY <2>1, <2>2
<1>6. DOMAIN states' = {} /\ DOMAIN sessions' = {}
  BY <1>1
<1>7. SessionTypes'
  <2>1. tidying' \in [Stores -> {tidying'[k] : k \in Stores}]
          /\ \A k \in Stores : Round(tidying'[k], clock')
    BY <1>1 DEF Round
  <2>2. \A c \in Calls :
          call'[c].at # "new" => call'[c].state \in 1 .. issued' /\ call'[c].code \in DOMAIN codes'
    BY <1>1, <1>5 DEF SessionInv, SessionTypes, githubVars
  <2>3. crashes' \in Nat
    BY <1>1
  <2>4. /\ clock' \in 0 .. MaxClock /\ issued' \in 0 .. MaxStates
        /\ codes' \in Seq(GithubUsers) /\ Len(codes') <= MaxCodes
        /\ spent' \subseteq DOMAIN codes'
        /\ cookie' \in [Browsers -> Calls \cup {NoCookie}]
    BY <1>1 DEF SessionInv, SessionTypes, githubVars
  <2>5. QED
    BY <1>5, <1>6, <2>1, <2>2, <2>3, <2>4 DEF SessionTypes
<1>8. MadeInv'
  <2>1. \A c \in DOMAIN made :
          made[c].process \in 0 .. crashes' /\ made[c].process # crashes'
    <3>1. \A c \in DOMAIN made : made[c].process \in 0 .. crashes
      BY DEF SessionInv, MadeInv
    <3>2. QED
      BY <1>1, <3>1
  <2>2. \A c \in DOMAIN made : c \in Calls /\ call'[c].at = "ok" /\ made[c].at \in Nat
    BY <1>5 DEF SessionInv, MadeInv
  <2>3. made' = made
    BY <1>1
  <2>4. QED
    BY <2>1, <2>2, <2>3 DEF MadeInv
<1>9. ChangedInv'
  <2>1. \A d \in Calls : Changed(d)' => Changed(d) /\ call'[d].code = call[d].code
    BY <1>5 DEF Changed
  <2>2. QED
    BY <1>1, <2>1 DEF SessionInv, ChangedInv, githubVars
<1>10. DeletedInv'
  BY <1>5, <1>6 DEF SessionInv, DeletedInv
<1>11. QED
  BY <1>7, <1>8, <1>9, <1>10 DEF SessionInv

LEMMA SessionTick ==
  ASSUME SessionInv, SignInTick
  PROVE  SessionInv'
<1>1. /\ clock' = clock + 1 /\ clock \in 0 .. MaxClock /\ clock < MaxClock
      /\ UNCHANGED <<issued, storeVars, call, githubVars, cookie, crashes, made, out>>
  BY DEF SignInTick, SessionInv, SessionTypes
<1>2. \A k \in Stores : Round(tidying[k], clock')
  <2>1. 0 .. clock \subseteq 0 .. clock'
    BY <1>1, SignInAssumption
  <2>2. ASSUME NEW r, Round(r, clock) PROVE Round(r, clock')
    BY <2>1, <2>2 DEF Round
  <2>3. QED
    BY <2>2 DEF SessionInv, SessionTypes
<1>3. SessionTypes'
  BY <1>1, <1>2, SignInAssumption DEF SessionInv, SessionTypes, storeVars, githubVars
<1>4. ASSUME NEW c \in DOMAIN made, clock' <= made[c].at + SessionTTL
      PROVE  clock <= made[c].at + SessionTTL
  <2>1. made[c].at \in Nat
    BY <1>4 DEF SessionInv, MadeInv
  <2>2. clock \in Nat /\ SessionTTL \in Nat
    BY <1>1, SignInAssumption
  <2>3. QED
    BY <1>1, <1>4, <2>1, <2>2
<1>5. MadeInv'
  BY <1>1, <1>4 DEF SessionInv, MadeInv, storeVars, githubVars
<1>6. ChangedInv' /\ DeletedInv'
  BY <1>1 DEF SessionInv, ChangedInv, Changed, DeletedInv, storeVars, githubVars
<1>7. QED
  BY <1>3, <1>5, <1>6 DEF SessionInv

LEMMA SessionNext == SessionInv /\ [SignInNext]_signInVars => SessionInv'
<1> SUFFICES ASSUME SessionInv, [SignInNext]_signInVars PROVE SessionInv'
  OBVIOUS
<1>1. CASE UNCHANGED signInVars
  BY <1>1 DEF SessionInv, SessionTypes, MadeInv, ChangedInv, Changed, DeletedInv, signInVars, storeVars, githubVars
<1>2. CASE SignInNext
  BY <1>2, SessionLogin, SessionSignOut, SessionGrant, SessionAuthGet, SessionAuthDel,
     SessionExchange, SessionGithubFails, SessionUsersGet, SessionSessionSet, SessionTidy,
     SessionVisit, SessionCrash, SessionTick DEF SignInNext
<1>3. QED
  BY <1>1, <1>2

\* The types of the sign-in hold for any browsers, calls and bounds.
THEOREM SignInTypeCorrect == SignInSpec => []SignInTypeOK
<1>1. SessionInv => SignInTypeOK
  <2> SUFFICES ASSUME SessionInv PROVE SignInTypeOK
    OBVIOUS
  <2>1. DOMAIN states \subseteq StateIds
    BY SignInAssumption DEF SessionInv, SessionTypes, StateIds
  <2>2. \A c \in Calls : call[c].at \in CallSteps
    BY DEF SessionInv, SessionTypes, CallRecords
  <2>3. \A k \in Stores : tidying[k] = Idle \/ tidying[k].at \in 0 .. clock
    BY DEF SessionInv, SessionTypes, Round
  <2>4. QED
    BY <2>1, <2>2, <2>3 DEF SessionInv, SessionTypes, SignInTypeOK, CallSteps
<1>2. QED
  BY SessionInit, SessionNext, <1>1, PTL DEF SignInSpec

\* Nobody but a sign-out and the end of the process takes a session away before
\* its time; a code makes one session, and a state several only for calls that
\* overlap.
THEOREM SessionKeptTheorem == SignInSpec => []SessionKept
<1>1. SessionInv => SessionKept
  <2> SUFFICES ASSUME SessionInv PROVE SessionKept
    OBVIOUS
  <2>1. \A c \in DOMAIN made :
          made[c].process = crashes /\ c \notin out /\ clock <= made[c].at + SessionTTL =>
            /\ c \in DOMAIN sessions
            /\ sessions[c] = [user |-> codes[call[c].code], at |-> made[c].at]
    BY DEF SessionInv, MadeInv
  <2>2. \A c, d \in DOMAIN made : c # d => call[c].code # call[d].code
    BY DEF SessionInv, MadeInv, ChangedInv, Changed
  <2>3. \A c \in DOMAIN made : call[c].met = {}
    BY DEF SessionInv, MadeInv, DeletedInv
  <2>4. QED
    BY <2>1, <2>2, <2>3 DEF SessionKept
<1>2. QED
  BY SessionInit, SessionNext, <1>1, PTL DEF SignInSpec

-----------------------------------------------------------------------------
(* LoginManager: the tabs of a browser.                                    *)

TabRecords ==
  [open : BOOLEAN, loggedIn : BOOLEAN, timer : Nat \cup {NoToken}, links : BOOLEAN,
   quiet : BOOLEAN, foreign : BOOLEAN, overtaken : BOOLEAN, unarmed : BOOLEAN]

FlightRecords ==
  [kind : {"login", "start", "timer"}, tab : Tabs, at : {"sent", "ok", "failed"},
   sent : Int, expires : Int, renewal : Int]

\* What a tab knows by itself: a token that is gone was removed by another tab.
TabKnows(m, held) ==
  /\ m.quiet => ~m.loggedIn /\ m.timer = NoToken
  /\ m.links /\ ~m.loggedIn => m.foreign
  /\ m.loggedIn /\ held = NoToken => m.foreign
  /\ m.loggedIn \/ m.links \/ m.timer # NoToken => m.open

\* What it is to a request of its own: the tab is open and was not left alone.
\* A refresh token was there when a refresh was sent.
CallKnows(m, trip) ==
  /\ m.open /\ ~m.quiet /\ (trip.at = "ok" => trip.expires \in Nat)
  /\ trip.at = "ok" \/ trip.kind # "login" => trip.renewal # NoToken

LoginTypes ==
  /\ second \in Nat /\ token \in Nat \cup {NoToken} /\ renewal \in Int
  /\ token # NoToken => renewal # NoToken
  /\ tab \in [Tabs -> TabRecords]
  /\ flight \in [Flights -> FlightRecords \cup {Free}]

\* A tab that is logged in has the timer of the token, or a call of one.
Renews(m, t, flights, held) ==
  m.loggedIn /\ ~m.overtaken /\ ~m.unarmed =>
    /\ held # NoToken
    /\ m.timer = held - 1 \/ \E f \in Flights : flights[f].kind = "timer" /\ flights[f].tab = t

TabsInv ==
  /\ LoginTypes
  /\ \A t \in Tabs : TabKnows(tab[t], token)
  /\ \A f \in Flights : flight[f] # Free => CallKnows(tab[flight[f].tab], flight[f])
  /\ \A t \in Tabs : Renews(tab[t], t, flight, token)

LEMMA FreeOrNot ==
  ASSUME NEW trip \in FlightRecords \cup {Free}
  PROVE  /\ trip # Free <=> trip \in FlightRecords
         /\ trip # Free <=> trip.kind # "none"
         /\ trip.kind \in {"login", "start", "timer"} => trip # Free
BY DEF FlightRecords, Free

\* A call of a tab that is renewed, or not, and the answers to it.
LEMMA TimeoutSet ==
  ASSUME LoginTypes, NEW m \in TabRecords, NEW expires \in Nat
  PROVE  /\ DoTimeout(m, expires) \in TabRecords
         /\ DoTimeout(m, expires).open = m.open /\ DoTimeout(m, expires).loggedIn = m.loggedIn
         /\ DoTimeout(m, expires).links = m.links /\ DoTimeout(m, expires).quiet = m.quiet
         /\ DoTimeout(m, expires).foreign = m.foreign
         /\ DoTimeout(m, expires).unarmed \/ DoTimeout(m, expires).timer = expires - 1
<1>1. CASE expires - second - 1 < 0
  BY <1>1 DEF DoTimeout, TabRecords
<1>2. CASE ~(expires - second - 1 < 0)
  <2>1. expires - 1 \in Nat
    BY <1>2 DEF LoginTypes
  <2>2. QED
    BY <1>2, <2>1 DEF DoTimeout, TabRecords
<1>3. QED
  BY <1>1, <1>2

\* What a step of one tab may do to the others and to their calls.
Left(n, m, held, next) ==
  /\ n.open = m.open /\ n.loggedIn = m.loggedIn /\ n.timer = m.timer /\ n.links = m.links
  /\ n.quiet = m.quiet /\ n.unarmed = m.unarmed
  /\ m.loggedIn /\ (m.overtaken \/ next # held) => n.overtaken
  /\ m.foreign => n.foreign
  /\ next = NoToken /\ held # NoToken /\ m.open => n.foreign

OneTab(t, m) ==
  /\ tab'[t] = m /\ \A u \in Tabs : u # t => Left(tab'[u], tab[u], token, token')
  /\ TabKnows(m, token')
  /\ \A f \in Flights :
       /\ flight[f] # Free /\ flight[f].tab # t => flight'[f] = flight[f]
       /\ flight'[f] # Free => \/ flight'[f].tab = t /\ CallKnows(m, flight'[f])
                               \/ flight'[f].tab # t /\ flight'[f] = flight[f]
  /\ Renews(m, t, flight', token')

LEMMA OneTabStep ==
  ASSUME TabsInv, LoginTypes', NEW t \in Tabs, NEW m, OneTab(t, m)
  PROVE  TabsInv'
<1>1. ASSUME NEW u \in Tabs PROVE TabKnows(tab'[u], token')
  <2>1. CASE u = t
    BY <2>1 DEF OneTab
  <2>2. CASE u # t
    BY <2>2 DEF OneTab, Left, TabKnows, TabsInv
  <2>3. QED
    BY <2>1, <2>2
<1>2. ASSUME NEW f \in Flights, flight'[f] # Free PROVE CallKnows(tab'[flight'[f].tab], flight'[f])
  <2>1. CASE flight'[f].tab = t
    BY <1>2, <2>1 DEF OneTab
  <2>2. CASE flight'[f].tab # t
    <3>1. flight'[f] = flight[f] /\ flight[f] # Free
      BY <1>2, <2>2 DEF OneTab
    <3>2. flight[f] \in FlightRecords
      BY <3>1, FreeOrNot DEF TabsInv, LoginTypes
    <3>3. flight[f].tab \in Tabs
      BY <3>2 DEF FlightRecords
    <3>4. QED
      BY <2>2, <3>1, <3>3 DEF OneTab, Left, CallKnows, TabsInv
  <2>3. QED
    BY <2>1, <2>2
<1>3. ASSUME NEW u \in Tabs PROVE Renews(tab'[u], u, flight', token')
  <2>1. CASE u = t
    BY <2>1 DEF OneTab
  <2>2. CASE u # t
    <3>1. Left(tab'[u], tab[u], token, token') /\ Renews(tab[u], u, flight, token)
      BY <2>2 DEF OneTab, TabsInv
    <3>2. ASSUME NEW f \in Flights, flight[f].kind = "timer", flight[f].tab = u
          PROVE  flight'[f] = flight[f]
      <4>1. flight[f] # Free
        BY <3>2 DEF Free
      <4>2. QED
        BY <2>2, <3>2, <4>1 DEF OneTab
    <3>3. QED
      BY <3>1, <3>2 DEF Renews, Left
  <2>3. QED
    BY <2>1, <2>2
<1>4. QED
  BY <1>1, <1>2, <1>3 DEF TabsInv

\* The manager of one tab changes, and no token.
LEMMA OnlyTab ==
  ASSUME TabsInv, NEW t \in Tabs, NEW m, tab' = [tab EXCEPT ![t] = m], token' = token
  PROVE  tab'[t] = m /\ \A u \in Tabs : u # t => Left(tab'[u], tab[u], token, token')
BY DEF TabsInv, LoginTypes, Left

\* The token goes, whatever becomes of the tab that removes it.
LEMMA TokenCleared ==
  ASSUME TabsInv, NEW t \in Tabs, NEW m \in TabRecords, ClearToken(t, m)
  PROVE  /\ token' = NoToken /\ tab'[t] = m /\ tab' \in [Tabs -> TabRecords]
         /\ \A u \in Tabs : u # t => Left(tab'[u], tab[u], token, token')
<1> DEFINE Robbed(u) == [tab[u] EXCEPT !.foreign = @ \/ (tab[u].open /\ token # NoToken),
                                       !.overtaken = tab[u].loggedIn]
<1>1. ASSUME NEW u \in Tabs
      PROVE  Robbed(u) \in TabRecords /\ Left(Robbed(u), tab[u], token, NoToken)
  <2>1. tab[u] \in TabRecords
    BY DEF TabsInv, LoginTypes
  <2>2. QED
    BY <2>1 DEF TabRecords, Left
<1>2. token' = NoToken /\ tab' = [u \in Tabs |-> IF u = t THEN m ELSE Robbed(u)]
  BY DEF ClearToken
<1> HIDE DEF Robbed
<1>3. QED
  BY <1>1, <1>2

\* Another token is stored.
LEMMA TokenStored ==
  ASSUME TabsInv, NEW f \in Flights, flight[f].tab \in Tabs, NEW m \in TabRecords, Store(f, m),
         token' # NoToken
  PROVE  /\ tab'[flight[f].tab] = m /\ tab' \in [Tabs -> TabRecords]
         /\ \A u \in Tabs : u # flight[f].tab => Left(tab'[u], tab[u], token, token')
<1> DEFINE Passed(u) == [tab[u] EXCEPT !.overtaken = tab[u].loggedIn]
<1>1. ASSUME NEW u \in Tabs
      PROVE  Passed(u) \in TabRecords /\ Left(Passed(u), tab[u], token, token')
  <2>1. tab[u] \in TabRecords
    BY DEF TabsInv, LoginTypes
  <2>2. QED
    BY <2>1 DEF TabRecords, Left
<1>2. tab' = [u \in Tabs |-> IF u = flight[f].tab THEN m ELSE Passed(u)]
  BY DEF Store
<1> HIDE DEF Passed
<1>3. QED
  BY <1>1, <1>2

LEMMA OpensHere ==
  ASSUME TabsInv, NEW t \in Tabs, ~tab[t].open
  PROVE  \A f \in Flights : flight[f] # Free => flight[f].tab # t
BY DEF TabsInv, CallKnows

LEMMA FreshKnows == Fresh \in TabRecords /\ Fresh.open /\ ~Fresh.loggedIn /\ ~Fresh.links
                      /\ ~Fresh.quiet /\ ~Fresh.foreign /\ Fresh.timer = NoToken
BY DEF Fresh, Closed, TabRecords

LEMMA SignedInKnows ==
  ASSUME NEW m \in TabRecords
  PROVE  /\ SignedIn(m) \in TabRecords /\ SignedIn(m).open = m.open /\ SignedIn(m).timer = m.timer
         /\ SignedIn(m).loggedIn /\ SignedIn(m).links /\ ~SignedIn(m).quiet
         /\ ~SignedIn(m).overtaken
BY DEF SignedIn, TabRecords

LEMMA SignedOutKnows ==
  ASSUME NEW m \in TabRecords
  PROVE  /\ SignedOut(m) \in TabRecords /\ SignedOut(m).open = m.open /\ SignedOut(m).timer = m.timer
         /\ ~SignedOut(m).loggedIn /\ SignedOut(m).quiet = m.quiet /\ SignedOut(m).foreign = m.foreign
         /\ SignedOut(m).links <=> m.links /\ ~(m.loggedIn /\ token # NoToken)
BY DEF SignedOut, TabRecords

-----------------------------------------------------------------------------
LEMMA OpenSteps ==
  ASSUME TabsInv, NEW t \in Tabs, OpenUnknown(t) \/ OpenKnown(t) \/ OpenExpired(t)
  PROVE  TabsInv'
<1>0. ~tab[t].open
  BY DEF OpenUnknown, OpenKnown, OpenExpired
<1>1. ASSUME NEW m \in TabRecords, TabKnows(m, token'), Renews(m, t, flight', token'),
             tab'[t] = m, \A u \in Tabs : u # t => Left(tab'[u], tab[u], token, token'), LoginTypes',
             flight' = flight
      PROVE  TabsInv'
  <2>1. \A f \in Flights : flight[f] # Free => flight[f].tab # t
    BY <1>0, OpensHere
  <2>2. OneTab(t, m)
    BY <1>1, <2>1 DEF OneTab
  <2>3. QED
    BY <1>1, <2>2, OneTabStep
<1>2. CASE OpenUnknown(t)
  <2>1. tab' = [tab EXCEPT ![t] = Fresh] /\ UNCHANGED <<second, token, renewal, flight>>
    BY <1>2 DEF OpenUnknown
  <2>2. LoginTypes'
    BY <2>1, FreshKnows DEF TabsInv, LoginTypes
  <2>3. TabKnows(Fresh, token') /\ Renews(Fresh, t, flight', token')
    BY FreshKnows DEF TabKnows, Renews
  <2>4. tab'[t] = Fresh /\ \A u \in Tabs : u # t => Left(tab'[u], tab[u], token, token')
    BY <2>1, OnlyTab
  <2>5. QED
    BY <1>1, <2>1, <2>2, <2>3, <2>4, FreshKnows
<1>3. CASE OpenKnown(t)
  <2> DEFINE m == DoTimeout(SignedIn(Fresh), token)
  <2>1. /\ tab' = [tab EXCEPT ![t] = m] /\ UNCHANGED <<second, token, renewal, flight>>
        /\ token # NoToken /\ token \in Nat
    BY <1>3 DEF OpenKnown, TabsInv, LoginTypes
  <2>2. /\ m \in TabRecords /\ m.open /\ m.loggedIn /\ m.links /\ ~m.quiet
        /\ m.unarmed \/ m.timer = token - 1
    <3>1. SignedIn(Fresh) \in TabRecords /\ LoginTypes
      BY FreshKnows, SignedInKnows DEF TabsInv
    <3>2. QED
      BY <2>1, <3>1, FreshKnows, SignedInKnows, TimeoutSet
  <2> HIDE DEF m
  <2>3. LoginTypes'
    BY <2>1, <2>2 DEF TabsInv, LoginTypes
  <2>4. TabKnows(m, token') /\ Renews(m, t, flight', token')
    BY <2>1, <2>2 DEF TabKnows, Renews
  <2>5. tab'[t] = m /\ \A u \in Tabs : u # t => Left(tab'[u], tab[u], token, token')
    BY <2>1, OnlyTab
  <2>6. QED
    BY <1>1, <2>1, <2>2, <2>3, <2>4, <2>5
<1>4. CASE OpenExpired(t)
  <2>1. ClearToken(t, Fresh) /\ UNCHANGED <<second, renewal, flight>>
    BY <1>4 DEF OpenExpired
  <2>2. /\ token' = NoToken /\ tab'[t] = Fresh /\ tab' \in [Tabs -> TabRecords]
        /\ \A u \in Tabs : u # t => Left(tab'[u], tab[u], token, token')
    BY <2>1, FreshKnows, TokenCleared
  <2>3. LoginTypes'
    BY <2>1, <2>2 DEF TabsInv, LoginTypes
  <2>4. TabKnows(Fresh, token') /\ Renews(Fresh, t, flight', token')
    BY FreshKnows DEF TabKnows, Renews
  <2>5. QED
    BY <1>1, <2>1, <2>2, <2>3, <2>4, FreshKnows
<1>5. QED
  BY <1>2, <1>3, <1>4

\* A call is sent, or is over.
LEMMA Sent ==
  ASSUME TabsInv, NEW t \in Tabs, NEW f \in Flights, NEW kind \in {"login", "start", "timer"},
         NEW sent \in Int, Send(f, t, kind, sent)
  PROVE  /\ flight' \in [Flights -> FlightRecords \cup {Free}]
         /\ flight[f] = Free /\ flight'[f] # Free /\ flight'[f].tab = t /\ flight'[f].at = "sent"
         /\ flight'[f].kind = kind /\ flight'[f].renewal = sent
         /\ \A g \in Flights : g # f => flight'[g] = flight[g]
<1> DEFINE trip == [kind |-> kind, tab |-> t, at |-> "sent", sent |-> sent, expires |-> NoToken,
                    renewal |-> sent]
<1>1. flight[f] = Free /\ flight' = [flight EXCEPT ![f] = trip]
  BY DEF Send
<1>2. trip \in FlightRecords /\ trip.tab = t /\ trip.at = "sent" /\ trip.kind = kind
      /\ trip.renewal = sent
  BY DEF FlightRecords, NoToken
<1> HIDE DEF trip
<1>3. trip # Free
  BY <1>2, FreeOrNot
<1>4. QED
  BY <1>1, <1>2, <1>3 DEF TabsInv, LoginTypes

LEMMA SendSteps ==
  ASSUME TabsInv, NEW t \in Tabs, NEW f \in Flights, OpenRefreshing(t, f) \/ SubmitLogin(t, f)
  PROVE  TabsInv'
<1>1. CASE OpenRefreshing(t, f)
  <2>1. /\ tab' = [tab EXCEPT ![t] = Fresh] /\ UNCHANGED <<second, token, renewal>> /\ ~tab[t].open
        /\ Send(f, t, "start", renewal)
    BY <1>1 DEF OpenRefreshing
  <2>2. renewal \in Int /\ "start" \in {"login", "start", "timer"}
    BY DEF TabsInv, LoginTypes
  <2>3. /\ flight' \in [Flights -> FlightRecords \cup {Free}]
        /\ flight[f] = Free /\ flight'[f] # Free /\ flight'[f].tab = t /\ flight'[f].at = "sent"
        /\ flight'[f].renewal = renewal /\ renewal # NoToken
        /\ \A g \in Flights : g # f => flight'[g] = flight[g]
    BY <1>1, <2>1, <2>2, Sent DEF OpenRefreshing
  <2>4. LoginTypes'
    BY <2>1, <2>3, FreshKnows DEF TabsInv, LoginTypes
  <2>5. TabKnows(Fresh, token') /\ Renews(Fresh, t, flight', token') /\ CallKnows(Fresh, flight'[f])
    BY <2>3, FreshKnows DEF TabKnows, Renews, CallKnows
  <2>6. tab'[t] = Fresh /\ \A u \in Tabs : u # t => Left(tab'[u], tab[u], token, token')
    BY <2>1, OnlyTab
  <2>7. \A g \in Flights : flight[g] # Free => flight[g].tab # t
    BY <2>1, OpensHere
  <2>8. OneTab(t, Fresh)
    BY <2>3, <2>5, <2>6, <2>7 DEF OneTab
  <2>9. QED
    BY <2>4, <2>8, OneTabStep
<1>2. CASE SubmitLogin(t, f)
  <2> DEFINE m == [tab[t] EXCEPT !.quiet = FALSE]
  <2>1. /\ tab' = [tab EXCEPT ![t] = m] /\ UNCHANGED <<second, token, renewal>> /\ tab[t].open
        /\ Send(f, t, "login", NoToken)
    BY <1>2 DEF SubmitLogin
  <2>2. NoToken \in Int /\ "login" \in {"login", "start", "timer"}
    BY DEF NoToken
  <2>3. /\ flight' \in [Flights -> FlightRecords \cup {Free}]
        /\ flight[f] = Free /\ flight'[f] # Free /\ flight'[f].tab = t /\ flight'[f].at = "sent"
        /\ flight'[f].kind = "login"
        /\ \A g \in Flights : g # f => flight'[g] = flight[g]
    BY <2>1, <2>2, Sent
  <2>4. /\ m \in TabRecords /\ m.open /\ ~m.quiet /\ m.loggedIn = tab[t].loggedIn
        /\ m.timer = tab[t].timer /\ m.links = tab[t].links /\ m.foreign = tab[t].foreign
        /\ m.unarmed = tab[t].unarmed /\ m.overtaken = tab[t].overtaken
    BY <2>1 DEF TabsInv, LoginTypes, TabRecords
  <2> HIDE DEF m
  <2>5. LoginTypes'
    BY <2>1, <2>3, <2>4 DEF TabsInv, LoginTypes
  <2>6. TabKnows(tab[t], token) /\ Renews(tab[t], t, flight, token)
    BY DEF TabsInv
  <2>7. TabKnows(m, token')
    BY <2>1, <2>4, <2>6 DEF TabKnows
  <2>8. Renews(m, t, flight', token')
    <3>1. ASSUME NEW g \in Flights, flight[g].kind = "timer" PROVE flight'[g] = flight[g]
      BY <2>3, <3>1 DEF Free
    <3>2. QED
      BY <2>1, <2>4, <2>6, <3>1 DEF Renews
  <2>9. \A g \in Flights : flight'[g] # Free /\ flight'[g].tab = t => CallKnows(m, flight'[g])
    BY <2>3, <2>4 DEF TabsInv, CallKnows
  <2>10. tab'[t] = m /\ \A u \in Tabs : u # t => Left(tab'[u], tab[u], token, token')
    BY <2>1, OnlyTab
  <2>11. OneTab(t, m)
    BY <2>3, <2>7, <2>8, <2>9, <2>10 DEF OneTab
  <2>12. QED
    BY <2>5, <2>11, OneTabStep
<1>3. QED
  BY <1>1, <1>2

LEMMA CloseStep ==
  ASSUME TabsInv, NEW t \in Tabs, Close(t)
  PROVE  TabsInv'
<1>1. /\ tab' = [tab EXCEPT ![t] = Closed] /\ UNCHANGED <<second, token, renewal>>
      /\ flight' = [f \in Flights |-> IF f \in Under(t) THEN Free ELSE flight[f]]
  BY DEF Close
<1>2. \A f \in Flights :
        /\ flight[f] # Free /\ flight[f].tab = t => flight'[f] = Free
        /\ ~(flight[f] # Free /\ flight[f].tab = t) => flight'[f] = flight[f]
  BY <1>1 DEF Under
<1>3. Closed \in TabRecords /\ TabKnows(Closed, token') /\ Renews(Closed, t, flight', token')
  BY DEF Closed, TabRecords, TabKnows, Renews
<1>4. LoginTypes'
  BY <1>1, <1>3 DEF TabsInv, LoginTypes
<1>5. tab'[t] = Closed /\ \A u \in Tabs : u # t => Left(tab'[u], tab[u], token, token')
  BY <1>1, OnlyTab
<1>6. OneTab(t, Closed)
  BY <1>2, <1>3, <1>5 DEF OneTab
<1>7. QED
  BY <1>4, <1>6, OneTabStep

LEMMA FireStep ==
  ASSUME TabsInv, NEW t \in Tabs, NEW f \in Flights, Fire(t, f)
  PROVE  TabsInv'
<1>1. tab[t].timer # NoToken /\ UNCHANGED <<second, token, renewal>>
  BY DEF Fire
<1>2. TabKnows(tab[t], token) /\ tab[t] \in TabRecords /\ tab[t].open /\ ~tab[t].quiet
  BY <1>1 DEF TabsInv, TabKnows, LoginTypes, TabRecords
<1>3. CASE renewal = NoToken
  <2> DEFINE m == [tab[t] EXCEPT !.timer = NoToken]
  <2>1. tab' = [tab EXCEPT ![t] = m] /\ flight' = flight
    BY <1>3 DEF Fire
  <2>2. /\ m \in TabRecords /\ m.open /\ ~m.quiet /\ m.loggedIn = tab[t].loggedIn
        /\ m.timer = NoToken /\ m.links = tab[t].links /\ m.foreign = tab[t].foreign
        /\ m.unarmed = tab[t].unarmed /\ m.overtaken = tab[t].overtaken
    BY <1>2 DEF TabRecords
  <2> HIDE DEF m
  <2>3. LoginTypes'
    BY <1>1, <2>1, <2>2 DEF TabsInv, LoginTypes
  <2>4. TabKnows(m, token') /\ Renews(m, t, flight', token')
    <3>1. token = NoToken /\ Renews(tab[t], t, flight, token)
      BY <1>3 DEF TabsInv, LoginTypes
    <3>2. QED
      BY <1>1, <1>2, <2>1, <2>2, <3>1 DEF TabKnows, Renews
  <2>5. tab'[t] = m /\ \A u \in Tabs : u # t => Left(tab'[u], tab[u], token, token')
    BY <1>1, <2>1, OnlyTab
  <2>6. \A g \in Flights : flight[g] # Free /\ flight[g].tab = t => CallKnows(m, flight[g])
    BY <2>2 DEF TabsInv, CallKnows
  <2>7. OneTab(t, m)
    BY <2>1, <2>4, <2>5, <2>6 DEF OneTab
  <2>8. QED
    BY <2>3, <2>7, OneTabStep
<1>4. CASE renewal # NoToken
  <2> DEFINE m == [tab[t] EXCEPT !.timer = NoToken]
  <2>1. tab' = [tab EXCEPT ![t] = m] /\ Send(f, t, "timer", renewal)
    BY <1>4 DEF Fire
  <2>2. /\ m \in TabRecords /\ m.open /\ ~m.quiet /\ m.loggedIn = tab[t].loggedIn
        /\ m.timer = NoToken /\ m.links = tab[t].links /\ m.foreign = tab[t].foreign
        /\ m.unarmed = tab[t].unarmed /\ m.overtaken = tab[t].overtaken
    BY <1>2 DEF TabRecords
  <2> HIDE DEF m
  <2>3. /\ flight' \in [Flights -> FlightRecords \cup {Free}]
        /\ flight[f] = Free /\ flight'[f] # Free /\ flight'[f].tab = t /\ flight'[f].at = "sent"
        /\ flight'[f].kind = "timer" /\ flight'[f].renewal = renewal
        /\ \A g \in Flights : g # f => flight'[g] = flight[g]
    <3>1. renewal \in Int /\ "timer" \in {"login", "start", "timer"}
      BY DEF TabsInv, LoginTypes
    <3>2. QED
      BY <2>1, <3>1, Sent
  <2>4. LoginTypes'
    BY <1>1, <2>1, <2>2, <2>3 DEF TabsInv, LoginTypes
  <2>5. TabKnows(m, token') /\ Renews(m, t, flight', token')
    <3>1. Renews(tab[t], t, flight, token)
      BY DEF TabsInv
    <3>2. QED
      BY <1>1, <1>2, <2>2, <2>3, <3>1 DEF TabKnows, Renews
  <2>6. tab'[t] = m /\ \A u \in Tabs : u # t => Left(tab'[u], tab[u], token, token')
    BY <1>1, <2>1, OnlyTab
  <2>7. \A g \in Flights : flight'[g] # Free /\ flight'[g].tab = t => CallKnows(m, flight'[g])
    BY <1>4, <2>2, <2>3 DEF TabsInv, CallKnows
  <2>8. OneTab(t, m)
    BY <2>3, <2>5, <2>6, <2>7 DEF OneTab
  <2>9. QED
    BY <2>4, <2>8, OneTabStep
<1>5. QED
  BY <1>3, <1>4

\* The server answers, or does not: no tab changes.
LEMMA ServeSteps ==
  ASSUME TabsInv, NEW f \in Flights, Serve(f) \/ ServeFails(f)
  PROVE  TabsInv'
<1>1. flight[f] # Free /\ UNCHANGED <<second, token, renewal, tab>>
  BY DEF Serve, ServeFails
<1>2. flight[f] \in FlightRecords
  BY <1>1, FreeOrNot DEF TabsInv, LoginTypes
<1>3. PICK trip : /\ flight' = [flight EXCEPT ![f] = trip]
                  /\ trip \in FlightRecords /\ trip.tab = flight[f].tab /\ trip.kind = flight[f].kind
                  /\ trip.at = "ok" => trip.expires \in Nat
                  /\ trip.at = "ok" \/ trip.kind # "login" => trip.renewal # NoToken
  <2>0. flight[f].kind # "login" => flight[f].renewal # NoToken
    BY <1>1 DEF TabsInv, CallKnows
  <2>1. CASE Serve(f)
    <3> DEFINE new == IF flight[f].kind = "login" THEN second + RenewalLife ELSE flight[f].renewal
               until == second + TokenLife
               trip == [flight[f] EXCEPT !.at = "ok", !.expires = until, !.renewal = new]
    <3>1. flight' = [flight EXCEPT ![f] = trip]
      BY <2>1 DEF Serve
    <3>2. until \in Nat /\ until \in Int /\ new \in Int /\ new # NoToken
      BY <1>2, <2>0, LoginManagerAssumption DEF TabsInv, LoginTypes, FlightRecords, NoToken
    <3> HIDE DEF new, until
    <3>3. /\ trip \in FlightRecords /\ trip.tab = flight[f].tab /\ trip.kind = flight[f].kind
          /\ trip.expires \in Nat /\ trip.renewal # NoToken
      BY <1>2, <3>2 DEF FlightRecords
    <3>4. QED
      BY <3>1, <3>3
  <2>2. CASE ServeFails(f)
    <3> DEFINE trip == [flight[f] EXCEPT !.at = "failed"]
    <3>1. flight' = [flight EXCEPT ![f] = trip]
      BY <2>2 DEF ServeFails
    <3>2. /\ trip \in FlightRecords /\ trip.tab = flight[f].tab /\ trip.kind = flight[f].kind
          /\ trip.at # "ok" /\ trip.renewal = flight[f].renewal
      BY <1>2 DEF FlightRecords
    <3>3. QED
      BY <2>0, <3>1, <3>2
  <2>3. QED
    BY <2>1, <2>2
<1>4. LoginTypes'
  BY <1>1, <1>3 DEF TabsInv, LoginTypes
<1>5. \A g \in Flights : flight'[g] = IF g = f THEN trip ELSE flight[g]
  BY <1>3 DEF TabsInv, LoginTypes
<1>6. ASSUME NEW g \in Flights, flight'[g] # Free PROVE CallKnows(tab'[flight'[g].tab], flight'[g])
  BY <1>1, <1>3, <1>5, <1>6 DEF TabsInv, CallKnows
<1>7. ASSUME NEW u \in Tabs PROVE Renews(tab'[u], u, flight', token')
  BY <1>1, <1>3, <1>5 DEF TabsInv, Renews
<1>8. QED
  BY <1>1, <1>4, <1>6, <1>7 DEF TabsInv

\* The answers: the call is over, and its tab is what the answer makes of it.
LEMMA CallOver ==
  ASSUME TabsInv, NEW f \in Flights, flight[f] # Free, flight' = [flight EXCEPT ![f] = Free]
  PROVE  /\ flight[f] \in FlightRecords /\ flight[f].tab \in Tabs
         /\ tab[flight[f].tab] \in TabRecords
         /\ CallKnows(tab[flight[f].tab], flight[f])
         /\ flight' \in [Flights -> FlightRecords \cup {Free}] /\ flight'[f] = Free
         /\ \A g \in Flights : g # f => flight'[g] = flight[g]
<1>1. flight[f] \in FlightRecords
  BY FreeOrNot DEF TabsInv, LoginTypes
<1>2. flight[f].tab \in Tabs
  BY <1>1 DEF FlightRecords
<1>3. QED
  BY <1>1, <1>2 DEF TabsInv, LoginTypes

LEMMA AnswerStep ==
  ASSUME TabsInv, LoginTypes', NEW f \in Flights, flight[f] # Free,
         flight' = [flight EXCEPT ![f] = Free],
         NEW m, m.open, ~m.quiet, tab'[flight[f].tab] = m,
         \A u \in Tabs : u # flight[f].tab => Left(tab'[u], tab[u], token, token'),
         TabKnows(m, token'), Renews(m, flight[f].tab, flight', token')
  PROVE  TabsInv'
<1> DEFINE t == flight[f].tab
<1>1. /\ t \in Tabs /\ flight'[f] = Free /\ \A g \in Flights : g # f => flight'[g] = flight[g]
  BY CallOver
<1>2. \A g \in Flights : flight'[g] # Free /\ flight'[g].tab = t => CallKnows(m, flight'[g])
  BY <1>1 DEF TabsInv, CallKnows
<1>3. OneTab(t, m)
  BY <1>1, <1>2 DEF OneTab
<1>4. QED
  BY <1>1, <1>3, OneTabStep

\* An answer signs in, and sets the timer.
LEMMA SignInStep ==
  ASSUME TabsInv, NEW f \in Flights, flight[f] # Free, flight[f].at = "ok",
         flight' = [flight EXCEPT ![f] = Free], second' = second,
         NEW m \in TabRecords, Store(f, m),
         m.open, ~m.quiet, m.loggedIn, m.links, Renews(m, flight[f].tab, flight', token')
  PROVE  TabsInv'
<1>1. /\ flight[f] \in FlightRecords /\ flight[f].tab \in Tabs
      /\ CallKnows(tab[flight[f].tab], flight[f])
      /\ flight' \in [Flights -> FlightRecords \cup {Free}]
  BY CallOver
<1>2. token' \in Nat /\ renewal' \in Int /\ token' # NoToken /\ renewal' # NoToken
  BY <1>1 DEF CallKnows, Store, FlightRecords, NoToken
<1>3. /\ tab'[flight[f].tab] = m /\ tab' \in [Tabs -> TabRecords]
      /\ \A u \in Tabs : u # flight[f].tab => Left(tab'[u], tab[u], token, token')
  BY <1>1, <1>2, TokenStored
<1>4. LoginTypes'
  BY <1>1, <1>2, <1>3 DEF TabsInv, LoginTypes
<1>5. TabKnows(m, token')
  BY <1>2 DEF TabKnows
<1>6. QED
  BY <1>3, <1>4, <1>5, AnswerStep

LEMMA LoginSteps ==
  ASSUME TabsInv, NEW f \in Flights, LoginReplies(f) \/ LoginFails(f)
  PROVE  TabsInv'
<1> DEFINE t == flight[f].tab
<1>1. /\ flight[f] # Free /\ flight[f].kind = "login" /\ second' = second
      /\ flight' = [flight EXCEPT ![f] = Free]
  BY DEF LoginReplies, LoginFails
<1>2. /\ flight[f] \in FlightRecords /\ t \in Tabs /\ tab[t] \in TabRecords
      /\ CallKnows(tab[t], flight[f])
      /\ flight' \in [Flights -> FlightRecords \cup {Free}]
      /\ \A g \in Flights : g # f => flight'[g] = flight[g]
  BY <1>1, CallOver
<1>3. TabKnows(tab[t], token) /\ Renews(tab[t], t, flight, token)
  BY <1>2 DEF TabsInv
<1>5. CASE LoginReplies(f) /\ ~(second >= flight[f].expires)
  <2> DEFINE s == SignedIn(tab[t])
             m == DoTimeout(s, flight[f].expires)
  <2>1. Store(f, m) /\ flight[f].at = "ok" /\ token' = flight[f].expires
    BY <1>5 DEF LoginReplies, Store
  <2>2. flight[f].expires \in Nat /\ LoginTypes
    BY <1>2, <2>1 DEF CallKnows, TabsInv
  <2>3. m \in TabRecords /\ m.open /\ m.loggedIn /\ m.links /\ ~m.quiet /\ (m.unarmed \/ m.timer = flight[f].expires - 1)
    <3>1. s \in TabRecords /\ s.open /\ s.loggedIn /\ s.links /\ ~s.quiet
      BY <1>2, SignedInKnows DEF CallKnows
    <3> HIDE DEF s
    <3>2. QED
      BY <2>2, <3>1, TimeoutSet
  <2> HIDE DEF m
  <2>4. Renews(m, t, flight', token')
    BY <2>1, <2>2, <2>3 DEF Renews, NoToken
  <2>5. QED
    BY <1>1, <2>1, <2>3, <2>4, SignInStep
<1>6. CASE LoginReplies(f) /\ second >= flight[f].expires
  <2> DEFINE m == [tab[t] EXCEPT !.unarmed = TRUE]
  <2>1. Store(f, m) /\ flight[f].at = "ok"
    BY <1>6 DEF LoginReplies
  <2>2. token' \in Nat /\ renewal' \in Int /\ token' # NoToken /\ renewal' # NoToken
    BY <1>2, <2>1 DEF CallKnows, Store, FlightRecords, NoToken
  <2>3. /\ m \in TabRecords /\ m.open = tab[t].open /\ m.loggedIn = tab[t].loggedIn
        /\ m.timer = tab[t].timer /\ m.links = tab[t].links /\ m.quiet = tab[t].quiet
        /\ m.foreign = tab[t].foreign /\ m.unarmed
    BY <1>2 DEF TabRecords
  <2> HIDE DEF m
  <2>4. /\ tab'[t] = m /\ tab' \in [Tabs -> TabRecords]
        /\ \A u \in Tabs : u # t => Left(tab'[u], tab[u], token, token')
    BY <1>2, <2>1, <2>2, <2>3, TokenStored
  <2>5. LoginTypes'
    BY <1>1, <1>2, <2>2, <2>4 DEF TabsInv, LoginTypes
  <2>6. TabKnows(m, token') /\ m.open /\ ~m.quiet /\ Renews(m, t, flight', token')
    BY <1>2, <1>3, <2>2, <2>3 DEF TabKnows, CallKnows, Renews
  <2>7. QED
    BY <1>1, <2>4, <2>5, <2>6, AnswerStep
<1>7. CASE LoginFails(f)
  <2>1. UNCHANGED <<token, renewal, tab>>
    BY <1>7 DEF LoginFails
  <2>2. LoginTypes'
    BY <1>1, <1>2, <2>1 DEF TabsInv, LoginTypes
  <2>3. tab'[t] = tab[t] /\ \A u \in Tabs : u # t => Left(tab'[u], tab[u], token, token')
    BY <2>1 DEF Left
  <2>4. TabKnows(tab[t], token') /\ tab[t].open /\ ~tab[t].quiet
    BY <1>2, <1>3, <2>1 DEF CallKnows
  <2>5. Renews(tab[t], t, flight', token')
    BY <1>1, <1>2, <1>3, <2>1 DEF Renews
  <2>6. QED
    BY <1>1, <2>2, <2>3, <2>4, <2>5, AnswerStep
<1>8. QED
  BY <1>5, <1>6, <1>7

LEMMA RefreshSteps ==
  ASSUME TabsInv, NEW f \in Flights, Refresh(f) \/ RefreshFails(f)
  PROVE  TabsInv'
<1> DEFINE t == flight[f].tab
<1>1. /\ flight[f] # Free /\ flight[f].kind \in {"start", "timer"} /\ second' = second
      /\ flight' = [flight EXCEPT ![f] = Free]
  BY DEF Refresh, RefreshFails
<1>2. /\ flight[f] \in FlightRecords /\ t \in Tabs /\ tab[t] \in TabRecords
      /\ CallKnows(tab[t], flight[f])
      /\ flight' \in [Flights -> FlightRecords \cup {Free}]
      /\ \A g \in Flights : g # f => flight'[g] = flight[g]
  BY <1>1, CallOver
<1>3. CASE Refresh(f) /\ flight[f].kind = "timer"
  <2> DEFINE s == SignedIn(tab[t])
             m == DoTimeout(s, flight[f].expires)
  <2>1. Store(f, m) /\ flight[f].at = "ok" /\ token' = flight[f].expires
    BY <1>3 DEF Refresh, Store
  <2>2. flight[f].expires \in Nat /\ LoginTypes
    BY <1>2, <2>1 DEF CallKnows, TabsInv
  <2>3. m \in TabRecords /\ m.open /\ m.loggedIn /\ m.links /\ ~m.quiet /\ (m.unarmed \/ m.timer = flight[f].expires - 1)
    <3>1. s \in TabRecords /\ s.open /\ s.loggedIn /\ s.links /\ ~s.quiet
      BY <1>2, SignedInKnows DEF CallKnows
    <3> HIDE DEF s
    <3>2. QED
      BY <2>2, <3>1, TimeoutSet
  <2> HIDE DEF m
  <2>4. Renews(m, t, flight', token')
    BY <2>1, <2>2, <2>3 DEF Renews, NoToken
  <2>5. QED
    BY <1>1, <2>1, <2>3, <2>4, SignInStep
<1>4. CASE Refresh(f) /\ flight[f].kind # "timer"
  <2> DEFINE s == SignedIn(tab[t])
             m == [s EXCEPT !.unarmed = TRUE]
  <2>1. Store(f, m) /\ flight[f].at = "ok"
    BY <1>4 DEF Refresh
  <2>2. s \in TabRecords /\ s.open /\ s.timer = tab[t].timer /\ s.loggedIn /\ s.links /\ ~s.quiet
    BY <1>2, SignedInKnows DEF CallKnows
  <2> HIDE DEF s
  <2>4. m \in TabRecords /\ m.open /\ m.loggedIn /\ m.links /\ ~m.quiet /\ m.unarmed
    BY <2>2 DEF TabRecords
  <2> HIDE DEF m
  <2>5. Renews(m, t, flight', token')
    BY <2>4 DEF Renews
  <2>6. QED
    BY <1>1, <2>1, <2>4, <2>5, SignInStep
<1>5. CASE RefreshFails(f)
  <2> DEFINE m == SignedOut(tab[t])
  <2>1. ClearToken(t, m) /\ renewal' = renewal
    BY <1>5 DEF RefreshFails
  <2>2. /\ m \in TabRecords /\ m.open /\ m.timer = tab[t].timer /\ ~m.loggedIn /\ ~m.quiet
        /\ m.foreign = tab[t].foreign
        /\ m.links <=> tab[t].links /\ ~(tab[t].loggedIn /\ token # NoToken)
    BY <1>2, SignedOutKnows DEF CallKnows
  <2> HIDE DEF m
  <2>3. /\ token' = NoToken /\ tab'[t] = m /\ tab' \in [Tabs -> TabRecords]
        /\ \A u \in Tabs : u # t => Left(tab'[u], tab[u], token, token')
    BY <1>2, <2>1, <2>2, TokenCleared
  <2>4. LoginTypes'
    BY <1>1, <1>2, <2>1, <2>3 DEF TabsInv, LoginTypes
  <2>5. TabKnows(m, token') /\ Renews(m, t, flight', token')
    BY <1>2, <2>2 DEF TabsInv, TabKnows, Renews
  <2>6. QED
    BY <1>1, <2>2, <2>3, <2>4, <2>5, AnswerStep
<1>6. QED
  BY <1>3, <1>4, <1>5

LEMMA LogoutStep ==
  ASSUME TabsInv, NEW t \in Tabs, Logout(t)
  PROVE  TabsInv'
<1> DEFINE s == SignedOut(tab[t])
           none == Under(t) = {}
           m == [s EXCEPT !.timer = NoToken, !.quiet = none]
<1>1. ClearToken(t, m) /\ renewal' = NoToken /\ UNCHANGED <<second, flight>> /\ tab[t].open
  BY DEF Logout
<1>2. TabKnows(tab[t], token) /\ tab[t] \in TabRecords
  BY DEF TabsInv, LoginTypes
<1>3. /\ s \in TabRecords /\ s.open /\ ~s.loggedIn /\ s.foreign = tab[t].foreign
      /\ s.links <=> tab[t].links /\ ~(tab[t].loggedIn /\ token # NoToken)
  BY <1>1, <1>2, SignedOutKnows
<1>4. none \in BOOLEAN /\ (none => \A g \in Flights : flight[g] # Free => flight[g].tab # t)
  BY DEF Under
<1> HIDE DEF s, none
<1>5. /\ m \in TabRecords /\ m.open /\ ~m.loggedIn /\ m.foreign = tab[t].foreign /\ m.timer = NoToken
      /\ m.links <=> s.links
      /\ m.quiet <=> none
  BY <1>3, <1>4 DEF TabRecords
<1> HIDE DEF m
<1>6. /\ token' = NoToken /\ tab'[t] = m /\ tab' \in [Tabs -> TabRecords]
      /\ \A u \in Tabs : u # t => Left(tab'[u], tab[u], token, token')
  BY <1>1, <1>5, TokenCleared
<1>7. LoginTypes'
  BY <1>1, <1>6 DEF TabsInv, LoginTypes, NoToken
<1>8. TabKnows(m, token') /\ Renews(m, t, flight', token')
  BY <1>2, <1>3, <1>5 DEF TabKnows, Renews
<1>9. \A g \in Flights : flight[g] # Free /\ flight[g].tab = t => CallKnows(m, flight[g])
  BY <1>4, <1>5 DEF TabsInv, CallKnows
<1>10. OneTab(t, m)
  BY <1>1, <1>6, <1>8, <1>9 DEF OneTab
<1>11. QED
  BY <1>7, <1>10, OneTabStep

LEMMA TabsInit == LoginInit => TabsInv
<1> SUFFICES ASSUME LoginInit PROVE TabsInv
  OBVIOUS
<1>1. Closed \in TabRecords
  BY DEF Closed, TabRecords
<1>2. LoginTypes
  BY <1>1 DEF LoginInit, LoginTypes, NoToken
<1>3. TabKnows(Closed, token) /\ \A t \in Tabs : Renews(Closed, t, flight, token)
  BY DEF TabKnows, Closed, Renews
<1>4. QED
  BY <1>2, <1>3 DEF LoginInit, TabsInv

LEMMA TabsNext == TabsInv /\ [LoginNext]_loginVars => TabsInv'
<1> SUFFICES ASSUME TabsInv, [LoginNext]_loginVars PROVE TabsInv'
  OBVIOUS
<1>1. CASE UNCHANGED <<token, renewal, tab, flight>> /\ second' \in Nat
  BY <1>1 DEF TabsInv, LoginTypes
<1>2. CASE LoginTick
  BY <1>1, <1>2 DEF LoginTick, TabsInv, LoginTypes
<1>3. CASE UNCHANGED loginVars
  BY <1>1, <1>3 DEF loginVars, TabsInv, LoginTypes
<1>4. QED
  BY <1>2, <1>3, OpenSteps, SendSteps, CloseStep, FireStep, ServeSteps, LoginSteps, RefreshSteps,
     LogoutStep DEF LoginNext

\* A tab that was logged out with no request under way stays so, and shows no
\* private links unless another tab removed the token (LoginManager.logout and
\* the listeners of main.ts).
THEOREM LogoutHoldsTheorem == LoginSpec => []LogoutHolds
<1>1. TabsInv => LogoutHolds
  <2> SUFFICES ASSUME TabsInv, NEW t \in Tabs
               PROVE  /\ tab[t].quiet => ~tab[t].loggedIn /\ tab[t].timer = NoToken /\ Under(t) = {}
                      /\ tab[t].links /\ ~tab[t].loggedIn => tab[t].foreign
    BY DEF LogoutHolds
  <2>1. TabKnows(tab[t], token)
    BY DEF TabsInv
  <2>2. tab[t].quiet => Under(t) = {}
    BY DEF TabsInv, CallKnows, Under
  <2>3. QED
    BY <2>1, <2>2 DEF TabKnows
<1>2. QED
  BY <1>1, TabsInit, TabsNext, PTL DEF LoginSpec

\* The timer of a tab that is logged in is the one of the token in localStorage,
\* or its refresh is under way, whatever overlaps in the tab, unless another tab
\* changed the token since or none was set for it (doTimeout and storeToken).
THEOREM RenewsInTimeTheorem == LoginSpec => []RenewsInTime
<1>1. TabsInv => RenewsInTime
  <2> SUFFICES ASSUME TabsInv, NEW t \in Tabs,
                      tab[t].loggedIn, ~tab[t].overtaken, ~tab[t].unarmed
               PROVE  \/ token # NoToken /\ tab[t].timer = token - 1
                      \/ \E f \in Under(t) : flight[f].kind = "timer"
    BY DEF RenewsInTime
  <2>1. /\ token # NoToken
        /\ \/ tab[t].timer = token - 1
           \/ \E f \in Flights : flight[f].kind = "timer" /\ flight[f].tab = t
    BY DEF TabsInv, Renews
  <2>2. \A f \in Flights : flight[f].kind = "timer" => flight[f] # Free
    BY DEF Free
  <2>3. QED
    BY <2>1, <2>2 DEF Under
<1>2. QED
  BY <1>1, TabsInit, TabsNext, PTL DEF LoginSpec

-----------------------------------------------------------------------------
(* Rooms: who is admitted.                                                 *)

CreatorRecords == [at : {"new", "member", "ok", "error"}, room : 0 .. MaxRooms]

VisitorRecords ==
  [at : {"new", "members", "connected", "refused", "not found", "error"},
   room : 0 .. MaxRooms, claims : Users \cup {NoClaims}, query : Users,
   told : BOOLEAN, cut : BOOLEAN]

\* What a creator has to do with the tables of rooms and members.
CreatorKnows(p, table, of) ==
  /\ p.at \in {"member", "ok"} => p.room \in DOMAIN table
  /\ p.at = "ok" => <<p.room, table[p.room]>> \in of

\* And a visitor: who is connected is a member, and whose room was answered before
\* finds it and its owner in both.
VisitorKnows(q, table, of) ==
  /\ q.at = "connected" => <<q.room, Claimed(q)>> \in of
  /\ q.told =>
       /\ q.room \in DOMAIN table /\ <<q.room, table[q.room]>> \in of
       /\ q.at # "not found"
       /\ q.at = "refused" /\ ~q.cut => Claimed(q) # table[q.room]

\* A member of a room owns it.
AdmittedInv ==
  /\ rooms \in Seq(Users) /\ Len(rooms) <= MaxRooms
  /\ members \subseteq (DOMAIN rooms) \X Users
  /\ creator \in [Creators -> CreatorRecords] /\ visitor \in [Visitors -> VisitorRecords]
  /\ \A c \in Creators : CreatorKnows(creator[c], rooms, members)
  /\ \A room \in DOMAIN rooms, u \in Users : <<room, u>> \in members => rooms[room] = u
  /\ \A v \in Visitors : VisitorKnows(visitor[v], rooms, members)

LEMMA AdmittedInit == RoomsInit => AdmittedInv
<1> SUFFICES ASSUME RoomsInit PROVE AdmittedInv
  OBVIOUS
<1>1. rooms = <<>> /\ members = {} /\ creator = [c \in Creators |-> [at |-> "new", room |-> 0]]
  BY DEF RoomsInit
<1>2. PICK user \in Users : visitor = [v \in Visitors |-> NewVisitor(user)]
  BY DEF RoomsInit
<1>3. 0 \in 0 .. MaxRooms
  BY RoomsAssumption
<1>4. [at |-> "new", room |-> 0] \in CreatorRecords /\ NewVisitor(user) \in VisitorRecords
  BY <1>3 DEF CreatorRecords, VisitorRecords, NewVisitor
<1>5. rooms \in Seq(Users) /\ Len(rooms) <= MaxRooms
  BY <1>1, RoomsAssumption
<1>6. creator \in [Creators -> CreatorRecords] /\ visitor \in [Visitors -> VisitorRecords]
  BY <1>1, <1>2, <1>4
<1>7. \A v \in Visitors : visitor[v].at = "new" /\ ~visitor[v].told
  BY <1>2 DEF NewVisitor
<1>8. QED
  BY <1>1, <1>5, <1>6, <1>7 DEF AdmittedInv, CreatorKnows, VisitorKnows

\* A row more in the table of rooms changes none of those before.
LEMMA OneRoomMore ==
  ASSUME AdmittedInv, NEW user \in Users, Len(rooms) < MaxRooms
  PROVE  /\ Append(rooms, user) \in Seq(Users)
         /\ Len(Append(rooms, user)) <= MaxRooms
         /\ DOMAIN Append(rooms, user) = DOMAIN rooms \cup {Len(rooms) + 1}
         /\ Len(rooms) + 1 \in 0 .. MaxRooms
         /\ \A i \in DOMAIN rooms : Append(rooms, user)[i] = rooms[i]
<1>1. rooms \in Seq(Users) /\ Len(rooms) \in Nat /\ DOMAIN rooms = 1 .. Len(rooms)
  BY DEF AdmittedInv
<1>2. Len(Append(rooms, user)) = Len(rooms) + 1 /\ Append(rooms, user) \in Seq(Users)
  BY <1>1
<1>3. DOMAIN Append(rooms, user) = 1 .. Len(rooms) + 1
  BY <1>1, <1>2
<1>4. QED
  BY <1>1, <1>2, <1>3, RoomsAssumption

\* The tables grow: by a row of a room, or by the owner of one.
LEMMA TablesGrow ==
  ASSUME AdmittedInv, NEW user \in Users,
         rooms' = rooms \/ (Len(rooms) < MaxRooms /\ rooms' = Append(rooms, user)),
         NEW room \in DOMAIN rooms,
         members' = members \/ members' = members \cup {<<room, rooms[room]>>}
  PROVE  /\ rooms' \in Seq(Users) /\ Len(rooms') <= MaxRooms
         /\ DOMAIN rooms \subseteq DOMAIN rooms'
         /\ \A i \in DOMAIN rooms : rooms'[i] = rooms[i]
         /\ members \subseteq members' /\ members' \subseteq (DOMAIN rooms') \X Users
         /\ \A i \in DOMAIN rooms', u \in Users : <<i, u>> \in members' => rooms'[i] = u
<1>1. /\ rooms' \in Seq(Users) /\ Len(rooms') <= MaxRooms
      /\ DOMAIN rooms \subseteq DOMAIN rooms' /\ \A i \in DOMAIN rooms : rooms'[i] = rooms[i]
  <2>1. CASE rooms' = rooms
    BY <2>1 DEF AdmittedInv
  <2>2. CASE Len(rooms) < MaxRooms /\ rooms' = Append(rooms, user)
    BY <2>2, OneRoomMore
  <2>3. QED
    BY <2>1, <2>2
<1>2. rooms[room] \in Users
  BY DEF AdmittedInv
<1>3. members \subseteq (DOMAIN rooms) \X Users /\ members' \subseteq (DOMAIN rooms) \X Users
  BY <1>2 DEF AdmittedInv
<1>4. ASSUME NEW i \in DOMAIN rooms', NEW u \in Users, <<i, u>> \in members' PROVE rooms'[i] = u
  <2>1. i \in DOMAIN rooms
    BY <1>3, <1>4
  <2>2. rooms[i] = u
    BY <1>4, <2>1 DEF AdmittedInv
  <2>3. QED
    BY <1>1, <2>1, <2>2
<1>5. QED
  BY <1>1, <1>3, <1>4

\* What is known stays known when the tables grow.
LEMMA KnownStays ==
  ASSUME NEW table, NEW more, NEW of, NEW ofMore,
         DOMAIN table \subseteq DOMAIN more, \A i \in DOMAIN table : more[i] = table[i],
         of \subseteq ofMore
  PROVE  /\ \A p : CreatorKnows(p, table, of) => CreatorKnows(p, more, ofMore)
         /\ \A q : VisitorKnows(q, table, of) => VisitorKnows(q, more, ofMore)
<1>1. ASSUME NEW p, CreatorKnows(p, table, of) PROVE CreatorKnows(p, more, ofMore)
  <2>1. p.at \in {"member", "ok"} => p.room \in DOMAIN more /\ more[p.room] = table[p.room]
    BY <1>1 DEF CreatorKnows
  <2>2. QED
    BY <1>1, <2>1 DEF CreatorKnows
<1>2. ASSUME NEW q, VisitorKnows(q, table, of) PROVE VisitorKnows(q, more, ofMore)
  <2>1. q.told => q.room \in DOMAIN more /\ more[q.room] = table[q.room]
    BY <1>2 DEF VisitorKnows
  <2>2. QED
    BY <1>2, <2>1 DEF VisitorKnows
<1>3. QED
  BY <1>1, <1>2

\* A step of a creator: the tables grow, and it knows what it has to.
LEMMA AdmittedCreator ==
  ASSUME AdmittedInv, NEW c \in Creators, NEW q \in CreatorRecords,
         creator' = [creator EXCEPT ![c] = q], visitor' = visitor,
         rooms' \in Seq(Users), Len(rooms') <= MaxRooms,
         DOMAIN rooms \subseteq DOMAIN rooms', \A i \in DOMAIN rooms : rooms'[i] = rooms[i],
         members \subseteq members', members' \subseteq (DOMAIN rooms') \X Users,
         \A i \in DOMAIN rooms', u \in Users : <<i, u>> \in members' => rooms'[i] = u,
         CreatorKnows(q, rooms', members')
  PROVE  AdmittedInv'
<1>1. creator' \in [Creators -> CreatorRecords]
        /\ \A d \in Creators : creator'[d] = IF d = c THEN q ELSE creator[d]
  BY DEF AdmittedInv
<1>2. \A d \in Creators : CreatorKnows(creator'[d], rooms', members')
  BY <1>1, KnownStays DEF AdmittedInv
<1>3. \A v \in Visitors : VisitorKnows(visitor'[v], rooms', members')
  BY KnownStays DEF AdmittedInv
<1>4. QED
  BY <1>1, <1>2, <1>3 DEF AdmittedInv

LEMMA AdmittedInsert ==
  ASSUME AdmittedInv, NEW c \in Creators, NEW user \in Users,
         InsertRoom(c, user) \/ InsertRoomFails(c, user)
  PROVE  AdmittedInv'
<1> DEFINE Row(q) == creator' = [creator EXCEPT ![c] = q] /\ CreatorKnows(q, rooms', members')
<1>1. /\ members' = members /\ visitor' = visitor /\ Len(rooms) < MaxRooms
      /\ rooms' = rooms \/ rooms' = Append(rooms, user)
  BY DEF InsertRoom, InsertRoomFails
<1>2. /\ rooms' \in Seq(Users) /\ Len(rooms') <= MaxRooms
      /\ DOMAIN rooms \subseteq DOMAIN rooms' /\ \A i \in DOMAIN rooms : rooms'[i] = rooms[i]
      /\ rooms' = Append(rooms, user) => Len(rooms) + 1 \in DOMAIN rooms'
      /\ Len(rooms) + 1 \in 0 .. MaxRooms
      /\ rooms' # rooms => DOMAIN rooms' = DOMAIN rooms \cup {Len(rooms) + 1}
  BY <1>1, OneRoomMore DEF AdmittedInv
<1>3. members' \subseteq (DOMAIN rooms') \X Users
  BY <1>1, <1>2 DEF AdmittedInv
<1>4. ASSUME NEW i \in DOMAIN rooms', NEW u \in Users, <<i, u>> \in members' PROVE rooms'[i] = u
  <2>1. i \in DOMAIN rooms
    BY <1>1, <1>4 DEF AdmittedInv
  <2>2. QED
    BY <1>1, <1>2, <1>4, <2>1 DEF AdmittedInv
<1>5. CASE InsertRoom(c, user)
  <2> DEFINE q == [at |-> "member", room |-> Len(rooms) + 1]
  <2>1. creator' = [creator EXCEPT ![c] = q] /\ rooms' = Append(rooms, user)
    BY <1>5 DEF InsertRoom
  <2>2. q \in CreatorRecords /\ CreatorKnows(q, rooms', members')
    BY <1>2, <2>1 DEF CreatorRecords, CreatorKnows
  <2> HIDE DEF q
  <2>3. QED
    BY <1>1, <1>2, <1>3, <1>4, <2>1, <2>2, AdmittedCreator
<1>6. CASE InsertRoomFails(c, user)
  <2> DEFINE q == [creator[c] EXCEPT !.at = "error"]
  <2>1. creator' = [creator EXCEPT ![c] = q]
    BY <1>6 DEF InsertRoomFails
  <2>2. q \in CreatorRecords /\ CreatorKnows(q, rooms', members')
    BY DEF AdmittedInv, CreatorRecords, CreatorKnows
  <2> HIDE DEF q
  <2>3. QED
    BY <1>1, <1>2, <1>3, <1>4, <2>1, <2>2, AdmittedCreator
<1>7. QED
  BY <1>5, <1>6

LEMMA AdmittedMember ==
  ASSUME AdmittedInv, NEW c \in Creators, InsertMember(c) \/ InsertMemberFails(c)
  PROVE  AdmittedInv'
<1> DEFINE at == IF InsertMember(c) THEN "ok" ELSE "error"
           q  == [creator[c] EXCEPT !.at = at]
<1>1. creator[c].at = "member" /\ rooms' = rooms /\ visitor' = visitor
  BY DEF InsertMember, InsertMemberFails
<1>2. creator[c].room \in DOMAIN rooms
  BY <1>1 DEF AdmittedInv, CreatorKnows
<1>3. rooms[creator[c].room] \in Users
  BY <1>2 DEF AdmittedInv
<1>4. members' = members \/ members' = members \cup {<<creator[c].room, rooms[creator[c].room]>>}
  BY DEF InsertMember, InsertMemberFails
<1>5. /\ rooms' \in Seq(Users) /\ Len(rooms') <= MaxRooms
      /\ DOMAIN rooms \subseteq DOMAIN rooms' /\ \A i \in DOMAIN rooms : rooms'[i] = rooms[i]
      /\ members \subseteq members' /\ members' \subseteq (DOMAIN rooms') \X Users
      /\ \A i \in DOMAIN rooms', u \in Users : <<i, u>> \in members' => rooms'[i] = u
  BY <1>1, <1>2, <1>3, <1>4, TablesGrow
<1>6. creator' = [creator EXCEPT ![c] = q]
  BY DEF InsertMember, InsertMemberFails
<1>7. q \in CreatorRecords /\ q.at = at /\ q.room = creator[c].room
  BY DEF AdmittedInv, CreatorRecords
<1>8. CreatorKnows(q, rooms', members')
  <2>1. at = "ok" => <<creator[c].room, rooms[creator[c].room]>> \in members'
    BY DEF InsertMember
  <2>2. QED
    BY <1>1, <1>2, <1>7, <2>1 DEF CreatorKnows
<1> HIDE DEF q
<1>9. QED
  BY <1>1, <1>5, <1>6, <1>7, <1>8, AdmittedCreator

\* A step of a visitor.
LEMMA AdmittedVisitor ==
  ASSUME AdmittedInv, NEW v \in Visitors, NEW q \in VisitorRecords,
         visitor' = [visitor EXCEPT ![v] = q],
         VisitorKnows(q, rooms, members),
         UNCHANGED <<tableVars, creator>>
  PROVE  AdmittedInv'
<1>1. visitor' \in [Visitors -> VisitorRecords]
        /\ \A w \in Visitors : visitor'[w] = IF w = v THEN q ELSE visitor[w]
  BY DEF AdmittedInv
<1>2. \A w \in Visitors : VisitorKnows(visitor'[w], rooms, members)
  BY <1>1 DEF AdmittedInv
<1>3. QED
  BY <1>1, <1>2 DEF AdmittedInv, tableVars

LEMMA AdmittedQuery ==
  ASSUME AdmittedInv, NEW v \in Visitors, NEW room \in RoomIds,
         NEW claims \in Users \cup {NoClaims}, NEW query \in Users,
         QueryRoom(v, room, claims, query)
  PROVE  AdmittedInv'
<1> DEFINE told == \E c \in Creators : creator[c] = [at |-> "ok", room |-> room]
           at   == IF room \in DOMAIN rooms THEN "members" ELSE "not found"
           q    == [at |-> at, room |-> room, claims |-> claims, query |-> query,
                    cut |-> FALSE, told |-> told]
<1>1. visitor' = [visitor EXCEPT ![v] = q] /\ UNCHANGED <<tableVars, creator>>
  BY DEF QueryRoom
<1>2. told => room \in DOMAIN rooms /\ <<room, rooms[room]>> \in members
  <2> SUFFICES ASSUME NEW c \in Creators, creator[c] = [at |-> "ok", room |-> room]
               PROVE  room \in DOMAIN rooms /\ <<room, rooms[room]>> \in members
    OBVIOUS
  <2>1. creator[c].at = "ok" /\ creator[c].room = room
    OBVIOUS
  <2>2. QED
    BY <2>1 DEF AdmittedInv, CreatorKnows
<1>3. told \in BOOLEAN
  OBVIOUS
<1> HIDE DEF told
<1>4. q \in VisitorRecords
  BY <1>3 DEF VisitorRecords, RoomIds
<1>5. VisitorKnows(q, rooms, members)
  BY <1>2 DEF VisitorKnows
<1> HIDE DEF q
<1>6. QED
  BY <1>1, <1>4, <1>5, AdmittedVisitor

\* The answer to a visitor, from all or some of the members.
LEMMA AdmittedAnswer ==
  ASSUME AdmittedInv, NEW v \in Visitors, visitor[v].at = "members",
         NEW found \in SUBSET MembersOf(visitor[v].room), NEW cut \in BOOLEAN,
         cut \/ found = MembersOf(visitor[v].room),
         visitor' = [visitor EXCEPT
           ![v] = [@ EXCEPT !.at  = IF Claimed(visitor[v]) \in found THEN "connected" ELSE "refused",
                            !.cut = cut]],
         UNCHANGED <<tableVars, creator>>
  PROVE  AdmittedInv'
<1> DEFINE at == IF Claimed(visitor[v]) \in found THEN "connected" ELSE "refused"
           q  == [visitor[v] EXCEPT !.at = at, !.cut = cut]
<1>1. visitor[v] \in VisitorRecords /\ VisitorKnows(visitor[v], rooms, members)
  BY DEF AdmittedInv
<1>2. /\ q \in VisitorRecords /\ q.at = at /\ q.cut = cut /\ q.room = visitor[v].room
      /\ q.told = visitor[v].told /\ Claimed(q) = Claimed(visitor[v])
  BY <1>1 DEF VisitorRecords, Claimed
<1>3. visitor' = [visitor EXCEPT ![v] = q]
  OBVIOUS
<1>4. VisitorKnows(q, rooms, members)
  <2>1. at = "connected" => <<q.room, Claimed(q)>> \in members
    BY <1>2 DEF MembersOf
  <2>2. ASSUME q.told
        PROVE  /\ q.room \in DOMAIN rooms /\ <<q.room, rooms[q.room]>> \in members
               /\ at = "refused" /\ ~cut => Claimed(q) # rooms[q.room]
    <3>1. q.room \in DOMAIN rooms /\ <<q.room, rooms[q.room]>> \in members
      BY <1>1, <1>2, <2>2 DEF VisitorKnows
    <3>2. rooms[q.room] \in MembersOf(q.room)
      BY <3>1 DEF MembersOf, AdmittedInv
    <3>3. QED
      BY <1>2, <3>1, <3>2
  <2>3. at # "not found"
    OBVIOUS
  <2> HIDE DEF q, at
  <2>4. QED
    BY <1>2, <2>1, <2>2, <2>3 DEF VisitorKnows
<1> HIDE DEF q
<1>5. QED
  BY <1>2, <1>3, <1>4, AdmittedVisitor

LEMMA AdmittedNext == AdmittedInv /\ [RoomsNext]_roomsVars => AdmittedInv'
<1> SUFFICES ASSUME AdmittedInv, [RoomsNext]_roomsVars PROVE AdmittedInv'
  OBVIOUS
<1>1. CASE UNCHANGED roomsVars
  BY <1>1 DEF roomsVars, tableVars, AdmittedInv
<1>2. ASSUME NEW v \in Visitors, QueryMembers(v) PROVE AdmittedInv'
  <2>1. visitor[v].at = "members" /\ UNCHANGED <<tableVars, creator>>
    BY <1>2 DEF QueryMembers
  <2>2. visitor[v] \in VisitorRecords
    BY DEF AdmittedInv
  <2> DEFINE at == IF Claimed(visitor[v]) \in MembersOf(visitor[v].room) THEN "connected" ELSE "refused"
             cut == visitor[v].cut
  <2>3. [visitor[v] EXCEPT !.at = at, !.cut = cut] = [visitor[v] EXCEPT !.at = at] /\ cut \in BOOLEAN
    BY <2>2 DEF VisitorRecords
  <2>4. visitor' = [visitor EXCEPT ![v] = [@ EXCEPT !.at = at, !.cut = cut]]
    BY <1>2, <2>3 DEF QueryMembers
  <2>5. QED
    BY <2>1, <2>3, <2>4, AdmittedAnswer
<1>3. ASSUME NEW v \in Visitors, QueryMembersCut(v) PROVE AdmittedInv'
  <2>1. PICK found \in SUBSET MembersOf(visitor[v].room) :
          visitor' = [visitor EXCEPT
            ![v].at = IF Claimed(visitor[v]) \in found THEN "connected" ELSE "refused", ![v].cut = TRUE]
    BY <1>3 DEF QueryMembersCut
  <2>2. visitor \in [Visitors -> VisitorRecords]
    BY DEF AdmittedInv
  <2>3. visitor' = [visitor EXCEPT
           ![v] = [@ EXCEPT !.at  = IF Claimed(visitor[v]) \in found THEN "connected" ELSE "refused",
                            !.cut = TRUE]]
    BY <2>1, <2>2
  <2>4. visitor[v].at = "members" /\ UNCHANGED <<tableVars, creator>>
    BY <1>3 DEF QueryMembersCut
  <2>5. QED
    BY <2>3, <2>4, AdmittedAnswer
<1>4. ASSUME NEW v \in Visitors, QueryFails(v) PROVE AdmittedInv'
  <2> DEFINE q == [visitor[v] EXCEPT !.at = "error"]
  <2>1. visitor' = [visitor EXCEPT ![v] = q] /\ UNCHANGED <<tableVars, creator>>
    BY <1>4 DEF QueryFails
  <2>2. visitor[v] \in VisitorRecords /\ VisitorKnows(visitor[v], rooms, members)
    BY DEF AdmittedInv
  <2>3. /\ q \in VisitorRecords /\ q.at = "error" /\ q.room = visitor[v].room
        /\ q.told = visitor[v].told
    BY <2>2 DEF VisitorRecords
  <2> HIDE DEF q
  <2>4. VisitorKnows(q, rooms, members)
    BY <2>2, <2>3 DEF VisitorKnows
  <2>5. QED
    BY <2>1, <2>3, <2>4, AdmittedVisitor
<1>5. QED
  BY <1>1, <1>2, <1>3, <1>4, AdmittedInsert, AdmittedMember, AdmittedQuery DEF RoomsNext

\* With the token of its owner one gets into a room that was answered, and with
\* no other token into any.
THEOREM CreatorAdmittedTheorem == RoomsSpec => []CreatorAdmitted
<1>1. AdmittedInv => CreatorAdmitted
  <2> SUFFICES ASSUME AdmittedInv, NEW v \in Visitors
               PROVE  LET q == visitor[v] IN
                        /\ q.told /\ q.claims = rooms[q.room] =>
                             q.at # "not found" /\ (q.at = "refused" => q.cut)
                        /\ q.at = "connected" /\ q.claims # NoClaims =>
                             q.room \in DOMAIN rooms /\ q.claims = rooms[q.room]
    BY DEF CreatorAdmitted
  <2>1. visitor[v] \in VisitorRecords /\ VisitorKnows(visitor[v], rooms, members)
    BY DEF AdmittedInv
  <2>2. ASSUME visitor[v].told, visitor[v].claims = rooms[visitor[v].room]
        PROVE  visitor[v].at # "not found" /\ (visitor[v].at = "refused" => visitor[v].cut)
    <3>1. visitor[v].room \in DOMAIN rooms
      BY <2>1, <2>2 DEF VisitorKnows
    <3>2. rooms[visitor[v].room] \in Users
      BY <3>1 DEF AdmittedInv
    <3>3. Claimed(visitor[v]) = rooms[visitor[v].room]
      BY <2>2, <3>2, RoomsAssumption DEF Claimed
    <3>4. QED
      BY <2>1, <2>2, <3>3 DEF VisitorKnows
  <2>3. ASSUME visitor[v].at = "connected", visitor[v].claims # NoClaims
        PROVE  visitor[v].room \in DOMAIN rooms /\ visitor[v].claims = rooms[visitor[v].room]
    <3>1. <<visitor[v].room, visitor[v].claims>> \in members
      BY <2>1, <2>3 DEF VisitorKnows, Claimed
    <3>2. visitor[v].room \in DOMAIN rooms /\ visitor[v].claims \in Users
      BY <3>1 DEF AdmittedInv
    <3>3. QED
      BY <3>1, <3>2 DEF AdmittedInv
  <2>4. QED
    BY <2>2, <2>3
<1>2. QED
  BY AdmittedInit, AdmittedNext, <1>1, PTL DEF RoomsSpec

-----------------------------------------------------------------------------
(* Links: the counter.                                                     *)

USE LinksAssumption

\* Requests that have counted a link that is not there: it is not stored yet,
\* or it is deleted already.
Pending == {r \in Requests : req[r].at \in {"draw", "set", "decr"}}

\* The inductive invariant: the counter also covers what is pending.  Without
\* it a DECR could take the counter below the links.
CountInv ==
  /\ IsFiniteSet(links)
  /\ Cardinality(links) + Cardinality(Pending) <= count
-----------------------------------------------------------------------------
(* Lemmas: sizes, and sets that grow or shrink by one.                     *)

LEMMA SizeType == ASSUME NEW n PROVE CalcIdSize(n) \in Nat \ {0}
<1> DEFINE few == n < 2 \/ n = 2 \/ n \in 3 .. 12 \/ n \in 13 .. 94 \/ n \in 95 .. 750
                     \/ n \in 751 .. 6002
<1>1. few \/ ~few
  OBVIOUS
<1>2. QED
  BY <1>1 DEF CalcIdSize

LEMMA PendingFinite == IsFiniteSet(Pending) /\ Cardinality(Pending) \in Nat
<1>1. Pending \in SUBSET Requests
  BY DEF Pending
<1>2. QED
  BY <1>1, FS_Subset, FS_CardinalityType

LEMMA OneMore ==
  ASSUME NEW S, NEW x, IsFiniteSet(S)
  PROVE  /\ IsFiniteSet(S \cup {x})
         /\ Cardinality(S \cup {x}) \in Nat /\ Cardinality(S) \in Nat
         /\ Cardinality(S \cup {x}) <= Cardinality(S) + 1
<1>1. IsFiniteSet(S \cup {x})
  BY FS_AddElement
<1>2. Cardinality(S) \in Nat /\ Cardinality(S \cup {x}) \in Nat
  BY <1>1, FS_CardinalityType
<1>3. Cardinality(S \cup {x}) = IF x \in S THEN Cardinality(S) ELSE Cardinality(S) + 1
  BY FS_AddElement
<1>4. QED
  BY <1>1, <1>2, <1>3

LEMMA Fewer ==
  ASSUME NEW S, NEW T \in SUBSET S, IsFiniteSet(S)
  PROVE  /\ IsFiniteSet(T)
         /\ Cardinality(T) \in Nat /\ Cardinality(S) \in Nat
         /\ Cardinality(T) <= Cardinality(S)
<1>1. IsFiniteSet(T) /\ Cardinality(T) <= Cardinality(S)
  BY FS_Subset
<1>2. QED
  BY <1>1, FS_CardinalityType

LEMMA OneLess ==
  ASSUME NEW S, NEW x \in S, NEW T \in SUBSET (S \ {x}), IsFiniteSet(S)
  PROVE  /\ IsFiniteSet(T)
         /\ Cardinality(T) \in Nat /\ Cardinality(S) \in Nat
         /\ Cardinality(T) + 1 <= Cardinality(S)
<1>1. IsFiniteSet(S \ {x}) /\ Cardinality(S \ {x}) = Cardinality(S) - 1
  BY FS_RemoveElement
<1>2. /\ IsFiniteSet(T) /\ Cardinality(T) \in Nat /\ Cardinality(S \ {x}) \in Nat
      /\ Cardinality(T) <= Cardinality(S \ {x})
  BY <1>1, Fewer
<1>3. Cardinality(S) \in Nat
  BY FS_CardinalityType
<1>4. QED
  BY <1>1, <1>2, <1>3

\* What the steps that do not touch the counter need of it.
LEMMA StillCovered ==
  ASSUME TypeOK, CountInv, links' \in SUBSET links, count' = count,
         Pending' \in SUBSET Pending
  PROVE  CountInv'
<1>1. IsFiniteSet(Pending)
  BY PendingFinite
<1>2. /\ Cardinality(Pending') \in Nat /\ Cardinality(Pending) \in Nat
      /\ Cardinality(Pending') <= Cardinality(Pending)
  BY <1>1, Fewer
<1>3. /\ IsFiniteSet(links') /\ Cardinality(links') \in Nat /\ Cardinality(links) \in Nat
      /\ Cardinality(links') <= Cardinality(links)
  BY Fewer DEF CountInv
<1>4. count \in Nat
  BY DEF TypeOK
<1>5. QED
  BY <1>2, <1>3, <1>4 DEF CountInv

LEMMA StillPending ==
  ASSUME TypeOK, NEW r \in Requests, NEW q, req' = [req EXCEPT ![r] = q],
         q.at \in {"draw", "set", "decr"} => r \in Pending
  PROVE  Pending' \in SUBSET Pending
<1>1. \A s \in Requests : req'[s] = IF s = r THEN q ELSE req[s]
  BY DEF TypeOK
<1>2. QED
  BY <1>1 DEF Pending

LEMMA NoLonger ==
  ASSUME TypeOK, NEW r \in Requests, NEW q, req' = [req EXCEPT ![r] = q],
         q.at \notin {"draw", "set", "decr"}
  PROVE  Pending' \in SUBSET (Pending \ {r})
<1>1. \A s \in Requests : req'[s] = IF s = r THEN q ELSE req[s]
  BY DEF TypeOK
<1>2. QED
  BY <1>1 DEF Pending

LEMMA NowPending ==
  ASSUME TypeOK, NEW r \in Requests, NEW q, req' = [req EXCEPT ![r] = q]
  PROVE  Pending' \in SUBSET (Pending \cup {r})
<1>1. \A s \in Requests : req'[s] = IF s = r THEN q ELSE req[s]
  BY DEF TypeOK
<1>2. QED
  BY <1>1 DEF Pending
-----------------------------------------------------------------------------
(* The counter covers the links: one lemma for each way a step may move it. *)

\* INCR, for a request that is pending then, or fails.
LEMMA CoveredIncr ==
  ASSUME TypeOK, CountInv, NEW r \in Requests, NEW q, req' = [req EXCEPT ![r] = q],
         links' = links, count' = count + 1
  PROVE  CountInv'
<1>1. IsFiniteSet(Pending)
  BY PendingFinite
<1>2. Pending' \in SUBSET (Pending \cup {r})
  BY NowPending
<1>3. /\ IsFiniteSet(Pending \cup {r}) /\ Cardinality(Pending) \in Nat
      /\ Cardinality(Pending \cup {r}) \in Nat
      /\ Cardinality(Pending \cup {r}) <= Cardinality(Pending) + 1
  BY <1>1, OneMore
<1>4. Cardinality(Pending') \in Nat /\ Cardinality(Pending') <= Cardinality(Pending \cup {r})
  BY <1>2, <1>3, Fewer
<1>5. count \in Nat /\ Cardinality(links) \in Nat
  BY FS_CardinalityType DEF TypeOK, CountInv
<1>6. QED
  BY <1>3, <1>4, <1>5 DEF CountInv

\* SET: what was pending is stored.
LEMMA CoveredSet ==
  ASSUME TypeOK, CountInv, NEW r \in Requests, NEW q, req' = [req EXCEPT ![r] = q],
         req[r].at = "set", q.at = "ended",
         NEW l, links' = links \cup {l}, count' = count
  PROVE  CountInv'
<1>1. IsFiniteSet(Pending)
  BY PendingFinite
<1>2. r \in Pending
  BY DEF Pending
<1>3. Pending' \in SUBSET (Pending \ {r})
  BY NoLonger
<1>4. /\ Cardinality(Pending') \in Nat /\ Cardinality(Pending) \in Nat
      /\ Cardinality(Pending') + 1 <= Cardinality(Pending)
  BY <1>1, <1>2, <1>3, OneLess
<1>5. /\ IsFiniteSet(links') /\ Cardinality(links') \in Nat /\ Cardinality(links) \in Nat
      /\ Cardinality(links') <= Cardinality(links) + 1
  BY OneMore DEF CountInv
<1>6. count \in Nat
  BY DEF TypeOK
<1>7. QED
  BY <1>4, <1>5, <1>6 DEF CountInv

\* DEL of a key that is there: its DECR is pending.
LEMMA CoveredDel ==
  ASSUME TypeOK, CountInv, NEW r \in Requests, NEW q, req' = [req EXCEPT ![r] = q],
         Taken(req[r].id), Drop(req[r].id), count' = count
  PROVE  CountInv'
<1>1. IsFiniteSet(Pending)
  BY PendingFinite
<1>2. Pending' \in SUBSET (Pending \cup {r})
  BY NowPending
<1>3. /\ IsFiniteSet(Pending \cup {r}) /\ Cardinality(Pending) \in Nat
      /\ Cardinality(Pending \cup {r}) \in Nat
      /\ Cardinality(Pending \cup {r}) <= Cardinality(Pending) + 1
  BY <1>1, OneMore
<1>4. Cardinality(Pending') \in Nat /\ Cardinality(Pending') <= Cardinality(Pending \cup {r})
  BY <1>2, <1>3, Fewer
<1>5. PICK l \in links : l.id = req[r].id
  BY DEF Taken
<1>6. links' \in SUBSET (links \ {l})
  BY <1>5 DEF Drop
<1>7. /\ IsFiniteSet(links') /\ Cardinality(links') \in Nat /\ Cardinality(links) \in Nat
      /\ Cardinality(links') + 1 <= Cardinality(links)
  BY <1>5, <1>6, OneLess DEF CountInv
<1>8. count \in Nat
  BY DEF TypeOK
<1>9. QED
  BY <1>3, <1>4, <1>7, <1>8 DEF CountInv

\* DECR, for a request that was pending: the counter was not 0.
LEMMA CoveredDecr ==
  ASSUME TypeOK, CountInv, NEW r \in Requests, NEW q, req' = [req EXCEPT ![r] = q],
         req[r].at = "decr", q.at = "ended", links' = links, count' = count - 1
  PROVE  count' \in Nat /\ CountInv'
<1>1. IsFiniteSet(Pending)
  BY PendingFinite
<1>2. r \in Pending
  BY DEF Pending
<1>3. Pending' \in SUBSET (Pending \ {r})
  BY NoLonger
<1>4. /\ Cardinality(Pending') \in Nat /\ Cardinality(Pending) \in Nat
      /\ Cardinality(Pending') + 1 <= Cardinality(Pending)
  BY <1>1, <1>2, <1>3, OneLess
<1>5. count \in Nat /\ Cardinality(links) \in Nat
  BY FS_CardinalityType DEF TypeOK, CountInv
<1>6. QED
  BY <1>4, <1>5 DEF CountInv
-----------------------------------------------------------------------------
(* The inductive invariant.                                                *)

IInv == TypeOK /\ CountInv

LEMMA InitInv == Init => IInv
<1> SUFFICES ASSUME Init PROVE IInv
  OBVIOUS
<1>1. TypeOK
  <2>1. PICK w \in Workers :
          req = [r \in Requests |->
                  [at |-> "new", worker |-> w, size |-> 0, id |-> NoId, tries |-> 0,
                   expires |-> 1, answer |-> "none"]]
    BY DEF Init
  <2>2. NoId \in Ids
    BY DEF NoId, Ids
  <2>3. req \in [Requests -> Requesting]
    BY <2>1, <2>2 DEF Requesting
  <2>4. boot \in 1 .. MaxBoots /\ count \in Nat /\ fails \in Nat
    BY LinksAssumption DEF Init
  <2>5. QED
    BY <2>3, <2>4 DEF Init, TypeOK
<1>2. Pending = {}
  BY DEF Init, Pending
<1>3. CountInv
  BY <1>1, <1>2, FS_EmptySet DEF Init, CountInv, TypeOK
<1>4. QED
  BY <1>1, <1>3 DEF IInv

LEMMA EndType ==
  ASSUME TypeOK, NEW r \in Requests,
         NEW a \in {"none", "ok", "refused", "error", "no id", "deleted", "not found"}
  PROVE  End(r, a) \in Requesting /\ End(r, a).at = "ended"
<1>1. req[r] \in Requesting
  BY DEF TypeOK
<1>2. QED
  BY <1>1 DEF End, Requesting

LEMMA ReqType ==
  ASSUME TypeOK, NEW r \in Requests, NEW q \in Requesting, req' = [req EXCEPT ![r] = q]
  PROVE  req' \in [Requests -> Requesting]
BY DEF TypeOK

LEMMA DropType ==
  ASSUME TypeOK, NEW id, Drop(id)
  PROVE  links' \in SUBSET links /\ links' \subseteq Linked /\ removed' \subseteq Requests
<1>1. \A l \in links : l.of \in Requests
  BY DEF TypeOK, Linked
<1>2. QED
  BY <1>1 DEF TypeOK, Drop

\* What SET stores.
LEMMA StoredType ==
  ASSUME TypeOK, NEW r \in Requests
  PROVE  [id |-> req[r].id, of |-> r] \in Linked
<1>1. req[r] \in Requesting
  BY DEF TypeOK
<1>2. QED
  BY <1>1 DEF Requesting, Linked

LEMMA NextIdType ==
  ASSUME TypeOK, NEW w \in Workers, NEW size \in Nat,
         drawn[w] + size <= MaxDrawn
  PROVE  NextId(w, size) \in Ids /\ drawn[w] + size \in Nat
<1>1. drawn[w] \in Nat /\ \A i \in 1 .. size : drawn[w] + i \in 1 .. MaxDrawn
  BY LinksAssumption DEF TypeOK
<1>2. Draws[boot] \in [1 .. MaxDrawn -> Characters]
  BY LinksAssumption DEF TypeOK
<1>3. \A i \in 1 .. size : Draws[boot][drawn[w] + i] \in Characters
  BY <1>1, <1>2
<1>4. QED
  BY <1>1, <1>3 DEF NextId, Ids

\* The steps of a request that change nothing else.
LEMMA InvOwn ==
  ASSUME IInv, NEW r \in Requests, NEW q \in Requesting, req' = [req EXCEPT ![r] = q],
         q.at \in {"draw", "set", "decr"} => r \in Pending,
         UNCHANGED <<redisVars, boot, workerVars, fails, removed>>
  PROVE  IInv'
<1>1. TypeOK'
  BY ReqType DEF IInv, TypeOK, redisVars, workerVars
<1>2. Pending' \in SUBSET Pending
  BY StillPending DEF IInv
<1>3. CountInv'
  BY <1>2, StillCovered DEF IInv, redisVars
<1>4. QED
  BY <1>1, <1>3 DEF IInv

LEMMA InvCreate ==
  ASSUME IInv, NEW r \in Requests, NEW w \in Workers, NEW e \in {0, 1},
         Create(r, w, e)
  PROVE  IInv'
<1> DEFINE q == [req[r] EXCEPT !.at = "incr", !.worker = w, !.expires = e]
<1>1. req[r] \in Requesting
  BY DEF IInv, TypeOK
<1>2. q \in Requesting /\ q.at = "incr"
  BY <1>1 DEF Requesting
<1>3. req' = [req EXCEPT ![r] = q]
  BY DEF Create
<1>4. UNCHANGED <<redisVars, boot, workerVars, fails, removed>>
  BY DEF Create
<1> HIDE DEF q
<1>5. QED
  BY <1>2, <1>3, <1>4, InvOwn

LEMMA InvDelete ==
  ASSUME IInv, NEW r \in Requests, NEW s \in Requests, Delete(r, s)
  PROVE  IInv'
<1> DEFINE q == [req[r] EXCEPT !.at = "del", !.id = req[s].id]
<1>1. req[r] \in Requesting /\ req[s] \in Requesting
  BY DEF IInv, TypeOK
<1>2. q \in Requesting /\ q.at = "del"
  BY <1>1 DEF Requesting
<1>3. req' = [req EXCEPT ![r] = q]
  BY DEF Delete
<1>4. UNCHANGED <<redisVars, boot, workerVars, fails, removed>>
  BY DEF Delete
<1> HIDE DEF q
<1>5. QED
  BY <1>2, <1>3, <1>4, InvOwn

LEMMA InvRefuse ==
  ASSUME IInv, NEW r \in Requests, Refuse(r)
  PROVE  IInv'
<1>1. End(r, "refused") \in Requesting /\ End(r, "refused").at = "ended"
  BY EndType DEF IInv
<1>2. QED
  BY <1>1, InvOwn DEF Refuse

LEMMA InvCountIncr ==
  ASSUME IInv, NEW r \in Requests, CountIncr(r)
  PROVE  IInv'
<1> DEFINE q == [req[r] EXCEPT !.at = "draw", !.size = CalcIdSize(count + 1)]
<1>1. req[r] \in Requesting /\ count + 1 \in Nat
  BY DEF IInv, TypeOK
<1>2. CalcIdSize(count + 1) \in Nat
  BY <1>1, SizeType
<1>3. q \in Requesting
  BY <1>1, <1>2 DEF Requesting
<1>4. req' = [req EXCEPT ![r] = q]
  BY DEF CountIncr
<1> HIDE DEF q
<1>5. TypeOK'
  BY <1>1, <1>3, <1>4, ReqType DEF IInv, TypeOK, CountIncr, workerVars
<1>6. CountInv'
  BY <1>4, CoveredIncr DEF IInv, CountIncr
<1>7. QED
  BY <1>5, <1>6 DEF IInv

LEMMA InvDraw ==
  ASSUME IInv, NEW r \in Requests, Draw(r)
  PROVE  IInv'
<1> DEFINE w == req[r].worker
           q == [req[r] EXCEPT !.at = "set", !.id = NextId(w, req[r].size)]
<1>1. req[r] \in Requesting /\ w \in Workers /\ req[r].size \in Nat
  BY DEF IInv, TypeOK, Requesting
<1>2. r \in Pending
  BY DEF Draw, Pending
<1>3. CASE busy[w]
  <2>1. End(r, "none") \in Requesting /\ End(r, "none").at = "ended"
    BY EndType DEF IInv
  <2>2. QED
    BY <1>3, <2>1, InvOwn DEF Draw, workerVars
<1>4. CASE ~busy[w]
  <2>1. NextId(w, req[r].size) \in Ids /\ drawn[w] + req[r].size \in Nat
    BY <1>1, NextIdType, <1>4 DEF IInv, Draw, CanDraw
  <2>2. q \in Requesting
    BY <1>1, <2>1 DEF Requesting
  <2>3. req' = [req EXCEPT ![r] = q]
    BY <1>4 DEF Draw
  <2>4. drawn' = [drawn EXCEPT ![w] = @ + req[r].size] /\ busy' = [busy EXCEPT ![w] = TRUE]
    BY <1>4 DEF Draw
  <2>5. UNCHANGED <<redisVars, boot, fails, removed>>
    BY DEF Draw
  <2> HIDE DEF q
  <2>6. req' \in [Requests -> Requesting]
    BY <2>2, <2>3, ReqType DEF IInv
  <2>7. drawn' \in [Workers -> Nat] /\ busy' \in [Workers -> BOOLEAN]
    BY <1>1, <2>1, <2>4 DEF IInv, TypeOK
  <2>8. TypeOK'
    BY <2>5, <2>6, <2>7 DEF IInv, TypeOK, redisVars
  <2>9. Pending' \in SUBSET Pending
    BY <1>2, <2>3, StillPending DEF IInv
  <2>10. CountInv'
    BY <2>5, <2>9, StillCovered DEF IInv, redisVars
  <2>11. QED
    BY <2>8, <2>10 DEF IInv
<1>5. QED
  BY <1>3, <1>4

LEMMA InvSetRefused ==
  ASSUME IInv, NEW r \in Requests, SetRefused(r)
  PROVE  IInv'
<1>1. End(r, "error") \in Requesting /\ End(r, "error").at = "ended"
  BY EndType DEF IInv
<1>2. req' \in [Requests -> Requesting]
  BY <1>1, ReqType DEF IInv, SetRefused
<1>3. TypeOK'
  BY <1>2 DEF IInv, TypeOK, SetRefused, redisVars
<1>4. Pending' \in SUBSET Pending
  BY <1>1, StillPending DEF IInv, SetRefused
<1>5. CountInv'
  BY <1>4, StillCovered DEF IInv, SetRefused, redisVars
<1>6. QED
  BY <1>3, <1>5 DEF IInv

LEMMA InvSet ==
  ASSUME IInv, NEW r \in Requests, Set(r)
  PROVE  IInv'
<1>1. End(r, "ok") \in Requesting /\ End(r, "ok").at = "ended"
  BY EndType DEF IInv
<1>2. req' \in [Requests -> Requesting]
  BY <1>1, ReqType DEF IInv, Set
<1>3. links' \subseteq Linked
  BY StoredType DEF IInv, TypeOK, Set
<1>4. TypeOK'
  BY <1>2, <1>3 DEF IInv, TypeOK, Set
<1>5. CountInv'
  BY <1>1, CoveredSet DEF IInv, Set
<1>6. QED
  BY <1>4, <1>5 DEF IInv

LEMMA InvCollide ==
  ASSUME IInv, NEW r \in Requests, Collide(r)
  PROVE  IInv'
<1> DEFINE w == req[r].worker
           q == [req[r] EXCEPT !.tries = req[r].tries + 1, !.id = NextId(w, req[r].size)]
<1>0. req[r] \in Requesting
  BY DEF IInv, TypeOK
<1>1. req[r] \in Requesting /\ w \in Workers /\ req[r].size \in Nat /\ req[r].tries \in Nat
  BY <1>0 DEF Requesting
<1>2. r \in Pending
  BY DEF Collide, Pending
<1>3. UNCHANGED <<redisVars, boot, fails, removed>>
  BY DEF Collide
<1>4. CASE req[r].tries + 1 = MaxTries
  <2>1. End(r, "no id") \in Requesting
    BY EndType DEF IInv
  <2>2. req' = [req EXCEPT ![r] = End(r, "no id")] /\ busy' = [busy EXCEPT ![w] = FALSE]
          /\ drawn' = drawn
    BY <1>4 DEF Collide
  <2>3. req' \in [Requests -> Requesting]
    BY <2>1, <2>2, ReqType DEF IInv
  <2>4. TypeOK'
    BY <1>3, <2>2, <2>3 DEF IInv, TypeOK, redisVars
  <2>5. Pending' \in SUBSET Pending
    BY <1>2, <2>2, StillPending DEF IInv
  <2>6. CountInv'
    BY <1>3, <2>5, StillCovered DEF IInv, redisVars
  <2>7. QED
    BY <2>4, <2>6 DEF IInv
<1>5. CASE ~(req[r].tries + 1 = MaxTries)
  <2>1. NextId(w, req[r].size) \in Ids /\ drawn[w] + req[r].size \in Nat
    BY <1>1, NextIdType DEF IInv, Collide, CanDraw
  <2>2. q \in Requesting
    <3>1. req[r].tries + 1 \in Nat
      BY <1>1
    <3>2. QED
      BY <1>1, <2>1, <3>1 DEF Requesting
  <2>3. /\ req' = [req EXCEPT ![r] = q] /\ busy' = busy
        /\ drawn' = [drawn EXCEPT ![w] = @ + req[r].size]
    BY <1>5 DEF Collide
  <2> HIDE DEF q
  <2>4. req' \in [Requests -> Requesting]
    BY <2>2, <2>3, ReqType DEF IInv
  <2>5. drawn' \in [Workers -> Nat]
    BY <1>1, <2>1, <2>3 DEF IInv, TypeOK
  <2>6. TypeOK'
    BY <1>3, <2>3, <2>4, <2>5 DEF IInv, TypeOK, redisVars
  <2>7. Pending' \in SUBSET Pending
    BY <1>2, <2>3, StillPending DEF IInv
  <2>8. CountInv'
    BY <1>3, <2>7, StillCovered DEF IInv, redisVars
  <2>9. QED
    BY <2>6, <2>8 DEF IInv
<1>6. QED
  BY <1>4, <1>5

LEMMA InvDel ==
  ASSUME IInv, NEW r \in Requests, Del(r)
  PROVE  IInv'
<1>1. Drop(req[r].id) /\ UNCHANGED <<count, boot, workerVars, fails>>
  BY DEF Del
<1>2. links' \in SUBSET links /\ links' \subseteq Linked /\ removed' \subseteq Requests
  BY <1>1, DropType DEF IInv
<1>3. CASE Taken(req[r].id)
  <2> DEFINE q == [req[r] EXCEPT !.at = "decr"]
  <2>1. q \in Requesting
    BY DEF IInv, TypeOK, Requesting
  <2>2. req' = [req EXCEPT ![r] = q]
    BY <1>3 DEF Del
  <2> HIDE DEF q
  <2>3. req' \in [Requests -> Requesting]
    BY <2>1, <2>2, ReqType DEF IInv
  <2>4. TypeOK'
    BY <1>1, <1>2, <2>3 DEF IInv, TypeOK, workerVars
  <2>5. CountInv'
    BY <1>1, <1>3, <2>2, CoveredDel DEF IInv
  <2>6. QED
    BY <2>4, <2>5 DEF IInv
<1>4. CASE ~Taken(req[r].id)
  <2>1. End(r, "not found") \in Requesting /\ End(r, "not found").at = "ended"
    BY EndType DEF IInv
  <2>2. req' = [req EXCEPT ![r] = End(r, "not found")]
    BY <1>4 DEF Del
  <2>3. req' \in [Requests -> Requesting]
    BY <2>1, <2>2, ReqType DEF IInv
  <2>4. TypeOK'
    BY <1>1, <1>2, <2>3 DEF IInv, TypeOK, workerVars
  <2>5. Pending' \in SUBSET Pending
    BY <2>1, <2>2, StillPending DEF IInv
  <2>6. CountInv'
    BY <1>1, <1>2, <2>5, StillCovered DEF IInv
  <2>7. QED
    BY <2>4, <2>6 DEF IInv
<1>5. QED
  BY <1>3, <1>4

LEMMA InvCountDecr ==
  ASSUME IInv, NEW r \in Requests, CountDecr(r)
  PROVE  IInv'
<1>1. End(r, "deleted") \in Requesting /\ End(r, "deleted").at = "ended"
  BY EndType DEF IInv
<1>2. req' \in [Requests -> Requesting]
  BY <1>1, ReqType DEF IInv, CountDecr
<1>3. count' \in Nat /\ CountInv'
  BY <1>1, CoveredDecr DEF IInv, CountDecr
<1>4. TypeOK'
  BY <1>2, <1>3 DEF IInv, TypeOK, CountDecr, workerVars
<1>5. QED
  BY <1>3, <1>4 DEF IInv

LEMMA InvExpire ==
  ASSUME IInv, NEW l, Expire(l)
  PROVE  IInv'
<1>1. Drop(l.id) /\ UNCHANGED <<count, boot, workerVars, req, fails>>
  BY DEF Expire
<1>2. links' \in SUBSET links /\ links' \subseteq Linked /\ removed' \subseteq Requests
  BY <1>1, DropType DEF IInv
<1>3. TypeOK'
  BY <1>1, <1>2 DEF IInv, TypeOK, workerVars
<1>4. Pending' \in SUBSET Pending
  BY <1>1 DEF Pending
<1>5. CountInv'
  BY <1>1, <1>2, <1>4, StillCovered DEF IInv
<1>6. QED
  BY <1>3, <1>5 DEF IInv

LEMMA InvFail ==
  ASSUME IInv, NEW r \in Requests, Fail(r)
  PROVE  IInv'
<1> DEFINE q == End(r, "error")
<1>1. q \in Requesting /\ q.at = "ended"
  BY EndType DEF IInv
<1>2. req' = [req EXCEPT ![r] = q] /\ UNCHANGED <<boot, drawn>>
  BY DEF Fail
<1>3. req' \in [Requests -> Requesting]
  BY <1>1, <1>2, ReqType DEF IInv
<1>4. fails' \in Nat /\ busy' \in [Workers -> BOOLEAN]
  <2>1. fails \in Nat /\ fails' = fails + 1 /\ busy \in [Workers -> BOOLEAN]
    BY DEF IInv, TypeOK, Fail
  <2>2. busy' = busy \/ busy' = [busy EXCEPT ![req[r].worker] = FALSE]
    BY DEF Fail
  <2>3. fails' \in Nat
    BY <2>1
  <2>4. busy' \in [Workers -> BOOLEAN]
    BY <2>1, <2>2
  <2>5. QED
    BY <2>3, <2>4
<1> HIDE DEF q
<1>5. ASSUME links' \subseteq Linked, count' \in Nat, removed' \subseteq Requests
      PROVE  TypeOK'
  BY <1>2, <1>3, <1>4, <1>5 DEF IInv, TypeOK
<1>6. Pending' \in SUBSET Pending
  BY <1>1, <1>2, StillPending DEF IInv
<1>7. CASE Undone
  <2>1. TypeOK'
    BY <1>5, <1>7 DEF Undone, IInv, TypeOK
  <2>2. CountInv'
    BY <1>6, <1>7, StillCovered DEF Undone, IInv
  <2>3. QED
    BY <2>1, <2>2 DEF IInv
<1>8. CASE req[r].at = "incr" /\ count' = count + 1 /\ UNCHANGED <<links, removed>>
  <2>1. TypeOK'
    BY <1>5, <1>8 DEF IInv, TypeOK
  <2>2. CountInv'
    BY <1>2, <1>8, CoveredIncr DEF IInv
  <2>3. QED
    BY <2>1, <2>2 DEF IInv
<1>9. CASE /\ req[r].at = "set" /\ req[r].expires > 0 /\ ~Taken(req[r].id)
           /\ links' = links \cup {[id |-> req[r].id, of |-> r]}
           /\ UNCHANGED <<count, removed>>
  <2>1. links' \subseteq Linked
    BY <1>9, StoredType DEF IInv, TypeOK
  <2>2. TypeOK'
    BY <1>5, <1>9, <2>1 DEF IInv, TypeOK
  <2>3. CountInv'
    BY <1>1, <1>2, <1>9, CoveredSet DEF IInv
  <2>4. QED
    BY <2>2, <2>3 DEF IInv
<1>10. CASE req[r].at = "del" /\ Drop(req[r].id) /\ UNCHANGED count
  <2>1. links' \in SUBSET links /\ links' \subseteq Linked /\ removed' \subseteq Requests
    BY <1>10, DropType DEF IInv
  <2>2. TypeOK'
    BY <1>5, <1>10, <2>1 DEF IInv, TypeOK
  <2>3. CountInv'
    BY <1>6, <1>10, <2>1, StillCovered DEF IInv
  <2>4. QED
    BY <2>2, <2>3 DEF IInv
<1>11. CASE req[r].at = "decr" /\ count' = count - 1 /\ UNCHANGED <<links, removed>>
  <2>1. count' \in Nat /\ CountInv'
    BY <1>1, <1>2, <1>11, CoveredDecr DEF IInv
  <2>2. TypeOK'
    BY <1>5, <1>11, <2>1 DEF IInv, TypeOK
  <2>3. QED
    BY <2>1, <2>2 DEF IInv
<1>12. QED
  BY <1>7, <1>8, <1>9, <1>10, <1>11 DEF Fail, Done

LEMMA InvRestart == ASSUME IInv, Restart PROVE IInv'
<1>1. \A r \in Requests : req[r] \in Requesting /\ End(r, "none") \in Requesting
                           /\ End(r, "none").at = "ended"
  BY EndType DEF IInv, TypeOK
<1>2. req' \in [Requests -> Requesting]
  BY <1>1 DEF Restart
<1>3. TypeOK'
  BY <1>2 DEF IInv, TypeOK, Restart, redisVars
<1>4. Pending' \in SUBSET Pending
  BY <1>1 DEF Pending, Restart
<1>5. CountInv'
  BY <1>4, StillCovered DEF IInv, Restart, redisVars
<1>6. QED
  BY <1>3, <1>5 DEF IInv

LEMMA NextInv == IInv /\ [Next]_vars => IInv'
<1> SUFFICES ASSUME IInv, [Next]_vars PROVE IInv'
  OBVIOUS
<1>1. CASE UNCHANGED vars
  BY <1>1 DEF vars, redisVars, workerVars, IInv, TypeOK, CountInv, Pending
<1>2. CASE \E r \in Requests : Refuse(r)
  BY <1>2, InvRefuse
<1>3. CASE \E r \in Requests, w \in Workers, e \in {0, 1} : Create(r, w, e)
  BY <1>3, InvCreate
<1>4. CASE \E r \in Requests : CountIncr(r)
  BY <1>4, InvCountIncr
<1>5. CASE \E r \in Requests : Draw(r)
  BY <1>5, InvDraw
<1>6. CASE \E r \in Requests : SetRefused(r) \/ Set(r) \/ Collide(r)
  BY <1>6, InvSetRefused, InvSet, InvCollide
<1>7. CASE \E r \in Requests, s \in Requests : Delete(r, s)
  BY <1>7, InvDelete
<1>8. CASE \E r \in Requests : Del(r) \/ CountDecr(r)
  BY <1>8, InvDel, InvCountDecr
<1>9. CASE \E r \in Requests : Fail(r)
  BY <1>9, InvFail
<1>10. CASE \E l \in links : Expire(l)
  BY <1>10, InvExpire
<1>11. CASE Restart
  BY <1>11, InvRestart
<1>12. QED
  BY <1>1, <1>2, <1>3, <1>4, <1>5, <1>6, <1>7, <1>8, <1>9, <1>10, <1>11 DEF Next

\* Every reachable state has its type.
THEOREM TypeCorrect == Spec => []TypeOK
<1>1. IInv => TypeOK
  BY DEF IInv
<1>2. QED
  BY InitInv, NextInv, <1>1, PTL DEF Spec

\* The counter that sizes ids is never below the links there are.
THEOREM CountCoversTheorem == Spec => []CountCovers
<1>1. IInv => CountCovers
  <2> SUFFICES ASSUME IInv PROVE CountCovers
    OBVIOUS
  <2>1. Cardinality(Pending) \in Nat /\ Cardinality(links) \in Nat /\ count \in Nat
    BY PendingFinite, FS_CardinalityType DEF IInv, CountInv, TypeOK
  <2>2. QED
    BY <2>1 DEF IInv, CountInv, CountCovers
<1>2. QED
  BY InitInv, NextInv, <1>1, PTL DEF Spec
-----------------------------------------------------------------------------
(* An answer resolves: no id has two links, and the link of an answer stays *)
(* until it is removed.                                                    *)

AnswerInv ==
  /\ \A l, m \in links : l.id = m.id => l = m
  /\ \A r \in Requests :
       req[r].answer = "ok" =>
         /\ req[r].at = "ended"
         /\ r \notin removed => \E l \in links : l.id = req[r].id /\ l.of = r

\* The steps of a request without an answer, that leave the links alone.
LEMMA AnswerOwn ==
  ASSUME TypeOK, AnswerInv, NEW r \in Requests, NEW q, req' = [req EXCEPT ![r] = q],
         q.answer # "ok", UNCHANGED <<links, removed>>
  PROVE  AnswerInv'
<1>1. \A s \in Requests : req'[s] = IF s = r THEN q ELSE req[s]
  BY DEF TypeOK
<1>2. QED
  BY <1>1 DEF AnswerInv

\* ... that removes links.
LEMMA AnswerDrop ==
  ASSUME TypeOK, AnswerInv, NEW id, Drop(id), NEW r \in Requests, NEW q,
         req' = [req EXCEPT ![r] = q], q.answer # "ok"
  PROVE  AnswerInv'
<1>1. \A s \in Requests : req'[s] = IF s = r THEN q ELSE req[s]
  BY DEF TypeOK
<1>2. links' = {l \in links : l.id # id}
        /\ removed' = removed \cup {l.of : l \in {m \in links : m.id = id}}
  BY DEF Drop
<1>3. \A l, m \in links' : l.id = m.id => l = m
  BY <1>2 DEF AnswerInv
<1>4. ASSUME NEW s \in Requests, req'[s].answer = "ok"
      PROVE  /\ req'[s].at = "ended"
             /\ s \notin removed' => \E l \in links' : l.id = req'[s].id /\ l.of = s
  <2>1. s # r /\ req'[s] = req[s]
    BY <1>1, <1>4
  <2>2. req[s].at = "ended"
          /\ (s \notin removed => \E l \in links : l.id = req[s].id /\ l.of = s)
    BY <1>4, <2>1 DEF AnswerInv
  <2>3. ASSUME s \notin removed' PROVE \E l \in links' : l.id = req[s].id /\ l.of = s
    <3>1. s \notin removed
      BY <1>2, <2>3
    <3>2. PICK l \in links : l.id = req[s].id /\ l.of = s
      BY <2>2, <3>1
    <3>3. l.id # id
      BY <1>2, <2>3, <3>2
    <3>4. QED
      BY <1>2, <3>2, <3>3
  <2>4. QED
    BY <2>1, <2>2, <2>3
<1>5. QED
  BY <1>3, <1>4 DEF AnswerInv

\* SET of an id that is free, whether the request hears of it or not.
LEMMA AnswerSet ==
  ASSUME TypeOK, AnswerInv, NEW r \in Requests, ~Taken(req[r].id),
         NEW a \in {"ok", "error"}, req' = [req EXCEPT ![r] = End(r, a)],
         links' = links \cup {[id |-> req[r].id, of |-> r]},
         removed' = removed
  PROVE  AnswerInv'
<1> DEFINE new == [id |-> req[r].id, of |-> r]
<1>1. \A s \in Requests : req'[s] = IF s = r THEN End(r, a) ELSE req[s]
  BY DEF TypeOK
<1>2. End(r, a).at = "ended" /\ End(r, a).id = req[r].id
  <2>1. req[r] \in Requesting
    BY DEF TypeOK
  <2>2. QED
    BY <2>1 DEF End, Requesting
<1>3. new.id = req[r].id /\ new.of = r /\ links' = links \cup {new}
  OBVIOUS
<1>4. \A l \in links : l.id # req[r].id
  BY DEF Taken
<1> HIDE DEF new
<1>5. \A l, m \in links' : l.id = m.id => l = m
  BY <1>3, <1>4 DEF AnswerInv
<1>6. ASSUME NEW s \in Requests, req'[s].answer = "ok"
      PROVE  /\ req'[s].at = "ended"
             /\ s \notin removed' => \E l \in links' : l.id = req'[s].id /\ l.of = s
  BY <1>1, <1>2, <1>3, <1>6 DEF AnswerInv
<1>7. QED
  BY <1>5, <1>6 DEF AnswerInv

LEMMA Unanswered ==
  ASSUME TypeOK, AnswerInv, NEW r \in Requests, req[r].at # "ended"
  PROVE  req[r].answer # "ok"
BY DEF AnswerInv

LEMMA EndAnswer ==
  ASSUME TypeOK, NEW r \in Requests, NEW a
  PROVE  End(r, a).answer = a
<1>1. req[r] \in Requesting
  BY DEF TypeOK
<1>2. QED
  BY <1>1 DEF End, Requesting

LEMMA AnswerExpire ==
  ASSUME TypeOK, AnswerInv, NEW l, Expire(l)
  PROVE  AnswerInv'
<1>1. /\ links' = {m \in links : m.id # l.id} /\ req' = req
      /\ removed' = removed \cup {m.of : m \in {k \in links : k.id = l.id}}
  BY DEF Expire, Drop
<1>2. ASSUME NEW s \in Requests, req[s].answer = "ok", s \notin removed'
      PROVE  \E k \in links' : k.id = req[s].id /\ k.of = s
  <2>1. PICK k \in links : k.id = req[s].id /\ k.of = s
    BY <1>1, <1>2 DEF AnswerInv
  <2>2. k.id # l.id
    BY <1>1, <1>2, <2>1
  <2>3. QED
    BY <1>1, <2>1, <2>2
<1>3. QED
  BY <1>1, <1>2 DEF AnswerInv

LEMMA AnswerFail ==
  ASSUME TypeOK, AnswerInv, NEW r \in Requests, Fail(r)
  PROVE  AnswerInv'
<1>1. req' = [req EXCEPT ![r] = End(r, "error")] /\ End(r, "error").answer = "error"
  BY EndAnswer DEF Fail
<1>2. CASE UNCHANGED <<links, removed>>
  BY <1>1, <1>2, AnswerOwn
<1>3. CASE /\ ~Taken(req[r].id)
           /\ links' = links \cup {[id |-> req[r].id, of |-> r]}
           /\ UNCHANGED removed
  BY <1>1, <1>3, AnswerSet
<1>4. CASE Drop(req[r].id)
  BY <1>1, <1>4, AnswerDrop
<1>5. QED
  BY <1>2, <1>3, <1>4 DEF Fail, Undone, Done

LEMMA AnswerRestart ==
  ASSUME TypeOK, AnswerInv, Restart
  PROVE  AnswerInv'
<1>1. \A r \in Requests : End(r, "none").answer = "none"
  BY EndAnswer
<1>2. /\ links' = links /\ removed' = removed
      /\ req' = [r \in Requests |-> IF req[r].at \in {"new", "ended"} THEN req[r] ELSE End(r, "none")]
  BY DEF Restart, redisVars
<1>3. QED
  BY <1>1, <1>2 DEF AnswerInv

LEMMA NextAnswer == IInv /\ AnswerInv /\ [Next]_vars => AnswerInv'
<1> SUFFICES ASSUME IInv, AnswerInv, [Next]_vars PROVE AnswerInv'
  OBVIOUS
<1>0. TypeOK /\ \A r \in Requests : req[r] \in Requesting
  BY DEF IInv, TypeOK
<1> USE DEF redisVars
<1>1. CASE UNCHANGED vars
  BY <1>1 DEF vars, AnswerInv
<1>2. ASSUME NEW r \in Requests, Refuse(r) PROVE AnswerInv'
  BY <1>0, <1>2, EndAnswer, AnswerOwn DEF Refuse
<1>3. ASSUME NEW r \in Requests, NEW w \in Workers, NEW e \in {0, 1},
             Create(r, w, e)
      PROVE  AnswerInv'
  <2> DEFINE q == [req[r] EXCEPT !.at = "incr", !.worker = w, !.expires = e]
  <2>1. q.answer = req[r].answer /\ req[r].answer # "ok"
    BY <1>0, <1>3, Unanswered DEF Create, Requesting
  <2>2. req' = [req EXCEPT ![r] = q] /\ UNCHANGED <<links, removed>>
    BY <1>3 DEF Create
  <2> HIDE DEF q
  <2>3. QED
    BY <1>0, <2>1, <2>2, AnswerOwn
<1>4. ASSUME NEW r \in Requests, CountIncr(r) PROVE AnswerInv'
  <2> DEFINE q == [req[r] EXCEPT !.at = "draw", !.size = CalcIdSize(count + 1)]
  <2>1. q.answer = req[r].answer /\ req[r].answer # "ok"
    BY <1>0, <1>4, Unanswered DEF CountIncr, Requesting
  <2>2. req' = [req EXCEPT ![r] = q] /\ UNCHANGED <<links, removed>>
    BY <1>4 DEF CountIncr
  <2> HIDE DEF q
  <2>3. QED
    BY <1>0, <2>1, <2>2, AnswerOwn
<1>5. ASSUME NEW r \in Requests, Draw(r) PROVE AnswerInv'
  <2> DEFINE q == [req[r] EXCEPT !.at = "set", !.id = NextId(req[r].worker, req[r].size)]
  <2>1. q.answer = req[r].answer /\ req[r].answer # "ok" /\ End(r, "none").answer = "none"
    BY <1>0, <1>5, Unanswered, EndAnswer DEF Draw, Requesting
  <2>2. /\ req' = [req EXCEPT ![r] = q] \/ req' = [req EXCEPT ![r] = End(r, "none")]
        /\ UNCHANGED <<links, removed>>
    BY <1>5 DEF Draw
  <2> HIDE DEF q
  <2>3. QED
    BY <1>0, <2>1, <2>2, AnswerOwn
<1>6. ASSUME NEW r \in Requests, SetRefused(r) PROVE AnswerInv'
  BY <1>0, <1>6, EndAnswer, AnswerOwn DEF SetRefused
<1>7. ASSUME NEW r \in Requests, Set(r) PROVE AnswerInv'
  BY <1>0, <1>7, AnswerSet DEF Set
<1>8. ASSUME NEW r \in Requests, Collide(r) PROVE AnswerInv'
  <2> DEFINE q == [req[r] EXCEPT !.tries = req[r].tries + 1, !.id = NextId(req[r].worker, req[r].size)]
  <2>1. q.answer = req[r].answer /\ req[r].answer # "ok" /\ End(r, "no id").answer = "no id"
    BY <1>0, <1>8, Unanswered, EndAnswer DEF Collide, Requesting
  <2>2. /\ req' = [req EXCEPT ![r] = q] \/ req' = [req EXCEPT ![r] = End(r, "no id")]
        /\ UNCHANGED <<links, removed>>
    BY <1>8 DEF Collide
  <2> HIDE DEF q
  <2>3. QED
    BY <1>0, <2>1, <2>2, AnswerOwn
<1>9. ASSUME NEW r \in Requests, NEW s \in Requests, Delete(r, s) PROVE AnswerInv'
  <2> DEFINE q == [req[r] EXCEPT !.at = "del", !.id = req[s].id]
  <2>1. q.answer = req[r].answer /\ req[r].answer # "ok"
    BY <1>0, <1>9, Unanswered DEF Delete, Requesting
  <2>2. req' = [req EXCEPT ![r] = q] /\ UNCHANGED <<links, removed>>
    BY <1>9 DEF Delete
  <2> HIDE DEF q
  <2>3. QED
    BY <1>0, <2>1, <2>2, AnswerOwn
<1>10. ASSUME NEW r \in Requests, Del(r) PROVE AnswerInv'
  <2> DEFINE q == [req[r] EXCEPT !.at = "decr"]
  <2>1. q.answer = req[r].answer /\ req[r].answer # "ok" /\ End(r, "not found").answer = "not found"
    BY <1>0, <1>10, Unanswered, EndAnswer DEF Del, Requesting
  <2>2. /\ req' = [req EXCEPT ![r] = q] \/ req' = [req EXCEPT ![r] = End(r, "not found")]
        /\ Drop(req[r].id)
    BY <1>10 DEF Del
  <2> HIDE DEF q
  <2>3. QED
    BY <1>0, <2>1, <2>2, AnswerDrop
<1>11. ASSUME NEW r \in Requests, CountDecr(r) PROVE AnswerInv'
  BY <1>0, <1>11, EndAnswer, AnswerOwn DEF CountDecr
<1>12. ASSUME NEW r \in Requests, Fail(r) PROVE AnswerInv'
  BY <1>0, <1>12, AnswerFail
<1>13. ASSUME NEW l \in links, Expire(l) PROVE AnswerInv'
  BY <1>0, <1>13, AnswerExpire
<1>14. CASE Restart
  BY <1>0, <1>14, AnswerRestart
<1>15. QED
  BY <1>1, <1>2, <1>3, <1>4, <1>5, <1>6, <1>7, <1>8, <1>9, <1>10, <1>11, <1>12, <1>13, <1>14
     DEF Next

LEMMA InitAnswer == Init => AnswerInv
BY DEF Init, AnswerInv

\* What a create answered with leads to its URL until the link is removed,
\* although workers draw the same ids.
THEOREM AnswerResolvesTheorem == Spec => []AnswerResolves
<1>1. AnswerInv => AnswerResolves
  BY DEF AnswerInv, AnswerResolves
<1>2. QED
  BY InitInv, NextInv, InitAnswer, NextAnswer, <1>1, PTL DEF Spec

-----------------------------------------------------------------------------
(* FileServer.                                                             *)

HeaderRecords == [key : Keys, val : Values]

\* The places of a header in a list, and of its calls in the history.
Sets(list, k) == {i \in DOMAIN list : list[i].key = k}

Own(f, k) == {i \in DOMAIN applied : /\ applied[i][1] # AllFiles /\ applied[i][2] = k
                                     /\ uris[applied[i][1]] = f}

IsLast(i, S) == i \in S /\ \A j \in S : j <= i

\* The last of the calls has set what is the last of the list, or there is none.
Agree(calling, S, list, T) ==
  \/ S = {} /\ T = {}
  \/ \E i \in S, m \in T : IsLast(i, S) /\ IsLast(m, T) /\ calling[i][3] = list[m].val

FileTypes ==
  /\ uris \in [DOMAIN uris -> Disk] /\ origin \in [DOMAIN uris -> {Uri(f) : f \in Disk}]
  /\ AllFiles \notin DOMAIN uris
  /\ headers \in [Disk -> Seq(HeaderRecords)] /\ globals \in Seq(HeaderRecords)
  /\ applied \in Seq((DOMAIN uris \cup {AllFiles}) \X Keys \X Values)

FilesInv ==
  /\ FileTypes
  /\ \A f \in Disk : Uri(f) \in DOMAIN uris /\ uris[Uri(f)] = f
  /\ \A u \in DOMAIN uris : origin[u] = Uri(uris[u])
  /\ \A f \in Disk, k \in Keys : Agree(applied, Own(f, k), headers[f], Sets(headers[f], k))
  /\ \A k \in Keys : Agree(applied, AppliedToAll(k), globals, Sets(globals, k))
  /\ ServesAsApplied

LEMMA MaxIs ==
  ASSUME NEW S \in SUBSET Nat, NEW i, IsLast(i, S)
  PROVE  Max(S) = i
<1>1. \A j \in S : j \in Nat
  OBVIOUS
<1>2. \A j \in S : (\A n \in S : j >= n) => j = i
  BY <1>1 DEF IsLast
<1>3. i \in S /\ \A n \in S : i >= n
  BY <1>1 DEF IsLast
<1> QED
  BY <1>2, <1>3 DEF Max

\* What is set last is that of the file, else that of all files.
LEMMA LastInOrder ==
  ASSUME FileTypes, NEW f \in Disk, NEW k \in Keys
  PROVE  /\ \A m : IsLast(m, Sets(headers[f], k)) => HeadersOf(f)[k] = headers[f][m].val
         /\ \A m : Sets(headers[f], k) = {} /\ IsLast(m, Sets(globals, k)) =>
                     HeadersOf(f)[k] = globals[m].val
         /\ Sets(headers[f], k) = {} /\ Sets(globals, k) = {} => HeadersOf(f)[k] = ""
<1> DEFINE g   == globals
           h   == headers[f]
           all == InOrder(f)
<1>1. g \in Seq(HeaderRecords) /\ h \in Seq(HeaderRecords)
  BY DEF FileTypes
<1>2. /\ all \in Seq(HeaderRecords) /\ Len(all) = Len(g) + Len(h)
      /\ \A i \in 1 .. Len(g) : all[i] = g[i]
      /\ \A i \in 1 .. Len(h) : all[Len(g) + i] = h[i]
  BY <1>1 DEF InOrder
<1>3. Len(g) \in Nat /\ Len(h) \in Nat /\ DOMAIN g = 1 .. Len(g) /\ DOMAIN h = 1 .. Len(h)
      /\ DOMAIN all = 1 .. Len(g) + Len(h)
  BY <1>1, <1>2
<1>4. HeadersOf(f)[k] = IF Sets(all, k) = {} THEN "" ELSE all[Max(Sets(all, k))].val
  BY DEF HeadersOf, Sets
<1>5. Sets(all, k) \in SUBSET Nat
  BY <1>3 DEF Sets
<1> HIDE DEF g, h, all
<1>6. ASSUME NEW m, IsLast(m, Sets(h, k))
      PROVE  HeadersOf(f)[k] = h[m].val
  <2>1. m \in 1 .. Len(h) /\ h[m].key = k
    BY <1>3, <1>6 DEF IsLast, Sets
  <2>2. Len(g) + m \in Sets(all, k)
    BY <1>2, <1>3, <2>1 DEF Sets
  <2>3. ASSUME NEW j \in Sets(all, k)
        PROVE  j <= Len(g) + m
    <3>1. j \in 1 .. Len(g) + Len(h) /\ all[j].key = k
      BY <1>3 DEF Sets
    <3>2. CASE j <= Len(g)
      BY <1>3, <2>1, <3>1, <3>2
    <3>3. CASE ~(j <= Len(g))
      <4>1. PICK n \in 1 .. Len(h) : j = Len(g) + n
        <5>1. j - Len(g) \in 1 .. Len(h) /\ j = Len(g) + (j - Len(g))
          BY <1>3, <3>1, <3>3
        <5> QED
          BY <5>1
      <4>2. n \in Sets(h, k)
        BY <1>2, <1>3, <3>1, <4>1 DEF Sets
      <4>3. n <= m
        BY <4>2, <1>6 DEF IsLast
      <4> QED
        BY <4>1, <4>3, <1>3, <2>1
    <3> QED
      BY <3>2, <3>3
  <2>4. Max(Sets(all, k)) = Len(g) + m
    BY <1>5, <2>2, <2>3, MaxIs DEF IsLast
  <2> QED
    BY <1>2, <1>4, <2>1, <2>2, <2>4
<1>7. ASSUME NEW m, Sets(h, k) = {}, IsLast(m, Sets(g, k))
      PROVE  HeadersOf(f)[k] = g[m].val
  <2>1. m \in 1 .. Len(g) /\ g[m].key = k
    BY <1>3, <1>7 DEF IsLast, Sets
  <2>2. m \in Sets(all, k)
    BY <1>2, <1>3, <2>1 DEF Sets
  <2>3. ASSUME NEW j \in Sets(all, k)
        PROVE  j <= m
    <3>1. j \in 1 .. Len(g) + Len(h) /\ all[j].key = k
      BY <1>3 DEF Sets
    <3>2. j <= Len(g)
      <4> SUFFICES ASSUME ~(j <= Len(g))
                   PROVE  FALSE
        BY <1>3, <3>1
      <4>1. PICK n \in 1 .. Len(h) : j = Len(g) + n
        <5>1. j - Len(g) \in 1 .. Len(h) /\ j = Len(g) + (j - Len(g))
          BY <1>3, <3>1
        <5> QED
          BY <5>1
      <4> QED
        BY <1>2, <1>3, <1>7, <3>1, <4>1 DEF Sets
    <3>3. j \in Sets(g, k)
      BY <1>2, <1>3, <3>1, <3>2 DEF Sets
    <3> QED
      BY <3>3, <1>7 DEF IsLast
  <2>4. Max(Sets(all, k)) = m
    BY <1>5, <2>2, <2>3, MaxIs DEF IsLast
  <2> QED
    BY <1>2, <1>4, <2>1, <2>2, <2>4
<1>8. ASSUME Sets(h, k) = {}, Sets(g, k) = {}
      PROVE  HeadersOf(f)[k] = ""
  <2> SUFFICES ASSUME NEW j \in Sets(all, k)
               PROVE  FALSE
    BY <1>4
  <2>1. j \in 1 .. Len(g) + Len(h) /\ all[j].key = k
    BY <1>3 DEF Sets
  <2>2. CASE j <= Len(g)
    BY <1>2, <1>3, <1>8, <2>1, <2>2 DEF Sets
  <2>3. CASE ~(j <= Len(g))
    <3>1. j - Len(g) \in 1 .. Len(h) /\ j = Len(g) + (j - Len(g))
      BY <1>3, <2>1, <2>3
    <3> QED
      BY <1>2, <1>3, <1>8, <2>1, <3>1 DEF Sets
  <2> QED
    BY <2>2, <2>3
<1> QED
  BY <1>6, <1>7, <1>8 DEF g, h

LEMMA AgreeStays ==
  ASSUME NEW calling, NEW S, NEW list, NEW T, NEW called, NEW longer, Agree(calling, S, list, T),
         \A i \in S : called[i] = calling[i], \A m \in T : longer[m] = list[m]
  PROVE  Agree(called, S, longer, T)
  BY DEF Agree, IsLast

LEMMA AgreeMore ==
  ASSUME NEW S \in SUBSET Nat, NEW T \in SUBSET Nat, NEW called, NEW longer, NEW i \in Nat, NEW m \in Nat,
         \A j \in S : j <= i, \A n \in T : n <= m, called[i][3] = longer[m].val
  PROVE  Agree(called, S \cup {i}, longer, T \cup {m})
  BY DEF Agree, IsLast

\* One more header in a list.
LEMMA SetsMore ==
  ASSUME NEW list \in Seq(HeaderRecords), NEW h \in HeaderRecords, NEW k
  PROVE  /\ Sets(Append(list, h), k) = IF h.key = k THEN Sets(list, k) \cup {Len(list) + 1} ELSE Sets(list, k)
         /\ \A m \in Sets(list, k) : m \in Nat /\ m <= Len(list) + 1 /\ Append(list, h)[m] = list[m]
         /\ Append(list, h)[Len(list) + 1] = h /\ Append(list, h) \in Seq(HeaderRecords)
         /\ Len(list) + 1 \in Nat
<1>1. /\ Len(list) \in Nat /\ DOMAIN list = 1 .. Len(list)
      /\ DOMAIN Append(list, h) = 1 .. (Len(list) + 1)
      /\ Append(list, h)[Len(list) + 1] = h /\ Append(list, h) \in Seq(HeaderRecords)
      /\ \A m \in 1 .. Len(list) : Append(list, h)[m] = list[m]
  OBVIOUS
<1>2. \A m \in Sets(list, k) : m \in Nat /\ m <= Len(list) + 1 /\ Append(list, h)[m] = list[m]
  BY <1>1 DEF Sets
<1>3. 1 .. (Len(list) + 1) = (1 .. Len(list)) \cup {Len(list) + 1}
  BY <1>1
<1>4. Sets(Append(list, h), k) = IF h.key = k THEN Sets(list, k) \cup {Len(list) + 1} ELSE Sets(list, k)
  BY <1>1, <1>3 DEF Sets
<1>5. Len(list) + 1 \in Nat
  BY <1>1
<1> HIDE DEF Sets
<1> QED
  BY <1>1, <1>2, <1>4, <1>5, Zenon

\* One more call that applies headers.
LEMMA CallsMore ==
  ASSUME FileTypes, NEW c \in (DOMAIN uris \cup {AllFiles}) \X Keys \X Values,
         applied' = Append(applied, c), UNCHANGED uris
  PROVE  /\ \A f \in Disk, k \in Keys :
              Own(f, k)' = IF c[1] # AllFiles /\ c[2] = k /\ uris[c[1]] = f
                           THEN Own(f, k) \cup {Len(applied) + 1} ELSE Own(f, k)
         /\ \A k \in Keys : AppliedToAll(k)' = IF c[1] = AllFiles /\ c[2] = k
                                      THEN AppliedToAll(k) \cup {Len(applied) + 1} ELSE AppliedToAll(k)
         /\ \A i \in DOMAIN applied : i \in Nat /\ i <= Len(applied) + 1 /\ applied'[i] = applied[i]
         /\ applied'[Len(applied) + 1] = c /\ Len(applied) + 1 \in Nat
         /\ applied' \in Seq((DOMAIN uris \cup {AllFiles}) \X Keys \X Values)
<1> DEFINE CallRows == (DOMAIN uris \cup {AllFiles}) \X Keys \X Values
<1>1. applied \in Seq(CallRows) /\ c \in CallRows
  BY DEF FileTypes
<1> HIDE DEF CallRows
<1>2. /\ Len(applied) \in Nat /\ DOMAIN applied = 1 .. Len(applied)
      /\ DOMAIN applied' = 1 .. (Len(applied) + 1)
      /\ applied'[Len(applied) + 1] = c /\ applied' \in Seq(CallRows)
      /\ \A i \in 1 .. Len(applied) : applied'[i] = applied[i]
  BY <1>1
<1>3. 1 .. (Len(applied) + 1) = (1 .. Len(applied)) \cup {Len(applied) + 1}
  BY <1>2
<1>4. ASSUME NEW f \in Disk, NEW k \in Keys
      PROVE  Own(f, k)' = IF c[1] # AllFiles /\ c[2] = k /\ uris[c[1]] = f
                          THEN Own(f, k) \cup {Len(applied) + 1} ELSE Own(f, k)
  BY <1>2, <1>3 DEF Own
<1>5. ASSUME NEW k \in Keys
      PROVE  AppliedToAll(k)' = IF c[1] = AllFiles /\ c[2] = k THEN AppliedToAll(k) \cup {Len(applied) + 1} ELSE AppliedToAll(k)
  BY <1>2, <1>3 DEF AppliedToAll
<1> QED
  BY <1>2, <1>4, <1>5 DEF CallRows

LEMMA FilesHeaders ==
  ASSUME FilesInv, NEW u \in DOMAIN uris, NEW k \in Keys, NEW v \in Values, ApplyHeaders(u, k, v)
  PROVE  FilesInv'
<1> DEFINE h == [key |-> k, val |-> v]
           c == <<u, k, v>>
           o == uris[u]
<1>1. /\ UNCHANGED <<uris, globals, origin>> /\ answer' = NoAnswer
      /\ headers' = [headers EXCEPT ![o] = Append(headers[o], h)] /\ applied' = Append(applied, c)
  BY DEF ApplyHeaders, Call
<1>2. o \in Disk /\ h \in HeaderRecords /\ u # AllFiles /\ headers \in [Disk -> Seq(HeaderRecords)]
      /\ c \in (DOMAIN uris \cup {AllFiles}) \X Keys \X Values /\ c[1] = u /\ c[2] = k /\ c[3] = v
  BY DEF FilesInv, FileTypes, HeaderRecords
<1>3. h.key = k /\ h.val = v
  OBVIOUS
<1> HIDE DEF h, c
<1>4. \A f \in Disk : headers'[f] = IF f = o THEN Append(headers[o], h) ELSE headers[f]
  BY <1>1, <1>2
<1>5. FileTypes
  BY DEF FilesInv
<1>6. /\ \A f \in Disk, n \in Keys :
           Own(f, n)' = IF n = k /\ f = o THEN Own(f, n) \cup {Len(applied) + 1} ELSE Own(f, n)
      /\ \A n \in Keys : AppliedToAll(n)' = AppliedToAll(n)
      /\ \A i \in DOMAIN applied : i \in Nat /\ i <= Len(applied) + 1 /\ applied'[i] = applied[i]
      /\ applied'[Len(applied) + 1] = c /\ Len(applied) + 1 \in Nat
      /\ applied' \in Seq((DOMAIN uris \cup {AllFiles}) \X Keys \X Values)
  <2>1. /\ \A f \in Disk, n \in Keys :
             Own(f, n)' = IF c[1] # AllFiles /\ c[2] = n /\ uris[c[1]] = f
                          THEN Own(f, n) \cup {Len(applied) + 1} ELSE Own(f, n)
        /\ \A n \in Keys : AppliedToAll(n)' = IF c[1] = AllFiles /\ c[2] = n
                             THEN AppliedToAll(n) \cup {Len(applied) + 1} ELSE AppliedToAll(n)
        /\ \A i \in DOMAIN applied : i \in Nat /\ i <= Len(applied) + 1 /\ applied'[i] = applied[i]
        /\ applied'[Len(applied) + 1] = c /\ Len(applied) + 1 \in Nat
        /\ applied' \in Seq((DOMAIN uris \cup {AllFiles}) \X Keys \X Values)
    BY <1>1, <1>2, <1>5, CallsMore
  <2> QED
    BY <1>2, <2>1
<1>7. FileTypes'
  <2>1. headers' \in [Disk -> Seq(HeaderRecords)]
    BY <1>1, <1>2
  <2> QED
    BY <1>1, <1>5, <1>6, <2>1 DEF FileTypes
<1>8. \A f \in Disk, n \in Keys : \A i \in Own(f, n) : i \in DOMAIN applied
  BY DEF Own
<1>9. \A n \in Keys : \A i \in AppliedToAll(n) : i \in DOMAIN applied
  BY DEF AppliedToAll
<1>10. ASSUME NEW f \in Disk, NEW n \in Keys
       PROVE  Agree(applied', Own(f, n)', headers'[f], Sets(headers'[f], n))
  <2>1. Agree(applied, Own(f, n), headers[f], Sets(headers[f], n)) /\ headers[f] \in Seq(HeaderRecords)
    BY <1>2 DEF FilesInv
  <2>2. CASE f = o /\ n = k
    <3>0. headers'[f] = Append(headers[f], h)
      BY <2>2, <1>4
    <3>1. /\ Sets(headers'[f], n) = Sets(headers[f], n) \cup {Len(headers[f]) + 1}
          /\ \A m \in Sets(headers[f], n) : m \in Nat /\ m <= Len(headers[f]) + 1
          /\ headers'[f][Len(headers[f]) + 1] = h /\ Len(headers[f]) + 1 \in Nat
      <4>1. Sets(Append(headers[f], h), n) = Sets(headers[f], n) \cup {Len(headers[f]) + 1}
        BY <2>1, <2>2, <1>2, <1>3, SetsMore
      <4>2. \A m \in Sets(headers[f], n) : m \in Nat /\ m <= Len(headers[f]) + 1
        BY <2>1, <1>2, SetsMore
      <4>3. Append(headers[f], h)[Len(headers[f]) + 1] = h /\ Len(headers[f]) + 1 \in Nat
        BY <2>1, <1>2, SetsMore
      <4> QED
        BY <3>0, <4>1, <4>2, <4>3
    <3>2. Own(f, n)' = Own(f, n) \cup {Len(applied) + 1}
      BY <2>2, <1>6
    <3>3. \A i \in Own(f, n) : i \in Nat /\ i <= Len(applied) + 1
      BY <1>6, <1>8
    <3>4. applied'[Len(applied) + 1][3] = headers'[f][Len(headers[f]) + 1].val
      BY <1>2, <1>3, <1>6, <3>1
    <3>5. Own(f, n) \in SUBSET Nat /\ Sets(headers[f], n) \in SUBSET Nat
      BY <3>1, <3>3
    <3>6. Len(applied) + 1 \in Nat /\ Len(headers[f]) + 1 \in Nat
      BY <1>6, <3>1
    <3>7. Agree(applied', Own(f, n) \cup {Len(applied) + 1},
                headers'[f], Sets(headers[f], n) \cup {Len(headers[f]) + 1})
      BY <3>1, <3>3, <3>4, <3>5, <3>6, AgreeMore
    <3> QED
      BY <3>1, <3>2, <3>7
  <2>3. CASE f = o /\ n # k
    <3>1. /\ Sets(headers'[f], n) = Sets(headers[f], n)
          /\ \A m \in Sets(headers[f], n) : headers'[f][m] = headers[f][m]
      <4>0. headers'[f] = Append(headers[f], h)
        BY <2>3, <1>4
      <4>1. Sets(Append(headers[f], h), n) = Sets(headers[f], n)
        BY <2>1, <2>3, <1>2, <1>3, SetsMore
      <4>2. \A m \in Sets(headers[f], n) : Append(headers[f], h)[m] = headers[f][m]
        BY <2>1, <1>2 DEF Sets
      <4> QED
        BY <4>0, <4>1, <4>2
    <3>2. Own(f, n)' = Own(f, n) /\ \A i \in Own(f, n) : applied'[i] = applied[i]
      BY <2>3, <1>6, <1>8
    <3>3. Agree(applied', Own(f, n), headers'[f], Sets(headers[f], n))
      BY <2>1, <3>1, <3>2, AgreeStays
    <3> QED
      BY <3>1, <3>2, <3>3
  <2>4. CASE f # o
    <3>1. Own(f, n)' = Own(f, n) /\ \A i \in Own(f, n) : applied'[i] = applied[i]
      BY <2>4, <1>6, <1>8
    <3>2. headers'[f] = headers[f]
      BY <2>4, <1>4
    <3>3. Agree(applied', Own(f, n), headers[f], Sets(headers[f], n))
      BY <2>1, <3>1, AgreeStays
    <3> QED
      BY <3>1, <3>2, <3>3
  <2> QED
    BY <2>2, <2>3, <2>4
<1>11. ASSUME NEW n \in Keys
       PROVE  Agree(applied', AppliedToAll(n)', globals', Sets(globals', n))
  <2>1. Agree(applied, AppliedToAll(n), globals, Sets(globals, n))
    BY DEF FilesInv
  <2>2. \A i \in AppliedToAll(n) : applied'[i] = applied[i]
    BY <1>6, <1>9
  <2>3. AppliedToAll(n)' = AppliedToAll(n) /\ globals' = globals
    BY <1>1, <1>6
  <2>4. Agree(applied', AppliedToAll(n), globals, Sets(globals, n))
    BY <2>1, <2>2, AgreeStays
  <2> QED
    BY <2>3, <2>4
<1>12. ServesAsApplied'
  BY <1>1 DEF FilesInv, ServesAsApplied, NoAnswer
<1> QED
  BY <1>1, <1>7, <1>10, <1>11, <1>12 DEF FilesInv

LEMMA FilesGlobals ==
  ASSUME FilesInv, NEW k \in Keys, NEW v \in Values, ApplyGlobalHeaders(k, v)
  PROVE  FilesInv'
<1> DEFINE h == [key |-> k, val |-> v]
           c == <<AllFiles, k, v>>
<1>1. /\ UNCHANGED <<uris, headers, origin>> /\ answer' = NoAnswer
      /\ globals' = Append(globals, h) /\ applied' = Append(applied, c)
  BY DEF ApplyGlobalHeaders, Call
<1>2. h \in HeaderRecords /\ globals \in Seq(HeaderRecords)
      /\ c \in (DOMAIN uris \cup {AllFiles}) \X Keys \X Values /\ c[1] = AllFiles /\ c[2] = k /\ c[3] = v
  BY DEF FilesInv, FileTypes, HeaderRecords
<1>3. h.key = k /\ h.val = v
  OBVIOUS
<1> HIDE DEF h, c
<1>4. FileTypes
  BY DEF FilesInv
<1>5. /\ \A f \in Disk, n \in Keys : Own(f, n)' = Own(f, n)
      /\ \A n \in Keys : AppliedToAll(n)' = IF n = k THEN AppliedToAll(n) \cup {Len(applied) + 1} ELSE AppliedToAll(n)
      /\ \A i \in DOMAIN applied : i \in Nat /\ i <= Len(applied) + 1 /\ applied'[i] = applied[i]
      /\ applied'[Len(applied) + 1] = c /\ Len(applied) + 1 \in Nat
      /\ applied' \in Seq((DOMAIN uris \cup {AllFiles}) \X Keys \X Values)
  BY <1>1, <1>2, <1>4, CallsMore
<1>6. /\ \A n : /\ Sets(globals', n) = IF n = k THEN Sets(globals, n) \cup {Len(globals) + 1}
                                                ELSE Sets(globals, n)
                /\ \A m \in Sets(globals, n) : m \in Nat /\ m <= Len(globals) + 1 /\ globals'[m] = globals[m]
      /\ globals'[Len(globals) + 1] = h /\ globals' \in Seq(HeaderRecords) /\ Len(globals) + 1 \in Nat
  <2>1. ASSUME NEW n
        PROVE  Sets(Append(globals, h), n) = IF n = k THEN Sets(globals, n) \cup {Len(globals) + 1}
                                                      ELSE Sets(globals, n)
    BY <1>2, <1>3, SetsMore
  <2>2. ASSUME NEW n
        PROVE  \A m \in Sets(globals, n) : /\ m \in Nat /\ m <= Len(globals) + 1
                                            /\ Append(globals, h)[m] = globals[m]
    BY <1>2 DEF Sets
  <2>3. /\ Append(globals, h)[Len(globals) + 1] = h /\ Append(globals, h) \in Seq(HeaderRecords)
        /\ Len(globals) + 1 \in Nat
    BY <1>2, SetsMore
  <2> QED
    BY <1>1, <2>1, <2>2, <2>3
<1>7. FileTypes'
  BY <1>1, <1>4, <1>5, <1>6 DEF FileTypes
<1>8. \A f \in Disk, n \in Keys : \A i \in Own(f, n) : i \in DOMAIN applied
  BY DEF Own
<1>9. \A n \in Keys : \A i \in AppliedToAll(n) : i \in DOMAIN applied
  BY DEF AppliedToAll
<1>10. ASSUME NEW f \in Disk, NEW n \in Keys
       PROVE  Agree(applied', Own(f, n)', headers'[f], Sets(headers'[f], n))
  <2>1. Agree(applied, Own(f, n), headers[f], Sets(headers[f], n))
    BY DEF FilesInv
  <2>2. \A i \in Own(f, n) : applied'[i] = applied[i]
    BY <1>5, <1>8
  <2>3. Own(f, n)' = Own(f, n) /\ headers'[f] = headers[f]
    BY <1>1, <1>5
  <2>4. Agree(applied', Own(f, n), headers[f], Sets(headers[f], n))
    BY <2>1, <2>2, AgreeStays
  <2> QED
    BY <2>3, <2>4
<1>11. ASSUME NEW n \in Keys
       PROVE  Agree(applied', AppliedToAll(n)', globals', Sets(globals', n))
  <2>1. Agree(applied, AppliedToAll(n), globals, Sets(globals, n))
    BY DEF FilesInv
  <2>2. CASE n = k
    <3>1. AppliedToAll(n) \in SUBSET Nat /\ Sets(globals, n) \in SUBSET Nat
      BY <1>5, <1>6, <1>9
    <3>2. \A i \in AppliedToAll(n) : i <= Len(applied) + 1
      BY <1>5, <1>9
    <3>3. applied'[Len(applied) + 1][3] = globals'[Len(globals) + 1].val
      BY <1>2, <1>3, <1>5, <1>6
    <3>4. Len(applied) + 1 \in Nat /\ Len(globals) + 1 \in Nat
      BY <1>5, <1>6
    <3>5. \A m \in Sets(globals, n) : m <= Len(globals) + 1
      BY <1>6
    <3>6. Agree(applied', AppliedToAll(n) \cup {Len(applied) + 1}, globals', Sets(globals, n) \cup {Len(globals) + 1})
      BY <3>1, <3>2, <3>3, <3>4, <3>5, AgreeMore
    <3>7. AppliedToAll(n)' = AppliedToAll(n) \cup {Len(applied) + 1} /\ Sets(globals', n) = Sets(globals, n) \cup {Len(globals) + 1}
      BY <2>2, <1>5, <1>6
    <3> QED
      BY <3>6, <3>7
  <2>3. CASE n # k
    <3>1. AppliedToAll(n)' = AppliedToAll(n) /\ \A i \in AppliedToAll(n) : applied'[i] = applied[i]
      BY <2>3, <1>5, <1>9
    <3>2. Sets(globals', n) = Sets(globals, n) /\ \A m \in Sets(globals, n) : globals'[m] = globals[m]
      BY <2>3, <1>6
    <3>3. Agree(applied', AppliedToAll(n), globals', Sets(globals, n))
      BY <2>1, <3>1, <3>2, AgreeStays
    <3> QED
      BY <3>1, <3>2, <3>3
  <2> QED
    BY <2>2, <2>3
<1>12. ServesAsApplied'
  BY <1>1 DEF FilesInv, ServesAsApplied, NoAnswer
<1> QED
  BY <1>1, <1>7, <1>10, <1>11, <1>12 DEF FilesInv

\* What the calls say of a URI is what its file and all files hold.
LEMMA ExpectedIs ==
  ASSUME FilesInv, NEW u \in DOMAIN uris, NEW k \in Keys
  PROVE  HeadersOf(uris[u])[k] = Expected(u, k)
<1> DEFINE f == uris[u]
<1>1. f \in Disk /\ FileTypes
  BY DEF FilesInv, FileTypes
<1>2. DOMAIN applied \in SUBSET Nat
  BY <1>1 DEF FileTypes
<1>3. \A i \in DOMAIN applied : applied[i][1] # AllFiles => applied[i][1] \in DOMAIN uris
  BY <1>1 DEF FileTypes
<1>4. \A x \in DOMAIN uris : origin[x] = origin[u] <=> uris[x] = f
  BY UriAssumption DEF FilesInv, FileTypes
<1>5. Own(f, k) = AppliedTo(u, k)
  BY <1>3, <1>4 DEF Own, AppliedTo
<1>6. Expected(u, k) = IF Own(f, k) # {} THEN applied[Max(Own(f, k))][3]
                       ELSE IF AppliedToAll(k) # {} THEN applied[Max(AppliedToAll(k))][3] ELSE ""
  BY <1>5 DEF Expected
<1>7. Own(f, k) \in SUBSET Nat /\ AppliedToAll(k) \in SUBSET Nat
  BY <1>2 DEF Own, AppliedToAll
<1>8. Agree(applied, Own(f, k), headers[f], Sets(headers[f], k)) /\ Agree(applied, AppliedToAll(k), globals, Sets(globals, k))
  BY <1>1 DEF FilesInv
<1> HIDE DEF f
<1>9. CASE Own(f, k) # {}
  <2>1. PICK i \in Own(f, k), m \in Sets(headers[f], k) :
          IsLast(i, Own(f, k)) /\ IsLast(m, Sets(headers[f], k)) /\ applied[i][3] = headers[f][m].val
    BY <1>8, <1>9 DEF Agree
  <2>2. Max(Own(f, k)) = i
    BY <2>1, <1>7, MaxIs
  <2>3. HeadersOf(f)[k] = headers[f][m].val
    BY <2>1, <1>1, LastInOrder
  <2> QED
    BY <1>6, <1>9, <2>1, <2>2, <2>3 DEF f
<1>10. CASE Own(f, k) = {} /\ AppliedToAll(k) # {}
  <2>1. Sets(headers[f], k) = {}
    BY <1>8, <1>10 DEF Agree
  <2>2. PICK i \in AppliedToAll(k), m \in Sets(globals, k) :
          IsLast(i, AppliedToAll(k)) /\ IsLast(m, Sets(globals, k)) /\ applied[i][3] = globals[m].val
    BY <1>8, <1>10 DEF Agree
  <2>3. Max(AppliedToAll(k)) = i
    BY <2>2, <1>7, MaxIs
  <2>4. HeadersOf(f)[k] = globals[m].val
    BY <2>1, <2>2, <1>1, LastInOrder
  <2> QED
    BY <1>6, <1>10, <2>2, <2>3, <2>4 DEF f
<1>11. CASE Own(f, k) = {} /\ AppliedToAll(k) = {}
  <2>1. Sets(headers[f], k) = {} /\ Sets(globals, k) = {}
    BY <1>8, <1>11 DEF Agree
  <2>2. HeadersOf(f)[k] = ""
    BY <2>1, <1>1, LastInOrder
  <2> QED
    BY <1>6, <1>11, <2>2 DEF f
<1> QED
  BY <1>9, <1>10, <1>11

\* What is expected of an answer stays when the server stays.
LEMMA ServesStill ==
  ASSUME FilesInv, UNCHANGED <<uris, hooks, applied, origin>>,
         answer'.status = 200 =>
           \E u \in DOMAIN uris :
             /\ answer'.uri = u /\ answer'.body = {uris[origin[u]]}
             /\ answer'.by # "client" => "pre" \in hooks
             /\ \A k \in Keys \ answer'.made : answer'.headers[k] = Expected(u, k)
             /\ answer'.made # {} => "response" \in hooks
  PROVE  ServesAsApplied'
<1>1. \A u, k : AppliedTo(u, k)' = AppliedTo(u, k)
  BY DEF AppliedTo
<1>2. \A k : AppliedToAll(k)' = AppliedToAll(k)
  BY DEF AppliedToAll
<1>3. \A u, k : Expected(u, k)' = Expected(u, k)
  BY <1>1, <1>2 DEF Expected
<1> QED
  BY <1>3 DEF FilesInv, ServesAsApplied

LEMMA FilesServe ==
  ASSUME FilesInv, NEW method, NEW u, NEW by, NEW failing, NEW edits,
         ServeHTTP(method, u, by, failing, edits)
  PROVE  FilesInv'
<1>1. UNCHANGED <<uris, headers, globals, hooks, applied, origin>>
  BY DEF ServeHTTP
<1>2. \A f \in Disk, k \in Keys : Own(f, k)' = Own(f, k)
  BY <1>1 DEF Own
<1>3. \A k \in Keys : AppliedToAll(k)' = AppliedToAll(k)
  BY <1>1 DEF AppliedToAll
<1>4. ASSUME answer'.status = 200
      PROVE  \E v \in DOMAIN uris :
               /\ answer'.uri = v /\ answer'.body = {uris[origin[v]]}
               /\ answer'.by # "client" => "pre" \in hooks
               /\ \A k \in Keys \ answer'.made : answer'.headers[k] = Expected(v, k)
               /\ answer'.made # {} => "response" \in hooks
  <2>1. /\ answer'.status = Status(method, u, failing) /\ answer'.uri = u
        /\ answer'.status = 200 => answer'.body = {uris[u]}
        /\ answer'.by = by /\ (by # "client" => "pre" \in hooks)
    BY DEF ServeHTTP
  <2>2. method = "GET" /\ u \in DOMAIN uris /\ failing \subseteq {"response"}
    BY <1>4, <2>1 DEF Status
  <2>3. uris[origin[u]] = uris[u]
    BY <2>2 DEF FilesInv, FileTypes
  <2>4. answer'.made = DOMAIN edits /\ (answer'.made # {} => "response" \in hooks)
    BY <2>2 DEF ServeHTTP
  <2>5. ASSUME NEW k \in Keys \ answer'.made
        PROVE  answer'.headers[k] = Expected(u, k)
    <3>1. answer'.headers[k] = HeadersOf(uris[u])[k]
      BY <2>2, <2>4 DEF ServeHTTP
    <3> QED
      BY <3>1, <2>2, ExpectedIs
  <2>6. answer'.uri = u /\ answer'.body = {uris[origin[u]]}
    BY <1>4, <2>1, <2>3
  <2>7. answer'.by # "client" => "pre" \in hooks
    BY <2>1
  <2>8. answer'.made # {} => "response" \in hooks
    BY <2>4
  <2> QED
    BY <2>2, <2>5, <2>6, <2>7, <2>8, Zenon
<1>5. ServesAsApplied'
  BY <1>1, <1>4, ServesStill
<1> QED
  BY <1>1, <1>2, <1>3, <1>5 DEF FilesInv, FileTypes

LEMMA FilesHook ==
  ASSUME FilesInv, NEW kind, WithHook(kind)
  PROVE  FilesInv'
<1>1. UNCHANGED <<uris, headers, globals, applied, origin>> /\ answer' = NoAnswer
  BY DEF WithHook, Call
<1>2. \A f \in Disk, k \in Keys : Own(f, k)' = Own(f, k)
  BY <1>1 DEF Own
<1>3. \A k \in Keys : AppliedToAll(k)' = AppliedToAll(k)
  BY <1>1 DEF AppliedToAll
<1>4. ServesAsApplied'
  BY <1>1 DEF FilesInv, ServesAsApplied, NoAnswer
<1> QED
  BY <1>1, <1>2, <1>3, <1>4 DEF FilesInv, FileTypes

LEMMA FilesAlias ==
  ASSUME FilesInv, NEW o, NEW a \in DOMAIN uris \cup Aliases, Alias(o, a)
  PROVE  FilesInv'
<1>1. /\ a \notin DOMAIN uris /\ o \in DOMAIN uris /\ answer' = NoAnswer
      /\ UNCHANGED <<headers, globals, applied>>
      /\ uris' = [u \in DOMAIN uris \cup {a} |-> IF u = a THEN uris[o] ELSE uris[u]]
      /\ origin' = [u \in DOMAIN uris \cup {a} |-> IF u = a THEN origin[o] ELSE origin[u]]
  BY DEF Alias, Call
<1>2. /\ DOMAIN uris' = DOMAIN uris \cup {a} /\ uris'[a] = uris[o] /\ origin'[a] = origin[o]
      /\ \A u \in DOMAIN uris : uris'[u] = uris[u] /\ origin'[u] = origin[u]
  BY <1>1
<1>3. FileTypes
  BY DEF FilesInv
<1>4. \A i \in DOMAIN applied : applied[i][1] = AllFiles \/ applied[i][1] \in DOMAIN uris
  BY <1>3 DEF FileTypes
<1>5. FileTypes'
  <2> DEFINE CallRows == (DOMAIN uris \cup {AllFiles}) \X Keys \X Values
             More  == (DOMAIN uris' \cup {AllFiles}) \X Keys \X Values
  <2>1. applied \in Seq(CallRows) /\ CallRows \subseteq More
    BY <1>2, <1>3 DEF FileTypes
  <2> HIDE DEF CallRows, More
  <2>2. applied' \in Seq(More)
    BY <1>1, <2>1
  <2>3. uris' \in [DOMAIN uris' -> Disk] /\ origin' \in [DOMAIN uris' -> {Uri(f) : f \in Disk}]
    BY <1>1, <1>2, <1>3 DEF FileTypes
  <2>4. AllFiles \notin DOMAIN uris'
    BY <1>1, <1>2, <1>3, UriAssumption DEF FileTypes
  <2> QED
    BY <1>1, <1>3, <2>2, <2>3, <2>4 DEF FileTypes, More
<1>6. \A f \in Disk, k \in Keys : Own(f, k)' = Own(f, k)
  BY <1>1, <1>2, <1>4 DEF Own
<1>7. \A k \in Keys : AppliedToAll(k)' = AppliedToAll(k)
  BY <1>1 DEF AppliedToAll
<1>8. \A f \in Disk : Uri(f) \in DOMAIN uris' /\ uris'[Uri(f)] = f
  BY <1>2 DEF FilesInv
<1>9. \A u \in DOMAIN uris' : origin'[u] = Uri(uris'[u])
  BY <1>1, <1>2 DEF FilesInv
<1>10. ServesAsApplied'
  <2>1. answer'.status = 0
    BY <1>1 DEF NoAnswer
  <2> QED
    BY <1>8, <2>1 DEF ServesAsApplied
<1>11. \A f \in Disk, k \in Keys : Agree(applied', Own(f, k)', headers'[f], Sets(headers'[f], k))
  BY <1>1, <1>6 DEF FilesInv
<1>12. \A k \in Keys : Agree(applied', AppliedToAll(k)', globals', Sets(globals', k))
  BY <1>1, <1>7 DEF FilesInv
<1> QED
  BY <1>5, <1>8, <1>9, <1>10, <1>11, <1>12 DEF FilesInv

LEMMA FilesInit == FileServerInit => FilesInv
<1> SUFFICES ASSUME FileServerInit
             PROVE  FilesInv
  OBVIOUS
<1> DEFINE Roots == {Uri(f) : f \in Disk}
<1>1. /\ uris = [u \in Roots |-> CHOOSE f \in Disk : Uri(f) = u] /\ origin = [u \in Roots |-> u]
      /\ headers = [f \in Disk |-> <<>>] /\ globals = <<>> /\ applied = <<>> /\ answer = NoAnswer
  BY DEF FileServerInit
<1>2. \A f \in Disk : Uri(f) \in Roots /\ uris[Uri(f)] = f
  BY <1>1, UriAssumption
<1>3. \A u \in Roots : uris[u] \in Disk /\ Uri(uris[u]) = u
  BY <1>2
<1>4. AllFiles \notin Roots
  BY UriAssumption
<1>5. DOMAIN uris = Roots
  BY <1>1
<1> HIDE DEF Roots
<1>6. FileTypes
  <2>1. uris \in [Roots -> Disk] /\ origin \in [Roots -> Roots]
    BY <1>1, <1>3
  <2>2. headers \in [Disk -> Seq(HeaderRecords)] /\ globals \in Seq(HeaderRecords)
    BY <1>1
  <2>3. applied \in Seq((Roots \cup {AllFiles}) \X Keys \X Values)
    BY <1>1
  <2> QED
    BY <1>4, <1>5, <2>1, <2>2, <2>3 DEF FileTypes, Roots
<1>7. \A f \in Disk, k \in Keys : Own(f, k) = {} /\ Sets(headers[f], k) = {}
  BY <1>1 DEF Own, Sets
<1>8. \A k \in Keys : AppliedToAll(k) = {} /\ Sets(globals, k) = {}
  BY <1>1 DEF AppliedToAll, Sets
<1>9. ServesAsApplied
  BY <1>1, <1>2 DEF ServesAsApplied, NoAnswer
<1> QED
  BY <1>1, <1>2, <1>3, <1>5, <1>6, <1>7, <1>8, <1>9 DEF FilesInv, Agree

LEMMA FilesNext ==
  ASSUME FilesInv, [FileServerNext]_serverVars
  PROVE  FilesInv'
<1>1. CASE FileServerNext
  <2>1. ASSUME NEW u, NEW a \in DOMAIN uris \cup Aliases, Alias(u, a)
        PROVE  FilesInv'
    BY <2>1, FilesAlias
  <2>2. ASSUME NEW u, NEW k \in Keys, NEW v \in Values, ApplyHeaders(u, k, v)
        PROVE  FilesInv'
    <3>1. u \in DOMAIN uris
      BY <2>2 DEF ApplyHeaders
    <3> QED
      BY <2>2, <3>1, FilesHeaders
  <2>3. ASSUME NEW method, NEW u, NEW by, NEW failing, NEW edits,
               ServeHTTP(method, u, by, failing, edits)
        PROVE  FilesInv'
    BY <2>3, FilesServe
  <2>4. ASSUME NEW k \in Keys, NEW v \in Values, ApplyGlobalHeaders(k, v)
        PROVE  FilesInv'
    BY <2>4, FilesGlobals
  <2>5. ASSUME NEW kind, WithHook(kind)
        PROVE  FilesInv'
    BY <2>5, FilesHook
  <2> QED
    BY <1>1, <2>1, <2>2, <2>3, <2>4, <2>5 DEF FileServerNext
<1>2. CASE UNCHANGED serverVars
  <2>1. UNCHANGED <<uris, headers, globals, hooks, applied, origin, answer>>
    BY <1>2 DEF serverVars, fileVars, historyVars
  <2>2. \A f \in Disk, k \in Keys : Own(f, k)' = Own(f, k)
    BY <2>1 DEF Own
  <2>3. \A k \in Keys : AppliedToAll(k)' = AppliedToAll(k)
    BY <2>1 DEF AppliedToAll
  <2>4. ServesAsApplied'
    BY <2>1, ServesStill DEF FilesInv, ServesAsApplied
  <2> QED
    BY <2>1, <2>2, <2>3, <2>4 DEF FilesInv, FileTypes
<1> QED
  BY <1>1, <1>2

\* Whatever aliases and headers were added, in any order, a request is answered
\* with the bytes of the file that its path, as the pre hooks left it, was made
\* for, and with the headers that were last applied to that file under any of
\* its names, except for those that a response hook changed.
THEOREM ServesAsAppliedTheorem == FileServerSpec => []ServesAsApplied
<1>1. FilesInv => ServesAsApplied
  BY DEF FilesInv
<1> QED
  BY <1>1, FilesInit, FilesNext, PTL DEF FileServerSpec
=============================================================================
