---------------------------- MODULE LoginManager ----------------------------
(***************************************************************************)
(* The browser's side of a login: frontend/legacy/util/LoginManager.ts     *)
(* over the tokens that api/auth.ts keeps in localStorage, on the main     *)
(* page (main.ts).                                                         *)
(*                                                                         *)
(* The tabs of a browser share localStorage; each has a manager, with a    *)
(* flag and a timer of its own.  Logins and refreshes are requests that    *)
(* are answered later, and by then the tab may have logged out, or another *)
(* tab.  A token is written as the second it expires; a token has a second *)
(* left when its timer is due, and timers may be late.                     *)
(*                                                                         *)
(* History, of a tab: quiet, it was logged out with no request under way;  *)
(* foreign, another tab removed the token; overtaken, another tab stored   *)
(* or removed one since the tab did; unarmed, the tab stored its last      *)
(* token without setting a timer for it.                                   *)
(***************************************************************************)
EXTENDS Integers, FiniteSets

CONSTANTS
  Tabs,         \* tabs of the browser
  Flights,      \* bound: requests that may be under way together
  TokenLife,    \* life of an access token, in seconds
  RenewalLife,  \* life of a refresh token
  MaxSecond     \* bound: time

ASSUME LoginManagerAssumption ==
  TokenLife \in Nat \ {0} /\ RenewalLife \in Nat /\ MaxSecond \in Nat

VARIABLES
  second,    \* the clock
  token,     \* localStorage: when the access token expires
  renewal,   \* localStorage: when the refresh token expires
  tab,       \* the tabs and their managers
  flight     \* requests under way

loginVars == <<second, token, renewal, tab, flight>>

NoToken == 0 - 1   \* no token, no timer

Seconds == 0 .. MaxSecond + TokenLife + RenewalLife

Closed == [open |-> FALSE, loggedIn |-> FALSE, timer |-> NoToken, links |-> FALSE,
           quiet |-> FALSE, foreign |-> FALSE, overtaken |-> FALSE, unarmed |-> FALSE]

Free == [kind |-> "none"]

LoginTypeOK ==
  /\ second \in 0 .. MaxSecond
  /\ token \in Seconds \cup {NoToken} /\ renewal \in Seconds \cup {NoToken}
  /\ tab \in [Tabs -> [open : BOOLEAN, loggedIn : BOOLEAN, timer : Seconds \cup {NoToken},
                       links : BOOLEAN, quiet : BOOLEAN, foreign : BOOLEAN,
                       overtaken : BOOLEAN, unarmed : BOOLEAN]]
  /\ \A f \in Flights :
       flight[f] = Free
         \/ /\ flight[f].kind \in {"login", "start", "timer"}
            /\ flight[f].tab \in Tabs
            /\ flight[f].at \in {"sent", "ok", "failed"}

LoginInit ==
  /\ second = 0
  /\ token = NoToken /\ renewal = NoToken
  /\ tab = [t \in Tabs |-> Closed]
  /\ flight = [f \in Flights |-> Free]

\* The calls a tab has under way.
Under(t) == {f \in Flights : flight[f] # Free /\ flight[f].tab = t}

Send(f, t, kind, sent) ==
  /\ flight[f] = Free
  /\ flight' = [flight EXCEPT ![f] =
       [kind |-> kind, tab |-> t, at |-> "sent", sent |-> sent, expires |-> NoToken, renewal |-> sent]]

\* doTimeout: nothing for a token with less than a second left, else the
\* timer is set anew.
DoTimeout(m, expires) ==
  IF expires - second - 1 < 0 THEN [m EXCEPT !.unarmed = TRUE]
  ELSE [m EXCEPT !.timer = expires - 1, !.unarmed = FALSE]

\* The event of a login, and the links of the main page.
SignedIn(m) ==
  [m EXCEPT !.loggedIn = TRUE, !.links = TRUE, !.quiet = FALSE, !.foreign = FALSE,
            !.overtaken = FALSE]

\* The event of a logout: the page takes its links away if it is logged in.
SignedOut(m) ==
  [m EXCEPT !.loggedIn = FALSE, !.links = @ /\ ~(m.loggedIn /\ token # NoToken)]

\* clearToken, of a tab, with what is to be of the tab.
ClearToken(t, m) ==
  /\ token' = NoToken
  /\ tab' = [u \in Tabs |->
       IF u = t THEN m
       ELSE [tab[u] EXCEPT !.foreign = @ \/ (tab[u].open /\ token # NoToken),
                           !.overtaken = tab[u].loggedIn]]
-----------------------------------------------------------------------------
(* The constructor.                                                        *)

Fresh == [Closed EXCEPT !.open = TRUE]

OpenUnknown(t) ==
  /\ ~tab[t].open /\ token = NoToken
  /\ tab' = [tab EXCEPT ![t] = Fresh]
  /\ UNCHANGED <<second, token, renewal, flight>>

OpenKnown(t) ==
  /\ ~tab[t].open /\ token # NoToken /\ second < token
  /\ tab' = [tab EXCEPT ![t] = DoTimeout(SignedIn(Fresh), token)]
  /\ UNCHANGED <<second, token, renewal, flight>>

OpenExpired(t) ==
  /\ ~tab[t].open /\ token # NoToken /\ second >= token
  /\ renewal = NoToken \/ renewal < second
  /\ ClearToken(t, Fresh)
  /\ UNCHANGED <<second, renewal, flight>>

OpenRefreshing(t, f) ==
  /\ ~tab[t].open /\ token # NoToken /\ second >= token
  /\ renewal # NoToken /\ renewal >= second
  /\ Send(f, t, "start", renewal)
  /\ tab' = [tab EXCEPT ![t] = Fresh]
  /\ UNCHANGED <<second, token, renewal>>

Close(t) ==
  /\ tab[t].open
  /\ tab' = [tab EXCEPT ![t] = Closed]
  /\ flight' = [f \in Flights |-> IF f \in Under(t) THEN Free ELSE flight[f]]
  /\ UNCHANGED <<second, token, renewal>>
-----------------------------------------------------------------------------
(* Requests.                                                               *)

SubmitLogin(t, f) ==
  /\ tab[t].open
  /\ Send(f, t, "login", NoToken)
  /\ tab' = [tab EXCEPT ![t].quiet = FALSE]
  /\ UNCHANGED <<second, token, renewal>>

\* The timer: a refresh, or nothing more without a refresh token.
Fire(t, f) ==
  /\ tab[t].timer # NoToken /\ second >= tab[t].timer
  /\ IF renewal = NoToken
     THEN UNCHANGED flight
     ELSE Send(f, t, "timer", renewal)
  /\ tab' = [tab EXCEPT ![t].timer = NoToken]
  /\ UNCHANGED <<second, token, renewal>>

\* /api/token makes both tokens, /api/refresh an access token for a refresh
\* token that holds, which it sends back.
Serve(f) ==
  /\ flight[f] # Free /\ flight[f].at = "sent"
  /\ flight[f].kind # "login" => second < flight[f].sent
  /\ flight' = [flight EXCEPT
       ![f].at      = "ok",
       ![f].expires = second + TokenLife,
       ![f].renewal = IF flight[f].kind = "login" THEN second + RenewalLife ELSE @]
  /\ UNCHANGED <<second, token, renewal, tab>>

\* The server refuses, or the network fails.
ServeFails(f) ==
  /\ flight[f] # Free /\ flight[f].at = "sent"
  /\ flight' = [flight EXCEPT ![f].at = "failed"]
  /\ UNCHANGED <<second, token, renewal, tab>>

\* storeToken, whatever has become of the tab's login meanwhile, with what is to
\* be of the tab.
Store(f, m) ==
  /\ token' = flight[f].expires /\ renewal' = flight[f].renewal
  /\ tab' = [u \in Tabs |->
       IF u = flight[f].tab THEN m ELSE [tab[u] EXCEPT !.overtaken = tab[u].loggedIn]]

\* The answer to a login; a token that expired on the way is kept and not
\* logged in with.
LoginReplies(f) ==
  LET m == tab[flight[f].tab]
  IN /\ flight[f] # Free /\ flight[f].kind = "login" /\ flight[f].at = "ok"
     /\ Store(f, IF second >= flight[f].expires THEN [m EXCEPT !.unarmed = TRUE]
                 ELSE DoTimeout(SignedIn(m), flight[f].expires))
     /\ flight' = [flight EXCEPT ![f] = Free]
     /\ UNCHANGED second

LoginFails(f) ==
  /\ flight[f] # Free /\ flight[f].kind = "login" /\ flight[f].at = "failed"
  /\ flight' = [flight EXCEPT ![f] = Free]
  /\ UNCHANGED <<second, token, renewal, tab>>

\* Mutant: the timer is set by the login, and not again while one is set.
RefreshOnce(f) ==
  LET m == tab[flight[f].tab]
  IN /\ flight[f] # Free /\ flight[f].kind \in {"start", "timer"} /\ flight[f].at = "ok"
     /\ Store(f, IF flight[f].kind = "timer" /\ m.timer = NoToken
                 THEN DoTimeout(SignedIn(m), flight[f].expires)
                 ELSE [SignedIn(m) EXCEPT !.unarmed = (flight[f].kind = "start")])
     /\ flight' = [flight EXCEPT ![f] = Free]
     /\ UNCHANGED second

\* The answer to a refresh.  Only the timer's sets the timer again.
Refresh(f) ==
  LET m == tab[flight[f].tab]
  IN /\ flight[f] # Free /\ flight[f].kind \in {"start", "timer"} /\ flight[f].at = "ok"
     /\ Store(f, IF flight[f].kind = "timer" THEN DoTimeout(SignedIn(m), flight[f].expires)
                 ELSE [SignedIn(m) EXCEPT !.unarmed = TRUE])
     /\ flight' = [flight EXCEPT ![f] = Free]
     /\ UNCHANGED second

\* A refresh that fails logs out, and leaves the timer and the refresh token.
RefreshFails(f) ==
  LET t == flight[f].tab
  IN /\ flight[f] # Free /\ flight[f].kind \in {"start", "timer"} /\ flight[f].at = "failed"
     /\ ClearToken(t, SignedOut(tab[t]))
     /\ flight' = [flight EXCEPT ![f] = Free]
     /\ UNCHANGED <<second, renewal>>

\* Mutant: the timer goes on.
LogoutKeepsTimer(t) ==
  /\ tab[t].open /\ tab[t].links
  /\ ClearToken(t, [SignedOut(tab[t]) EXCEPT !.quiet = (Under(t) = {})])
  /\ renewal' = NoToken
  /\ UNCHANGED <<second, flight>>

\* The logout button of the main page, which is among its links.
Logout(t) ==
  /\ tab[t].open /\ tab[t].links
  /\ ClearToken(t, [SignedOut(tab[t]) EXCEPT !.timer = NoToken, !.quiet = (Under(t) = {})])
  /\ renewal' = NoToken
  /\ UNCHANGED <<second, flight>>

LoginTick ==
  /\ second < MaxSecond
  /\ second' = second + 1
  /\ UNCHANGED <<token, renewal, tab, flight>>

LoginNext ==
  \/ \E t \in Tabs :
       \/ OpenUnknown(t) \/ OpenKnown(t) \/ OpenExpired(t) \/ Close(t) \/ Logout(t)
       \/ \E f \in Flights : OpenRefreshing(t, f) \/ SubmitLogin(t, f) \/ Fire(t, f)
  \/ \E f \in Flights :
       Serve(f) \/ ServeFails(f) \/ LoginReplies(f) \/ LoginFails(f) \/ Refresh(f) \/ RefreshFails(f)
  \/ LoginTick

LoginSpec == LoginInit /\ [][LoginNext]_loginVars
-----------------------------------------------------------------------------
\* A tab that was logged out with no request under way stays so until somebody
\* logs in there: nothing it set going before, and no other tab, signs it in
\* again.  And a tab that is logged out shows no private links, unless it was
\* another tab that removed the token.
LogoutHolds ==
  \A t \in Tabs :
    /\ tab[t].quiet => ~tab[t].loggedIn /\ tab[t].timer = NoToken /\ Under(t) = {}
    /\ tab[t].links /\ ~tab[t].loggedIn => tab[t].foreign

\* The timer of a tab that is logged in is due a second before the token in
\* localStorage expires, or its refresh is under way, however the tab's logins,
\* refreshes and failures overlap: no answer leaves the timer of another token.
\* That is unless another tab stored or removed a token since, or the tab set no
\* timer for the one it stored: it came with less than a second left, or by the
\* refresh at start-up.
RenewsInTime ==
  \A t \in Tabs :
    tab[t].loggedIn /\ ~tab[t].overtaken /\ ~tab[t].unarmed =>
      \/ token # NoToken /\ tab[t].timer = token - 1
      \/ \E f \in Under(t) : flight[f].kind = "timer"
=============================================================================
