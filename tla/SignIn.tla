------------------------------- MODULE SignIn -------------------------------
(***************************************************************************)
(* The GitHub sign-in of cmd/hooks (github.go) over the in-memory session  *)
(* stores of pkg/session (MemStore in store.go).                           *)
(*                                                                         *)
(* Login issues a one-time state, Authorize reads it, deletes it, changes  *)
(* the code for a token, asks for the user and stores a session: each step *)
(* interleaves with the other requests.  The code comes from GitHub, which *)
(* gives one each time its page is visited, and knows nothing of the state *)
(* it is posted with; whoever posts it gets the cookie.  Each store has a  *)
(* goroutine that goes through its map without the lock, and a write in    *)
(* the middle of it may end the process, with all that was in memory.      *)
(***************************************************************************)
EXTENDS Integers, Sequences, FiniteSets, Functions

CONSTANTS
  Browsers,    \* the browsers
  GithubUsers, \* who may be signed in at GitHub
  Calls,       \* calls of Authorize
  StateTTL,    \* how long a state is kept, in periods of tidy (2 minutes)
  SessionTTL,  \* how long a session is kept (1 minute)
  MaxStates,   \* bound: states that are issued
  MaxCodes,    \* bound: codes that GitHub gives
  MaxClock,    \* bound: time
  MaxCrashes   \* bound: crashes of the process

ASSUME SignInAssumption ==
  /\ StateTTL \in Nat /\ SessionTTL \in Nat
  /\ MaxStates \in Nat /\ MaxCodes \in Nat /\ MaxClock \in Nat /\ MaxCrashes \in Nat

VARIABLES
  clock,
  issued,      \* how many states were issued
  states,      \* store of the states: when each was set
  sessions,    \* store of the sessions: user and time, by the call that made it
  tidying,     \* what the goroutine of a store has yet to visit, and its time
  call,        \* the calls of Authorize
  codes,       \* the codes that GitHub gave: the user of each
  spent,       \* codes that were changed for a token
  cookie,      \* the session cookie of each browser: a call, or NoCookie
  crashes,
  made,        \* (history) the session a call made: its time and process
  out          \* (history) calls whose session was signed out

storeVars  == <<states, sessions, tidying>>
githubVars == <<codes, spent>>
signInVars == <<clock, issued, storeVars, call, githubVars, cookie, crashes, made, out>>

NoCookie == [none |-> TRUE]

StateIds == 1 .. MaxStates

CodeIds == 1 .. MaxCodes

Stores == {"states", "sessions"}

Idle == [on |-> FALSE]

SignInTypeOK ==
  /\ clock \in 0 .. MaxClock
  /\ issued \in 0 .. MaxStates
  /\ codes \in Seq(GithubUsers) /\ Len(codes) <= MaxCodes
  /\ DOMAIN states \subseteq StateIds
  /\ DOMAIN sessions \subseteq Calls
  /\ \A k \in Stores : tidying[k] = Idle \/ tidying[k].at \in 0 .. clock
  /\ \A c \in Calls :
       call[c].at \in {"new", "del", "exchange", "user", "set", "ok", "not found", "error", "lost"}
  /\ spent \subseteq DOMAIN codes
  /\ cookie \in [Browsers -> Calls \cup {NoCookie}]

SignInInit ==
  /\ clock = 0 /\ issued = 0
  /\ states = <<>> /\ sessions = <<>>
  /\ tidying = [k \in Stores |-> Idle]
  /\ \E b \in Browsers :   \* any browser
       call = [c \in Calls |->
                [at |-> "new", state |-> 0, code |-> 0, browser |-> b, met |-> {}]]
  /\ codes = <<>> /\ spent = {}
  /\ cookie = [b \in Browsers |-> NoCookie]
  /\ crashes = 0 /\ made = <<>> /\ out = {}

At(c, step) == call' = [call EXCEPT ![c].at = step]

With(f, k, v) == [x \in DOMAIN f \cup {k} |-> IF x = k THEN v ELSE f[x]]
-----------------------------------------------------------------------------
(* Login and GitHub's answer.                                              *)

Login ==
  /\ issued < MaxStates
  /\ issued' = issued + 1
  /\ states' = With(states, issued + 1, clock)
  /\ UNCHANGED <<clock, sessions, tidying, call, githubVars, cookie, crashes, made, out>>

\* A user allows the sign-in at GitHub: a new code, at every visit.
Grant(u) ==
  /\ Len(codes) < MaxCodes
  /\ codes' = Append(codes, u)
  /\ UNCHANGED <<clock, issued, storeVars, call, spent, cookie, crashes, made, out>>
-----------------------------------------------------------------------------
(* Authorize.  A form posts any code with any state, also once more.       *)

\* (history) Calls that have deleted a state already.
Deleters(s) ==
  {d \in Calls : call[d].state = s /\ call[d].at \in {"exchange", "user", "set", "ok", "error"}}

AuthGet(c, b, s, k) ==
  /\ call[c].at = "new" /\ s <= issued /\ k \in DOMAIN codes
  /\ call' = [call EXCEPT ![c] =
       [at |-> IF s \in DOMAIN states THEN "del" ELSE "not found",
        state |-> s, code |-> k, browser |-> b, met |-> Deleters(s)]]
  /\ UNCHANGED <<clock, issued, storeVars, githubVars, cookie, crashes, made, out>>

AuthDel(c) ==
  /\ call[c].at = "del"
  /\ states' = Restrict(states, DOMAIN states \ {call[c].state})
  /\ At(c, "exchange")
  /\ UNCHANGED <<clock, issued, sessions, tidying, githubVars, cookie, crashes, made, out>>

\* GitHub takes a code once.
Exchange(c) ==
  /\ call[c].at = "exchange"
  /\ IF call[c].code \in spent
     THEN At(c, "error") /\ UNCHANGED spent
     ELSE At(c, "user") /\ spent' = spent \cup {call[c].code}
  /\ UNCHANGED <<clock, issued, storeVars, codes, cookie, crashes, made, out>>

\* No token, perhaps with the code spent, or no user.
GithubFails(c) ==
  /\ call[c].at \in {"exchange", "user"}
  /\ At(c, "error")
  /\ spent' \in {spent, spent \cup {call[c].code}}
  /\ UNCHANGED <<clock, issued, storeVars, codes, cookie, crashes, made, out>>

UsersGet(c) ==
  /\ call[c].at = "user"
  /\ At(c, "set")
  /\ UNCHANGED <<clock, issued, storeVars, githubVars, cookie, crashes, made, out>>

\* A session of the code's user with an id of its own, and the cookie, for the
\* browser that posted.
SessionSet(c) ==
  /\ call[c].at = "set"
  /\ sessions' = With(sessions, c, [user |-> codes[call[c].code], at |-> clock])
  /\ made' = With(made, c, [at |-> clock, process |-> crashes])
  /\ cookie' = [cookie EXCEPT ![call[c].browser] = c]
  /\ At(c, "ok")
  /\ UNCHANGED <<clock, issued, states, tidying, githubVars, crashes, out>>

\* SignOut.  The cookie in the answer has no path: the browser's stays.
SignOut(b) ==
  /\ cookie[b] # NoCookie
  /\ sessions' = Restrict(sessions, DOMAIN sessions \ {cookie[b]})
  /\ out' = out \cup {cookie[b]}
  /\ UNCHANGED <<clock, issued, states, tidying, call, githubVars, cookie, crashes, made>>
-----------------------------------------------------------------------------
(* tidy.                                                                   *)

Map(k) == IF k = "states" THEN states ELSE sessions

\* The ticker: the time is read once, before the map.
Tidy(k) ==
  /\ tidying[k] = Idle /\ Map(k) # <<>>
  /\ tidying' = [tidying EXCEPT ![k] = [on |-> TRUE, at |-> clock, left |-> DOMAIN Map(k)]]
  /\ UNCHANGED <<clock, issued, states, sessions, call, githubVars, cookie, crashes, made, out>>

Past(k, at, key) ==
  IF k = "states" THEN at > states[key] + StateTTL ELSE at > sessions[key].at + SessionTTL

\* Mutant: an entry is deleted at its time, not after it.
VisitEarly(k) ==
  /\ tidying[k] # Idle
  /\ \E key \in tidying[k].left :
       LET gone == IF key \in DOMAIN Map(k) /\ Past(k, tidying[k].at + 1, key)
                   THEN {key} ELSE {}
           left == tidying[k].left \ {key}
       IN /\ states'   = IF k = "states" THEN Restrict(states, DOMAIN states \ gone) ELSE states
          /\ sessions' = IF k = "sessions" THEN Restrict(sessions, DOMAIN sessions \ gone) ELSE sessions
          /\ tidying'  = [tidying EXCEPT ![k] = IF left = {} THEN Idle ELSE [@ EXCEPT !.left = left]]
  /\ UNCHANGED <<clock, issued, call, githubVars, cookie, crashes, made, out>>

\* One key of the map: an entry that is past its time is deleted.
Visit(k) ==
  /\ tidying[k] # Idle
  /\ \E key \in tidying[k].left :
       LET gone == IF key \in DOMAIN Map(k) /\ Past(k, tidying[k].at, key) THEN {key} ELSE {}
           left == tidying[k].left \ {key}
       IN /\ states'   = IF k = "states" THEN Restrict(states, DOMAIN states \ gone) ELSE states
          /\ sessions' = IF k = "sessions" THEN Restrict(sessions, DOMAIN sessions \ gone) ELSE sessions
          /\ tidying'  = [tidying EXCEPT ![k] = IF left = {} THEN Idle ELSE [@ EXCEPT !.left = left]]
  /\ UNCHANGED <<clock, issued, call, githubVars, cookie, crashes, made, out>>

\* A write of a map that is being gone through ends the process; what was in
\* memory and the calls under way are gone.
Crash ==
  /\ crashes < MaxCrashes
  /\ \/ tidying["states"] # Idle /\ (issued < MaxStates \/ \E c \in Calls : call[c].at = "del")
     \/ /\ tidying["sessions"] # Idle
        /\ \/ \E c \in Calls : call[c].at = "set"
           \/ \E b \in Browsers : cookie[b] # NoCookie
  /\ crashes' = crashes + 1
  /\ states' = <<>> /\ sessions' = <<>> /\ tidying' = [k \in Stores |-> Idle]
  /\ call' = [c \in Calls |->
       IF call[c].at \in {"del", "exchange", "user", "set"} THEN [call[c] EXCEPT !.at = "lost"] ELSE call[c]]
  /\ UNCHANGED <<clock, issued, githubVars, cookie, made, out>>

SignInTick ==
  /\ clock < MaxClock
  /\ clock' = clock + 1
  /\ UNCHANGED <<issued, storeVars, call, githubVars, cookie, crashes, made, out>>

SignInNext ==
  \/ Login
  \/ \E b \in Browsers : SignOut(b)
  \/ \E u \in GithubUsers : Grant(u)
  \/ \E c \in Calls :
       \/ \E b \in Browsers, s \in StateIds, k \in CodeIds : AuthGet(c, b, s, k)
       \/ AuthDel(c) \/ Exchange(c) \/ GithubFails(c) \/ UsersGet(c) \/ SessionSet(c)
  \/ \E k \in Stores : Tidy(k) \/ Visit(k)
  \/ Crash \/ SignInTick

SignInSpec == SignInInit /\ [][SignInNext]_signInVars
-----------------------------------------------------------------------------
\* A session is kept for its whole time, for the user of the code it was made
\* with, unless it is signed out or the process ends: no other request and no
\* round of tidy, however late, takes it away or changes it.  Of a code there is
\* one session at most.  A state may be good for several, with as many codes,
\* but only for calls that overlap: each found the state before any of the
\* others had deleted it.
SessionKept ==
  /\ \A c \in DOMAIN made :
       made[c].process = crashes /\ c \notin out /\ clock <= made[c].at + SessionTTL =>
         /\ c \in DOMAIN sessions
         /\ sessions[c] = [user |-> codes[call[c].code], at |-> made[c].at]
  /\ \A c, d \in DOMAIN made : c # d => call[c].code # call[d].code
  /\ \A c \in DOMAIN made : call[c].met = {}
=============================================================================
