------------------------------ MODULE MCStores ------------------------------
(* The smaller stores and what changes them, each in behaviours of its     *)
(* own: the link shortener, the chat rooms, the sessions of the hooks      *)
(* server, the login managers of a browser's tabs, and the file server.    *)
EXTENDS Links, Rooms, SignIn, LoginManager, FileServer, TLC

VARIABLE part

File(d, n) == [dir |-> d, name |-> n, readable |-> TRUE]

MCDisk == {File(<<>>, "index.html"), File(<<"app">>, "app.js")}

\* A worker draws the same six characters twice before others, and a server that
\* is started again begins with those others.
MCDraws == <<[n \in 1 .. MaxDrawn |-> IF n <= 12 THEN "a" ELSE "b"],
             [n \in 1 .. MaxDrawn |-> "b"]>>

MCAliases == {<<"home">>, <<"start">>}

MCInit ==
  /\ Init /\ RoomsInit /\ SignInInit /\ LoginInit /\ FileServerInit
  /\ part \in {"links", "rooms", "sign-in", "tabs", "files"}
  /\ req[CHOOSE r \in Requests : TRUE].worker = CHOOSE w \in Workers : TRUE
  /\ part # "links" => count = CHOOSE n \in Counts : TRUE
  /\ visitor = [v \in Visitors |-> NewVisitor(CHOOSE u \in Users : TRUE)]
  /\ \A c \in Calls : call[c].browser = CHOOSE b \in Browsers : TRUE

\* Requests that are not made yet are alike: which is taken does not matter.
InTurn ==
  \A r \in Requests :
    req[r].at = "new" /\ req'[r].at # "new" => r = CHOOSE s \in Requests : req[s].at = "new"

\* Nor does it matter which of the creators comes first.
RoomsInTurn ==
  \A c \in Creators :
    creator[c].at = "new" /\ creator'[c].at # "new" =>
      c = CHOOSE d \in Creators : creator[d].at = "new"

\* Nor which of the calls of Authorize, which browser makes the first one, and
\* which of GitHub's users the first code is for.
SignInInTurn ==
  /\ \A c \in Calls :
       call[c].at = "new" /\ call'[c].at # "new" =>
         /\ c = CHOOSE d \in Calls : call[d].at = "new"
         /\ (\A d \in Calls : call[d].at = "new") =>
              call'[c].browser = CHOOSE b \in Browsers : TRUE
  /\ codes' # <<>> => codes'[1] = CHOOSE u \in GithubUsers : TRUE

MCNext ==
  /\ UNCHANGED part
  /\ \/ part = "links" /\ Next /\ InTurn /\ UNCHANGED <<roomsVars, signInVars, loginVars, serverVars>>
     \/ part = "rooms" /\ RoomsNext /\ RoomsInTurn /\ UNCHANGED <<vars, signInVars, loginVars, serverVars>>
     \/ part = "sign-in" /\ SignInNext /\ SignInInTurn /\ UNCHANGED <<vars, roomsVars, loginVars, serverVars>>
     \/ part = "tabs" /\ LoginNext /\ UNCHANGED <<vars, roomsVars, signInVars, serverVars>>
     \/ part = "files" /\ FileServerNext /\ UNCHANGED <<vars, roomsVars, signInVars, loginVars>>

MCSpec == MCInit /\ [][MCNext]_<<part, vars, roomsVars, signInVars, loginVars, serverVars>>
=============================================================================
