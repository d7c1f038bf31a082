------------------------------ MODULE MCAccess ------------------------------
(* Who gets in, in behaviours of their own: the invites, the accounts, the *)
(* guards of the routes and the token store in memory.                     *)
EXTENDS MCInvites, Accounts, Guards, MemoryTokens

CONSTANTS o1, o2, w1, w2, pw1, pw2

VARIABLE part

MCOperators == {o1, o2}

MCWords == {w1, w2}

MCPasswords == {pw1, pw2}

MCRoleLists == {{"admin"}, {"admim"}}

MCInit ==
  /\ Init /\ AccountsInit /\ GuardsInit /\ MemoryInit
  /\ part \in {"invites", "accounts", "guards", "memory"}
  /\ part # "guards" => row = {"default"}

\* The login comes last, as it changes no row.
LoginLast == \A c \in Callers : caller[c].at = "new"

\* Of two operators that did not begin, one takes the flags first; the word that
\* is used first is w1; and a password tells a sign-up from an operator.
InTurn ==
  /\ operator[o1].at = "flags" => operator'[o2].at = "flags"
  /\ operator'[o1].at = "find" => operator'[o1].row.pw = pw2
  /\ operator'[o2].at = "find" => operator'[o2].row.pw = pw2
  /\ serial' > serial /\ operator' = operator => users'[serial'].pw = pw1
  /\ serial = 0 /\ operator[o1].at = "flags" =>
       IF serial' = 1 THEN users'[1].email = w1
       ELSE operator'[o1].at = "find" /\ operator'[o1].row.email = w1

\* A connection has a second request only after a login with claims.
StillOpen ==
  \A a \in Arrivals :
    arrival[a].at = "answered" => arrival[a].route = "login" /\ arrival[a].status = 200

MCNext ==
  /\ UNCHANGED part
  /\ \/ part = "invites" /\ Next /\ UNCHANGED <<accountsVars, guardsVars, memoryVars>>
     \/ part = "accounts" /\ LoginLast /\ AccountsNext /\ InTurn /\ UNCHANGED <<vars, guardsVars, memoryVars>>
     \/ part = "guards" /\ StillOpen /\ GuardsNext /\ UNCHANGED <<vars, accountsVars, memoryVars>>
     \/ part = "memory" /\ MemoryNext /\ UNCHANGED <<vars, accountsVars, guardsVars>>

MCSpec == MCInit /\ [][MCNext]_<<part, vars, accountsVars, guardsVars, memoryVars>>

MCSymmetry == Permutations(Handlers) \cup Permutations(Emails)
=============================================================================
