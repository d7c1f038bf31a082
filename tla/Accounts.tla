------------------------------ MODULE Accounts ------------------------------
(***************************************************************************)
(* The table of users: userStore of pkg/app/user.go, with the roles of     *)
(* pkg/auth/role.go, and who uses it: sign-ups, logins and the operators   *)
(* that run cmd/tools/user-gen to make or change an account.               *)
(*                                                                         *)
(* The address of an account is unique, its user name is not, and a user   *)
(* name may be somebody's address: user-gen looks its address up in both   *)
(* columns and then writes to the row that it found, in a statement of its *)
(* own.  A row with the role 0, which a name that ParseRole does not know  *)
(* becomes, cannot be scanned.  Any statement may fail.                    *)
(***************************************************************************)
EXTENDS Naturals, FiniteSets

CONSTANTS
  Operators,   \* runs of user-gen
  Callers,     \* logins
  Words,       \* user names and addresses
  Passwords,   \* passwords that are not empty
  RoleLists,   \* roles that are asked for: sets of names
  MaxUsers     \* bound: rows

ASSUME AccountsAssumption == MaxUsers \in Nat /\ \A l \in RoleLists : l \subseteq STRING

VARIABLES
  users,     \* table "user", by id: SERIAL, never used again
  serial,    \* ids that were given
  operator,  \* the runs of user-gen; "done" when its statement was carried out,
             \* with or without an answer; past (history): those done before it
             \* found its row; foreign (history): it found another's address
  caller     \* the logins

accountsVars == <<users, serial, operator, caller>>

UserIds == 1 .. MaxUsers

NoUser == [name |-> "no user"]

RoleInvalid == 0

RoleDefault == 2

RoleNames == <<"admin", "default", "family", "tanya">>

ParseRole(s) ==
  LET known == {r \in DOMAIN RoleNames : RoleNames[r] = s}
  IN IF known = {} THEN RoleInvalid ELSE CHOOSE r \in known : TRUE

Parsed(list) == {ParseRole(s) : s \in list}

UserRow == [name : Words, email : Words, pw : Passwords,
            roles : SUBSET ({RoleInvalid} \cup DOMAIN RoleNames)]

AccountsTypeOK ==
  /\ users \in [UserIds -> UserRow \cup {NoUser}] /\ serial \in 0 .. MaxUsers
  /\ \A o \in Operators :
       /\ operator[o].at \in {"flags", "find", "create", "update", "done", "failed"}
       /\ operator[o].id \in 0 .. MaxUsers
  /\ \A c \in Callers :
       /\ caller[c].at \in {"new", "in", "refused"}
       /\ caller[c].id \in 0 .. MaxUsers

AccountsInit ==
  /\ users = [i \in UserIds |-> NoUser] /\ serial = 0
  /\ operator = [o \in Operators |-> [at |-> "flags", id |-> 0, foreign |-> FALSE, past |-> {}]]
  /\ caller = [c \in Callers |-> [at |-> "new", id |-> 0]]

Exists(i) == users[i] # NoUser

\* Role.Scan refuses the role 0, and with it the row.
Scannable(row) == RoleInvalid \notin row.roles

Named(word) == {i \in UserIds : Exists(i) /\ users[i].name = word}

Addressed(word) == {i \in UserIds : Exists(i) /\ users[i].email = word}

\* The constraint unique_email.
EmailTaken(word, i) == Addressed(word) \ {i} # {}
-----------------------------------------------------------------------------
(* The store.                                                              *)

\* INSERT: an account without roles gets the default one.
CreateAccount(row) ==
  /\ serial < MaxUsers
  /\ users' = [users EXCEPT ![serial + 1] =
       IF row.roles = {} THEN [row EXCEPT !.roles = {RoleDefault}] ELSE row]
  /\ serial' = serial + 1

\* SignUp of an invite, whose roles come from ParseRole, unknown ones too.
SignUpWith(name, email, pw, list) ==
  /\ ~EmailTaken(email, 0)
  /\ CreateAccount([name |-> name, email |-> email, pw |-> pw, roles |-> Parsed(list)])
  /\ UNCHANGED <<operator, caller>>

DeleteAccount(i) ==
  /\ Exists(i)
  /\ users' = [users EXCEPT ![i] = NoUser]
  /\ UNCHANGED <<serial, operator, caller>>

Matching(by, word) == IF by = "email" THEN Addressed(word) ELSE Named(word)

\* Login: the first row, in any order, has to be read and its password to fit; a
\* query that fails is a refusal too.
LogIn(c, by, word, pw) ==
  /\ caller[c].at = "new"
  /\ LET found == Matching(by, word)
         asked == [at |-> "refused", id |-> 0, by |-> by, word |-> word, pw |-> pw,
                   failed |-> FALSE]
     IN \/ \E i \in found :
             caller' = [caller EXCEPT ![c] =
               IF Scannable(users[i]) /\ users[i].pw = pw
               THEN [asked EXCEPT !.at = "in", !.id = i] ELSE asked]
        \/ found = {} /\ caller' = [caller EXCEPT ![c] = asked]
        \/ caller' = [caller EXCEPT ![c] = [asked EXCEPT !.failed = TRUE]]
  /\ UNCHANGED <<users, serial, operator>>
-----------------------------------------------------------------------------
(* user-gen.                                                               *)

\* (mutant: roles are not looked at)
KnownOrNot(list) == TRUE

KnownRoles(list) == RoleInvalid \notin Parsed(list)

\* The flags and what is asked for.  Without the flag "roles" the list has one
\* empty name, which is no role: the run ends.
ReadFlags(o, name, email, pw, list) ==
  /\ operator[o].at = "flags"
  /\ KnownRoles(list) /\ list # {}
  /\ operator' = [operator EXCEPT ![o] =
       [at |-> "find", id |-> 0, foreign |-> FALSE, past |-> {},
        row |-> [name |-> name, email |-> email, pw |-> pw, roles |-> Parsed(list)]]]
  /\ UNCHANGED <<users, serial, caller>>

Finished == {o \in Operators : operator[o].at = "done"}

\* Find(email): any row of that name or address.
FindAccount(o) ==
  /\ operator[o].at = "find"
  /\ LET word == operator[o].row.email
         found == Named(word) \cup Addressed(word)
     IN \/ /\ found = {}
           /\ operator' = [operator EXCEPT ![o].at = "create"]
        \/ \E i \in found :
             IF Scannable(users[i])
             THEN operator' = [operator EXCEPT ![o].at = "update", ![o].id = i,
                                               ![o].foreign = users[i].email # word,
                                               ![o].past = Finished]
             ELSE operator' = [operator EXCEPT ![o].at = "failed"]
  /\ UNCHANGED <<users, serial, caller>>

CreateFound(o) ==
  /\ operator[o].at = "create"
  /\ IF EmailTaken(operator[o].row.email, 0)
     THEN /\ operator' = [operator EXCEPT ![o].at = "failed"]
          /\ UNCHANGED <<users, serial>>
     ELSE /\ CreateAccount(operator[o].row)
          /\ operator' = [operator EXCEPT ![o].at = "done"]
  /\ UNCHANGED caller

\* UpdateWithPassword: the row may be gone or the address taken by now.
UpdateFound(o) ==
  /\ operator[o].at = "update"
  /\ LET i == operator[o].id IN
     IF ~Exists(i) \/ EmailTaken(operator[o].row.email, i)
     THEN /\ operator' = [operator EXCEPT ![o].at = "failed"]
          /\ UNCHANGED users
     ELSE /\ users' = [users EXCEPT ![i] = operator[o].row]
          /\ operator' = [operator EXCEPT ![o].at = "done"]
  /\ UNCHANGED <<serial, caller>>

\* A statement fails, with no effect, and the run with it.
OperatorFails(o) ==
  /\ operator[o].at \in {"find", "create", "update"}
  /\ operator' = [operator EXCEPT ![o].at = "failed"]
  /\ UNCHANGED <<users, serial, caller>>

AccountsNext ==
  \/ \E name, email \in Words, pw \in Passwords, list \in RoleLists :
       \/ SignUpWith(name, email, pw, list)
       \/ \E o \in Operators : ReadFlags(o, name, email, pw, list)
  \/ \E i \in UserIds : DeleteAccount(i)
  \/ \E c \in Callers, by \in {"email", "name"}, word \in Words, pw \in Passwords :
       LogIn(c, by, word, pw)
  \/ \E o \in Operators :
       FindAccount(o) \/ CreateFound(o) \/ UpdateFound(o) \/ OperatorFails(o)

AccountsSpec == AccountsInit /\ [][AccountsNext]_accountsVars
-----------------------------------------------------------------------------
\* Whoever gives the password of an account that can be read is let in, unless
\* the query fails or the account was named by a user name that others have too.
RefusedForCause ==
  \A c \in Callers :
    caller[c].at = "new" /\ caller'[c].at = "refused" /\ ~caller'[c].failed =>
    \A i \in UserIds :
      LET asked == caller'[c] IN
      Exists(i) /\ Scannable(users[i]) /\ users[i].pw = asked.pw =>
        IF asked.by = "email" THEN users[i].email # asked.word
        ELSE users[i].name # asked.word \/ Named(asked.word) # {i}

\* Some run that found the user name of row i to be its address wrote to it.
Moved(i) == \E p \in Finished : operator[p].id = i /\ operator[p].foreign

\* Another run wrote to row i after o found it.
Overtaken(o, i) == \E p \in Finished \ operator[o].past : operator[p].id = i

\* Run o writes to row i, which could be read and can be read after: all that was
\* asked of the run, and nothing else.  The address is another than before only
\* if the run found the row under its user name, or if it was overtaken by a run,
\* after one that did.
Overwrites(o, i) ==
  /\ operator[o].at = "update" /\ operator'[o].at = "done" /\ operator[o].id = i
  /\ users'[i] = operator[o].row
  /\ Scannable(users[i]) /\ Scannable(users'[i])
  /\ users'[i].email # users[i].email =>
       operator[o].foreign \/ (Moved(i) /\ Overtaken(o, i))

\* One row at a time: a row that is there changes only by a run of user-gen that
\* found it, or goes by a deletion that touches nothing else.
AccountsKept ==
  /\ \A i \in UserIds : Exists(i) /\ users'[i] # users[i] =>
       \/ users'[i] = NoUser /\ UNCHANGED <<serial, operator, caller>>
       \/ \E o \in Operators : Overwrites(o, i)
  /\ \A i, j \in UserIds : users'[i] # users[i] /\ users'[j] # users[j] => i = j

\* Whoever has an account keeps it as it was made, and gets in with its password,
\* whatever sign-ups and other people's operators do at the same time; and no
\* operator locks an account out or moves it to an address that was not its own,
\* but for a user name that is an address.  (An account that signed up with an
\* unknown role cannot be read, and user-gen cannot mend it.)
AccountsHold == [][RefusedForCause /\ AccountsKept]_accountsVars
=============================================================================
