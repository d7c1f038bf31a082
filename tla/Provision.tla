------------------------------ MODULE Provision ------------------------------
(***************************************************************************)
(* The provisioning tool: cmd/provision and pkg/provision.                 *)
(*                                                                         *)
(* `provision` reads a configuration and brings minio and then postgres to *)
(* it with one call after the other; `migrate up --all` runs what is new   *)
(* of every set of migrations.  The first call that fails ends the         *)
(* command, in the middle of everything, and the operator runs it again,   *)
(* perhaps with another configuration.  What a failed command leaves is a  *)
(* line on its standard error: main prints the error and the process still *)
(* exits with 0.                                                           *)
(*                                                                         *)
(* The loops are taken in phases.  Within a phase items come in any order: *)
(* some loops are over maps, and for the others the order does not matter. *)
(* golang-migrate is modelled from what it promises: it marks a database   *)
(* as dirty with the number of the script that it is about to run, and     *)
(* refuses to go on from a dirty one.                                      *)
(***************************************************************************)
EXTENDS Integers, Sequences

CONSTANTS
  Configurations,     \* configurations, records of the functions below
  Buckets, Policies, Contents, Users, Groups, Roles, Databases,
  Tables,      \* of the database that the tool connects to
  Privileges,  \* what a configuration grants on a database or a table
  MaxVersion,  \* scripts of the migrations of a database
  Nothing

\* What is granted to a role: a privilege on a database or on a table, or the
\* membership of another role.
Rights == (Privileges \X (Databases \cup Tables)) \cup ({"MEMBER"} \X Roles)

ASSUME ProvisionAssumption ==
  \A c \in Configurations :
    /\ c.buckets \in UNION {[B -> Policies \cup {Nothing}] : B \in SUBSET Buckets}
    /\ c.policies \in UNION {[P -> Contents] : P \in SUBSET Policies}
    /\ c.users \in UNION {[U -> [policies : SUBSET Policies, groups : SUBSET Groups]] :
                            U \in SUBSET Users}
    /\ \A g \in DOMAIN c.groups : g \in Groups /\ c.groups[g] \in Seq(Policies)
    /\ \A r \in DOMAIN c.roles : r \in Roles /\ c.roles[r] \subseteq Rights
    /\ c.databases \in UNION {[D -> Roles \cup {Nothing}] : D \in SUBSET Databases}
    /\ c.migrations \subseteq Databases

ASSUME NothingAssumption ==
  /\ Nothing \notin Policies \cup Users \cup Groups /\ MaxVersion \in Nat
  /\ \A S \in SUBSET Rights : S # Nothing

VARIABLES
  cfg,       \* the configuration of the command
  skip,      \* it leaves the object store alone
  phase,     \* the loop it is in; the result of the last one when there is none
  remaining,      \* what the loop has yet to do
  half,      \* an item of which the first call is done
  nth,       \* the policies of that item, a group, that are set
  bucket,    \* the policy of each bucket, or that there is no such bucket
  canned,    \* the content of each policy
  attached,  \* the policies of each user
  members,   \* of each group
  granted,   \* the policy of each group
  roles,     \* what is granted to each role
  owner,     \* of each database
  version,   \* the script that each database is at
  dirty      \* a script was begun that leads there

s3Vars == <<bucket, canned, attached, members, granted>>
dbVars == <<roles, owner>>
migrationVars == <<version, dirty>>
provisionVars ==
  <<cfg, skip, phase, remaining, half, nth, s3Vars, dbVars, migrationVars>>

\* The loops, and what follows each of them.
After == [buckets |-> "policies", policies |-> "users", users |-> "groups",
          groups |-> "roles", roles |-> "databases", databases |-> "grants",
          grants |-> "provisioned"]
Loops == DOMAIN After
Results == {"none", "failed", "provisioned", "migrated", "stepped"}

ProvisionTypeOK ==
  /\ cfg \in Configurations /\ skip \in BOOLEAN
  /\ phase \in Loops \cup {"all", "up", "down"} \cup Results
  /\ half = Nothing \/ half \in remaining
  /\ nth \in Nat
  /\ bucket \in [Buckets -> Contents \cup {"absent", "private"}]
  /\ canned \in [Policies -> Contents \cup {Nothing}]
  /\ attached \in [Users -> (SUBSET Policies) \cup {Nothing}]
  /\ members \in [Groups -> SUBSET Users]
  /\ granted \in [Groups -> Policies \cup {Nothing}]
  /\ roles \in [Roles -> (SUBSET Rights) \cup {Nothing}]
  /\ owner \in [Databases -> Roles \cup {Nothing}]
  /\ version \in [Databases -> 0..MaxVersion]
  /\ dirty \in [Databases -> BOOLEAN]

ProvisionInit ==
  /\ cfg \in Configurations /\ skip = FALSE
  /\ phase = "none" /\ remaining = {} /\ half = Nothing /\ nth = 0
  /\ bucket = [b \in Buckets |-> "absent"]
  /\ canned = [p \in Policies |-> Nothing]
  /\ attached = [u \in Users |-> Nothing]
  /\ members = [g \in Groups |-> {}]
  /\ granted = [g \in Groups |-> Nothing]
  /\ roles = [r \in Roles |-> Nothing]
  /\ owner = [d \in Databases |-> Nothing]
  /\ version = [d \in Databases |-> 0]
  /\ dirty = [d \in Databases |-> FALSE]
-----------------------------------------------------------------------------
(* The command.                                                            *)

\* The access keys that are put into a group.
MembersOf(c, g) == {u \in DOMAIN c.users : g \in c.users[u].groups}

\* What a loop goes through.  A group nobody is in is skipped.
Items(c, loop) ==
  CASE loop = "buckets"   -> DOMAIN c.buckets
    [] loop = "policies"  -> DOMAIN c.policies
    [] loop = "users"     -> DOMAIN c.users
    [] loop = "groups"    -> {g \in DOMAIN c.groups : MembersOf(c, g) # {}}
    [] loop = "roles"     -> DOMAIN c.roles
    [] loop = "databases" -> DOMAIN c.databases
    [] loop = "grants"    -> UNION {{r} \X c.roles[r] : r \in DOMAIN c.roles}

\* The configuration of the object store has no faulty policy.
ValidateS3(c) == \A p \in DOMAIN c.policies : c.policies[p] # "faulty"

DatabaseGrants == {"CREATE", "CONNECT", "TEMPORARY", "TEMP", "ALL"}

TableGrants == {"SELECT", "INSERT", "UPDATE", "DELETE", "TRUNCATE", "REFERENCES", "TRIGGER", "ALL"}

\* Every privilege that it grants on a database is one of databases, and on a
\* table one of tables.  The roles that it grants are not looked at.
ValidateDB(c) ==
  \A r \in DOMAIN c.roles : \A x \in c.roles[r] :
    /\ x[2] \in Databases => x[1] \in DatabaseGrants
    /\ x[2] \in Tables => x[1] \in TableGrants

Running == phase \notin Results

Enter(c, loop) ==
  phase' = loop /\ remaining' = Items(c, loop) /\ half' = Nothing /\ nth' = 0

\* The object store comes first, unless it is skipped.
Provision(c, skipS3) ==
  /\ ~Running
  /\ cfg' = c /\ skip' = skipS3
  /\ IF skipS3
     THEN ValidateDB(c) /\ Enter(c, "roles")
     ELSE ValidateS3(c) /\ Enter(c, "buckets")
  /\ UNCHANGED <<s3Vars, dbVars, migrationVars>>

\* A loop is through.  The grants of the database are only validated now.
NextLoop ==
  /\ phase \in Loops /\ remaining = {}
  /\ IF phase = "grants"
     THEN phase' = "provisioned" /\ UNCHANGED <<remaining, half, nth>>
     ELSE (phase = "groups" => ValidateDB(cfg)) /\ Enter(cfg, After[phase])
  /\ UNCHANGED <<cfg, skip, s3Vars, dbVars, migrationVars>>

\* A call fails, perhaps after it took effect, or what is configured does: the
\* command prints the error and ends where it is.
Fail ==
  /\ Running
  /\ phase' = "failed" /\ remaining' = {} /\ half' = Nothing /\ nth' = 0
  /\ UNCHANGED <<cfg, skip, s3Vars, dbVars, migrationVars>>

\* The command is in a loop with x to do, and its first call of x comes next.
At(loop, x) ==
  /\ phase = loop
  /\ x \in remaining /\ half = Nothing
  /\ UNCHANGED <<cfg, skip, phase, migrationVars>>

\* The second call of x comes next.
AtHalf(loop, x) ==
  /\ phase = loop
  /\ half = x
  /\ UNCHANGED <<cfg, skip, phase, migrationVars>>

Begun(x) == half' = x /\ nth' = 0 /\ UNCHANGED remaining

Done(x) == half' = Nothing /\ nth' = 0 /\ remaining' = remaining \ {x}
-----------------------------------------------------------------------------
(* The object store.                                                       *)

\* A bucket that exists is kept.  Every other answer of the store that is an
\* error is passed over as well.
MakeBucket(b) ==
  /\ At("buckets", b) /\ Begun(b)
  /\ \/ bucket' = [bucket EXCEPT ![b] = IF @ = "absent" THEN "private" ELSE @]
     \/ UNCHANGED bucket
  /\ UNCHANGED <<canned, attached, members, granted, dbVars>>

\* A policy must be defined in the configuration, and the bucket must exist.
SetBucketPolicy(b) ==
  /\ AtHalf("buckets", b) /\ Done(b)
  /\ bucket[b] # "absent"
  /\ \/ cfg.buckets[b] = Nothing /\ bucket' = [bucket EXCEPT ![b] = "private"]
     \/ /\ cfg.buckets[b] \in DOMAIN cfg.policies
        /\ bucket' = [bucket EXCEPT ![b] = cfg.policies[cfg.buckets[b]]]
  /\ UNCHANGED <<canned, attached, members, granted, dbVars>>

AddCannedPolicy(p) ==
  /\ At("policies", p) /\ Done(p)
  /\ canned' = [canned EXCEPT ![p] = cfg.policies[p]]
  /\ UNCHANGED <<bucket, attached, members, granted, dbVars>>

AddUser(u) ==
  /\ At("users", u) /\ Begun(u)
  /\ attached' = [attached EXCEPT ![u] = IF @ = Nothing THEN {} ELSE @]
  /\ UNCHANGED <<bucket, canned, members, granted, dbVars>>

\* All policies of a user are set in one call; they must be known.
SetUserPolicy(u) ==
  /\ AtHalf("users", u) /\ Done(u)
  /\ \A p \in cfg.users[u].policies : canned[p] # Nothing
  /\ attached' = [attached EXCEPT ![u] = cfg.users[u].policies]
  /\ UNCHANGED <<bucket, canned, members, granted, dbVars>>

\* Mutant: the members are those of the last user.
UpdateOneMember(g) ==
  /\ At("groups", g) /\ Begun(g)
  /\ \E u \in MembersOf(cfg, g) : members' = [members EXCEPT ![g] = @ \cup {u}]
  /\ UNCHANGED <<bucket, canned, attached, granted, dbVars>>

\* Members are added; nobody is removed.
UpdateGroupMembers(g) ==
  /\ At("groups", g) /\ Begun(g)
  /\ members' = [members EXCEPT ![g] = @ \cup MembersOf(cfg, g)]
  /\ UNCHANGED <<bucket, canned, attached, granted, dbVars>>

\* The policies of a group are set one by one, in calls each of which replaces
\* what the one before has set.
SetGroupPolicy(g) ==
  /\ AtHalf("groups", g)
  /\ nth < Len(cfg.groups[g])
  /\ canned[cfg.groups[g][nth + 1]] # Nothing
  /\ granted' = [granted EXCEPT ![g] = cfg.groups[g][nth + 1]]
  /\ nth' = nth + 1
  /\ UNCHANGED <<remaining, half, bucket, canned, attached, members, dbVars>>

\* After the last one, or when there is none, comes the next group.
NextGroup(g) ==
  /\ AtHalf("groups", g) /\ Done(g)
  /\ nth = Len(cfg.groups[g])
  /\ UNCHANGED <<s3Vars, dbVars>>
-----------------------------------------------------------------------------
(* The database.                                                           *)

\* A role that exists is left as it is.
CreateRole(r) ==
  /\ At("roles", r) /\ Done(r)
  /\ roles' = [roles EXCEPT ![r] = IF @ = Nothing THEN {} ELSE @]
  /\ UNCHANGED <<s3Vars, owner>>

\* A database needs an owner who exists; one that exists keeps its own.
CreateDatabase(d) ==
  /\ At("databases", d) /\ Done(d)
  /\ cfg.databases[d] # Nothing
  /\ \/ owner[d] # Nothing /\ UNCHANGED owner
     \/ /\ owner[d] = Nothing /\ roles[cfg.databases[d]] # Nothing
        /\ owner' = [owner EXCEPT ![d] = cfg.databases[d]]
  /\ UNCHANGED <<s3Vars, roles>>

\* Whoever is granted something must exist, and the database or the role that it
\* is granted as well; a role of which it is itself a member is refused.  No loop
\* makes tables: whether one is there is left open.
Grant(r, x) ==
  /\ At("grants", <<r, x>>) /\ Done(<<r, x>>)
  /\ roles[r] # Nothing
  /\ x[2] \in Databases => owner[x[2]] # Nothing
  /\ x[2] \in Roles =>
       x[2] # r /\ roles[x[2]] # Nothing /\ <<"MEMBER", r>> \notin roles[x[2]]
  /\ roles' = [roles EXCEPT ![r] = @ \cup {x}]
  /\ UNCHANGED <<s3Vars, owner>>
-----------------------------------------------------------------------------
(* Migrations.                                                             *)

\* `migrate up --all`: every set, in some order.
MigrateAll(c) ==
  /\ ~Running
  /\ cfg' = c /\ phase' = "all" /\ remaining' = c.migrations /\ half' = Nothing /\ nth' = 0
  /\ UNCHANGED <<skip, s3Vars, dbVars, migrationVars>>

\* `migrate up` and `migrate down` of one set, all the way or some steps.
MigrateOne(c, d, direction) ==
  /\ ~Running
  /\ d \in c.migrations
  /\ cfg' = c /\ phase' = direction /\ remaining' = {d} /\ half' = Nothing /\ nth' = 0
  /\ UNCHANGED <<skip, s3Vars, dbVars, migrationVars>>

\* One set at a time, and only of a database that is there and clean.
Migrates(d) ==
  /\ d \in remaining /\ half \in {Nothing, d}
  /\ owner[d] # Nothing /\ ~dirty[d]
  /\ UNCHANGED <<cfg, skip, s3Vars, dbVars>>

\* The database is marked before its next script runs.
BeginScript(d) ==
  /\ Migrates(d)
  /\ \/ phase \in {"all", "up"} /\ version' = [version EXCEPT ![d] = @ + 1]
     \/ phase = "down" /\ version' = [version EXCEPT ![d] = @ - 1]
  /\ version'[d] \in 0..MaxVersion
  /\ dirty' = [dirty EXCEPT ![d] = TRUE]
  /\ half' = d
  /\ UNCHANGED <<phase, remaining, nth>>

EndScript(d) ==
  /\ phase \in {"all", "up", "down"}
  /\ half = d /\ dirty[d]
  /\ dirty' = [dirty EXCEPT ![d] = FALSE]
  /\ UNCHANGED <<cfg, skip, phase, remaining, half, nth, version, s3Vars, dbVars>>

\* Nothing is new, or no more: on to the next set.
NextSet(d) ==
  /\ phase = "all" /\ Migrates(d)
  /\ version[d] = MaxVersion
  /\ Done(d)
  /\ UNCHANGED <<phase, migrationVars>>

Migrated ==
  /\ phase = "all" /\ remaining = {}
  /\ phase' = "migrated"
  /\ UNCHANGED <<cfg, skip, remaining, half, nth, s3Vars, dbVars, migrationVars>>

\* The steps that were asked for are done, or there are no more.
Stepped(d) ==
  /\ phase \in {"up", "down"} /\ Migrates(d)
  /\ phase' = "stepped" /\ Done(d)
  /\ UNCHANGED migrationVars

ProvisionNext ==
  \/ \E c \in Configurations :
       \/ \E s \in BOOLEAN : Provision(c, s)
       \/ MigrateAll(c)
       \/ \E d \in Databases : MigrateOne(c, d, "up") \/ MigrateOne(c, d, "down")
  \/ NextLoop \/ Fail \/ Migrated
  \/ \E b \in Buckets : MakeBucket(b) \/ SetBucketPolicy(b)
  \/ \E p \in Policies : AddCannedPolicy(p)
  \/ \E u \in Users : AddUser(u) \/ SetUserPolicy(u)
  \/ \E g \in Groups : UpdateGroupMembers(g) \/ SetGroupPolicy(g) \/ NextGroup(g)
  \/ \E r \in Roles : CreateRole(r)
  \/ \E d \in Databases :
       \/ CreateDatabase(d)
       \/ BeginScript(d) \/ EndScript(d) \/ NextSet(d) \/ Stepped(d)
  \/ \E r \in Roles, x \in Rights : Grant(r, x)

ProvisionSpec == ProvisionInit /\ [][ProvisionNext]_provisionVars
-----------------------------------------------------------------------------
(* Properties.                                                             *)

\* A run that came to its end with no error has brought both stores to its
\* configuration, whatever earlier runs did, of which configuration, and wherever
\* they failed, between two policies of a group included: buckets, policies and
\* users are as configured, groups have at least their members and the last of
\* their policies, and roles and databases exist with at least what is granted,
\* on databases, on tables and of other roles.
ProvisionApplies ==
  phase = "provisioned" =>
    /\ ~skip =>
         /\ \A b \in DOMAIN cfg.buckets :
              bucket[b] = IF cfg.buckets[b] = Nothing THEN "private"
                          ELSE cfg.policies[cfg.buckets[b]]
         /\ \A p \in DOMAIN cfg.policies : canned[p] = cfg.policies[p]
         /\ \A u \in DOMAIN cfg.users :
              /\ attached[u] = cfg.users[u].policies
              /\ \A g \in cfg.users[u].groups \cap DOMAIN cfg.groups :
                   /\ u \in members[g]
                   /\ cfg.groups[g] # <<>> =>
                        granted[g] = cfg.groups[g][Len(cfg.groups[g])]
    /\ \A r \in DOMAIN cfg.roles : roles[r] # Nothing /\ cfg.roles[r] \subseteq roles[r]
    /\ \A d \in DOMAIN cfg.databases : owner[d] # Nothing

\* `migrate up --all` only ends with no error when every database of a set is at
\* its newest script and none was left half-way by an earlier command.
MigrationApplies ==
  phase = "migrated" =>
    \A d \in cfg.migrations : version[d] = MaxVersion /\ ~dirty[d]

\* What a command that ends with no error says, whatever commands ran or failed
\* before it.
SuccessApplies == ProvisionApplies /\ MigrationApplies
==============================================================================
