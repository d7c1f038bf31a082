---------------------------- MODULE DeployProofs ----------------------------
(***************************************************************************)
(* Proofs about the tools that deploy: `provision`, `lab gen k8s` and the  *)
(* older generator.                                                        *)
(*                                                                         *)
(* Each tool walks over a configuration and may end at any step, and each  *)
(* run starts on what the runs before it left.  The invariants say what is *)
(* done up to where a run is; that it says success then means that it came *)
(* to the end.                                                             *)
(***************************************************************************)
EXTENDS Lab, Generate, Provision, TLAPS
-----------------------------------------------------------------------------
(* Provision: a command that says it succeeded.                            *)

\* What a configuration is made of.
LEMMA ConfigurationTypes ==
  ASSUME NEW c \in Configurations
  PROVE  /\ DOMAIN c.buckets \subseteq Buckets
         /\ \A x \in DOMAIN c.buckets : c.buckets[x] \in Policies \cup {Nothing}
         /\ DOMAIN c.policies \subseteq Policies
         /\ \A x \in DOMAIN c.policies : c.policies[x] \in Contents
         /\ DOMAIN c.users \subseteq Users
         /\ \A x \in DOMAIN c.users :
              c.users[x].policies \subseteq Policies /\ c.users[x].groups \subseteq Groups
         /\ DOMAIN c.groups \subseteq Groups
         /\ \A x \in DOMAIN c.groups : c.groups[x] \in Seq(Policies)
         /\ DOMAIN c.roles \subseteq Roles
         /\ \A x \in DOMAIN c.roles : c.roles[x] \subseteq Rights
         /\ DOMAIN c.databases \subseteq Databases
         /\ \A x \in DOMAIN c.databases : c.databases[x] \in Roles \cup {Nothing}
         /\ c.migrations \subseteq Databases
<1>1. PICK B \in SUBSET Buckets : c.buckets \in [B -> Policies \cup {Nothing}]
  BY ProvisionAssumption
<1>2. PICK P \in SUBSET Policies : c.policies \in [P -> Contents]
  BY ProvisionAssumption
<1>3. PICK U \in SUBSET Users : c.users \in [U -> [policies : SUBSET Policies, groups : SUBSET Groups]]
  BY ProvisionAssumption
<1>4. \A x \in DOMAIN c.roles : x \in Roles /\ c.roles[x] \subseteq Rights
  BY ProvisionAssumption
<1>5. PICK D \in SUBSET Databases : c.databases \in [D -> Roles \cup {Nothing}]
  BY ProvisionAssumption
<1>6. /\ \A x \in DOMAIN c.groups : x \in Groups /\ c.groups[x] \in Seq(Policies)
      /\ c.migrations \subseteq Databases
  BY ProvisionAssumption
<1>7. \A x \in DOMAIN c.users :
        c.users[x].policies \subseteq Policies /\ c.users[x].groups \subseteq Groups
  BY <1>3
<1>8. QED
  BY <1>1, <1>2, <1>3, <1>4, <1>5, <1>6, <1>7

\* Whether a loop is through with an item: it is past the loop, or in it and
\* has the item done.
DbPhases == {"roles", "databases", "grants", "provisioned"}

BucketOf(c, x) == IF c.buckets[x] = Nothing THEN "private" ELSE c.policies[c.buckets[x]]

BucketsInv ==
  ~skip /\ phase \in {"buckets", "policies", "users", "groups"} \cup DbPhases =>
    \A x \in DOMAIN cfg.buckets :
      phase # "buckets" \/ x \notin remaining => bucket[x] = BucketOf(cfg, x)

PoliciesInv ==
  ~skip /\ phase \in {"policies", "users", "groups"} \cup DbPhases =>
    \A x \in DOMAIN cfg.policies :
      phase # "policies" \/ x \notin remaining => canned[x] = cfg.policies[x]

UsersInv ==
  ~skip /\ phase \in {"users", "groups"} \cup DbPhases =>
    \A x \in DOMAIN cfg.users :
      phase # "users" \/ x \notin remaining => attached[x] = cfg.users[x].policies

GroupsInv ==
  ~skip /\ phase \in {"groups"} \cup DbPhases =>
    \A x \in DOMAIN cfg.groups :
      MembersOf(cfg, x) # {} =>
        /\ phase # "groups" \/ x \notin remaining \/ half = x => MembersOf(cfg, x) \subseteq members[x]
        /\ phase = "groups" /\ half = x /\ nth # 0 => granted[x] = cfg.groups[x][nth]
        /\ (phase # "groups" \/ x \notin remaining) /\ cfg.groups[x] # <<>> =>
             granted[x] = cfg.groups[x][Len(cfg.groups[x])]

RolesInv ==
  phase \in DbPhases =>
    \A x \in DOMAIN cfg.roles : phase # "roles" \/ x \notin remaining => roles[x] # Nothing

DatabasesInv ==
  phase \in DbPhases \ {"roles"} =>
    \A x \in DOMAIN cfg.databases : phase # "databases" \/ x \notin remaining => owner[x] # Nothing

GrantsInv ==
  phase \in {"grants", "provisioned"} =>
    \A x \in DOMAIN cfg.roles : \A y \in cfg.roles[x] :
      phase # "grants" \/ <<x, y>> \notin remaining => y \in roles[x]

MigrationsInv ==
  phase \in {"all", "migrated"} =>
    \A x \in cfg.migrations :
      phase # "all" \/ x \notin remaining => version[x] = MaxVersion /\ ~dirty[x]

\* What is left of a loop is of the configuration.
RemainingInv == phase \in Loops => remaining \subseteq Items(cfg, phase)

ProvisionInv ==
  /\ ProvisionTypeOK /\ RemainingInv
  /\ BucketsInv /\ PoliciesInv /\ UsersInv /\ GroupsInv
  /\ RolesInv /\ DatabasesInv /\ GrantsInv
  /\ MigrationsInv

-----------------------------------------------------------------------------
\* A command begins, fails, or comes to its next loop.
LEMMA BeginSteps ==
  ASSUME ProvisionInv, NEW c \in Configurations,
         (\E s \in BOOLEAN : Provision(c, s)) \/ MigrateAll(c)
           \/ \E d \in Databases : MigrateOne(c, d, "up") \/ MigrateOne(c, d, "down")
  PROVE  ProvisionInv'
<1>1. CASE \E s \in BOOLEAN : Provision(c, s)
  <2>1. PICK s \in BOOLEAN : Provision(c, s)
    BY <1>1
  <2>2. /\ cfg' = c /\ skip' = s /\ half' = Nothing /\ nth' = 0
        /\ \/ s /\ phase' = "roles" /\ remaining' = Items(c, "roles")
           \/ ~s /\ phase' = "buckets" /\ remaining' = Items(c, "buckets")
        /\ UNCHANGED <<s3Vars, dbVars, migrationVars>>
    BY <2>1 DEF Provision, Enter
  <2>3. ProvisionTypeOK' /\ RemainingInv'
    BY <2>2 DEF ProvisionInv, ProvisionTypeOK, RemainingInv, s3Vars, dbVars, migrationVars, Loops, After
  <2>4. Items(c, "roles") = DOMAIN c.roles /\ Items(c, "buckets") = DOMAIN c.buckets
    BY DEF Items
  <2>5. QED
    BY <2>2, <2>3, <2>4
    DEF ProvisionInv, BucketsInv, PoliciesInv, UsersInv, GroupsInv, RolesInv, DatabasesInv, GrantsInv,
        MigrationsInv, DbPhases
<1>2. ASSUME NEW up \in {"all", "up", "down"}, phase' = up, cfg' = c, half' = Nothing, nth' = 0,
             UNCHANGED <<skip, s3Vars, dbVars, migrationVars>>,
             up = "all" => remaining' = c.migrations
      PROVE  ProvisionInv'
  <2>1. ProvisionTypeOK' /\ RemainingInv'
    BY <1>2 DEF ProvisionInv, ProvisionTypeOK, RemainingInv, Loops, After, s3Vars, dbVars, migrationVars
  <2>2. QED
    BY <1>2, <2>1
    DEF ProvisionInv, BucketsInv, PoliciesInv, UsersInv, GroupsInv, RolesInv, DatabasesInv, GrantsInv,
        MigrationsInv, DbPhases
<1>3. CASE MigrateAll(c)
  BY <1>2, <1>3 DEF MigrateAll
<1>4. ASSUME NEW d \in Databases, MigrateOne(c, d, "up") \/ MigrateOne(c, d, "down")
      PROVE  ProvisionInv'
  BY <1>2, <1>4 DEF MigrateOne
<1>5. QED
  BY <1>1, <1>3, <1>4

LEMMA FailStep ==
  ASSUME ProvisionInv, Fail
  PROVE  ProvisionInv'
<1>1. ProvisionTypeOK' /\ RemainingInv'
  BY DEF Fail, ProvisionInv, ProvisionTypeOK, RemainingInv, Loops, After, s3Vars, dbVars, migrationVars,
         Results
<1>2. QED
  BY <1>1
  DEF Fail, BucketsInv, PoliciesInv, UsersInv, GroupsInv, RolesInv, DatabasesInv, GrantsInv,
      MigrationsInv, DbPhases, ProvisionInv

LEMMA NextLoopStep ==
  ASSUME ProvisionInv, NextLoop
  PROVE  ProvisionInv'
<1>1. phase \in Loops /\ remaining = {} /\ UNCHANGED <<cfg, skip, s3Vars, dbVars, migrationVars>>
  BY DEF NextLoop
<1>2. half = Nothing
  BY <1>1 DEF ProvisionInv, ProvisionTypeOK
<1>3. Loops = {"buckets", "policies", "users", "groups", "roles", "databases", "grants"}
  BY DEF Loops, After
<1>4. /\ half' = Nothing /\ nth' \in Nat
      /\ \/ phase = "buckets" /\ phase' = "policies" /\ remaining' = Items(cfg, "policies")
         \/ phase = "policies" /\ phase' = "users" /\ remaining' = Items(cfg, "users")
         \/ phase = "users" /\ phase' = "groups" /\ remaining' = Items(cfg, "groups")
         \/ phase = "groups" /\ phase' = "roles" /\ remaining' = Items(cfg, "roles")
         \/ phase = "roles" /\ phase' = "databases" /\ remaining' = Items(cfg, "databases")
         \/ phase = "databases" /\ phase' = "grants" /\ remaining' = Items(cfg, "grants")
         \/ phase = "grants" /\ phase' = "provisioned"
  BY <1>1, <1>2, <1>3 DEF NextLoop, Enter, After, ProvisionInv, ProvisionTypeOK
<1>5. ProvisionTypeOK' /\ RemainingInv'
  BY <1>1, <1>3, <1>4 DEF ProvisionInv, ProvisionTypeOK, RemainingInv, s3Vars, dbVars, migrationVars, Results
<1>6. /\ Items(cfg, "policies") = DOMAIN cfg.policies
      /\ Items(cfg, "users") = DOMAIN cfg.users
      /\ Items(cfg, "groups") = {g \in DOMAIN cfg.groups : MembersOf(cfg, g) # {}}
      /\ Items(cfg, "roles") = DOMAIN cfg.roles
      /\ Items(cfg, "databases") = DOMAIN cfg.databases
      /\ Items(cfg, "grants") = UNION {{r} \X cfg.roles[r] : r \in DOMAIN cfg.roles}
  BY DEF Items
<1>7. cfg' = cfg /\ skip' = skip /\ bucket' = bucket /\ canned' = canned /\ attached' = attached
        /\ members' = members /\ granted' = granted /\ roles' = roles /\ owner' = owner
        /\ version' = version /\ dirty' = dirty
  BY <1>1 DEF s3Vars, dbVars, migrationVars
<1>8. BucketsInv' /\ PoliciesInv' /\ UsersInv'
  BY <1>1, <1>4, <1>6, <1>7 DEF ProvisionInv, BucketsInv, PoliciesInv, UsersInv, DbPhases, BucketOf
<1>9. GroupsInv'
  <2>1. half' = Nothing /\ \A g \in DOMAIN cfg.groups : g # Nothing
    BY <1>4, ConfigurationTypes, NothingAssumption DEF ProvisionInv, ProvisionTypeOK
  <2>2. QED
    BY <1>1, <1>4, <1>6, <1>7, <2>1 DEF ProvisionInv, GroupsInv, DbPhases, MembersOf
<1>10. RolesInv' /\ DatabasesInv' /\ GrantsInv' /\ MigrationsInv'
  <2>1. \A x \in DOMAIN cfg.roles : \A y \in cfg.roles[x] : <<x, y>> \in Items(cfg, "grants")
    BY <1>6
  <2>2. QED
    BY <1>1, <1>4, <1>6, <1>7, <2>1
    DEF ProvisionInv, RolesInv, DatabasesInv, GrantsInv, MigrationsInv, DbPhases
<1>11. QED
  BY <1>5, <1>8, <1>9, <1>10 DEF ProvisionInv

\* A call of the object store: what it does not change keeps what it is.
LEMMA BucketSteps ==
  ASSUME ProvisionInv, NEW b \in Buckets, MakeBucket(b) \/ SetBucketPolicy(b)
  PROVE  ProvisionInv'
<1>1. /\ phase = "buckets" /\ b \in Buckets
      /\ UNCHANGED <<cfg, skip, phase, canned, attached, members, granted, roles, owner, version, dirty>>
  BY DEF MakeBucket, SetBucketPolicy, At, AtHalf, dbVars, migrationVars
<1>2. CASE MakeBucket(b)
  <2>1. /\ half = Nothing /\ half' = b /\ nth' = 0 /\ b \in remaining /\ remaining' = remaining
        /\ bucket' = [bucket EXCEPT ![b] = IF @ = "absent" THEN "private" ELSE @] \/ bucket' = bucket
    BY <1>2 DEF MakeBucket, At, Begun
  <2>2. ProvisionTypeOK' /\ RemainingInv'
    BY <1>1, <2>1 DEF ProvisionInv, ProvisionTypeOK, RemainingInv
  <2>3. BucketsInv'
    <3>1. \A x \in Buckets : x # b => bucket'[x] = bucket[x]
      BY <2>1 DEF ProvisionInv, ProvisionTypeOK
    <3>2. DOMAIN cfg.buckets \subseteq Buckets
      BY ConfigurationTypes DEF ProvisionInv, ProvisionTypeOK
    <3>3. QED
      BY <1>1, <2>1, <3>1, <3>2 DEF ProvisionInv, BucketsInv, BucketOf
  <2>4. QED
    BY <1>1, <2>2, <2>3
    DEF ProvisionInv, PoliciesInv, UsersInv, GroupsInv, RolesInv, DatabasesInv, GrantsInv,
        MigrationsInv, DbPhases
<1>3. CASE SetBucketPolicy(b)
  <2>1. /\ half' = Nothing /\ nth' = 0 /\ remaining' = remaining \ {b}
        /\ \/ cfg.buckets[b] = Nothing /\ bucket' = [bucket EXCEPT ![b] = "private"]
           \/ /\ cfg.buckets[b] \in DOMAIN cfg.policies
              /\ bucket' = [bucket EXCEPT ![b] = cfg.policies[cfg.buckets[b]]]
    BY <1>3 DEF SetBucketPolicy, AtHalf, Done
  <2>2. /\ cfg \in Configurations
        /\ \A x \in DOMAIN cfg.policies : cfg.policies[x] \in Contents
        /\ DOMAIN cfg.policies \subseteq Policies
    BY ConfigurationTypes DEF ProvisionInv, ProvisionTypeOK
  <2>3. ProvisionTypeOK' /\ RemainingInv'
    BY <1>1, <2>1, <2>2 DEF ProvisionInv, ProvisionTypeOK, RemainingInv
  <2>4. BucketsInv'
    <3>1. bucket'[b] = BucketOf(cfg, b)
      BY <2>1, <2>2, NothingAssumption DEF ProvisionInv, ProvisionTypeOK, BucketOf
    <3>2. \A x \in Buckets : x # b => bucket'[x] = bucket[x]
      BY <2>1 DEF ProvisionInv, ProvisionTypeOK
    <3>3. DOMAIN cfg.buckets \subseteq Buckets
      BY <2>2, ConfigurationTypes
    <3>4. QED
      BY <1>1, <2>1, <3>1, <3>2, <3>3 DEF ProvisionInv, BucketsInv, BucketOf
  <2>5. QED
    BY <1>1, <2>3, <2>4
    DEF ProvisionInv, PoliciesInv, UsersInv, GroupsInv, RolesInv, DatabasesInv, GrantsInv,
        MigrationsInv, DbPhases
<1>4. QED
  BY <1>2, <1>3

LEMMA PolicyStep ==
  ASSUME ProvisionInv, NEW p \in Policies, AddCannedPolicy(p)
  PROVE  ProvisionInv'
<1>1. /\ phase = "policies" /\ p \in remaining /\ half = Nothing
      /\ UNCHANGED <<cfg, skip, phase, bucket, attached, members, granted, roles, owner, version, dirty>>
      /\ half' = Nothing /\ nth' = 0 /\ remaining' = remaining \ {p}
      /\ canned' = [canned EXCEPT ![p] = cfg.policies[p]]
  BY DEF AddCannedPolicy, At, Done, dbVars, migrationVars
<1>2. /\ cfg \in Configurations /\ DOMAIN cfg.policies \subseteq Policies
      /\ \A x \in DOMAIN cfg.policies : cfg.policies[x] \in Contents
  BY ConfigurationTypes DEF ProvisionInv, ProvisionTypeOK
<1>3. p \in DOMAIN cfg.policies
  <2>1. "policies" \in Loops /\ Items(cfg, "policies") = DOMAIN cfg.policies
    BY DEF Loops, After, Items
  <2>2. QED
    BY <1>1, <2>1 DEF ProvisionInv, RemainingInv
<1>4. ProvisionTypeOK' /\ RemainingInv'
  BY <1>1, <1>2, <1>3 DEF ProvisionInv, ProvisionTypeOK, RemainingInv
<1>5. /\ canned'[p] = cfg.policies[p]
      /\ \A x \in Policies : x # p => canned'[x] = canned[x]
  BY <1>1 DEF ProvisionInv, ProvisionTypeOK
<1>6. PoliciesInv'
  BY <1>1, <1>2, <1>5 DEF ProvisionInv, PoliciesInv
<1>7. QED
  BY <1>1, <1>4, <1>6
  DEF ProvisionInv, BucketsInv, UsersInv, GroupsInv, RolesInv, DatabasesInv, GrantsInv,
      MigrationsInv, DbPhases, BucketOf

LEMMA UserSteps ==
  ASSUME ProvisionInv, NEW u \in Users, AddUser(u) \/ SetUserPolicy(u)
  PROVE  ProvisionInv'
<1>1. /\ phase = "users"
      /\ UNCHANGED <<cfg, skip, phase, bucket, canned, members, granted, roles, owner, version, dirty>>
  BY DEF AddUser, SetUserPolicy, At, AtHalf, dbVars, migrationVars
<1>2. /\ cfg \in Configurations /\ DOMAIN cfg.users \subseteq Users
      /\ \A x \in DOMAIN cfg.users : cfg.users[x].policies \subseteq Policies
  BY ConfigurationTypes DEF ProvisionInv, ProvisionTypeOK
<1>3. remaining \subseteq DOMAIN cfg.users
  <2>1. "users" \in Loops /\ Items(cfg, "users") = DOMAIN cfg.users
    BY DEF Loops, After, Items
  <2>2. QED
    BY <1>1, <2>1 DEF ProvisionInv, RemainingInv
<1>4. CASE AddUser(u)
  <2>1. /\ u \in remaining /\ half' = u /\ nth' = 0 /\ remaining' = remaining
        /\ attached' = [attached EXCEPT ![u] = IF @ = Nothing THEN {} ELSE @]
    BY <1>4 DEF AddUser, At, Begun
  <2>2. ProvisionTypeOK' /\ RemainingInv'
    BY <1>1, <2>1 DEF ProvisionInv, ProvisionTypeOK, RemainingInv
  <2>3. \A x \in Users : x # u => attached'[x] = attached[x]
    BY <2>1 DEF ProvisionInv, ProvisionTypeOK
  <2>4. UsersInv'
    BY <1>1, <1>2, <2>1, <2>3 DEF ProvisionInv, UsersInv
  <2>5. QED
    BY <1>1, <2>2, <2>4
    DEF ProvisionInv, BucketsInv, PoliciesInv, GroupsInv, RolesInv, DatabasesInv, GrantsInv,
        MigrationsInv, DbPhases, BucketOf
<1>5. CASE SetUserPolicy(u)
  <2>1. /\ half = u /\ half' = Nothing /\ nth' = 0 /\ remaining' = remaining \ {u}
        /\ attached' = [attached EXCEPT ![u] = cfg.users[u].policies]
    BY <1>5 DEF SetUserPolicy, AtHalf, Done
  <2>2. u \in DOMAIN cfg.users
    BY <1>3, <2>1, NothingAssumption DEF ProvisionInv, ProvisionTypeOK
  <2>3. ProvisionTypeOK' /\ RemainingInv'
    BY <1>1, <1>2, <2>1, <2>2 DEF ProvisionInv, ProvisionTypeOK, RemainingInv
  <2>4. /\ attached'[u] = cfg.users[u].policies
        /\ \A x \in Users : x # u => attached'[x] = attached[x]
    BY <2>1 DEF ProvisionInv, ProvisionTypeOK
  <2>5. UsersInv'
    BY <1>1, <1>2, <2>1, <2>4 DEF ProvisionInv, UsersInv
  <2>6. QED
    BY <1>1, <2>3, <2>5
    DEF ProvisionInv, BucketsInv, PoliciesInv, GroupsInv, RolesInv, DatabasesInv, GrantsInv,
        MigrationsInv, DbPhases, BucketOf
<1>6. QED
  BY <1>4, <1>5

LEMMA GroupSteps ==
  ASSUME ProvisionInv, NEW g \in Groups,
         UpdateGroupMembers(g) \/ SetGroupPolicy(g) \/ NextGroup(g)
  PROVE  ProvisionInv'
<1>1. /\ phase = "groups"
      /\ UNCHANGED <<cfg, skip, phase, bucket, canned, attached, roles, owner, version, dirty>>
  BY DEF UpdateGroupMembers, SetGroupPolicy, NextGroup, At, AtHalf, s3Vars, dbVars, migrationVars
<1>2. /\ cfg \in Configurations /\ DOMAIN cfg.users \subseteq Users /\ DOMAIN cfg.groups \subseteq Groups
      /\ \A x \in DOMAIN cfg.groups : cfg.groups[x] \in Seq(Policies)
  BY ConfigurationTypes DEF ProvisionInv, ProvisionTypeOK
<1>3. remaining \subseteq DOMAIN cfg.groups
  <2>1. "groups" \in Loops /\ Items(cfg, "groups") \subseteq DOMAIN cfg.groups
    BY DEF Loops, After, Items
  <2>2. QED
    BY <1>1, <2>1 DEF ProvisionInv, RemainingInv
<1>4. \A x : MembersOf(cfg, x) \subseteq Users
  BY <1>2 DEF MembersOf
<1>5. CASE UpdateGroupMembers(g)
  <2>1. /\ g \in remaining /\ half = Nothing /\ half' = g /\ nth' = 0 /\ remaining' = remaining
        /\ members' = [members EXCEPT ![g] = @ \cup MembersOf(cfg, g)] /\ granted' = granted
    BY <1>5 DEF UpdateGroupMembers, At, Begun
  <2>2. ProvisionTypeOK' /\ RemainingInv'
    BY <1>1, <1>4, <2>1 DEF ProvisionInv, ProvisionTypeOK, RemainingInv
  <2>3. /\ MembersOf(cfg, g) \subseteq members'[g]
        /\ \A x \in Groups : members[x] \subseteq members'[x]
    BY <2>1 DEF ProvisionInv, ProvisionTypeOK
  <2>4. GroupsInv'
    <3>1. ASSUME ~skip, NEW x \in DOMAIN cfg.groups, MembersOf(cfg, x) # {}
          PROVE  /\ x \notin remaining' \/ half' = x => MembersOf(cfg, x) \subseteq members'[x]
                 /\ half' = x /\ nth' # 0 => granted'[x] = cfg.groups[x][nth']
                 /\ x \notin remaining' /\ cfg.groups[x] # <<>> =>
                      granted'[x] = cfg.groups[x][Len(cfg.groups[x])]
      BY <1>1, <1>2, <2>1, <2>3, <3>1 DEF ProvisionInv, GroupsInv
    <3>2. QED
      BY <1>1, <3>1 DEF GroupsInv, MembersOf
  <2>5. QED
    BY <1>1, <2>2, <2>4
    DEF ProvisionInv, BucketsInv, PoliciesInv, UsersInv, RolesInv, DatabasesInv, GrantsInv,
        MigrationsInv, DbPhases, BucketOf
<1>6. CASE SetGroupPolicy(g)
  <2> DEFINE ps == cfg.groups[g]
  <2>1. /\ half = g /\ half' = half /\ remaining' = remaining /\ members' = members
        /\ nth < Len(ps) /\ nth' = nth + 1
        /\ granted' = [granted EXCEPT ![g] = ps[nth + 1]]
    BY <1>6 DEF SetGroupPolicy, AtHalf
  <2>2. g \in DOMAIN cfg.groups /\ g \in remaining
    BY <1>3, <2>1, NothingAssumption DEF ProvisionInv, ProvisionTypeOK
  <2>3. nth' \in Nat /\ nth' # 0 /\ ps[nth'] \in Policies
    <3>1. ps \in Seq(Policies) /\ nth \in Nat
      BY <1>2, <2>2 DEF ProvisionInv, ProvisionTypeOK
    <3>2. nth + 1 \in 1 .. Len(ps)
      BY <2>1, <3>1
    <3>3. QED
      BY <2>1, <3>1, <3>2
  <2> HIDE DEF ps
  <2>4. ProvisionTypeOK' /\ RemainingInv'
    BY <1>1, <2>1, <2>3 DEF ProvisionInv, ProvisionTypeOK, RemainingInv
  <2>5. /\ granted'[g] = ps[nth']
        /\ \A x \in Groups : x # g => granted'[x] = granted[x]
    BY <2>1 DEF ProvisionInv, ProvisionTypeOK
  <2>6. GroupsInv'
    <3>1. ASSUME ~skip, NEW x \in DOMAIN cfg.groups, MembersOf(cfg, x) # {}
          PROVE  /\ x \notin remaining' \/ half' = x => MembersOf(cfg, x) \subseteq members'[x]
                 /\ half' = x /\ nth' # 0 => granted'[x] = cfg.groups[x][nth']
                 /\ x \notin remaining' /\ cfg.groups[x] # <<>> =>
                      granted'[x] = cfg.groups[x][Len(cfg.groups[x])]
      <4>1. x \in Groups
        BY <1>2
      <4>2. QED
        BY <1>1, <2>1, <2>2, <2>5, <3>1, <4>1 DEF ProvisionInv, GroupsInv, ps
    <3>2. QED
      BY <1>1, <3>1 DEF GroupsInv, MembersOf
  <2>7. QED
    BY <1>1, <2>4, <2>6
    DEF ProvisionInv, BucketsInv, PoliciesInv, UsersInv, RolesInv, DatabasesInv, GrantsInv,
        MigrationsInv, DbPhases, BucketOf
<1>7. CASE NextGroup(g)
  <2>1. /\ half = g /\ half' = Nothing /\ nth' = 0 /\ remaining' = remaining \ {g}
        /\ members' = members /\ granted' = granted /\ nth = Len(cfg.groups[g])
    BY <1>7 DEF NextGroup, AtHalf, Done, s3Vars
  <2>2. ProvisionTypeOK' /\ RemainingInv'
    BY <1>1, <2>1 DEF ProvisionInv, ProvisionTypeOK, RemainingInv
  <2>3. GroupsInv'
    <3>1. ASSUME ~skip, NEW x \in DOMAIN cfg.groups, MembersOf(cfg, x) # {}
          PROVE  /\ x \notin remaining' \/ half' = x => MembersOf(cfg, x) \subseteq members'[x]
                 /\ half' = x /\ nth' # 0 => granted'[x] = cfg.groups[x][nth']
                 /\ x \notin remaining' /\ cfg.groups[x] # <<>> =>
                      granted'[x] = cfg.groups[x][Len(cfg.groups[x])]
      <4>1. x # Nothing /\ (cfg.groups[x] # <<>> => Len(cfg.groups[x]) # 0)
        BY <1>2, NothingAssumption
      <4>2. QED
        BY <1>1, <2>1, <3>1, <4>1 DEF ProvisionInv, GroupsInv
    <3>2. QED
      BY <1>1, <3>1 DEF GroupsInv, MembersOf
  <2>4. QED
    BY <1>1, <2>2, <2>3
    DEF ProvisionInv, BucketsInv, PoliciesInv, UsersInv, RolesInv, DatabasesInv, GrantsInv,
        MigrationsInv, DbPhases, BucketOf
<1>8. QED
  BY <1>5, <1>6, <1>7

\* A call of the database; grants only add.
LEMMA RoleStep ==
  ASSUME ProvisionInv, NEW r \in Roles, CreateRole(r)
  PROVE  ProvisionInv'
<1>1. /\ phase = "roles" /\ half' = Nothing /\ nth' = 0 /\ remaining' = remaining \ {r}
      /\ roles' = [roles EXCEPT ![r] = IF @ = Nothing THEN {} ELSE @]
      /\ UNCHANGED <<cfg, skip, phase, bucket, canned, attached, members, granted, owner, version, dirty>>
  BY DEF CreateRole, At, Done, s3Vars, migrationVars
<1>2. cfg \in Configurations /\ DOMAIN cfg.roles \subseteq Roles
  BY ConfigurationTypes DEF ProvisionInv, ProvisionTypeOK
<1>3. ProvisionTypeOK' /\ RemainingInv'
  BY <1>1 DEF ProvisionInv, ProvisionTypeOK, RemainingInv
<1>4. {} # Nothing
  BY NothingAssumption
<1>5. /\ roles'[r] # Nothing
      /\ \A x \in Roles : x # r => roles'[x] = roles[x]
  BY <1>1, <1>4 DEF ProvisionInv, ProvisionTypeOK
<1>6. RolesInv'
  BY <1>1, <1>2, <1>5 DEF ProvisionInv, RolesInv
<1>7. QED
  BY <1>1, <1>3, <1>6
  DEF ProvisionInv, BucketsInv, PoliciesInv, UsersInv, GroupsInv, DatabasesInv, GrantsInv,
      MigrationsInv, DbPhases, BucketOf, MembersOf

LEMMA DatabaseStep ==
  ASSUME ProvisionInv, NEW d \in Databases, CreateDatabase(d)
  PROVE  ProvisionInv'
<1>1. /\ phase = "databases" /\ d \in remaining
      /\ half' = Nothing /\ nth' = 0 /\ remaining' = remaining \ {d}
      /\ UNCHANGED <<cfg, skip, phase, bucket, canned, attached, members, granted, roles, version, dirty>>
      /\ cfg.databases[d] # Nothing
      /\ \/ owner[d] # Nothing /\ owner' = owner
         \/ owner[d] = Nothing /\ owner' = [owner EXCEPT ![d] = cfg.databases[d]]
  BY DEF CreateDatabase, At, Done, s3Vars, migrationVars
<1>2. /\ cfg \in Configurations /\ DOMAIN cfg.databases \subseteq Databases
      /\ \A x \in DOMAIN cfg.databases : cfg.databases[x] \in Roles \cup {Nothing}
  BY ConfigurationTypes DEF ProvisionInv, ProvisionTypeOK
<1>3. d \in DOMAIN cfg.databases
  <2>1. "databases" \in Loops /\ Items(cfg, "databases") = DOMAIN cfg.databases
    BY DEF Loops, After, Items
  <2>2. QED
    BY <1>1, <2>1 DEF ProvisionInv, RemainingInv
<1>4. ProvisionTypeOK' /\ RemainingInv'
  BY <1>1, <1>2, <1>3 DEF ProvisionInv, ProvisionTypeOK, RemainingInv
<1>5. /\ owner'[d] # Nothing
      /\ \A x \in Databases : x # d => owner'[x] = owner[x]
  BY <1>1 DEF ProvisionInv, ProvisionTypeOK
<1>6. DatabasesInv'
  BY <1>1, <1>2, <1>5 DEF ProvisionInv, DatabasesInv, DbPhases
<1>7. QED
  BY <1>1, <1>4, <1>6
  DEF ProvisionInv, BucketsInv, PoliciesInv, UsersInv, GroupsInv, RolesInv, GrantsInv,
      MigrationsInv, DbPhases, BucketOf, MembersOf

LEMMA GrantStep ==
  ASSUME ProvisionInv, NEW r \in Roles, NEW y \in Rights, Grant(r, y)
  PROVE  ProvisionInv'
<1>1. /\ phase = "grants" /\ half' = Nothing /\ nth' = 0 /\ remaining' = remaining \ {<<r, y>>}
      /\ roles' = [roles EXCEPT ![r] = @ \cup {y}] /\ roles[r] # Nothing
      /\ UNCHANGED <<cfg, skip, phase, bucket, canned, attached, members, granted, owner, version, dirty>>
  BY DEF Grant, At, Done, s3Vars, migrationVars
<1>2. cfg \in Configurations /\ DOMAIN cfg.roles \subseteq Roles
  BY ConfigurationTypes DEF ProvisionInv, ProvisionTypeOK
<1>3. roles[r] \cup {y} \in SUBSET Rights
  <2>1. roles[r] \in SUBSET Rights
    BY <1>1 DEF ProvisionInv, ProvisionTypeOK
  <2>2. QED
    BY <2>1
<1>4. ProvisionTypeOK' /\ RemainingInv'
  BY <1>1, <1>3 DEF ProvisionInv, ProvisionTypeOK, RemainingInv
<1>5. /\ roles'[r] = roles[r] \cup {y} /\ roles'[r] # Nothing
      /\ \A x \in Roles : x # r => roles'[x] = roles[x]
  BY <1>1, <1>3, NothingAssumption DEF ProvisionInv, ProvisionTypeOK
<1>6. RolesInv'
  BY <1>1, <1>2, <1>5 DEF ProvisionInv, RolesInv, DbPhases
<1>7. GrantsInv'
  BY <1>1, <1>2, <1>5 DEF ProvisionInv, GrantsInv
<1>8. QED
  BY <1>1, <1>4, <1>6, <1>7
  DEF ProvisionInv, BucketsInv, PoliciesInv, UsersInv, GroupsInv, DatabasesInv,
      MigrationsInv, DbPhases, BucketOf, MembersOf

\* The steps of migrations touch nothing else.
LEMMA MigrationSteps ==
  ASSUME ProvisionInv,
         (\E d \in Databases : BeginScript(d) \/ EndScript(d) \/ NextSet(d) \/ Stepped(d)) \/ Migrated
  PROVE  ProvisionInv'
<1>1. ASSUME ProvisionTypeOK', MigrationsInv',
             UNCHANGED <<cfg, skip, bucket, canned, attached, members, granted, roles, owner>>,
             phase' \in {"all", "up", "down", "migrated", "stepped"}
      PROVE  ProvisionInv'
  BY <1>1
  DEF ProvisionInv, RemainingInv, Loops, After, BucketsInv, PoliciesInv, UsersInv, GroupsInv, RolesInv,
      DatabasesInv, GrantsInv, DbPhases
<1>2. ASSUME NEW d \in Databases, BeginScript(d) PROVE ProvisionInv'
  <2>1. /\ phase' = phase /\ remaining' = remaining /\ half' = d /\ d \in remaining
        /\ phase \in {"all", "up", "down"} /\ dirty' = [dirty EXCEPT ![d] = TRUE]
        /\ \/ version' = [version EXCEPT ![d] = @ + 1] \/ version' = [version EXCEPT ![d] = @ - 1]
        /\ version'[d] \in 0 .. MaxVersion
        /\ UNCHANGED <<cfg, skip, nth, bucket, canned, attached, members, granted, roles, owner>>
    BY <1>2 DEF BeginScript, Migrates, s3Vars, dbVars
  <2>2. /\ version' \in [Databases -> 0 .. MaxVersion] /\ dirty' \in [Databases -> BOOLEAN]
        /\ \A x \in Databases : x # d => version'[x] = version[x] /\ dirty'[x] = dirty[x]
    BY <2>1 DEF ProvisionInv, ProvisionTypeOK
  <2>3. ProvisionTypeOK'
    BY <2>1, <2>2 DEF ProvisionInv, ProvisionTypeOK
  <2>4. MigrationsInv'
    BY <2>1, <2>2, ConfigurationTypes DEF ProvisionInv, MigrationsInv, ProvisionTypeOK
  <2>5. QED
    BY <1>1, <2>1, <2>3, <2>4
<1>3. ASSUME NEW d \in Databases, EndScript(d) PROVE ProvisionInv'
  <2>1. /\ phase \in {"all", "up", "down"} /\ dirty' = [dirty EXCEPT ![d] = FALSE]
        /\ UNCHANGED <<cfg, skip, phase, remaining, half, nth, version, bucket, canned, attached,
                       members, granted, roles, owner>>
    BY <1>3 DEF EndScript, s3Vars, dbVars
  <2>2. ProvisionTypeOK'
    BY <2>1 DEF ProvisionInv, ProvisionTypeOK
  <2>3. \A x \in Databases : dirty'[x] => dirty[x]
    BY <2>1 DEF ProvisionInv, ProvisionTypeOK
  <2>4. MigrationsInv'
    BY <2>1, <2>3, ConfigurationTypes DEF ProvisionInv, MigrationsInv, ProvisionTypeOK
  <2>5. QED
    BY <1>1, <2>1, <2>2, <2>4
<1>4. ASSUME NEW d \in Databases, NextSet(d) PROVE ProvisionInv'
  <2>1. /\ phase = "all" /\ version[d] = MaxVersion /\ ~dirty[d]
        /\ half' = Nothing /\ nth' = 0 /\ remaining' = remaining \ {d}
        /\ UNCHANGED <<cfg, skip, phase, version, dirty, bucket, canned, attached, members,
                       granted, roles, owner>>
    BY <1>4 DEF NextSet, Migrates, Done, s3Vars, dbVars, migrationVars
  <2>2. ProvisionTypeOK'
    BY <2>1 DEF ProvisionInv, ProvisionTypeOK
  <2>3. MigrationsInv'
    BY <2>1 DEF ProvisionInv, MigrationsInv
  <2>4. QED
    BY <1>1, <2>1, <2>2, <2>3
<1>5. ASSUME NEW d \in Databases, Stepped(d) PROVE ProvisionInv'
  <2>1. /\ phase' = "stepped" /\ half' = Nothing /\ nth' = 0
        /\ UNCHANGED <<cfg, skip, version, dirty, bucket, canned, attached, members, granted, roles, owner>>
    BY <1>5 DEF Stepped, Migrates, Done, s3Vars, dbVars, migrationVars
  <2>2. ProvisionTypeOK' /\ MigrationsInv'
    BY <2>1 DEF ProvisionInv, ProvisionTypeOK, MigrationsInv, Results
  <2>3. QED
    BY <1>1, <2>1, <2>2
<1>6. CASE Migrated
  <2>1. /\ phase = "all" /\ remaining = {} /\ phase' = "migrated"
        /\ UNCHANGED <<cfg, skip, remaining, half, nth, version, dirty, bucket, canned, attached,
                       members, granted, roles, owner>>
    BY <1>6 DEF Migrated, s3Vars, dbVars, migrationVars
  <2>2. ProvisionTypeOK' /\ MigrationsInv'
    BY <2>1 DEF ProvisionInv, ProvisionTypeOK, MigrationsInv, Results
  <2>3. QED
    BY <1>1, <2>1, <2>2
<1>7. QED
  BY <1>2, <1>3, <1>4, <1>5, <1>6

LEMMA ProvisionStart == ProvisionInit => ProvisionInv
<1> SUFFICES ASSUME ProvisionInit PROVE ProvisionInv
  OBVIOUS
<1>1. 0 \in 0 .. MaxVersion
  BY NothingAssumption
<1>2. ProvisionTypeOK
  BY <1>1 DEF ProvisionInit, ProvisionTypeOK, Results
<1>3. phase = "none" /\ phase \notin Loops
  BY DEF ProvisionInit, Loops, After
<1>4. QED
  BY <1>2, <1>3
  DEF ProvisionInv, RemainingInv, BucketsInv, PoliciesInv, UsersInv, GroupsInv, RolesInv, DatabasesInv,
      GrantsInv, MigrationsInv, DbPhases

LEMMA ProvisionStep == ProvisionInv /\ [ProvisionNext]_provisionVars => ProvisionInv'
<1> SUFFICES ASSUME ProvisionInv, [ProvisionNext]_provisionVars PROVE ProvisionInv'
  OBVIOUS
<1>1. CASE UNCHANGED provisionVars
  BY <1>1
  DEF provisionVars, s3Vars, dbVars, migrationVars, ProvisionInv, ProvisionTypeOK, RemainingInv,
      BucketsInv, PoliciesInv, UsersInv, GroupsInv, RolesInv, DatabasesInv, GrantsInv, MigrationsInv,
      BucketOf, MembersOf
<1>2. CASE ProvisionNext
  BY <1>2, BeginSteps, FailStep, NextLoopStep, BucketSteps, PolicyStep, UserSteps, GroupSteps, RoleStep,
     DatabaseStep, GrantStep, MigrationSteps DEF ProvisionNext
<1>3. QED
  BY <1>1, <1>2

\* The types of the provisioning tool's stores and of its loops.
THEOREM ProvisionTypeCorrect == ProvisionSpec => []ProvisionTypeOK
<1>1. ProvisionInv => ProvisionTypeOK
  BY DEF ProvisionInv
<1>2. QED
  BY <1>1, ProvisionStart, ProvisionStep, PTL DEF ProvisionSpec

\* A command that reports a success has brought both stores, or all databases,
\* to what its configuration says, whatever ran or failed before it
\* (cmd/provision and pkg/provision).
THEOREM SuccessAppliesTheorem == ProvisionSpec => []SuccessApplies
<1>1. ProvisionInv => SuccessApplies
  <2> SUFFICES ASSUME ProvisionInv PROVE ProvisionApplies /\ MigrationApplies
    BY DEF SuccessApplies
  <2>1. ASSUME phase = "provisioned", ~skip,
               NEW u \in DOMAIN cfg.users, NEW g \in cfg.users[u].groups \cap DOMAIN cfg.groups
        PROVE  u \in MembersOf(cfg, g)
    BY <2>1 DEF MembersOf
  <2>2. ProvisionApplies
    BY <2>1 DEF ProvisionApplies, ProvisionInv, BucketsInv, PoliciesInv, UsersInv, GroupsInv, RolesInv,
                DatabasesInv, GrantsInv, DbPhases, BucketOf
  <2>3. MigrationApplies
    BY DEF MigrationApplies, ProvisionInv, MigrationsInv
  <2>4. QED
    BY <2>2, <2>3
<1>2. QED
  BY <1>1, ProvisionStart, ProvisionStep, PTL DEF ProvisionSpec
-----------------------------------------------------------------------------
(* Lab: what the directories hold.                                         *)

AppOf(c, k) == Calc(c.apps[k], k, c)

WantedOf(a) == Manifests(a) \cup Templates(a)

\* What a file may be.
FileSet ==
  {Torn, Absent}
    \cup {Manifest(AppOf(c, k), m, c) : c \in Configs, k \in Keys, m \in Kinds}

\* A directory that holds what a configuration says, and one nobody wrote to.
Holds(dir, lists, a, c) ==
  lists = WantedOf(a) \cup a.extra /\ \A m \in WantedOf(a) : dir[m] = Manifest(a, m, c)

Untouched(dir, lists) == lists = NoList /\ \A m \in Kinds : dir[m] = Absent

\* The manifests of an application that were looked at in a stage of a run.
Started(stage, rest, a) ==
  CASE stage = "manifests" -> Manifests(a) \ rest
    [] stage = "templates" -> Manifests(a) \cup (Templates(a) \ rest)
    [] stage = "kustomize" -> WantedOf(a)

Busy == {"manifests", "templates", "kustomize"}

LabTypes ==
  /\ config \in Configs /\ force \in BOOLEAN
  /\ at \in {"idle", "apps"} \cup Busy
  /\ todo \subseteq Kinds
  /\ files \in [Keys -> [Kinds -> FileSet]]
  /\ listed \in [Keys -> SUBSET (Kinds \cup Extras \cup {"torn", "absent"})]
  /\ extras \in [Keys -> SUBSET Extras]
  /\ clean \in [Keys -> BOOLEAN]

\* Where a run is.
RunInv ==
  /\ open \in Kinds => at \in {"manifests", "templates"}
  /\ open = "kustomization" => at = "kustomize"
  /\ at # "idle" => result # "success" /\ left \subseteq {k \in DOMAIN config.apps : ~config.apps[k].skip}
  /\ at = "manifests" => todo \subseteq Manifests(AppOf(config, app))
  /\ at = "templates" => todo \subseteq Templates(AppOf(config, app))
  /\ at \in Busy =>
       /\ app \in DOMAIN config.apps /\ ~config.apps[app].skip /\ app \notin left
       /\ names = AppOf(config, app).extra \cup Started(at, todo, AppOf(config, app))
       /\ open \in Kinds => open \in Started(at, todo, AppOf(config, app))
       /\ AppOf(config, app).extra \subseteq extras[app]
       /\ \A m \in Started(at, todo, AppOf(config, app)) : Exists(files[app][m])

\* The application it is at: what was looked at is as configured, if the run is
\* forced or the directory was whole; else the rest is not there or is.
AppInv ==
  at \in Busy =>
    /\ clean[app] \/ force =>
         \A m \in Started(at, todo, AppOf(config, app)) :
           m # open => files[app][m] = Manifest(AppOf(config, app), m, config)
    /\ clean[app] /\ ~force =>
         /\ \A m \in WantedOf(AppOf(config, app)) \ Started(at, todo, AppOf(config, app)) :
              Exists(files[app][m]) => files[app][m] = Manifest(AppOf(config, app), m, config)
         /\ \/ open = "kustomization" \/ listed[app] = NoList
            \/ listed[app] = WantedOf(AppOf(config, app)) \cup AppOf(config, app).extra

\* The others: a clean directory is whole or was never written to, and whole
\* when this run, or the last one that succeeded, went through it.
OthersInv ==
  \A k \in Keys :
    clean[k] /\ ~(at \in Busy /\ k = app) =>
      /\ \/ Untouched(files[k], listed[k])
         \/ k \in DOMAIN config.apps /\ Holds(files[k], listed[k], AppOf(config, k), config)
      /\ /\ k \in DOMAIN config.apps /\ ~config.apps[k].skip
         /\ IF at = "idle" THEN result = "success" ELSE k \notin left
         => Holds(files[k], listed[k], AppOf(config, k), config)

LabInv == LabTypes /\ RunInv /\ AppInv /\ OthersInv /\ ListedExist
-----------------------------------------------------------------------------
LEMMA KindsOf ==
  ASSUME NEW a
  PROVE  /\ Manifests(a) \subseteq Kinds /\ Templates(a) \subseteq Kinds /\ WantedOf(a) \subseteq Kinds
         /\ a.namespace \in {"", "default"} => "namespace" \notin WantedOf(a)
BY DEF Manifests, Templates, WantedOf, Kinds

LEMMA ManifestExists ==
  ASSUME NEW a, NEW c, NEW m \in Kinds
  PROVE  Exists(Manifest(a, m, c))
<1> DEFINE f == Manifest(a, m, c)
<1>1. DOMAIN f # {"absent"}
  <2>1. CASE m = "deployment"
    <3>1. f = Deployment(a, c)
      BY <2>1 DEF Manifest
    <3>2. "name" \in DOMAIN Deployment(a, c)
      BY DEF Deployment
    <3>3. QED
      BY <3>1, <3>2
  <2>2. CASE m = "service"
    BY <2>2 DEF Manifest, Service
  <2>3. CASE m = "configmap"
    BY <2>3 DEF Manifest, ConfigMap
  <2>4. CASE m = "secret"
    BY <2>4 DEF Manifest, Secret
  <2>5. CASE m = "namespace"
    BY <2>5 DEF Manifest, Namespace
  <2>6. CASE m = "hpa"
    BY <2>6 DEF Manifest, Hpa, NoSetting
  <2>7. CASE m = "servicemonitor"
    BY <2>7 DEF Manifest, ServiceMonitor, NoSetting
  <2>8. QED
    BY <2>1, <2>2, <2>3, <2>4, <2>5, <2>6, <2>7 DEF Kinds
<1>2. DOMAIN Absent = {"absent"}
  BY DEF Absent
<1>3. QED
  BY <1>1, <1>2 DEF Exists

\* What Calc leaves as it is.
LEMMA ExtraOf ==
  ASSUME NEW c \in Configs, NEW k \in DOMAIN c.apps
  PROVE  AppOf(c, k).extra = c.apps[k].extra /\ AppOf(c, k).extra \subseteq Extras /\ k \in Keys
BY ConfigsAssumption, AppsAssumption DEF AppOf, Calc

LEMMA AppIs ==
  ASSUME NEW k
  PROVE  App(k) = AppOf(config, k) /\ Wanted(k) = WantedOf(AppOf(config, k))
BY DEF App, AppOf, Wanted, WantedOf

LEMMA StartedWhen ==
  ASSUME NEW rest, NEW a
  PROVE  /\ Started("manifests", rest, a) = Manifests(a) \ rest
         /\ Started("templates", rest, a) = Manifests(a) \cup (Templates(a) \ rest)
         /\ Started("kustomize", rest, a) = WantedOf(a)
BY DEF Started

LEMMA StartedKinds ==
  ASSUME NEW stage \in Busy, NEW rest, NEW a
  PROVE  Started(stage, rest, a) \subseteq WantedOf(a) /\ Started(stage, rest, a) \subseteq Kinds
<1>1. WantedOf(a) \subseteq Kinds
  BY KindsOf
<1>2. Started(stage, rest, a) \subseteq WantedOf(a)
  <2>1. CASE stage = "manifests"
    BY <2>1, StartedWhen DEF WantedOf
  <2>2. CASE stage = "templates"
    BY <2>2, StartedWhen DEF WantedOf
  <2>3. CASE stage = "kustomize"
    BY <2>3, StartedWhen
  <2>4. QED
    BY <2>1, <2>2, <2>3 DEF Busy
<1>3. QED
  BY <1>1, <1>2

LEMMA NoneOfKinds == None \notin Kinds /\ "kustomization" \notin Kinds /\ None # "kustomization"
BY DEF None, Kinds

\* A step within an application leaves the others.
LEMMA OthersKept ==
  ASSUME OthersInv, at \in Busy, at' \in Busy, app' = app, left' = left, config' = config,
         clean' = clean, \A k \in Keys : k # app => files'[k] = files[k] /\ listed'[k] = listed[k]
  PROVE  OthersInv'
<1> SUFFICES ASSUME NEW k \in Keys, clean[k], k # app
             PROVE  /\ \/ Untouched(files'[k], listed'[k])
                       \/ k \in DOMAIN config.apps /\ Holds(files'[k], listed'[k], AppOf(config, k), config)
                    /\ k \in DOMAIN config.apps /\ ~config.apps[k].skip /\ k \notin left
                       => Holds(files'[k], listed'[k], AppOf(config, k), config)
  BY DEF OthersInv, Busy
<1> QED
  BY DEF OthersInv, Busy

LEMMA LabStarts == Init => LabInv
<1> SUFFICES ASSUME Init PROVE LabInv
  OBVIOUS
<1> USE DEF Init
<1>1. LabTypes
  <2>1. Absent \in FileSet
    BY DEF FileSet
  <2>2. files \in [Keys -> [Kinds -> FileSet]]
    BY <2>1
  <2>3. NoList \subseteq Kinds \cup Extras \cup {"torn", "absent"}
    BY DEF NoList
  <2>4. listed \in [Keys -> SUBSET (Kinds \cup Extras \cup {"torn", "absent"})]
    BY <2>3
  <2>5. QED
    BY <2>2, <2>4 DEF LabTypes
<1>2. RunInv /\ AppInv /\ ListedExist
  BY NoneOfKinds DEF RunInv, AppInv, ListedExist, Busy
<1>3. OthersInv
  BY DEF OthersInv, Untouched, Busy
<1>4. QED
  BY <1>1, <1>2, <1>3 DEF LabInv

LEMMA StepEdit ==
  ASSUME LabInv, NEW c \in Configs, Edit(c)
  PROVE  LabInv'
<1> USE DEF Edit, runVars, treeVars, LabInv
<1>1. LabTypes'
  BY DEF LabTypes
<1>2. RunInv' /\ AppInv'
  BY DEF RunInv, AppInv, Busy
<1>3. OthersInv'
  BY DEF OthersInv, Untouched, Busy, LabTypes
<1>4. ListedExist'
  BY DEF ListedExist
<1>5. QED
  BY <1>1, <1>2, <1>3, <1>4

LEMMA StepAdd ==
  ASSUME LabInv, NEW j \in Keys, NEW e \in Extras, Add(j, e)
  PROVE  LabInv'
<1> USE DEF Add, runVars, treeVars, LabInv
<1>1. LabTypes'
  BY DEF LabTypes
<1>2. RunInv' /\ AppInv' /\ OthersInv'
  BY DEF RunInv, AppInv, OthersInv, Busy
<1>3. ListedExist'
  BY DEF ListedExist, LabTypes
<1>4. QED
  BY <1>1, <1>2, <1>3

LEMMA StepRun ==
  ASSUME LabInv, NEW f \in BOOLEAN, Run(f)
  PROVE  LabInv'
<1> USE DEF Run, treeVars, LabInv
<1>1. LabTypes'
  BY DEF LabTypes
<1>2. RunInv' /\ AppInv' /\ ListedExist'
  BY DEF RunInv, AppInv, ListedExist, Busy
<1>3. OthersInv'
  BY DEF OthersInv, Busy
<1>4. QED
  BY <1>1, <1>2, <1>3

LEMMA StepBegin ==
  ASSUME LabInv, NEW j \in Keys, Begin(j)
  PROVE  LabInv'
<1> DEFINE a == AppOf(config, j)
<1>a. /\ at = "apps" /\ j \in left /\ left' = left \ {j} /\ app' = j /\ at' = "manifests"
      /\ todo' = Manifests(a) /\ names' = a.extra /\ a.extra \subseteq extras[j]
      /\ files' = IF a.namespace \in {"", "default"}
                  THEN [files EXCEPT ![j]["namespace"] = Absent] ELSE files
      /\ UNCHANGED <<config, force, open, listed, extras, result, cuts, clean>>
  BY AppIs DEF Begin
<1>b. Manifests(a) \subseteq Kinds /\ (a.namespace \in {"", "default"} => "namespace" \notin WantedOf(a))
  BY KindsOf
<1>c. Started("manifests", Manifests(a), a) = {}
  BY StartedWhen
<1> HIDE DEF a
<1>d. a = AppOf(config, j)
  BY DEF a
<1>e. AppOf(config', app') = a
  BY <1>a, <1>d
<1> USE DEF LabInv
<1>1. LabTypes'
  <2>1. "namespace" \in Kinds /\ Absent \in FileSet
    BY DEF Kinds, FileSet
  <2>2. files' \in [Keys -> [Kinds -> FileSet]]
    BY <1>a, <2>1 DEF LabTypes
  <2>3. QED
    BY <1>a, <1>b, <2>2 DEF LabTypes, Busy
<1>2. open \notin Kinds /\ open # "kustomization" /\ j \in DOMAIN config.apps /\ ~config.apps[j].skip
  BY <1>a DEF RunInv
<1>3. RunInv'
  BY <1>a, <1>b, <1>c, <1>e, <1>2 DEF RunInv, Busy
<1>4. \A k \in Keys : /\ k # j => files'[k] = files[k]
                      /\ \A m \in Kinds : m # "namespace" => files'[k][m] = files[k][m]
  BY <1>a DEF LabTypes
<1>5. \A m \in WantedOf(a) : files'[j][m] = files[j][m]
  <2>1. CASE a.namespace \in {"", "default"}
    <3>1. \A m \in WantedOf(a) : m \in Kinds /\ m # "namespace"
      BY <2>1, <1>b, KindsOf
    <3>2. QED
      BY <1>4, <3>1
  <2>2. CASE a.namespace \notin {"", "default"}
    BY <1>a, <2>2
  <2>3. QED
    BY <2>1, <2>2
<1>6. clean[j] => Untouched(files[j], listed[j]) \/ Holds(files[j], listed[j], a, config)
  BY <1>a, <1>d DEF OthersInv, Busy
<1>7. WantedOf(a) \subseteq Kinds
  BY KindsOf
<1>8. AppInv'
  <2>1. \A m \in Started(at', todo', AppOf(config', app')) : FALSE
    BY <1>a, <1>c, <1>e
  <2>2. ASSUME clean[j] PROVE \A m \in WantedOf(a) : Exists(files'[j][m]) => files'[j][m] = Manifest(a, m, config)
    BY <1>5, <1>6, <1>7, <2>2 DEF Untouched, Holds, Exists
  <2>3. ASSUME clean[j] PROVE listed[j] = NoList \/ listed[j] = WantedOf(a) \cup a.extra
    BY <1>6, <2>3 DEF Untouched, Holds
  <2>4. QED
    BY <1>a, <1>e, <2>1, <2>2, <2>3 DEF AppInv
<1>9. OthersInv'
  BY <1>a, <1>4 DEF OthersInv, Busy
<1>10. ListedExist'
  BY <1>a, <1>4 DEF ListedExist
<1>11. QED
  BY <1>1, <1>3, <1>8, <1>9, <1>10

LEMMA StepFailed ==
  ASSUME LabInv, Fails, clean' \in [Keys -> BOOLEAN],
         \A k \in Keys : clean'[k] => clean[k] /\ ~(at \in Busy /\ k = app)
  PROVE  LabInv'
<1> USE DEF Fails, treeVars, LabInv
<1>1. LabTypes'
  BY DEF LabTypes
<1>2. RunInv' /\ AppInv' /\ ListedExist'
  BY NoneOfKinds DEF RunInv, AppInv, ListedExist, Busy
<1>3. OthersInv'
  BY DEF OthersInv, Busy
<1>4. QED
  BY <1>1, <1>2, <1>3

LEMMA StepMissing ==
  ASSUME LabInv, NEW j \in Keys, Missing(j)
  PROVE  LabInv'
BY StepFailed DEF Missing, LabInv, LabTypes, Busy

LEMMA StepCut ==
  ASSUME LabInv, Cut
  PROVE  LabInv'
<1>1. clean' \in [Keys -> BOOLEAN] /\ \A k \in Keys : clean'[k] => clean[k] /\ k # app
  BY DEF Cut, LabInv, LabTypes
<1>2. QED
  BY <1>1, StepFailed DEF Cut

\* A manifest is looked at, kept or opened.
LEMMA StepTake ==
  ASSUME LabInv, NEW m \in todo, at \in {"manifests", "templates"}, open = None,
         todo' = todo \ {m}, names' = names \cup {m},
         UNCHANGED <<config, force, at, left, app, listed, extras, result, cuts, clean>>,
         \/ ~force /\ Exists(files[app][m]) /\ UNCHANGED <<open, files>>
         \/ Truncate(m)
  PROVE  LabInv'
<1> DEFINE a == AppOf(config, app)
           s == Started(at, todo, a)
<1> USE DEF LabInv
<1>a. a = AppOf(config, app) /\ AppOf(config', app') = a
  OBVIOUS
<1>b. s = Started(at, todo, a) /\ Started(at', todo', a) = s \cup {m}
  <2>1. m \in Manifests(a) \/ at = "templates"
    BY DEF RunInv
  <2>2. m \in Templates(a) \/ at = "manifests"
    BY DEF RunInv
  <2>3. CASE at = "manifests"
    BY <2>1, <2>3, StartedWhen
  <2>4. CASE at = "templates"
    BY <2>2, <2>4, StartedWhen
  <2>5. QED
    BY <2>3, <2>4
<1>c. m \in Kinds /\ m \in WantedOf(a) /\ WantedOf(a) \subseteq Kinds
  BY KindsOf DEF WantedOf, RunInv, LabTypes
<1>d. s \subseteq WantedOf(a) /\ s \subseteq Kinds
  BY StartedKinds DEF Busy
<1> HIDE DEF a, s
<1>e. at \in Busy /\ at' = at
  BY DEF Busy
<1>f. app \in Keys
  BY <1>e, ConfigsAssumption DEF RunInv, LabTypes
<1>g. /\ files' \in [Keys -> [Kinds -> FileSet]]
      /\ \A k \in Keys : k # app => files'[k] = files[k]
      /\ \A x \in Kinds : x # m => files'[app][x] = files[app][x]
      /\ Exists(files'[app][m])
  <2>1. Torn \in FileSet /\ Exists(Torn)
    BY DEF FileSet, Exists, Torn, Absent
  <2>2. CASE Truncate(m)
    <3>1. files' = [files EXCEPT ![app][m] = Torn]
      BY <2>2 DEF Truncate
    <3>2. files \in [Keys -> [Kinds -> FileSet]]
      BY DEF LabTypes
    <3> HIDE DEF LabInv
    <3>3. files' = [files EXCEPT ![app] = [files[app] EXCEPT ![m] = Torn]]
      BY <3>1
    <3>4. [files[app] EXCEPT ![m] = Torn] \in [Kinds -> FileSet]
      BY <1>c, <1>f, <2>1, <3>2
    <3>5. QED
      BY <1>c, <1>f, <2>1, <3>2, <3>3, <3>4
  <2>3. CASE files' = files /\ Exists(files[app][m])
    BY <2>3 DEF LabTypes
  <2>4. QED
    BY <2>2, <2>3
<1>h. \/ open' = m
      \/ open' = None /\ ~force /\ files' = files /\ Exists(files[app][m])
  BY DEF Truncate
<1>1. LabTypes'
  BY <1>g DEF LabTypes
<1>2. RunInv'
  <2>1. names' = a.extra \cup Started(at', todo', a)
    BY <1>a, <1>b, <1>e DEF RunInv
  <2>2. open' \in Kinds => open' \in Started(at', todo', a)
    BY <1>b, <1>h, NoneOfKinds
  <2>3. open' # "kustomization"
    BY <1>c, <1>h, NoneOfKinds
  <2>4. \A x \in Started(at', todo', a) : Exists(files'[app][x])
    BY <1>a, <1>b, <1>d, <1>e, <1>g DEF RunInv
  <2>5. /\ at' = "manifests" => todo' \subseteq Manifests(a)
        /\ at' = "templates" => todo' \subseteq Templates(a)
    BY <1>a DEF RunInv
  <2>6. /\ at' # "idle" => result' # "success" /\ left' \subseteq {k \in DOMAIN config'.apps : ~config'.apps[k].skip}
        /\ app' \in DOMAIN config'.apps /\ ~config'.apps[app'].skip /\ app' \notin left'
        /\ a.extra \subseteq extras'[app']
    BY <1>a, <1>e DEF RunInv
  <2>7. QED
    BY <1>a, <2>1, <2>2, <2>3, <2>4, <2>5, <2>6 DEF RunInv
<1>3. AppInv'
  <2>1. ASSUME clean[app] \/ force, NEW x \in Started(at', todo', a), x # open'
        PROVE  files'[app][x] = Manifest(a, x, config)
    <3>1. CASE x = m
      <4>1. clean[app] /\ ~force /\ files' = files /\ Exists(files[app][m])
        BY <1>h, <2>1, <3>1
      <4>2. CASE m \in s
        <5>1. m # open
          BY <1>c, NoneOfKinds
        <5>2. QED
          BY <1>a, <1>b, <1>e, <3>1, <4>1, <4>2, <5>1 DEF AppInv
      <4>3. CASE m \notin s
        BY <1>a, <1>b, <1>c, <1>e, <3>1, <4>1, <4>3 DEF AppInv
      <4>4. QED
        BY <4>2, <4>3
    <3>2. CASE x # m
      <4>1. x \in s /\ x \in Kinds /\ x # open
        BY <1>b, <1>d, <2>1, <3>2, NoneOfKinds
      <4>2. files[app][x] = Manifest(a, x, config)
        BY <1>a, <1>b, <1>e, <2>1, <4>1 DEF AppInv
      <4>3. QED
        BY <1>g, <3>2, <4>1, <4>2
    <3>3. QED
      BY <3>1, <3>2
  <2>2. ASSUME clean[app], ~force
        PROVE  /\ \A x \in WantedOf(a) \ Started(at', todo', a) :
                    Exists(files'[app][x]) => files'[app][x] = Manifest(a, x, config)
               /\ listed[app] = NoList \/ listed[app] = WantedOf(a) \cup a.extra
    <3>1. \A x \in WantedOf(a) \ s : Exists(files[app][x]) => files[app][x] = Manifest(a, x, config)
      BY <1>a, <1>b, <1>e, <2>2 DEF AppInv
    <3>2. \A x \in WantedOf(a) \ (s \cup {m}) : files'[app][x] = files[app][x]
      BY <1>c, <1>g
    <3>3. listed[app] = NoList \/ listed[app] = WantedOf(a) \cup a.extra
      BY <1>a, <1>e, <2>2, NoneOfKinds DEF AppInv
    <3>4. QED
      BY <1>b, <3>1, <3>2, <3>3
  <2>3. QED
    BY <1>a, <2>1, <2>2 DEF AppInv
<1>4. OthersInv'
  BY <1>e, <1>g, OthersKept
<1>5. ListedExist'
  <2>1. \A k \in Keys, x \in Kinds : Exists(files[k][x]) => Exists(files'[k][x])
    BY <1>c, <1>g
  <2>2. QED
    BY <2>1 DEF ListedExist
<1>6. QED
  BY <1>1, <1>2, <1>3, <1>4, <1>5

LEMMA StepLook ==
  ASSUME LabInv, NEW m \in Kinds, Keep(m) \/ Open(m) \/ OpenTemplate(m)
  PROVE  LabInv'
<1>1. CASE Keep(m)
  BY <1>1, StepTake DEF Keep, treeVars
<1>2. CASE Open(m)
  BY <1>2, StepTake DEF Open
<1>3. CASE OpenTemplate(m)
  BY <1>3, StepTake DEF OpenTemplate
<1>4. QED
  BY <1>1, <1>2, <1>3

LEMMA StepEncode ==
  ASSUME LabInv, Encode
  PROVE  LabInv'
<1> DEFINE a == AppOf(config, app)
           s == Started(at, todo, a)
<1> USE DEF LabInv
<1>a. /\ open \in Kinds /\ open' = None
      /\ files' = [files EXCEPT ![app][open] = Manifest(a, open, config)]
      /\ UNCHANGED <<config, force, at, left, app, todo, names, listed, extras, result, cuts, clean>>
  BY AppIs DEF Encode
<1>b. at \in Busy /\ app \in DOMAIN config.apps
  BY <1>a DEF RunInv, Busy
<1>c. app \in Keys /\ config \in Configs
  BY <1>b, ConfigsAssumption DEF LabTypes
<1>d. s \subseteq Kinds
  BY <1>b, StartedKinds
<1>e. WantedOf(a) \subseteq Kinds
  BY KindsOf
<1>f. Exists(Manifest(a, open, config))
  BY <1>a, ManifestExists
<1>g. Manifest(a, open, config) \in FileSet
  <2>1. a = AppOf(config, app)
    OBVIOUS
  <2> HIDE DEF a
  <2>2. QED
    BY <1>a, <1>c, <2>1 DEF FileSet
<1>h. a = AppOf(config, app) /\ s = Started(at, todo, a) /\ AppOf(config', app') = a
      /\ Started(at', todo', a) = s
  BY <1>a
<1> HIDE DEF a, s
<1>i. /\ files' \in [Keys -> [Kinds -> FileSet]]
      /\ \A k \in Keys : k # app => files'[k] = files[k]
      /\ \A x \in Kinds : x # open => files'[app][x] = files[app][x]
      /\ files'[app][open] = Manifest(a, open, config)
  <2>1. files \in [Keys -> [Kinds -> FileSet]]
    BY DEF LabTypes
  <2>2. files' = [files EXCEPT ![app] = [files[app] EXCEPT ![open] = Manifest(a, open, config)]]
    BY <1>a
  <2>3. [files[app] EXCEPT ![open] = Manifest(a, open, config)] \in [Kinds -> FileSet]
    BY <1>a, <1>c, <1>g, <2>1
  <2>4. QED
    BY <1>a, <1>c, <2>1, <2>2, <2>3
<1>j. open \in s
  BY <1>a, <1>b, <1>h DEF RunInv
<1>1. LabTypes'
  BY <1>a, <1>i DEF LabTypes
<1>2. RunInv'
  <2>1. \A x \in s : Exists(files'[app][x])
    BY <1>a, <1>b, <1>d, <1>f, <1>h, <1>i DEF RunInv
  <2>2. names' = a.extra \cup s /\ a.extra \subseteq extras[app] /\ app \in DOMAIN config.apps
        /\ ~config.apps[app].skip /\ app \notin left
    BY <1>a, <1>b, <1>h DEF RunInv
  <2>3. /\ at = "manifests" => todo \subseteq Manifests(a)
        /\ at = "templates" => todo \subseteq Templates(a)
    BY <1>h DEF RunInv
  <2>4. at # "idle" => result # "success" /\ left \subseteq {k \in DOMAIN config.apps : ~config.apps[k].skip}
    BY DEF RunInv
  <2>5. QED
    BY <1>a, <1>h, <2>1, <2>2, <2>3, <2>4, NoneOfKinds DEF RunInv
<1>3. AppInv'
  <2>1. ASSUME clean[app] \/ force, NEW x \in s
        PROVE  files'[app][x] = Manifest(a, x, config)
    BY <1>b, <1>d, <1>h, <1>i, <2>1 DEF AppInv
  <2>2. ASSUME clean[app], ~force, NEW x \in WantedOf(a) \ s, Exists(files'[app][x])
        PROVE  files'[app][x] = Manifest(a, x, config)
    <3>1. files'[app][x] = files[app][x]
      BY <1>e, <1>i, <1>j
    <3>2. QED
      BY <1>b, <1>h, <2>2, <3>1 DEF AppInv
  <2>3. ASSUME clean[app], ~force
        PROVE  listed[app] = NoList \/ listed[app] = WantedOf(a) \cup a.extra
    BY <1>a, <1>b, <1>h, <2>3, NoneOfKinds DEF AppInv
  <2>4. QED
    BY <1>a, <1>h, <2>1, <2>2, <2>3 DEF AppInv
<1>4. OthersInv'
  BY <1>a, <1>b, <1>i, OthersKept
<1>5. ListedExist'
  <2>1. \A k \in Keys, x \in Kinds : Exists(files[k][x]) => Exists(files'[k][x])
    BY <1>f, <1>i
  <2>2. QED
    BY <1>a, <2>1 DEF ListedExist
<1>6. QED
  BY <1>1, <1>2, <1>3, <1>4, <1>5

\* A phase of an application ends: what it looked at stays as it is.
LEMMA StepPhase ==
  ASSUME LabInv, at \in Busy, at' \in Busy, open = None,
         todo' \subseteq Kinds,
         Started(at', todo', AppOf(config, app)) = Started(at, todo, AppOf(config, app)),
         /\ at' = "manifests" => todo' \subseteq Manifests(AppOf(config, app))
         /\ at' = "templates" => todo' \subseteq Templates(AppOf(config, app)),
         UNCHANGED <<config, force, left, app, names, open, treeVars, extras, result, cuts, clean>>
  PROVE  LabInv'
<1> DEFINE a == AppOf(config, app)
           s == Started(at, todo, a)
<1> USE DEF LabInv, treeVars
<1>h. a = AppOf(config, app) /\ s = Started(at, todo, a) /\ AppOf(config', app') = a
      /\ Started(at', todo', a) = s
  OBVIOUS
<1>i. /\ at' = "manifests" => todo' \subseteq Manifests(a)
      /\ at' = "templates" => todo' \subseteq Templates(a)
  OBVIOUS
<1> HIDE DEF a, s
<1>1. LabTypes'
  BY DEF LabTypes, Busy
<1>2. RunInv'
  <2>1. /\ names' = a.extra \cup s /\ a.extra \subseteq extras[app] /\ app \in DOMAIN config.apps
        /\ ~config.apps[app].skip /\ app \notin left
        /\ \A x \in s : Exists(files[app][x])
    BY <1>h DEF RunInv
  <2>2. at # "idle" => result # "success" /\ left \subseteq {k \in DOMAIN config.apps : ~config.apps[k].skip}
    BY DEF RunInv
  <2>3. at # "idle"
    BY DEF Busy
  <2>4. QED
    BY <1>h, <1>i, <2>1, <2>2, <2>3, NoneOfKinds DEF RunInv
<1>3. AppInv'
  BY <1>h DEF AppInv
<1>4. OthersInv'
  BY OthersKept
<1>5. ListedExist'
  BY DEF ListedExist
<1>6. QED
  BY <1>1, <1>2, <1>3, <1>4, <1>5

LEMMA StepDone ==
  ASSUME LabInv, ManifestsDone \/ TemplatesDone
  PROVE  LabInv'
<1> DEFINE a == AppOf(config, app)
<1>1. Templates(a) \subseteq Kinds
  BY KindsOf
<1>2. todo \subseteq Kinds
  BY DEF LabInv, LabTypes
<1>3. CASE ManifestsDone
  <2>1. /\ at = "manifests" /\ open = None /\ todo = {} /\ at' = "templates" /\ todo' = Templates(a)
        /\ UNCHANGED <<config, force, left, app, names, open, treeVars, extras, result, cuts, clean>>
    BY <1>3, AppIs DEF ManifestsDone
  <2>2. Started(at', todo', a) = Started(at, todo, a)
    BY <2>1, StartedWhen
  <2> HIDE DEF a
  <2>3. a = AppOf(config, app)
    BY DEF a
  <2>4. QED
    BY <1>1, <2>1, <2>2, <2>3, StepPhase DEF Busy
<1>4. CASE TemplatesDone
  <2>1. /\ at = "templates" /\ open = None /\ todo = {} /\ at' = "kustomize" /\ todo' = todo
        /\ UNCHANGED <<config, force, left, app, names, open, treeVars, extras, result, cuts, clean>>
    BY <1>4 DEF TemplatesDone
  <2>2. Started(at', todo', a) = Started(at, todo, a)
    <3>1. Started("templates", {}, a) = Manifests(a) \cup (Templates(a) \ {})
      BY StartedWhen
    <3>2. Started("kustomize", {}, a) = WantedOf(a)
      BY StartedWhen
    <3>3. QED
      BY <2>1, <3>1, <3>2 DEF WantedOf
  <2> HIDE DEF a
  <2>3. a = AppOf(config, app)
    BY DEF a
  <2>4. QED
    BY <1>2, <2>1, <2>2, <2>3, StepPhase DEF Busy
<1>5. QED
  BY <1>3, <1>4

\* An application is generated: what its directory holds now is settled.
LEMMA StepGenerated ==
  ASSUME LabInv, at = "kustomize", open \notin Kinds, Generated,
         \/ listed' = [listed EXCEPT ![app] = names] /\ open = "kustomization"
         \/ listed' = listed /\ ~force /\ listed[app] # NoList /\ open = None
  PROVE  LabInv'
<1> DEFINE a == AppOf(config, app)
<1> USE DEF LabInv
<1>a. /\ at' = "apps" /\ app' = None /\ names' = {} /\ open' = None
      /\ clean' = [clean EXCEPT ![app] = @ \/ force]
      /\ UNCHANGED <<config, force, left, todo, files, extras, result, cuts>>
  BY DEF Generated
<1>b. at \in Busy /\ Started(at, todo, a) = WantedOf(a)
  BY StartedWhen DEF Busy
<1>c. WantedOf(a) \subseteq Kinds
  BY KindsOf
<1>d. a = AppOf(config, app)
  OBVIOUS
<1>e. app \in DOMAIN config.apps /\ ~config.apps[app].skip /\ app \notin left
  BY <1>b DEF RunInv
<1>f. app \in Keys /\ config \in Configs
  BY <1>e, ConfigsAssumption DEF LabTypes
<1>g. a.extra \subseteq Extras
  BY <1>e, <1>f, ExtraOf
<1> HIDE DEF a
<1>h. names = a.extra \cup WantedOf(a)
  BY <1>b, <1>d DEF RunInv
<1>i. \A k \in Keys : k # app => listed'[k] = listed[k] /\ clean'[k] = clean[k]
  BY <1>a DEF LabTypes
<1>j. listed[app] # listed'[app] => listed'[app] = names
  BY <1>f DEF LabTypes
<1>k. clean'[app] => Holds(files[app], listed'[app], a, config)
  <2> SUFFICES ASSUME clean[app] \/ force
               PROVE  Holds(files[app], listed'[app], a, config)
    BY <1>a, <1>f DEF LabTypes
  <2>1. \A m \in WantedOf(a) : files[app][m] = Manifest(a, m, config)
    BY <1>b, <1>c, <1>d DEF AppInv
  <2>2. listed'[app] = WantedOf(a) \cup a.extra
    <3>1. CASE open = "kustomization"
      BY <3>1, <1>f, <1>h, NoneOfKinds DEF LabTypes
    <3>2. CASE open = None
      BY <3>2, <1>b, <1>d, NoneOfKinds DEF AppInv
    <3>3. QED
      BY <3>1, <3>2
  <2>3. QED
    BY <2>1, <2>2 DEF Holds
<1>1. LabTypes'
  <2>1. names \subseteq Kinds \cup Extras \cup {"torn", "absent"}
    BY <1>c, <1>g, <1>h
  <2>2. listed' \in [Keys -> SUBSET (Kinds \cup Extras \cup {"torn", "absent"})]
    BY <2>1 DEF LabTypes
  <2>3. QED
    BY <1>a, <2>2 DEF LabTypes
<1>2. RunInv' /\ AppInv'
  BY <1>a, NoneOfKinds DEF RunInv, AppInv, Busy
<1>3. OthersInv'
  <2> SUFFICES ASSUME NEW k \in Keys, clean'[k]
               PROVE  /\ \/ Untouched(files[k], listed'[k])
                         \/ k \in DOMAIN config.apps /\ Holds(files[k], listed'[k], AppOf(config, k), config)
                      /\ k \in DOMAIN config.apps /\ ~config.apps[k].skip /\ k \notin left
                         => Holds(files[k], listed'[k], AppOf(config, k), config)
    BY <1>a DEF OthersInv, Busy
  <2>1. CASE k = app
    BY <1>d, <1>e, <1>k, <2>1
  <2>2. CASE k # app
    BY <1>b, <1>i, <2>2 DEF OthersInv, Busy
  <2>3. QED
    BY <2>1, <2>2
<1>4. ListedExist'
  <2>1. \A m \in names : IF m \in Kinds THEN Exists(files[app][m]) ELSE m \in extras[app]
    <3>1. a.extra \cap Kinds = {} /\ a.extra \subseteq extras[app]
      BY <1>b, <1>d, <1>g, AppsAssumption DEF RunInv
    <3>2. \A m \in WantedOf(a) : Exists(files[app][m])
      BY <1>b, <1>d DEF RunInv
    <3>3. QED
      BY <1>c, <1>h, <3>1, <3>2
  <2>2. ASSUME NEW k \in Keys, listed'[k] \notin {NoList, TornList}, NEW m \in listed'[k] \ {"namespace"}
        PROVE  IF m \in Kinds THEN Exists(files[k][m]) ELSE m \in extras[k]
    <3>1. CASE listed'[k] = listed[k]
      BY <2>2, <3>1 DEF ListedExist
    <3>2. CASE listed'[k] # listed[k]
      BY <1>i, <1>j, <2>1, <2>2, <3>2
    <3>3. QED
      BY <3>1, <3>2
  <2>3. QED
    BY <1>a, <2>2 DEF ListedExist
<1>5. QED
  BY <1>1, <1>2, <1>3, <1>4

LEMMA StepKustomization ==
  ASSUME LabInv, KeepKustomization \/ EncodeKustomization
  PROVE  LabInv'
<1>1. CASE KeepKustomization
  BY <1>1, StepGenerated, NoneOfKinds DEF KeepKustomization
<1>2. CASE EncodeKustomization
  BY <1>2, StepGenerated, NoneOfKinds DEF EncodeKustomization, LabInv, RunInv
<1>3. QED
  BY <1>1, <1>2

LEMMA StepOpenKustomization ==
  ASSUME LabInv, OpenKustomization
  PROVE  LabInv'
<1> USE DEF LabInv
<1>a. /\ at = "kustomize" /\ open = None /\ open' = "kustomization"
      /\ listed' = [listed EXCEPT ![app] = TornList]
      /\ UNCHANGED <<config, force, at, left, app, todo, names, files, extras, result, cuts, clean>>
  BY DEF OpenKustomization
<1>b. at \in Busy
  BY <1>a DEF Busy
<1>1. LabTypes'
  <2>1. TornList \subseteq Kinds \cup Extras \cup {"torn", "absent"}
    BY DEF TornList
  <2>2. QED
    BY <1>a, <2>1 DEF LabTypes
<1>2. RunInv'
  BY <1>a, NoneOfKinds DEF RunInv
<1>3. AppInv'
  <2>1. \A x \in Started(at, todo, AppOf(config, app)) : x # open
    BY <1>a, <1>b, StartedKinds, NoneOfKinds
  <2>2. QED
    BY <1>a, <1>b, <2>1 DEF AppInv
<1>4. OthersInv'
  <2>1. \A k \in Keys : k # app => listed'[k] = listed[k]
    BY <1>a DEF LabTypes
  <2>2. QED
    BY <1>a, <1>b, <2>1, OthersKept
<1>5. ListedExist'
  <2>1. \A k \in Keys : listed'[k] = listed[k] \/ listed'[k] = TornList
    BY <1>a DEF LabTypes
  <2>2. QED
    BY <1>a, <2>1 DEF ListedExist
<1>6. QED
  BY <1>1, <1>2, <1>3, <1>4, <1>5

LEMMA StepSuccess ==
  ASSUME LabInv, Success
  PROVE  LabInv'
<1> USE DEF Success, treeVars, LabInv
<1>1. LabTypes' /\ ListedExist'
  BY DEF LabTypes, ListedExist
<1>2. RunInv' /\ AppInv'
  BY DEF RunInv, AppInv, Busy
<1>3. OthersInv'
  BY DEF OthersInv, Busy
<1>4. QED
  BY <1>1, <1>2, <1>3

LEMMA LabKept == LabInv /\ [Next]_vars => LabInv'
<1> SUFFICES ASSUME LabInv, [Next]_vars PROVE LabInv'
  OBVIOUS
<1>1. CASE UNCHANGED vars
  BY <1>1 DEF vars, runVars, treeVars, LabInv, LabTypes, RunInv, AppInv, OthersInv, ListedExist
<1>2. CASE Next
  BY <1>2, StepEdit, StepAdd, StepRun, StepBegin, StepMissing, StepCut, StepLook, StepEncode,
     StepDone, StepKustomization, StepOpenKustomization, StepSuccess DEF Next
<1>3. QED
  BY <1>1, <1>2

LEMMA LabHolds == Spec => []LabInv
BY LabStarts, LabKept, PTL DEF Spec

\* The resources a kustomization lists are there, but for a namespace.
THEOREM ListedExistTheorem == Spec => []ListedExist
<1>1. LabInv => ListedExist
  BY DEF LabInv
<1>2. QED
  BY <1>1, LabHolds, PTL

LEMMA Configured == LabInv => SuccessIsConfigured
<1> SUFFICES ASSUME LabInv, result = "success", NEW k \in DOMAIN config.apps,
                    ~config.apps[k].skip, clean[k]
             PROVE  /\ listed[k] = Wanted(k) \cup App(k).extra
                    /\ \A m \in Wanted(k) : files[k][m] = Manifest(App(k), m, config)
  BY DEF SuccessIsConfigured
<1>1. at = "idle"
  BY DEF LabInv, RunInv
<1>2. k \in Keys
  BY ConfigsAssumption DEF LabInv, LabTypes
<1>3. Holds(files[k], listed[k], AppOf(config, k), config)
  BY <1>1, <1>2 DEF LabInv, OthersInv, Busy
<1>4. QED
  BY <1>3, AppIs DEF Holds

\* After a success, a directory that is clean holds what the file says.
THEOREM SuccessIsConfiguredTheorem == Spec => []SuccessIsConfigured
BY Configured, LabHolds, PTL
-----------------------------------------------------------------------------
(* The manifests of an application refer to one another.                   *)

LEMMA CalcKeeps ==
  ASSUME NEW c \in Configs, NEW k \in DOMAIN c.apps
  PROVE  AppOf(c, k).labels = c.apps[k].labels
BY AppsAssumption DEF AppOf, Calc

LEMMA LabelSelects ==
  ASSUME NEW l, NEW v, NEW labels, l \in DOMAIN labels, labels[l] = v
  PROVE  Selects(Label(l, v), labels)
BY DEF Selects, Label

LEMMA LabelsOf ==
  ASSUME NEW a, {AppLabel, NameLabel} \cap DOMAIN a.labels = {}
  PROVE  /\ NameLabel \in DOMAIN Labels(a) /\ Labels(a)[NameLabel] = a.name
         /\ AppLabel \notin DOMAIN Labels(a)
BY DEF Labels, Merge, CommonLabels, NameLabel, AppLabel

LEMMA SelectsPods ==
  ASSUME NEW a, NEW c, {AppLabel, NameLabel} \cap DOMAIN a.labels = {}
  PROVE  /\ Selects(Label(AppLabel, a.name), Deployment(a, c).pod)
         /\ Selects(Label(NameLabel, a.name), Labels(a))
<1> DEFINE pod == Merge(Label(AppLabel, a.name), Labels(a))
<1>1. Deployment(a, c).pod = pod
  BY DEF Deployment
<1>2. AppLabel \notin DOMAIN Labels(a) /\ NameLabel \in DOMAIN Labels(a) /\ Labels(a)[NameLabel] = a.name
  BY LabelsOf
<1>3. AppLabel \in DOMAIN pod /\ pod[AppLabel] = a.name
  BY <1>2 DEF Merge, Label
<1> HIDE DEF pod
<1>4. Selects(Label(AppLabel, a.name), pod)
  BY <1>3, LabelSelects
<1>5. Selects(Label(NameLabel, a.name), Labels(a))
  BY <1>2, LabelSelects
<1>6. QED
  BY <1>1, <1>4, <1>5

\* What a directory holds that is as configured refers to one another.
LEMMA WholeAgrees ==
  ASSUME NEW a, NEW c, NEW dir, \A m \in WantedOf(a) : dir[m] = Manifest(a, m, c),
         {AppLabel, NameLabel} \cap DOMAIN a.labels = {}
  PROVE  Agree(a, dir)
<1> DEFINE deploy  == dir["deployment"]
           service == dir["service"]
           monitor == dir["servicemonitor"]
<1>1. /\ deploy = Deployment(a, c) /\ service = Service(a)
      /\ dir["configmap"] = ConfigMap(a) /\ dir["secret"] = Secret(a)
      /\ "namespace" \in Manifests(a) => dir["namespace"] = Namespace(a)
      /\ "hpa" \in Manifests(a) => dir["hpa"] = Hpa(a)
      /\ Templates(a) # {} => monitor = ServiceMonitor(a)
  <2>1. {"service", "configmap", "secret", "deployment"} \subseteq WantedOf(a)
    BY DEF WantedOf, Manifests
  <2>2. /\ "namespace" \in Manifests(a) => "namespace" \in WantedOf(a)
        /\ "hpa" \in Manifests(a) => "hpa" \in WantedOf(a)
        /\ Templates(a) # {} => "servicemonitor" \in WantedOf(a)
    BY DEF WantedOf, Templates
  <2>3. QED
    BY <2>1, <2>2 DEF Manifest
<1> HIDE DEF deploy, service, monitor
<1>2. /\ deploy.name = a.name /\ deploy.namespace = a.namespace
      /\ deploy.selector = Label(AppLabel, a.name)
      /\ deploy.configMap = ConfigMapName(a) /\ deploy.secret = SecretName(a)
      /\ deploy.reloads \subseteq {ConfigMapName(a), SecretName(a)}
  BY <1>1 DEF Deployment
<1>3. /\ DOMAIN deploy.ports = DOMAIN a.ports
      /\ \A i \in DOMAIN a.ports : deploy.ports[i].name = a.ports[i].type
  BY <1>1 DEF Deployment
<1>4. /\ service.namespace = a.namespace /\ service.labels = Labels(a)
      /\ service.selector = Label(AppLabel, a.name)
  BY <1>1 DEF Service
<1>5. /\ DOMAIN service.ports = DOMAIN a.ports
      /\ \A i \in DOMAIN a.ports : /\ service.ports[i].target = a.ports[i].type
                                   /\ service.ports[i].name = a.ports[i].type
  BY <1>1 DEF Service
<1>6. /\ dir["configmap"].name = ConfigMapName(a) /\ dir["configmap"].namespace = a.namespace
      /\ dir["secret"].name = SecretName(a) /\ dir["secret"].namespace = a.namespace
      /\ "namespace" \in Manifests(a) => dir["namespace"].name = a.namespace
  BY <1>1 DEF ConfigMap, Secret, Namespace
<1>7. "hpa" \in Manifests(a) /\ dir["hpa"] # NoSetting =>
        dir["hpa"].namespace = a.namespace /\ dir["hpa"].target = a.name
  BY <1>1 DEF Hpa
<1>8. ASSUME Templates(a) # {}, monitor # NoSetting
      PROVE  /\ monitor.selector = Label(NameLabel, a.name)
             /\ monitor.namespaces = {a.namespace} \ {"", "default"}
             /\ monitor.endpoints = {a.ports[i].type : i \in DOMAIN a.ports}
  <2> DEFINE types == {a.ports[i].type : i \in DOMAIN a.ports}
             label == Label(NameLabel, a.name)
             spaces == {a.namespace} \ {"", "default"}
  <2> HIDE DEF types, label, spaces
  <2>1. monitor = [name |-> a.name, namespace |-> a.namespace, labels |-> CommonLabels(a),
                   selector |-> label, namespaces |-> spaces, endpoints |-> types]
    BY <1>1, <1>8 DEF ServiceMonitor, types, label, spaces
  <2>2. monitor.selector = label /\ monitor.namespaces = spaces /\ monitor.endpoints = types
    BY <2>1
  <2>3. QED
    BY <2>2 DEF types, label, spaces
<1>9. Selects(deploy.selector, deploy.pod) /\ Selects(service.selector, deploy.pod)
  BY <1>1, <1>2, <1>4, SelectsPods
<1>10. \A i \in DOMAIN service.ports :
         \E j \in DOMAIN deploy.ports : deploy.ports[j].name = service.ports[i].target
  BY <1>3, <1>5
<1>11. \A m \in Manifests(a) \ {"namespace"} :
         dir[m] # NoSetting => dir[m].namespace = deploy.namespace
  <2>1. \A m \in Manifests(a) : m \in {"service", "configmap", "secret", "deployment", "namespace", "hpa"}
    BY DEF Manifests
  <2>2. dir["service"].namespace = a.namespace /\ dir["deployment"].namespace = a.namespace
    BY <1>2, <1>4 DEF service, deploy
  <2>3. QED
    BY <1>2, <1>6, <1>7, <2>1, <2>2
<1>12. ASSUME Templates(a) # {}, monitor # NoSetting
       PROVE  /\ Selects(monitor.selector, service.labels)
              /\ monitor.endpoints = {service.ports[i].name : i \in DOMAIN service.ports}
              /\ "namespace" \in Manifests(a) => monitor.namespaces = {service.namespace}
  <2>1. Selects(monitor.selector, service.labels)
    BY <1>4, <1>8, <1>12, SelectsPods
  <2>2. {a.ports[i].type : i \in DOMAIN a.ports} = {service.ports[i].name : i \in DOMAIN service.ports}
    BY <1>5
  <2>3. "namespace" \in Manifests(a) => a.namespace \notin {"", "default"}
    BY DEF Manifests
  <2>4. QED
    BY <1>4, <1>8, <1>12, <2>1, <2>2, <2>3
<1>13. QED
  BY <1>2, <1>6, <1>7, <1>9, <1>10, <1>11, <1>12 DEF Agree, deploy, service, monitor

\* After a success, the manifests of a clean directory refer to one another.
THEOREM ManifestsAgreeTheorem == Spec => []ManifestsAgree
<1>1. LabInv /\ SuccessIsConfigured => ManifestsAgree
  <2> SUFFICES ASSUME LabInv, SuccessIsConfigured, result = "success", NEW k \in DOMAIN config.apps,
                      ~config.apps[k].skip, clean[k],
                      (DOMAIN config.apps[k].labels) \cap {AppLabel, NameLabel} = {}
               PROVE  Agree(App(k), files[k])
    BY DEF ManifestsAgree
  <2>1. App(k) = AppOf(config, k) /\ Wanted(k) = WantedOf(AppOf(config, k))
    BY AppIs
  <2>2. AppOf(config, k).labels = config.apps[k].labels
    BY CalcKeeps DEF LabInv, LabTypes
  <2>3. \A m \in WantedOf(App(k)) : files[k][m] = Manifest(App(k), m, config)
    BY <2>1 DEF SuccessIsConfigured
  <2>4. {AppLabel, NameLabel} \cap DOMAIN App(k).labels = {}
    BY <2>1, <2>2
  <2>5. QED
    BY <2>3, <2>4, WholeAgrees
<1>2. QED
  BY <1>1, Configured, LabHolds, PTL
-----------------------------------------------------------------------------
(* Generate: the last application of a name.                               *)

\* What the directory of an application holds.
Both(a) == [deployment |-> DeploymentOf(a), service |-> ServiceOf(a)]

\* Of the first n applications, none after k has its name.
Latest(l, k, n) == k \in 1 .. n /\ \A i \in 1 .. n : l[i].name = l[k].name => i <= k

\* A directory has a place for each of its files.
Dir(f) == f = [deployment |-> f["deployment"], service |-> f["service"]]

\* The first n applications have names, and each name a last application.
Named(l, n) == \A j \in 1 .. n : /\ l[j].name # ""
                                 /\ \E k \in 1 .. n : Latest(l, k, n) /\ l[k].name = l[j].name

\* The directories of the first n applications are of the last of a name, but
\* for one name.
Finished(l, n, t, but) == \A k \in 1 .. n : Latest(l, k, n) /\ l[k].name # but => t[l[k].name] = Both(l[k])

InApp == {"open deployment", "deployment", "open service", "service"}

GenerateTypes ==
  /\ list \in AppLists /\ step \in {"out", "name"} \cup InApp
  /\ tree = [n \in AppNames |-> tree[n]] /\ \A n \in AppNames : Dir(tree[n])
  /\ step # "out" => item \in 1 .. (Len(list) + 1)
  /\ step \in InApp => item <= Len(list) /\ list[item].name # ""

DoneInv ==
  /\ step # "out" => exit # "success" /\ Named(list, item - 1)
  /\ step = "name" => Finished(list, item - 1, tree, "")
  /\ step \in InApp => Finished(list, item - 1, tree, list[item].name)
  /\ step \in {"open service", "service"} =>
       tree[list[item].name]["deployment"] = DeploymentOf(list[item])
  /\ exit = "success" => Named(list, Len(list)) /\ Finished(list, Len(list), tree, "")

GenerateInv == GenerateTypes /\ DoneInv
-----------------------------------------------------------------------------
LEMMA ListIs ==
  ASSUME NEW l \in AppLists
  PROVE  /\ Len(l) \in Nat /\ DOMAIN l = 1 .. Len(l)
         /\ \A i \in 1 .. Len(l) : l[i].name # "" => l[i].name \in AppNames
<1>1. l \in Seq({l[i] : i \in DOMAIN l})
  BY AppListsAssumption
<1>2. Len(l) \in Nat /\ DOMAIN l = 1 .. Len(l)
  BY <1>1
<1>3. QED
  BY <1>2, AppListsAssumption

\* An index of a list, and the ones before it.
LEMMA Indexes ==
  ASSUME NEW n \in Nat
  PROVE  /\ 1 \in 1 .. (n + 1) /\ 1 - 1 = 0
         /\ \A k \in 1 .. (n + 1) : k <= n => k \in 1 .. n
         /\ \A k \in 1 .. n : /\ k - 1 \in Nat /\ k - 1 \in 0 .. n /\ (k - 1) + 1 = k /\ (k + 1) - 1 = k
                             /\ k + 1 \in 1 .. (n + 1)
         /\ \A m \in 0 .. n : \A j \in 1 .. m : j \in 1 .. n
         /\ (n + 1) - 1 = n
OBVIOUS

LEMMA LenIs ==
  ASSUME NEW l \in AppLists
  PROVE  Len(l) \in Nat /\ DOMAIN l = 1 .. Len(l)
BY ListIs

LEMMA ItemIs ==
  ASSUME GenerateTypes, step \in InApp
  PROVE  /\ list \in AppLists /\ item \in 1 .. Len(list) /\ step # "out"
         /\ list[item].name # "" /\ list[item].name \in AppNames
<1>1. list \in AppLists /\ item \in 1 .. (Len(list) + 1) /\ item <= Len(list) /\ list[item].name # ""
      /\ step # "out"
  BY DEF GenerateTypes, InApp
<1>2. item \in 1 .. Len(list)
  BY <1>1, LenIs, Indexes
<1>3. QED
  BY <1>1, <1>2, ListIs

LEMMA UpTo ==
  ASSUME NEW n \in Nat
  PROVE  /\ \A k \in 1 .. (n + 1) : k = n + 1 \/ k \in 1 .. n
         /\ \A k \in 1 .. n : k \in 1 .. (n + 1) /\ ~(n + 1 <= k)
         /\ n + 1 \in 1 .. (n + 1) /\ \A k \in 1 .. (n + 1) : k <= n + 1
OBVIOUS

\* An application that is done is the last of its name.
LEMMA OneMore ==
  ASSUME NEW l \in AppLists, NEW n \in Nat, NEW t, NEW u, Named(l, n), Finished(l, n, t, l[n + 1].name),
         l[n + 1].name # "", u[l[n + 1].name] = Both(l[n + 1]),
         \A j \in 1 .. n : l[j].name # l[n + 1].name => u[l[j].name] = t[l[j].name]
  PROVE  Named(l, n + 1) /\ Finished(l, n + 1, u, "")
<1>1. \A k \in 1 .. (n + 1) : k = n + 1 \/ k \in 1 .. n
  BY UpTo
<1>2. /\ n + 1 \in 1 .. (n + 1) /\ \A k \in 1 .. n : k \in 1 .. (n + 1) /\ ~(n + 1 <= k)
      /\ \A k \in 1 .. (n + 1) : k <= n + 1
  BY UpTo
<1>3. Latest(l, n + 1, n + 1)
  BY <1>2 DEF Latest
<1>4. ASSUME NEW k \in 1 .. n, Latest(l, k, n), l[k].name # l[n + 1].name
      PROVE  Latest(l, k, n + 1)
  BY <1>1, <1>2, <1>4 DEF Latest
<1>5. ASSUME NEW k \in 1 .. n, Latest(l, k, n + 1)
      PROVE  Latest(l, k, n) /\ l[k].name # l[n + 1].name
  BY <1>2, <1>5 DEF Latest
<1>6. Named(l, n + 1)
  <2> SUFFICES ASSUME NEW j \in 1 .. (n + 1)
               PROVE  /\ l[j].name # ""
                      /\ \E k \in 1 .. (n + 1) : Latest(l, k, n + 1) /\ l[k].name = l[j].name
    BY DEF Named
  <2>1. CASE l[j].name = l[n + 1].name
    BY <1>2, <1>3, <2>1
  <2>2. CASE l[j].name # l[n + 1].name
    <3>1. j \in 1 .. n
      BY <1>1, <2>2
    <3>2. PICK k \in 1 .. n : Latest(l, k, n) /\ l[k].name = l[j].name
      BY <3>1 DEF Named
    <3>3. Latest(l, k, n + 1) /\ k \in 1 .. (n + 1)
      BY <1>2, <1>4, <2>2, <3>2
    <3>4. l[j].name # ""
      BY <3>1 DEF Named
    <3>5. QED
      BY <3>2, <3>3, <3>4
  <2>3. QED
    BY <2>1, <2>2
<1>7. Finished(l, n + 1, u, "")
  <2> SUFFICES ASSUME NEW k \in 1 .. (n + 1), Latest(l, k, n + 1)
               PROVE  u[l[k].name] = Both(l[k])
    BY DEF Finished
  <2>1. CASE k = n + 1
    BY <2>1
  <2>2. CASE k \in 1 .. n
    BY <1>5, <2>2 DEF Finished
  <2>3. QED
    BY <1>1, <2>1, <2>2
<1>8. QED
  BY <1>6, <1>7

LEMMA DirWith ==
  ASSUME NEW f, Dir(f), NEW kind \in {"deployment", "service"}, NEW content
  PROVE  /\ Dir([f EXCEPT ![kind] = content]) /\ [f EXCEPT ![kind] = content][kind] = content
         /\ \A other \in {"deployment", "service"} \ {kind} :
              [f EXCEPT ![kind] = content][other] = f[other]
<1> DEFINE x == f["deployment"]
           y == f["service"]
<1>1. f = [deployment |-> x, service |-> y]
  BY DEF Dir
<1> HIDE DEF x, y
<1>2. DOMAIN f = {"deployment", "service"}
  BY <1>1
<1> DEFINE u == [f EXCEPT ![kind] = content]
<1>3. u[kind] = content /\ \A other \in {"deployment", "service"} \ {kind} : u[other] = f[other]
  BY <1>2
<1>4. u = [deployment |-> u["deployment"], service |-> u["service"]]
  <2>1. CASE kind = "deployment"
    <3>1. u = [deployment |-> content, service |-> y]
      BY <1>1, <2>1
    <3>2. QED
      BY <3>1
  <2>2. CASE kind = "service"
    <3>1. u = [deployment |-> x, service |-> content]
      BY <1>1, <2>2
    <3>2. QED
      BY <3>1
  <2>3. QED
    BY <2>1, <2>2
<1>5. QED
  BY <1>3, <1>4 DEF Dir

LEMMA Writes ==
  ASSUME GenerateTypes, step \in InApp, NEW kind \in {"deployment", "service"}, NEW content,
         Write(kind, content)
  PROVE  /\ list[item].name \in AppNames
         /\ tree' = [n \in AppNames |-> tree'[n]] /\ \A n \in AppNames : Dir(tree'[n])
         /\ \A n \in AppNames : n # list[item].name => tree'[n] = tree[n]
         /\ tree'[list[item].name][kind] = content
         /\ \A other \in {"deployment", "service"} \ {kind} :
              tree'[list[item].name][other] = tree[list[item].name][other]
<1> DEFINE name == list[item].name
           dir  == [tree[name] EXCEPT ![kind] = content]
<1>1. name \in AppNames
  BY ItemIs
<1>2. tree' = [tree EXCEPT ![name] = dir]
  BY DEF Write
<1>3. tree = [n \in AppNames |-> tree[n]] /\ Dir(tree[name])
  BY <1>1 DEF GenerateTypes
<1>4. /\ Dir(dir) /\ dir[kind] = content
      /\ \A other \in {"deployment", "service"} \ {kind} : dir[other] = tree[name][other]
  BY <1>3, DirWith
<1>5. \A n \in AppNames : Dir(tree[n])
  BY DEF GenerateTypes
<1> HIDE DEF name, dir
<1>6. tree' = [n \in AppNames |-> tree'[n]]
  BY <1>2, <1>3
<1>7. tree'[name] = dir /\ \A n \in AppNames : n # name => tree'[n] = tree[n]
  BY <1>1, <1>2, <1>3
<1>8. \A n \in AppNames : Dir(tree'[n])
  BY <1>4, <1>5, <1>7
<1>9. QED
  BY <1>1, <1>4, <1>6, <1>7, <1>8 DEF name

\* What is done stays, when only the directory of one name changes.
LEMMA DoneStays ==
  ASSUME NEW l \in AppLists, NEW n \in 0 .. Len(l), NEW t, NEW u, NEW but,
         Finished(l, n, t, but), Named(l, n), \A x \in AppNames : x # but => u[x] = t[x]
  PROVE  Finished(l, n, u, but)
<1> SUFFICES ASSUME NEW k \in 1 .. n, Latest(l, k, n), l[k].name # but
             PROVE  u[l[k].name] = Both(l[k])
  BY DEF Finished
<1>1. t[l[k].name] = Both(l[k])
  BY DEF Finished
<1>2. k \in 1 .. Len(l)
  BY LenIs, Indexes
<1>5. l[k].name # ""
  BY DEF Named
<1>3. l[k].name \in AppNames
  BY <1>2, <1>5, ListIs
<1>4. QED
  BY <1>1, <1>3

LEMMA GenerateStarts == GenerateInit => GenerateInv
<1> SUFFICES ASSUME GenerateInit PROVE GenerateInv
  OBVIOUS
<1>1. /\ list \in AppLists /\ step = "out" /\ exit = "none"
      /\ tree = [n \in AppNames |-> [deployment |-> NoFile, service |-> NoFile]]
  BY DEF GenerateInit
<1>2. Dir([deployment |-> NoFile, service |-> NoFile])
  BY DEF Dir
<1>3. QED
  BY <1>1, <1>2 DEF GenerateInv, GenerateTypes, DoneInv, InApp

\* Out of a run, or a run that fails: nothing is claimed.
LEMMA GenerateOut ==
  ASSUME GenerateInv, list' \in AppLists, step' = "out", exit' # "success", UNCHANGED tree
  PROVE  GenerateInv'
BY DEF GenerateInv, GenerateTypes, DoneInv, InApp

LEMMA GenerateStart ==
  ASSUME GenerateInv, Start
  PROVE  GenerateInv'
<1>1. /\ step' = "name" /\ item' = 1 /\ exit' = "none" /\ list' = list /\ tree' = tree
      /\ list \in AppLists
  BY DEF Start, GenerateInv, GenerateTypes
<1>2. 1 \in 1 .. (Len(list) + 1) /\ 1 - 1 = 0
  BY <1>1, LenIs, Indexes
<1>3. Named(list, 0) /\ Finished(list, 0, tree, "")
  BY DEF Named, Finished
<1>4. QED
  BY <1>1, <1>2, <1>3 DEF GenerateInv, GenerateTypes, DoneInv, InApp

LEMMA GenerateName ==
  ASSUME GenerateInv, Name
  PROVE  GenerateInv'
<1>1. CASE list[item].name = ""
  BY <1>1, GenerateOut DEF Name, Fatal, GenerateInv, GenerateTypes
<1>2. CASE list[item].name # ""
  <2>1. /\ step = "name" /\ item <= Len(list) /\ step' = "open deployment"
        /\ UNCHANGED <<list, item, printed, exit, tree>>
    BY <1>2 DEF Name, To
  <2>2. Finished(list, item - 1, tree, "") /\ Named(list, item - 1) /\ exit # "success"
    BY <2>1 DEF GenerateInv, DoneInv
  <2>3. Finished(list, item - 1, tree, list[item].name)
    BY <2>2 DEF Finished, Named
  <2>4. QED
    BY <1>2, <2>1, <2>2, <2>3 DEF GenerateInv, GenerateTypes, DoneInv, InApp
<1>3. QED
  BY <1>1, <1>2

\* A step that writes a file, but the last.
LEMMA GenerateWrite ==
  ASSUME GenerateInv, step \in InApp, step' \in InApp, UNCHANGED <<list, item, printed, exit>>,
         NEW kind \in {"deployment", "service"}, NEW content, Write(kind, content),
         \/ kind = "deployment" /\ content = DeploymentOf(list[item])
         \/ kind = "deployment" /\ step' = "deployment"
         \/ kind = "service" /\ step \in {"open service", "service"}
  PROVE  GenerateInv'
<1> DEFINE name == list[item].name
<1>1. /\ name \in AppNames
      /\ tree' = [n \in AppNames |-> tree'[n]] /\ \A n \in AppNames : Dir(tree'[n])
      /\ \A n \in AppNames : n # name => tree'[n] = tree[n]
      /\ tree'[name][kind] = content
      /\ \A other \in {"deployment", "service"} \ {kind} : tree'[name][other] = tree[name][other]
  BY Writes DEF GenerateInv
<1>2. list \in AppLists /\ item \in 1 .. Len(list) /\ step # "out" /\ exit # "success" /\ name # ""
  BY ItemIs DEF GenerateInv, DoneInv
<1>3. item - 1 \in 0 .. Len(list)
  BY <1>2, LenIs, Indexes
<1>4. Finished(list, item - 1, tree, name) /\ Named(list, item - 1)
  BY <1>2 DEF GenerateInv, DoneInv
<1>5. name = list[item].name
  OBVIOUS
<1> HIDE DEF name
<1>6. Finished(list, item - 1, tree', name)
  BY <1>1, <1>2, <1>3, <1>4, DoneStays
<1>7. step' \in {"open service", "service"} => tree'[name]["deployment"] = DeploymentOf(list[item])
  BY <1>1, <1>5 DEF GenerateInv, DoneInv
<1>8. GenerateTypes'
  BY <1>1, <1>2, <1>5 DEF GenerateInv, GenerateTypes, InApp
<1>9. DoneInv'
  BY <1>2, <1>4, <1>5, <1>6, <1>7 DEF DoneInv, InApp
<1>10. QED
  BY <1>8, <1>9 DEF GenerateInv

LEMMA GenerateWritten ==
  ASSUME GenerateInv, WriteService
  PROVE  GenerateInv'
<1> DEFINE name == list[item].name
           n    == item - 1
<1>0. /\ step = "service" /\ step \in InApp /\ step' = "name" /\ item' = item + 1
      /\ Write("service", ServiceOf(list[item])) /\ UNCHANGED <<list, printed, exit>>
  BY DEF WriteService, InApp
<1>1. /\ name \in AppNames
      /\ tree' = [x \in AppNames |-> tree'[x]] /\ \A x \in AppNames : Dir(tree'[x])
      /\ \A x \in AppNames : x # name => tree'[x] = tree[x]
      /\ tree'[name]["service"] = ServiceOf(list[item])
      /\ tree'[name]["deployment"] = tree[name]["deployment"]
  BY <1>0, Writes DEF GenerateInv
<1>2. list \in AppLists /\ item \in 1 .. Len(list) /\ exit # "success" /\ name # ""
  BY <1>0, ItemIs DEF GenerateInv, DoneInv
<1>3. /\ Finished(list, n, tree, name) /\ Named(list, n)
      /\ tree[name]["deployment"] = DeploymentOf(list[item])
  BY <1>0 DEF GenerateInv, DoneInv
<1>4. n \in Nat /\ n + 1 = item /\ item' - 1 = item /\ item' \in 1 .. (Len(list) + 1)
      /\ \A j \in 1 .. n : j \in 1 .. Len(list)
  BY <1>0, <1>2, LenIs, Indexes
<1>5. tree'[name] = Both(list[item])
  BY <1>1, <1>3 DEF Dir, Both
<1>6. name = list[item].name
  OBVIOUS
<1> HIDE DEF name, n
<1>7. \A j \in 1 .. n : list[j].name # name => tree'[list[j].name] = tree[list[j].name]
  <2> SUFFICES ASSUME NEW j \in 1 .. n, list[j].name # name
               PROVE  tree'[list[j].name] = tree[list[j].name]
    OBVIOUS
  <2>1. list[j].name \in AppNames
    BY <1>2, <1>3, <1>4, ListIs DEF Named
  <2>2. QED
    BY <1>1, <2>1
<1>8. Named(list, n + 1) /\ Finished(list, n + 1, tree', "")
  <2>1. list[n + 1].name = name /\ list[n + 1] = list[item]
    BY <1>4, <1>6
  <2>2. QED
    BY <1>2, <1>3, <1>4, <1>5, <1>7, <2>1, OneMore
<1>9. QED
  BY <1>0, <1>1, <1>2, <1>4, <1>8 DEF GenerateInv, GenerateTypes, DoneInv, InApp

LEMMA GenerateAll ==
  ASSUME GenerateInv, AllGenerated
  PROVE  GenerateInv'
<1>1. /\ step = "name" /\ item = Len(list) + 1 /\ step' = "out" /\ exit' = "success"
      /\ UNCHANGED <<list, tree, printed>>
  BY DEF AllGenerated
<1>2. item - 1 = Len(list)
  BY <1>1, LenIs, Indexes DEF GenerateInv, GenerateTypes
<1>3. Named(list, Len(list)) /\ Finished(list, Len(list), tree, "")
  BY <1>1, <1>2 DEF GenerateInv, DoneInv
<1>4. QED
  BY <1>1, <1>3 DEF GenerateInv, GenerateTypes, DoneInv, InApp

LEMMA GenerateKept == GenerateInv /\ [GenerateNext]_generateVars => GenerateInv'
<1> SUFFICES ASSUME GenerateInv, [GenerateNext]_generateVars PROVE GenerateInv'
  OBVIOUS
<1>1. CASE UNCHANGED generateVars
  BY <1>1 DEF generateVars, GenerateInv, GenerateTypes, DoneInv
<1>2. CASE \E l \in AppLists : Configure(l)
  BY <1>2, GenerateOut DEF Configure
<1>3. CASE NoPort \/ PrintAll \/ StepFails
  BY <1>3, GenerateOut DEF NoPort, PrintAll, StepFails, Fatal, GenerateInv, GenerateTypes
<1>4. CASE Start \/ Name \/ WriteService \/ AllGenerated
  BY <1>4, GenerateStart, GenerateName, GenerateWritten, GenerateAll
<1>5. CASE OpenDeployment
  BY <1>5, GenerateWrite DEF OpenDeployment, To, InApp
<1>6. CASE WriteDeployment
  BY <1>6, GenerateWrite DEF WriteDeployment, To, InApp
<1>7. CASE OpenService
  BY <1>7, GenerateWrite DEF OpenService, To, InApp
<1>8. QED
  BY <1>1, <1>2, <1>3, <1>4, <1>5, <1>6, <1>7 DEF GenerateNext

\* After a success, a directory has the objects of the last application of its
\* name.
THEOREM LastOfNameTheorem ==
  GenerateSpec => []LastOfNameGenerated
<1>1. GenerateInv => LastOfNameGenerated
  <2> SUFFICES ASSUME GenerateInv, exit = "success", NEW i \in DOMAIN list
               PROVE  LET same == {j \in DOMAIN list : list[j].name = list[i].name}
                          last == CHOOSE j \in same : \A k \in same : k <= j
                          dir  == tree[list[i].name]
                      IN /\ dir = [deployment |-> DeploymentOf(list[last]),
                                   service |-> ServiceOf(list[last])]
                         /\ dir.service.selector = dir.deployment.pod
                         /\ dir.service.port.target = dir.deployment.port.name
                         /\ dir.service.namespace = dir.deployment.namespace
    BY DEF LastOfNameGenerated
  <2> DEFINE same == {j \in DOMAIN list : list[j].name = list[i].name}
             last == CHOOSE j \in same : \A k \in same : k <= j
             dir  == tree[list[i].name]
  <2>1. list \in AppLists /\ DOMAIN list = 1 .. Len(list)
    BY ListIs DEF GenerateInv, GenerateTypes
  <2>2. Named(list, Len(list)) /\ Finished(list, Len(list), tree, "")
    BY DEF GenerateInv, DoneInv
  <2>3. PICK k \in 1 .. Len(list) : Latest(list, k, Len(list)) /\ list[k].name = list[i].name
    BY <2>1, <2>2 DEF Named
  <2>4. k \in same /\ \A j \in same : j <= k
    BY <2>1, <2>3 DEF Latest
  <2>5. last \in same /\ \A j \in same : j <= last
    BY <2>4
  <2>6. Latest(list, last, Len(list)) /\ list[last].name = list[i].name /\ list[last].name # ""
    BY <2>1, <2>2, <2>5 DEF Latest, Named
  <2>7. dir = Both(list[last])
    BY <2>2, <2>6 DEF Finished, Latest
  <2>8. /\ dir.deployment = DeploymentOf(list[last]) /\ dir.service = ServiceOf(list[last])
        /\ dir = [deployment |-> DeploymentOf(list[last]), service |-> ServiceOf(list[last])]
    BY <2>7 DEF Both
  <2>9. /\ ServiceOf(list[last]).selector = DeploymentOf(list[last]).pod
        /\ ServiceOf(list[last]).port.target = DeploymentOf(list[last]).port.name
        /\ ServiceOf(list[last]).namespace = DeploymentOf(list[last]).namespace
    BY DEF DeploymentOf, ServiceOf
  <2>10. QED
    BY <2>8, <2>9
<1>2. QED
  BY <1>1, GenerateStarts, GenerateKept, PTL DEF GenerateSpec
=============================================================================
