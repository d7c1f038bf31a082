------------------------------ MODULE MCDeploy ------------------------------
(* The tools that deploy, each in behaviours of its own.                   *)
(*                                                                         *)
(* `lab`: two applications, and files that an operator may go through, one *)
(* with a namespace and an extra resource, one that takes them away and    *)
(* has an autoscaler, and one that is not valid.  The older generator,     *)
(* with lists of which one has two applications of a name.  `provision`:   *)
(* two configurations of one installation, and two that are refused,       *)
(* before anything is done or between the two stores; and migrations, for  *)
(* which the databases alone are provisioned.                              *)
EXTENDS Lab, Generate, Provision, TLC

CONSTANTS b, p, q, u, v, g, r, w, d, e, tab

VARIABLE tool

Plain ==
  [name |-> "", namespace |-> "", image |-> <<>>, size |-> "", replicas |-> 0,
   ports |-> <<[type |-> "http", port |-> 8080, external |-> 0]>>,
   limits |-> NoSetting, requests |-> NoSetting, scale |-> NoSetting,
   config |-> {"A"}, secrets |-> {"B"}, skipPrometheus |-> FALSE, extra |-> {},
   labels |-> <<>>, skip |-> FALSE]

File(apps) ==
  [registry |-> <<"reg", ":", "5000">>, user |-> <<"user">>, reloader |-> TRUE, apps |-> apps,
   sizes |-> [med |-> [limits |-> [memory |-> 300, cpu |-> 100], requests |-> NoSetting],
              m   |-> [limits |-> NoSetting, requests |-> [memory |-> 100, cpu |-> -1]]]]

Scale(from, to) == [from |-> from, to |-> to, cpu |-> 80, memory |-> 0]

First ==
  File([web |-> [Plain EXCEPT !.namespace = "ns",
                              !.labels = [team |-> "a"], !.limits = [memory |-> 64, cpu |-> 10]],
        db  |-> [Plain EXCEPT !.extra = {"pvc.yml"}, !.size = "big", !.skipPrometheus = TRUE,
                              !.scale = Scale(2, 2),
                              !.image = <<"reg", "/", "user", "/", "pg", ":", "15">>]])

Second ==
  File([web |-> [Plain EXCEPT !.namespace = "default", !.scale = Scale(1, 3),
                              !.ports = <<[type |-> "http", port |-> 8080, external |-> 8080],
                                          [type |-> "grpc", port |-> 9090, external |-> 9090]>>,
                              !.image = <<"user", "/", "web", ":", "2">>],
        db  |-> [Plain EXCEPT !.skip = TRUE]])

Bad ==
  File([web |-> [Plain EXCEPT !.ports = <<[type |-> "https", port |-> 8443, external |-> 0]>>]])

MCConfigs == {First, Second, Bad}
MCKeys    == {"web", "db"}

Old(name, size, port) ==
  [name |-> name, port |-> port, image |-> [repo |-> "", name |-> "", tag |-> ""], size |-> size,
   args |-> <<>>, namespace |-> "", config |-> {"A"}, skipPrometheus |-> FALSE]

MCAppLists ==
  {<<Old("web", "big", 8080),
     [Old("db", "huge", 5432) EXCEPT !.image = [repo |-> "", name |-> "pg", tag |-> "15"],
                                    !.skipPrometheus = TRUE, !.namespace = "ns"],
     Old("web", "s", 9090)>>,
   <<Old("web", "m", 8080), Old("", "m", 8080)>>,
   <<Old("web", "m", 0)>>}

MCNames == {"web", "db"}

-----------------------------------------------------------------------------
User(ps, gs) == [policies |-> ps, groups |-> gs]

FirstSetup ==
  [buckets |-> (b :> p), policies |-> (p :> "v1") @@ (q :> "v1"),
   users |-> (u :> User({p}, {g})) @@ (v :> User({q}, {g})),
   groups |-> (g :> <<p, q>>),
   roles |-> (r :> {<<"ALL", d>>}) @@ (w :> {<<"SELECT", tab>>, <<"MEMBER", r>>}),
   databases |-> (d :> r), migrations |-> {d}]

\* A bucket becomes private, a policy changes, a user leaves the group, there is a
\* second database, and the second role is no longer of the configuration.
SecondSetup ==
  [buckets |-> (b :> Nothing), policies |-> (p :> "v2"),
   users |-> (u :> User({p, q}, {g})) @@ (v :> User({}, {})),
   groups |-> (g :> <<p>>),
   roles |-> (r :> {<<"ALL", d>>, <<"CONNECT", e>>}), databases |-> (d :> r) @@ (e :> r),
   migrations |-> {d, e}]

BadPolicy == [FirstSetup EXCEPT !.policies = (p :> "faulty")]

\* A privilege of tables on a database.
BadGrant == [FirstSetup EXCEPT !.roles = (r :> {<<"SELECT", d>>})]

MCConfigurations == {FirstSetup, SecondSetup, BadPolicy, BadGrant}
-----------------------------------------------------------------------------
\* The configuration of a tool that does not run is any one; provisioning begins
\* with one of its own.
MCInit ==
  /\ Init /\ GenerateInit /\ ProvisionInit
  /\ tool \in {"lab", "older", "provision", "migrate"}
  /\ tool # "lab"   => config = CHOOSE c \in Configs : TRUE
  /\ tool # "older" => list = CHOOSE l \in AppLists : TRUE
  /\ cfg = CHOOSE c \in Configurations : TRUE

\* Migrations only need a database: with them the object store is skipped.
MCNext ==
  /\ UNCHANGED tool
  /\ \/ tool = "lab" /\ Next /\ UNCHANGED <<generateVars, provisionVars>>
     \/ tool = "older" /\ GenerateNext /\ UNCHANGED <<vars, provisionVars>>
     \/ /\ tool = "provision" /\ ProvisionNext /\ phase' \notin {"all", "up", "down"}
        /\ UNCHANGED <<vars, generateVars>>
     \/ /\ tool = "migrate" /\ ProvisionNext /\ phase' # "buckets"
        /\ UNCHANGED <<vars, generateVars>>

MCSpec == MCInit /\ [][MCNext]_<<tool, vars, generateVars, provisionVars>>
=============================================================================
