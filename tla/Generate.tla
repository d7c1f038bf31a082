------------------------------ MODULE Generate ------------------------------
(***************************************************************************)
(* The older generator of manifests: config/k8s/generate/main.go.          *)
(*                                                                         *)
(* It has a list of applications, not a map by key, so that two may share  *)
(* a name and a directory.  It overwrites what is there, writes a          *)
(* deployment and a service only, checks a name when it comes to it, and   *)
(* exits at the first failure, with what it wrote before left in place.    *)
(***************************************************************************)
EXTENDS Integers, Sequences, FiniteSets

CONSTANTS
  AppLists,   \* the configurations, sequences of applications
  AppNames    \* the names in them

ASSUME AppListsAssumption ==
  \A l \in AppLists :
    /\ l \in Seq({l[i] : i \in DOMAIN l})
    /\ \A i \in DOMAIN l : l[i].name \in AppNames \cup {""}

VARIABLES
  list,       \* the configuration
  step,       \* the step of the run: "out" of it, or of an application
  item,       \* the application it is at
  tree,       \* the directories
  printed,    \* what it printed last
  exit        \* how the last run ended

generateVars == <<list, step, item, tree, printed, exit>>

NoFile == [missing |-> TRUE]   \* no file
EmptyFile   == [empty |-> TRUE]     \* a file that was truncated
-----------------------------------------------------------------------------
\* An unknown size is one without resources.
SizeOf(v) ==
  CASE v \in {"l", "b", "lg", "bg", "big", "large"} -> "big"
    [] v \in {"m", "med", "medium"}                 -> "medium"
    [] v \in {"s", "sm", "sml", "small"}            -> "small"
    [] OTHER                                        -> "unknown"

Quantity(memory, cpu) == [memory |-> memory, cpu |-> cpu]

Resources(v) ==
  CASE SizeOf(v) = "big"    -> [limits |-> Quantity(512, 250), requests |-> Quantity(256, 100)]
    [] SizeOf(v) = "medium" -> [limits |-> Quantity(256, 100), requests |-> Quantity(128, 50)]
    [] SizeOf(v) = "small"  -> [limits |-> Quantity(128, 50),  requests |-> Quantity(64, 10)]
    [] OTHER                -> [none |-> TRUE]

\* InitDefaults and ImageName: the repository, the name and the tag.
Image(a) ==
  <<IF a.image.repo = "" THEN "10.0.0.11:5000" ELSE a.image.repo,
    IF a.image.name = "" THEN a.name ELSE a.image.name,
    IF a.image.tag = "" THEN "latest" ELSE a.image.tag>>

NamespaceOf(a) == IF a.namespace = "" THEN "default" ELSE a.namespace

DeploymentOf(a) ==
  [name |-> a.name, namespace |-> NamespaceOf(a), replicas |-> 1,
   selector |-> a.name, pod |-> a.name, scraped |-> ~a.skipPrometheus,
   image |-> Image(a), args |-> a.args,
   port |-> [name |-> "http", number |-> a.port], resources |-> Resources(a.size)]

ServiceOf(a) ==
  [name |-> a.name, namespace |-> NamespaceOf(a), selector |-> a.name,
   port |-> [name |-> "http", number |-> a.port, target |-> "http"]]

ConfigMapOf(a) == [name |-> <<a.name, "env">>, namespace |-> NamespaceOf(a), data |-> a.config]
-----------------------------------------------------------------------------
GenerateInit ==
  /\ list \in AppLists
  /\ step = "out" /\ item = 0
  /\ tree = [n \in AppNames |-> [deployment |-> NoFile, service |-> NoFile]]
  /\ printed = <<>> /\ exit = "none"

Configure(l) ==
  /\ step = "out" /\ l # list
  /\ list' = l /\ exit' = "none"
  /\ UNCHANGED <<step, item, tree, printed>>

Fatal ==
  /\ step' = "out" /\ item' = 0 /\ exit' = "fatal"
  /\ UNCHANGED <<list, tree, printed>>

Ported == \A i \in DOMAIN list : list[i].port # 0

NoPort ==
  /\ step = "out" /\ ~Ported
  /\ Fatal

\* To standard output, with the configmaps, and with applications without a
\* name.
PrintAll ==
  /\ step = "out" /\ Ported
  /\ printed' = [i \in DOMAIN list |-> <<DeploymentOf(list[i]), ServiceOf(list[i]), ConfigMapOf(list[i])>>]
  /\ exit' = "printed"
  /\ UNCHANGED <<list, step, item, tree>>

Start ==
  /\ step = "out" /\ Ported
  /\ step' = "name" /\ item' = 1 /\ exit' = "none"
  /\ UNCHANGED <<list, tree, printed>>

To(s) == step' = s /\ UNCHANGED <<list, item, printed, exit>>

Name ==
  /\ step = "name" /\ item <= Len(list)
  /\ IF list[item].name = "" THEN Fatal ELSE To("open deployment") /\ UNCHANGED tree

Write(kind, content) == tree' = [tree EXCEPT ![list[item].name][kind] = content]

OpenDeployment ==
  step = "open deployment" /\ Write("deployment", EmptyFile) /\ To("deployment")

WriteDeployment ==
  step = "deployment" /\ Write("deployment", DeploymentOf(list[item])) /\ To("open service")

OpenService ==
  step = "open service" /\ Write("service", EmptyFile) /\ To("service")

WriteService ==
  /\ step = "service"
  /\ Write("service", ServiceOf(list[item]))
  /\ step' = "name" /\ item' = item + 1
  /\ UNCHANGED <<list, printed, exit>>

AllGenerated ==
  /\ step = "name" /\ item = Len(list) + 1
  /\ step' = "out" /\ item' = 0 /\ exit' = "success"
  /\ UNCHANGED <<list, tree, printed>>

\* Mutant: a failure is logged, and the next step taken.
FailsAndGoesOn ==
  \/ step = "deployment" /\ To("open service") /\ UNCHANGED tree
  \/ /\ step = "service" /\ step' = "name" /\ item' = item + 1
     /\ UNCHANGED <<list, tree, printed, exit>>

\* A directory or a file cannot be made, an encoding fails, or it is killed.
StepFails == step # "out" /\ Fatal

GenerateNext ==
  \/ \E l \in AppLists : Configure(l)
  \/ NoPort \/ PrintAll \/ Start \/ Name
  \/ OpenDeployment \/ WriteDeployment \/ OpenService \/ WriteService
  \/ AllGenerated \/ StepFails

GenerateSpec == GenerateInit /\ [][GenerateNext]_generateVars
-----------------------------------------------------------------------------
\* After a success each directory of the configuration has a deployment and a
\* service of one application, the last of that name, whatever runs, also
\* ones cut short, were there before; and the service leads to its pods.
LastOfNameGenerated ==
  exit = "success" =>
    \A i \in DOMAIN list :
      LET same == {j \in DOMAIN list : list[j].name = list[i].name}
          last == CHOOSE j \in same : \A k \in same : k <= j
          dir  == tree[list[i].name]
      IN /\ dir = [deployment |-> DeploymentOf(list[last]), service |-> ServiceOf(list[last])]
         /\ dir.service.selector = dir.deployment.pod
         /\ dir.service.port.target = dir.deployment.port.name
         /\ dir.service.namespace = dir.deployment.namespace
=============================================================================
