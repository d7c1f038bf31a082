------------------------------- MODULE LabApp -------------------------------
(***************************************************************************)
(* What `lab gen k8s` makes of an application: cmd/tools/lab's app.go,     *)
(* config.go and resources.go.                                             *)
(*                                                                         *)
(* An application is a record with the fields of the configuration file.   *)
(* Calc fills in what is missing, Validate says whether it may be used,    *)
(* and Manifests gives the kubernetes objects, each a record of the fields *)
(* that refer to another object or decide what runs.  A file's name stands *)
(* for its kind.  The text of an image is a sequence of words, "/" and     *)
(* ":"; no text is <<>>, and no setting is NoSetting.                      *)
(***************************************************************************)
EXTENDS Integers, Sequences, FiniteSets

NoSetting == [none |-> TRUE]

AppLabel == "app"
-----------------------------------------------------------------------------
(* config.go                                                               *)

Aliases ==
  [big    |-> <<"big", "large", "lg", "l", "b">>,
   medium |-> <<"medium", "med", "m">>,
   small  |-> <<"small", "sml", "sm", "s">>]

SizeTexts == [big    |-> {"l", "b", "lg", "bg", "big", "lrg", "large"},
              medium |-> {"m", "med", "medium"},
              small  |-> {"s", "sm", "sml", "small"}]

\* The size a text means; a text that means none is an error of the decoder.
SizeKnown(v) == \E s \in DOMAIN SizeTexts : v \in SizeTexts[s]

NewSize(v) == CHOOSE s \in DOMAIN SizeTexts : v \in SizeTexts[s]

Where(s, c) == {i \in DOMAIN s : s[i] = c}

\* registry/user/name:tag.  One "/" alone is part of the name, and what comes
\* after the last ":" is the tag, whatever it is.
ParseImage(s) ==
  LET slash == Where(s, "/")
      cut   == IF Cardinality(slash) > 1
               THEN CHOOSE i \in slash : \A j \in slash : i <= j
               ELSE 0
      rest  == SubSeq(s, cut + 1, Len(s))
      colon == Where(rest, ":")
      last  == IF colon = {} THEN 0 ELSE CHOOSE i \in colon : \A j \in colon : j <= i
  IN [registry |-> SubSeq(s, 1, cut - 1),
      tag      |-> IF last > 1 THEN SubSeq(rest, last + 1, Len(rest)) ELSE <<>>,
      name     |-> IF last > 1 THEN SubSeq(rest, 1, last - 1) ELSE rest]

ImageString(img) ==
  (IF img.registry = <<>> THEN <<>> ELSE img.registry \o <<"/">>)
    \o img.name \o <<":">> \o img.tag
-----------------------------------------------------------------------------
(* resources.go                                                            *)

\* The settings for a size in the file: the first name of the size it has.
Conf(sizes, size) ==
  LET named == {i \in DOMAIN Aliases[size] : Aliases[size][i] \in DOMAIN sizes}
  IN IF named = {} THEN [limits |-> NoSetting, requests |-> NoSetting]
     ELSE sizes[Aliases[size][CHOOSE i \in named : \A j \in named : i <= j]]

DefaultLimits(size) ==
  CASE size = "big"    -> [memory |-> 512, cpu |-> 250]
    [] size = "medium" -> [memory |-> 256, cpu |-> 100]
    [] size = "small"  -> [memory |-> 128, cpu |-> 50]

DefaultRequests(size) ==
  CASE size = "big"    -> [memory |-> 256, cpu |-> 100]
    [] size = "medium" -> [memory |-> 128, cpu |-> 50]
    [] size = "small"  -> [memory |-> 64,  cpu |-> 10]

\* Of the application itself, of the file for its size, or the default; what
\* cannot be parsed (below 0) is warned of and left out.
Quantities(own, conf, default) ==
  LET used == IF own # NoSetting THEN own ELSE IF conf # NoSetting THEN conf ELSE default
  IN IF used.memory < 0 \/ used.cpu < 0 THEN NoSetting ELSE used

DeployResources(a, c) ==
  [limits   |-> Quantities(a.limits, Conf(c.sizes, a.size).limits, DefaultLimits(a.size)),
   requests |-> Quantities(a.requests, Conf(c.sizes, a.size).requests, DefaultRequests(a.size))]
-----------------------------------------------------------------------------
(* app.go                                                                  *)

ExternalPort(p) ==
  IF p.external # 0 THEN p.external
  ELSE CASE p.type = "http" -> 80 [] p.type = "https" -> 443 [] OTHER -> 0

CalcImage(a, name, c) ==
  LET img == IF a.image = <<>> THEN [registry |-> <<>>, name |-> <<>>, tag |-> <<>>]
             ELSE ParseImage(a.image)
  IN [name     |-> IF img.name # <<>> THEN img.name
                   ELSE IF c.user # <<>> THEN c.user \o <<"/", name>> ELSE <<name>>,
      registry |-> IF img.registry # <<>> THEN img.registry ELSE c.registry,
      tag      |-> IF img.tag # <<>> THEN img.tag ELSE <<"latest">>]

\* Bounds that are the same are a number of replicas, unless it says another.
Fixed(a) ==
  a.scale # NoSetting /\ a.scale.from = a.scale.to /\ a.replicas \in {0, a.scale.from}

\* The application of a key of the file, with what it leaves out.
Calc(a, key, c) ==
  LET name == IF a.name = "" THEN key ELSE a.name
  IN [a EXCEPT
        !.name     = name,
        !.size     = IF a.size = "" THEN "medium" ELSE NewSize(a.size),
        !.image    = CalcImage(a, name, c),
        !.ports    = [i \in DOMAIN a.ports |-> [a.ports[i] EXCEPT !.external = ExternalPort(a.ports[i])]],
        !.replicas = IF Fixed(a) THEN a.scale.from ELSE @,
        !.scale    = IF Fixed(a) THEN NoSetting ELSE @]

PortTypes == {"http", "grpc", "tcp", "udp"}

\* Validate, after the decoder and Calc: a size and the name and the tag of
\* the image are there by now.
Valid(a) == a.name # "" /\ \A i \in DOMAIN a.ports : a.ports[i].type \in PortTypes

ConfigMapName(a) == <<a.name, "env">>

SecretName(a) == <<a.name, "env">>

NameLabel == "app.kubernetes.io/name"

Label(l, v) == [x \in {l} |-> v]

\* What is in both is as in the second.
Merge(f, g) == [x \in (DOMAIN f) \cup DOMAIN g |-> IF x \in DOMAIN g THEN g[x] ELSE f[x]]

CommonLabels(a) == [l \in {NameLabel, "app.kubernetes.io/part-of"} |-> a.name]

\* The labels of the file win.
Labels(a) == Merge(CommonLabels(a), a.labels)

Without(f, k) == [x \in (DOMAIN f) \ {k} |-> f[x]]

\* Mutant: the label that selects is taken out of the pods' labels, too.
DeploymentUnlabelled(a, c) ==
  LET labels == Labels(a)
  IN [name     |-> a.name, namespace |-> a.namespace, labels |-> labels,
      reloads  |-> IF c.reloader THEN {ConfigMapName(a), SecretName(a)} ELSE {},
      selector |-> Label(AppLabel, a.name), pod |-> labels,
      image    |-> ImageString(a.image),
      ports    |-> [i \in DOMAIN a.ports |-> [name |-> a.ports[i].type, port |-> a.ports[i].port]],
      resources |-> DeployResources(a, c),
      configMap |-> ConfigMapName(a), secret |-> SecretName(a), replicas |-> a.replicas]

Deployment(a, c) ==
  LET labels == Merge(Label(AppLabel, a.name), Labels(a))
  IN [name     |-> a.name, namespace |-> a.namespace,
      labels   |-> Without(labels, AppLabel),
      reloads  |-> IF c.reloader THEN {ConfigMapName(a), SecretName(a)} ELSE {},
      selector |-> Label(AppLabel, a.name),
      pod      |-> labels,
      image    |-> ImageString(a.image),
      ports    |-> [i \in DOMAIN a.ports |-> [name |-> a.ports[i].type, port |-> a.ports[i].port]],
      resources |-> DeployResources(a, c),
      configMap |-> ConfigMapName(a), secret |-> SecretName(a),
      replicas |-> a.replicas]   \* 0: as many as there are

Service(a) ==
  [name     |-> a.name, namespace |-> a.namespace, labels |-> Labels(a),
   selector |-> Label(AppLabel, a.name),
   ports    |-> [i \in DOMAIN a.ports |->
                  [name   |-> a.ports[i].type, port |-> a.ports[i].external,
                   target |-> a.ports[i].type,
                   protocol |-> IF a.ports[i].type = "udp" THEN "udp" ELSE "tcp"]]]

ConfigMap(a) ==
  [name |-> ConfigMapName(a), namespace |-> a.namespace, labels |-> Labels(a), data |-> a.config]

Secret(a) ==
  [name |-> SecretName(a), namespace |-> a.namespace, labels |-> Labels(a), data |-> a.secrets]

Namespace(a) == [name |-> a.namespace, labels |-> CommonLabels(a)]

\* From 1 to 1 there is nothing to scale, and no object.
Hpa(a) ==
  IF a.scale.from = 1 /\ a.scale.to = 1 THEN NoSetting
  ELSE [name |-> a.name, namespace |-> a.namespace, labels |-> Labels(a),
        min |-> a.scale.from, max |-> a.scale.to, target |-> a.name,
        metrics |-> {m \in {"cpu", "memory"} : a.scale[m] > 0}]

\* The template of the service monitor is empty without ports.
ServiceMonitor(a) ==
  IF a.ports = <<>> THEN NoSetting
  ELSE [name |-> a.name, namespace |-> a.namespace, labels |-> CommonLabels(a),
        selector   |-> Label(NameLabel, a.name),
        namespaces |-> {a.namespace} \ {"", "default"},
        endpoints  |-> {a.ports[i].type : i \in DOMAIN a.ports}]

\* The kinds of manifests; "Default" is the namespace default here, too.
Manifests(a) ==
  {"service", "configmap", "secret", "deployment"}
    \cup (IF a.namespace \notin {"", "default", "Default"} THEN {"namespace"} ELSE {})
    \cup (IF a.scale # NoSetting THEN {"hpa"} ELSE {})

Templates(a) == IF a.skipPrometheus THEN {} ELSE {"servicemonitor"}

Manifest(a, k, c) ==
  CASE k = "deployment" -> Deployment(a, c) [] k = "service" -> Service(a)
    [] k = "configmap" -> ConfigMap(a)      [] k = "secret" -> Secret(a)
    [] k = "namespace" -> Namespace(a)      [] k = "hpa" -> Hpa(a)
    [] k = "servicemonitor" -> ServiceMonitor(a)
-----------------------------------------------------------------------------
\* A label's value in one set of labels is the same in another.
Selects(selector, labels) ==
  \A l \in DOMAIN selector : l \in DOMAIN labels /\ labels[l] = selector[l]

\* The manifests of an application refer to one another: the service and the
\* deployment select the pods, the service monitor the service, each port has
\* its target, the environment has its sources, and all are in one namespace.
Agree(a, dir) ==
  LET deploy  == dir["deployment"]
      service == dir["service"]
      monitor == dir["servicemonitor"]
  IN /\ Selects(deploy.selector, deploy.pod) /\ Selects(service.selector, deploy.pod)
     /\ \A i \in DOMAIN service.ports :
          \E j \in DOMAIN deploy.ports : deploy.ports[j].name = service.ports[i].target
     /\ deploy.configMap = dir["configmap"].name /\ deploy.secret = dir["secret"].name
     /\ deploy.reloads \subseteq {dir["configmap"].name, dir["secret"].name}
     /\ \A m \in Manifests(a) \ {"namespace"} :
          dir[m] # NoSetting => dir[m].namespace = deploy.namespace
     /\ "namespace" \in Manifests(a) => dir["namespace"].name = deploy.namespace
     /\ Templates(a) # {} /\ monitor # NoSetting =>
          /\ Selects(monitor.selector, service.labels)
          /\ monitor.endpoints = {service.ports[i].name : i \in DOMAIN service.ports}
          /\ "namespace" \in Manifests(a) => monitor.namespaces = {service.namespace}
     /\ "hpa" \in Manifests(a) /\ dir["hpa"] # NoSetting => dir["hpa"].target = deploy.name
=============================================================================
