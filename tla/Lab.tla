-------------------------------- MODULE Lab --------------------------------
(***************************************************************************)
(* `lab gen k8s`: cmd/tools/lab's gen_k8s.go, over the applications of     *)
(* LabApp.                                                                 *)
(*                                                                         *)
(* A run writes a directory of manifests for each application, and a       *)
(* kustomization.yml that lists them.  A manifest that is already there is *)
(* kept unless the run is forced, so that what is in a directory depends   *)
(* on the runs and the edits before.  A file is truncated, then written;   *)
(* a run may end at any step, by an error or because it is killed.         *)
(***************************************************************************)
EXTENDS LabApp

CONSTANTS
  Configs,   \* files: each has its settings and its applications by key
  Keys,      \* the keys of the applications
  Extras,    \* files that applications may have beside their manifests
  MaxCuts    \* bound: runs that end early

ASSUME ConfigsAssumption ==
  /\ MaxCuts \in Nat
  /\ \A c \in Configs : /\ DOMAIN c.apps \subseteq Keys
                        /\ \A k \in DOMAIN c.apps : c.apps[k].extra \subseteq Extras

VARIABLES
  config,    \* the file now
  force,     \* the run is forced
  at,        \* where the run is
  left,      \* applications it has not begun
  app,       \* the application it generates
  todo,      \* manifests of it that are not looked at yet
  names,     \* the resources for its kustomization
  open,      \* the file that is truncated and not written yet
  files,     \* the manifests in a directory
  listed,    \* the resources its kustomization.yml lists
  extras,    \* other files in a directory
  result,    \* how the last run ended
  cuts,      \* runs that ended early
  clean      \* (history) no edit and no run cut short since a directory was whole

runVars  == <<force, at, left, app, todo, names, open>>
treeVars == <<files, listed>>
vars     == <<config, runVars, treeVars, extras, result, cuts, clean>>

Kinds == {"deployment", "service", "secret", "configmap", "namespace", "hpa", "servicemonitor"}

\* An application has the fields of the file, and its extra resources are other
\* files than its manifests.
ASSUME AppsAssumption ==
  /\ Extras \cap Kinds = {}
  /\ \A c \in Configs : \A k \in DOMAIN c.apps :
       {"name", "namespace", "image", "size", "replicas", "ports", "scale", "labels", "extra",
        "skip", "skipPrometheus"} \subseteq DOMAIN c.apps[k]

None == "none"
Torn     == [torn |-> TRUE]     \* a file that was truncated
Absent   == [absent |-> TRUE]   \* no file
TornList == {"torn"}
NoList   == {"absent"}          \* no kustomization

TypeOK ==
  /\ config \in Configs /\ force \in BOOLEAN
  /\ at \in {"idle", "apps", "manifests", "templates", "kustomize"}
  /\ left \subseteq Keys /\ app \in Keys \cup {None}
  /\ todo \subseteq Kinds /\ names \subseteq Kinds \cup Extras
  /\ open \in Kinds \cup {None, "kustomization"}
  /\ \A k \in Keys : DOMAIN files[k] = Kinds
  /\ \A k \in Keys : listed[k] \in {NoList, TornList} \/ listed[k] \subseteq Kinds \cup Extras
  /\ extras \in [Keys -> SUBSET Extras]
  /\ result \in {"none", "success", "failed"}
  /\ cuts \in 0 .. MaxCuts
  /\ clean \in [Keys -> BOOLEAN]

Init ==
  /\ config \in Configs /\ force = FALSE
  /\ at = "idle" /\ left = {} /\ app = None /\ todo = {} /\ names = {} /\ open = None
  /\ files = [k \in Keys |-> [m \in Kinds |-> Absent]]
  /\ listed = [k \in Keys |-> NoList]
  /\ extras = [k \in Keys |-> {}]
  /\ result = "none" /\ cuts = 0
  /\ clean = [k \in Keys |-> TRUE]
-----------------------------------------------------------------------------
\* The application of a key, and what its directory should hold.
App(k) == Calc(config.apps[k], k, config)

Wanted(k) == Manifests(App(k)) \cup Templates(App(k))

Exists(f) == f # Absent
-----------------------------------------------------------------------------
\* The operator edits the file.
Edit(c) ==
  /\ at = "idle" /\ c # config
  /\ config' = c
  /\ result' = "none"
  /\ clean' = [k \in Keys |-> clean[k] /\ listed[k] = NoList /\ \A m \in Kinds : files[k][m] = Absent]
  /\ UNCHANGED <<runVars, treeVars, extras, cuts>>

\* ... or puts a file into a directory.
Add(k, e) ==
  /\ at = "idle" /\ e \notin extras[k]
  /\ extras' = [extras EXCEPT ![k] = @ \cup {e}]
  /\ UNCHANGED <<config, runVars, treeVars, result, cuts, clean>>

\* The file is read and every application validated, the ones to skip too.
Run(f) ==
  /\ at = "idle"
  /\ force' = f
  /\ IF \A k \in DOMAIN config.apps : Valid(App(k))
     THEN /\ at' = "apps" /\ left' = {k \in DOMAIN config.apps : ~config.apps[k].skip}
          /\ result' = "none"
     ELSE /\ result' = "failed" /\ UNCHANGED <<at, left>>
  /\ UNCHANGED <<config, app, todo, names, open, treeVars, extras, cuts, clean>>

\* Mutant: extra resources are not looked for.
BeginUnchecked(k) ==
  /\ at = "apps" /\ k \in left
  /\ left' = left \ {k} /\ app' = k
  /\ at' = "manifests" /\ todo' = Manifests(App(k)) /\ names' = App(k).extra
  /\ files' = IF App(k).namespace \in {"", "default"}
              THEN [files EXCEPT ![k]["namespace"] = Absent] ELSE files
  /\ UNCHANGED <<config, force, open, listed, extras, result, cuts, clean>>

\* An application is begun, in any order: its directory is made, its extra
\* resources have to be in it, and a namespace it no longer has is removed.
Begin(k) ==
  /\ at = "apps" /\ k \in left
  /\ App(k).extra \subseteq extras[k]
  /\ left' = left \ {k} /\ app' = k
  /\ at' = "manifests" /\ todo' = Manifests(App(k)) /\ names' = App(k).extra
  /\ files' = IF App(k).namespace \in {"", "default"}
              THEN [files EXCEPT ![k]["namespace"] = Absent] ELSE files
  /\ UNCHANGED <<config, force, open, listed, extras, result, cuts, clean>>

Fails ==
  /\ at' = "idle" /\ result' = "failed"
  /\ left' = {} /\ app' = None /\ todo' = {} /\ names' = {} /\ open' = None
  /\ UNCHANGED <<config, force, treeVars, extras>>

\* An extra resource is not there.
Missing(k) ==
  /\ at = "apps" /\ k \in left
  /\ ~(App(k).extra \subseteq extras[k])
  /\ Fails
  /\ UNCHANGED <<cuts, clean>>

\* A run ends early: at any failure, or because it is killed.
Cut ==
  /\ at # "idle" /\ cuts < MaxCuts
  /\ Fails
  /\ cuts' = cuts + 1
  /\ clean' = [k \in Keys |-> clean[k] /\ k # app]

Truncate(m) ==
  /\ open' = m
  /\ files' = [files EXCEPT ![app][m] = Torn]

\* Mutant: also when the run is forced.
KeepAnyway(m) ==
  /\ at = "manifests" /\ open = None /\ m \in todo
  /\ Exists(files[app][m])
  /\ todo' = todo \ {m} /\ names' = names \cup {m}
  /\ UNCHANGED <<config, force, at, left, app, open, treeVars, extras, result, cuts, clean>>

\* A manifest that exists is kept, unless the run is forced.
Keep(m) ==
  /\ at = "manifests" /\ open = None /\ m \in todo
  /\ Exists(files[app][m]) /\ ~force
  /\ todo' = todo \ {m} /\ names' = names \cup {m}
  /\ UNCHANGED <<config, force, at, left, app, open, treeVars, extras, result, cuts, clean>>

Open(m) ==
  /\ at = "manifests" /\ open = None /\ m \in todo
  /\ ~Exists(files[app][m]) \/ force
  /\ todo' = todo \ {m} /\ names' = names \cup {m}
  /\ Truncate(m)
  /\ UNCHANGED <<config, force, at, left, app, listed, extras, result, cuts, clean>>

\* Templates come last, and are written over whatever is there.
OpenTemplate(m) ==
  /\ at = "templates" /\ open = None /\ m \in todo
  /\ todo' = todo \ {m} /\ names' = names \cup {m}
  /\ Truncate(m)
  /\ UNCHANGED <<config, force, at, left, app, listed, extras, result, cuts, clean>>

\* The open file is written and closed.
Encode ==
  /\ open \in Kinds
  /\ files' = [files EXCEPT ![app][open] = Manifest(App(app), open, config)]
  /\ open' = None
  /\ UNCHANGED <<config, force, at, left, app, todo, names, listed, extras, result, cuts, clean>>

ManifestsDone ==
  /\ at = "manifests" /\ open = None /\ todo = {}
  /\ at' = "templates" /\ todo' = Templates(App(app))
  /\ UNCHANGED <<config, force, left, app, names, open, treeVars, extras, result, cuts, clean>>

TemplatesDone ==
  /\ at = "templates" /\ open = None /\ todo = {}
  /\ at' = "kustomize"
  /\ UNCHANGED <<config, force, left, app, todo, names, open, treeVars, extras, result, cuts, clean>>

\* The application is generated.
Generated ==
  /\ at' = "apps" /\ app' = None /\ names' = {} /\ open' = None
  /\ clean' = [clean EXCEPT ![app] = @ \/ force]
  /\ UNCHANGED <<config, force, left, todo, files, extras, result, cuts>>

KeepKustomization ==
  /\ at = "kustomize" /\ open = None
  /\ listed[app] # NoList /\ ~force
  /\ UNCHANGED listed
  /\ Generated

OpenKustomization ==
  /\ at = "kustomize" /\ open = None
  /\ listed[app] = NoList \/ force
  /\ open' = "kustomization" /\ listed' = [listed EXCEPT ![app] = TornList]
  /\ UNCHANGED <<config, force, at, left, app, todo, names, files, extras, result, cuts, clean>>

EncodeKustomization ==
  /\ open = "kustomization"
  /\ listed' = [listed EXCEPT ![app] = names]
  /\ Generated

Success ==
  /\ at = "apps" /\ left = {}
  /\ at' = "idle" /\ result' = "success"
  /\ UNCHANGED <<config, force, left, app, todo, names, open, treeVars, extras, cuts, clean>>

Next ==
  \/ \E c \in Configs : Edit(c)
  \/ \E k \in Keys, e \in Extras : Add(k, e)
  \/ \E f \in BOOLEAN : Run(f)
  \/ \E k \in Keys : Begin(k) \/ Missing(k)
  \/ \E m \in Kinds : Keep(m) \/ Open(m) \/ OpenTemplate(m)
  \/ Encode \/ ManifestsDone \/ TemplatesDone
  \/ KeepKustomization \/ OpenKustomization \/ EncodeKustomization
  \/ Success \/ Cut

Spec == Init /\ [][Next]_vars
-----------------------------------------------------------------------------
\* After a success, the directory of an application that was forced, or was
\* generated before with this configuration and never cut short, holds what
\* the configuration says, and its kustomization lists exactly that.
SuccessIsConfigured ==
  result = "success" =>
    \A k \in DOMAIN config.apps :
      ~config.apps[k].skip /\ clean[k] =>
        /\ listed[k] = Wanted(k) \cup App(k).extra
        /\ \A m \in Wanted(k) : files[k][m] = Manifest(App(k), m, config)

\* A kustomization lists only files that are there.  (A namespace is removed
\* under one that is kept.)
ListedExist ==
  \A k \in Keys :
    listed[k] \notin {NoList, TornList} =>
      \A m \in listed[k] \ {"namespace"} :
        IF m \in Kinds THEN Exists(files[k][m]) ELSE m \in extras[k]

\* ... and its manifests refer to one another, unless it sets labels that are
\* the generator's own.
ManifestsAgree ==
  result = "success" =>
    \A k \in DOMAIN config.apps :
      /\ ~config.apps[k].skip /\ clean[k]
      /\ DOMAIN config.apps[k].labels \cap {AppLabel, NameLabel} = {}
      => Agree(App(k), files[k])
============================================================================
