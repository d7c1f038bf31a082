\* Runs of three tools, each over what its earlier runs left, any of which may
\* fail anywhere.
CONSTANTS
  Configs <- MCConfigs
  Keys <- MCKeys
  Extras = {"pvc.yml"}
  MaxCuts = 1
  AppLists <- MCAppLists
  AppNames <- MCNames
  b = b
  p = p
  q = q
  u = u
  v = v
  g = g
  r = r
  w = w
  d = d
  e = e
  tab = tab
  Nothing = Nothing
  Configurations <- MCConfigurations
  Buckets = {b}
  Policies = {p, q}
  Contents = {"v1", "v2", "faulty"}
  Users = {u, v}
  Groups = {g}
  Roles = {r, w}
  Databases = {d, e}
  Tables = {tab}
  Privileges = {"ALL", "CONNECT", "SELECT"}
  MaxVersion = 2
SPECIFICATION MCSpec
INVARIANTS
  SuccessIsConfigured
  ListedExist
  ManifestsAgree
  LastOfNameGenerated
  SuccessApplies
