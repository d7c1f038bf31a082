\* One browser, one request at a time, nothing fails.
CONSTANTS
  Clients = {c1}
  Handlers = {h1}
  RoleSets = {default}
  AccessLife = 1
  RefreshLife = 2
  MaxTime = 1
  MaxLost = 0
  None = None
SPECIFICATION Spec
INVARIANT StillHasRefresh
