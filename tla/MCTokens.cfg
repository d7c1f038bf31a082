\* Two browsers and two requests at a time, roles that change, and two calls
\* that fail or answers that are lost.
CONSTANTS
  admin = admin
  Clients = {c1, c2}
  Handlers = {h1, h2}
  RoleSets = {admin, default}
  AccessLife = 1
  RefreshLife = 2
  MaxTime = 2
  MaxLost = 2
  None = None
SPECIFICATION MCSpec
INVARIANTS
  RevocationEnds
  RolesRenewed
SYMMETRY Interchangeable
