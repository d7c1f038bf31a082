\* As MCAccess.cfg, the invites alone: an expired invite comes back for good.
CONSTANTS
  Ids = {i1}
  Handlers = {h1, h2, h3}
  adm = adm
  usr = usr
  Roles = {root}
  Admins <- MCAdmins
  Users <- MCUsers
  Emails = {e1, e2}
  RequestTTLs <- MCTTLs
  DefaultTTL = 2
  None = None
  MaxAttempts = 3
SPECIFICATION Spec
INVARIANT ExpiredIsGone
CHECK_DEADLOCK FALSE
