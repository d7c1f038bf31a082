\* As MCAccess.cfg, the invites alone: more sign-ups are let through than the TTL grants.
CONSTANTS
  Ids = {i1}
  Handlers = {h1, h2, h3}
  adm = adm
  usr = usr
  Roles = {root}
  Admins <- MCAdmins
  Users <- MCUsers
  Emails = {e1, e2}
  RequestTTLs <- MCTTLs
  DefaultTTL = 2
  None = None
  MaxAttempts = 3
SPECIFICATION Spec
INVARIANT AttemptsWithinTTL
CHECK_DEADLOCK FALSE
