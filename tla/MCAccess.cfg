\* One invite of any shape and three requests of an admin and a plain user; two
\* accounts, two operators and a login; one user with three tokens and a request;
\* three tokens in memory.
CONSTANTS
  Ids = {i1}
  Handlers = {h1, h2, h3}
  adm = adm
  usr = usr
  Roles = {root}
  Admins <- MCAdmins
  Users <- MCUsers
  Emails = {e1, e2}
  RequestTTLs <- MCTTLs
  DefaultTTL = 2
  None = None
  MaxAttempts = 3
  o1 = o1
  o2 = o2
  Operators <- MCOperators
  Callers = {k1}
  w1 = w1
  w2 = w2
  pw1 = pw1
  pw2 = pw2
  Words <- MCWords
  Passwords <- MCPasswords
  RoleLists <- MCRoleLists
  MaxUsers = 2
  Arrivals = {a1}
  AccessSpan = 1
  RefreshSpan = 2
  MaxMinute = 3
  MaxSigned = 4
  Getters = {g1}
  Timeout = 2
  MaxTick = 5
  MaxSets = 3
SPECIFICATION MCSpec
INVARIANTS
  GrantsAsIssued
  NoAttemptLost
  AccountsJustified
  GuardsHold
  TokensTimeOut
PROPERTIES
  RemovalJustified
  AccountsHold
SYMMETRY MCSymmetry
CHECK_DEADLOCK FALSE
