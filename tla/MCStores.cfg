\* Three requests at two workers and sixty characters drawn; two rooms; two
\* browsers, users of GitHub, states and codes; two tabs with two requests; two
\* files and four calls.
CONSTANTS
  Workers = {w1, w2}
  Requests = {r1, r2, r3}
  Characters = {"a", "b"}
  Draws <- MCDraws
  MaxDrawn = 60
  MaxTries = 2
  Counts = {0, 3}
  MaxBoots = 2
  MaxFails = 1
  Users = {u1, u2}
  Creators = {c1, c2}
  NoClaims = none
  Visitors = {v1}
  MaxRooms = 2
  MaxCuts = 2
  Browsers = {b1, b2}
  GithubUsers = {g1, g2}
  MaxCodes = 2
  Calls = {k1, k2}
  StateTTL = 2
  SessionTTL = 1
  MaxStates = 2
  MaxClock = 3
  MaxCrashes = 1
  Tabs = {t1, t2}
  Flights = {f1, f2}
  TokenLife = 2
  RenewalLife = 2
  MaxSecond = 2
  Disk <- MCDisk
  Aliases <- MCAliases
  Keys = {n1}
  Values = {n2, n3}
  MaxCalls = 4
SPECIFICATION MCSpec
INVARIANTS
  CountCovers
  AnswerResolves
  CreatorAdmitted
  SessionKept
  LogoutHolds
  RenewsInTime
  ServesAsApplied
CHECK_DEADLOCK FALSE
