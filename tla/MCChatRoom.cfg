\* One client sends two messages to another user, and one of them may be published
\* twice; or each sends one.
CONSTANTS
  a1 = a1
  b1 = b1
  a = a
  b = b
  Conns <- MCConns
  Users <- MCUsers
  here = here
  there = there
  Rooms <- MCRooms
  ThisRoom = here
  Named <- MCNamed
  UserOf <- MCTwoUsers
  Quota <- MCQuota
  MaxPublished = 1
  None = None
SPECIFICATION MCSpec
INVARIANTS
  HistoryAgrees
  QuietCloseIsSafe
PROPERTIES
  Broadcasts
  CloseEnds
  FailureEnds
  Delivers
  SubscriptionEnds
CHECK_DEADLOCK FALSE
