\* Two connections of one user do not hear each other.
CONSTANTS
  a1 = a1
  b1 = b1
  a = a
  b = b
  Conns <- MCConns
  Users <- MCUsers
  here = here
  there = there
  Rooms <- MCRooms
  ThisRoom = here
  Named <- MCNamedOneWay
  UserOf <- MCOneUser
  Quota <- MCOneWay
  MaxPublished = 0
  None = None
SPECIFICATION MCSpec
PROPERTY GetsOtherConnections
CHECK_DEADLOCK FALSE
