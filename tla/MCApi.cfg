SPECIFICATION MCSpec
CONSTANTS
  r1 = r1
  r2 = r2
  b1 = b1
  i1 = i1
  i2 = i2
  postgres = postgres
  redis = redis
  Requests <- MCRequests
  Browsers <- MCBrowsers
  Ids <- MCIds
  Stores <- MCStores
  None = None
  Postgres = postgres
  Cache = redis
  MaxOutages = 2
  MaxKills = 1
  MaxRows = 1
  MaxServed = 2
  MaxCount = 3
INVARIANTS
  QuietCountIsExact
  CounterExpires
PROPERTY ServesAtLast
