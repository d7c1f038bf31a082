\* Two updates beside the loop, or a request for a backup.
CONSTANTS
  u1 = u1
  u2 = u2
  r1 = r1
  Updaters = {u1, u2}
  Requests = {r1}
  Loop = Loop
  Waits <- MCWaits
  Maxes = {1, 6}
  FirstWait = 2
  FirstMax = 6
  Names = {1, 2, 3}
  None = None
SPECIFICATION MCSpec
INVARIANTS
  WaitAgrees
  SuccessIsStored
PROPERTIES
  UpdatesEnd
  ScheduleGoesOn
