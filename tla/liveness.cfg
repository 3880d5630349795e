CONSTANTS
  w1 = w1
  w2 = w2
  c1 = c1
  c2 = c2
  s1 = s1
  s2 = s2
  NoOne = NoOne
  Workers = {w1, w2}
  Clients = {}
  Schedules = {s1}
  WorkerIds = {w1, w2}
  WorkerId <- SharedId
  NextOccurrence <- Once
  Lease = 1
  EnqueueLimit = 2
  Caps = {1}
  ClientOps = {}
  MaxTime = 4
  MaxDispatch = 3
  MaxOps = 0
  MaxCrashes = 1
SPECIFICATION FairSpec
PROPERTIES RunningEnds EnqueuedIsClaimed
CHECK_DEADLOCK FALSE
