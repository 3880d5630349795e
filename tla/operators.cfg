CONSTANTS
  w1 = w1
  w2 = w2
  c1 = c1
  c2 = c2
  s1 = s1
  s2 = s2
  NoOne = NoOne
  Workers = {w1}
  Clients = {c1}
  Schedules = {s1}
  WorkerIds = {w1, w2}
  WorkerId <- OneIdEach
  NextOccurrence <- Odd
  Lease = 1
  EnqueueLimit = 2
  Caps = {1}
  ClientOps = {"mark", "recover", "create", "retry", "update", "archive", "delete", "createSchedule", "enqueue"}
  MaxTime = 3
  MaxDispatch = 3
  MaxOps = 3
  MaxCrashes = 1
SPECIFICATION Spec
INVARIANTS ReplacedOnceAndFailed OvershootBounded
PROPERTIES TerminalIsFinal ClosedGetsNothing
CHECK_DEADLOCK FALSE
