CONSTANTS
  d1 = d1
  d2 = d2
  before = before
  after = after
  api = api
  worker = worker
  Decisions = {d1}
  Evidence = {before, after}
  Apis = {api}
  Workers = {worker}
  Unpublished = Unpublished
  Nobody = Nobody
  Window = 1
  Cadence = 1
  DayLength = 2
  MaxTime = 5
SPECIFICATION Spec
INVARIANTS SupersessionStands OneReviewPerRevision
PROPERTIES StopsStick ReviewNeverBroughtForward
CHECK_DEADLOCK FALSE
