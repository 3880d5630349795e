CONSTANTS
  t1 = t1
  t2 = t2
  t3 = t3
  Nobody = Nobody
  Threads = {t1, t2, t3}
  MaxDepth = 2
  IdleTimeout = TRUE
  MaxLeases = 5
  MaxRequests = 2
  MaxForeign = 1
SPECIFICATION FairSpec
INVARIANTS LeasesFitHandle NoLostWakeup
PROPERTIES HandleStaysUnderLease WaiterGetsOn
CHECK_DEADLOCK FALSE
