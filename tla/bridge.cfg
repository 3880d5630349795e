CONSTANTS
  e1 = e1
  e2 = e2
  Entities = {e1, e2}
  GapLimit = 2
  Chunk = 1
  MaxTime = 3
  MaxFaults = 1
  MaxDrops = 1
  MaxPosts = 1
  MaxBackfills = 1
SPECIFICATION FairBridgeSpec
INVARIANTS EveryChangeAccounted
PROPERTIES CurrentNeverRegresses Reconnects
CHECK_DEADLOCK FALSE
