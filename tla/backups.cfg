CONSTANTS
  i1 = i1
  i2 = i2
  loop = loop
  operator = operator
  Ingested = {i1}
  Loops = {loop}
  Operators = {operator}
  Nobody = Nobody
  Writer = Writer
  Interval = 2
  Retry = 1
  Retention = 2
  MaxCommands = 1
  MaxFaults = 1
SPECIFICATION FairSpec
INVARIANTS BundlesCoherent
PROPERTIES AlwaysRestorable BackupsKeepComing
CHECK_DEADLOCK FALSE
