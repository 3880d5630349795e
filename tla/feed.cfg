CONSTANTS
  w1 = w1
  w2 = w2
  r1 = r1
  r2 = r2
  p1 = p1
  p2 = p2
  Nobody = Nobody
  Writers = {w1, w2}
  Readers = {r1, r2}
  Proposals = {p1, p2}
  Follows <- OneOfEach
  Limits = {1, 2}
  MaxOps = 4
SPECIFICATION FairSpec
INVARIANTS NothingSkipped
PROPERTIES ImplementsQueue EveryEventArrives
CHECK_DEADLOCK FALSE
