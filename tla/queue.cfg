CONSTANTS
  r1 = r1
  r2 = r2
  r3 = r3
  d1 = d1
  a = a
  b = b
  k = k
  NoKey = NoKey
  Keys = {k}
  Requests = {r1, r2}
  Replicas = {d1}
  Proposals = {a}
  Policies = {a}
  Drafters = {"ann"}
  Dispatcher = "ha_action_dispatcher"
  Values = {"warning", "breach", "breach+"}
  Raised = {"warning", "breach"}
  Actuating = {"warning"}
  Observed <- Verdict
  RequestOps = {"draft", "approve", "dismiss"}
  MaxOps = 4
  MaxCrashes = 1
SPECIFICATION Spec
INVARIANTS StatusMatchesFeed OneReleaser
PROPERTIES DecisionsStand ImplementsQueue
SYMMETRY RequestSymmetry
CHECK_DEADLOCK FALSE
