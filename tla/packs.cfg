CONSTANTS
  o1 = o1
  o2 = o2
  energy = energy
  tariff = tariff
  prices = prices
  usage = usage
  NoEntry = NoEntry
  Operators = {o1}
  Packs = {energy, tariff}
  MaxVersion = 2
  Publications = {prices, usage}
  Platform = {}
  Digests = {"tariff1", "tariff2", "tariff2b", "energy1", "energy2", "verified"}
  Content <- Declares
  Sources = {1, 2}
  GitSources = {2}
  Manifests <- Shelves
  MaxOps = 4
  MaxEdits = 1
SPECIFICATION Spec
INVARIANTS DependenciesSatisfied ProvidersUnique PinHolds
PROPERTIES RequirementsKept
CHECK_DEADLOCK FALSE
