SPECIFICATION Spec
CONSTANTS
  p1 = p1
  p2 = p2
  p3 = p3
  alias = alias
  Provider = {p1, p2, p3}
  Consumer = c
  Txn = {t1}
  Name = {p1, p2, p3}
  Listed <- ListedById
  NoWinner = none
  RequirementsSet = TRUE
  MaxFailures = 2
  MaxRetries = 1
  BeaconLinks <- NoBeacons
  FreeProviders = {}
  Faulty = {}
  DefaultPrice = "default"
SYMMETRY ProviderSymmetry
INVARIANTS OneDecision DecisionIsComplete LossIsFinal WaitIsExplained
CHECK_DEADLOCK FALSE
