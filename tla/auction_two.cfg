SPECIFICATION Spec
CONSTANTS
  p1 = p1
  p2 = p2
  p3 = p3
  alias = alias
  Provider = {p1, p2}
  Consumer = c
  Txn = {t1, t2}
  Name = {p1, p2}
  Listed <- ListedById
  NoWinner = none
  RequirementsSet = TRUE
  MaxFailures = 0
  MaxRetries = 1
  BeaconLinks <- NoBeacons
  FreeProviders = {}
  Faulty = {}
  DefaultPrice = "default"
INVARIANTS Agreement RatingsAreEarned CountIsBounded
PROPERTY ImplementsOutcome
CHECK_DEADLOCK FALSE
