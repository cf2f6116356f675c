SPECIFICATION Spec
CONSTANTS
  p1 = p1
  p2 = p2
  p3 = p3
  alias = alias
  Provider = {p1, p2}
  Consumer = c
  Txn = {t1}
  Name = {p1, p2, alias}
  Listed <- ListedByAlias
  NoWinner = none
  RequirementsSet = TRUE
  MaxFailures = 0
  MaxRetries = 1
  BeaconLinks <- NoBeacons
  FreeProviders = {}
  Faulty = {}
  DefaultPrice = "default"
PROPERTY DropIsLate
CHECK_DEADLOCK FALSE
