SPECIFICATION Spec
CONSTANTS
  p1 = p1
  p2 = p2
  p3 = p3
  alias = alias
  Provider = {p1, p2}
  Consumer = c
  Txn = {t1}
  Name = {p1, p2}
  Listed <- ListedById
  NoWinner = none
  RequirementsSet = FALSE
  MaxFailures = 0
  MaxRetries = 0
  BeaconLinks <- NoBeacons
  FreeProviders = {}
  Faulty = {}
  DefaultPrice = "default"
PROPERTY EndIsAnnounced
CHECK_DEADLOCK FALSE
