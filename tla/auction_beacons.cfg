SPECIFICATION Spec
CONSTANTS
  p1 = p1
  p2 = p2
  p3 = p3
  alias = alias
  Provider = {p1, p2, p3}
  Consumer = c
  Txn = {t1}
  Name = {p1, p2, p3}
  Listed <- ListedById
  NoWinner = none
  RequirementsSet = TRUE
  MaxFailures = 0
  MaxRetries = 0
  BeaconLinks <- OneBeacon
  FreeProviders = {}
  Faulty = {p1}
  DefaultPrice = "default"
INVARIANTS NoSilentStall NoNilMapWrite WaitIsExplained
PROPERTIES VotesArePriced
CHECK_DEADLOCK FALSE
