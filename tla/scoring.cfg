SPECIFICATION Spec
CONSTANTS
  ProviderCount = 3
  Score <- Scores
  DefaultPeerFF <- Default
  Served = {1}
  Rescored = {2}
  ProviderTau = {1, 5, 36}
  ConsumerTau = {4, 5}
  Scale = 12
  NaN = NaN
INVARIANTS TypeOK EveryoneIsHeard OutlierStays EvaluationsInHull AgreedScoreStands
           SomeoneWins WinnerIsUnbeaten UnanimousWins
CHECK_DEADLOCK FALSE
