SPECIFICATION FairSpec
CONSTANTS
  Flow = {f1, f2}
  ServerCount = 4
  MaxFailures = 1
INVARIANTS TypeOK PortsSuffice
PROPERTIES FlowEnds OnlyFailuresStay
CHECK_DEADLOCK FALSE
