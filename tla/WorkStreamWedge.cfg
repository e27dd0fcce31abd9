SPECIFICATION FairSpec
CONSTANTS
  RunLimit = 2
  Keys <- OneKey
  Deps <- NoDeps
  Kinds = {"checkout"}
  Runners = {w1}
  Capacity <- CapacityOne
  CanRun <- Everything
  NoRunner = NoRunner
  Printing = {}
  LogLimit = 1
  InFlight = 2
  HeartbeatWindow = 1
  MaxFaults = 0
  MaxClaims = 1
CHECK_DEADLOCK FALSE
PROPERTY ExpiredJobsLeave
