SPECIFICATION FairSpec
CONSTANTS
  RunLimit = 1
  Keys <- Chain
  Deps <- ChainDeps
  Kinds = {"checkout"}
  Runners = {w1}
  Capacity <- CapacityOne
  CanRun <- Both
  NoRunner = NoRunner
  Printing = {"test"}
  LogLimit = 2
  InFlight = 2
  HeartbeatWindow = 1
  MaxFaults = 1
  MaxClaims = 3
INVARIANTS
  ExecutionAuthorized
  LogExact
PROPERTIES
  KeepsPromise
  JobsEnd
