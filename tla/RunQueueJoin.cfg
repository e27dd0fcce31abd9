\* One run of a fork-join plan on two Runners, one of which may be disabled.
SPECIFICATION FairSpec
CONSTANTS
  RunLimit = 1
  build = build  lint = lint  ship = ship  w1 = w1  w2 = w2
  Keys <- JoinKeys
  Deps <- JoinDeps
  Kinds = {"bare", "checkout"}
  Runners <- TwoRunners
  Descriptors <- Changing
  SourceCapable <- TwoRunners
  Retirable <- OneRunner
  Requests = {}
  LeaseTicks = 2
  NoRunner = NoRunner
CHECK_DEADLOCK FALSE
INVARIANTS
  TypeOK
  DependenciesRespected
  VerdictSound
  ResultsRecordable
PROPERTIES
  CapacityRespected
  StartedOnce
  VerdictFinal
  NoSilentTransfer
  RunsConclude
