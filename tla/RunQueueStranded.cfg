\* Two independent jobs whose leases run out.
SPECIFICATION Spec
CONSTANTS
  RunLimit = 1
  build = build  lint = lint  ship = ship  w1 = w1  w2 = w2
  Keys <- ChainKeys
  Deps <- FlatDeps
  Kinds = {"bare"}
  Runners <- TwoRunners
  Descriptors <- AlwaysTwo
  SourceCapable <- TwoRunners
  Retirable <- TwoRunners
  Requests = {}
  LeaseTicks = 2
  NoRunner = NoRunner
SYMMETRY RunnerSymmetry
CHECK_DEADLOCK FALSE
INVARIANTS
  NothingWaitsInFailedRun
