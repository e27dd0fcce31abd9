\* Two runs of a chain, of every kind, the second possibly a rerun.
SPECIFICATION Spec
CONSTANTS
  RunLimit = 2
  build = build  lint = lint  ship = ship  w1 = w1  w2 = w2
  Keys <- ChainKeys
  Deps <- ChainDeps
  Kinds = {"bare", "checkout", "nosha", "norepo"}
  Runners <- TwoRunners
  Descriptors <- AlwaysTwo
  SourceCapable <- TwoRunners
  Retirable <- TwoRunners
  Requests = {q1}
  LeaseTicks = 2
  NoRunner = NoRunner
SYMMETRY RunnerSymmetry
CHECK_DEADLOCK FALSE
INVARIANTS
  BlockedAwaitsWork
  OpenRunHasWork
  OutboxAgrees
  IndInv
