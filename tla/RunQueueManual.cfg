\* A manual run of a project without a commit.
SPECIFICATION FairSpec
CONSTANTS
  RunLimit = 1
  build = build  lint = lint  ship = ship  w1 = w1  w2 = w2
  Keys <- ChainKeys
  Deps <- ChainDeps
  Kinds = {"nosha"}
  Runners <- OneRunner
  Descriptors <- AlwaysOne
  SourceCapable <- OneRunner
  Retirable <- NoneRetired
  Requests = {}
  LeaseTicks = 1
  NoRunner = NoRunner
CHECK_DEADLOCK FALSE
PROPERTIES
  ManualRunsConclude
