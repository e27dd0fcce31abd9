SPECIFICATION FairSpec
CONSTANTS
  r1 = r1
  w1 = w1
  w2 = w2
  NoWorker = NoWorker
  Runs <- OneRun
  Workers <- OneWorker
  Provider = "gitee"
  Replayable <- Items
  MaxAttempts = 2
  AttemptLimit = 3
INVARIANTS FinalShown CheckInv
PROPERTY StatusesSettle
CHECK_DEADLOCK FALSE
