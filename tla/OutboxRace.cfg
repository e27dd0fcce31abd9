SPECIFICATION Spec
CONSTANTS
  r1 = r1
  w1 = w1
  w2 = w2
  NoWorker = NoWorker
  Runs <- OneRun
  Workers <- TwoWorkers
  Provider = "github"
  Replayable <- NoRows
  MaxAttempts = 2
  AttemptLimit = 2
INVARIANT LeasePaired
PROPERTY DeliveredStays
CHECK_DEADLOCK FALSE
