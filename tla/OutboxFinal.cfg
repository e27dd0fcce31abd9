SPECIFICATION FairSpec
CONSTANTS
  r1 = r1
  w1 = w1
  w2 = w2
  NoWorker = NoWorker
  Runs <- OneRun
  Workers <- OneWorker
  Provider = "github"
  Replayable <- NoRows
  MaxAttempts = 2
  AttemptLimit = 3
PROPERTY FinalReceived
CHECK_DEADLOCK FALSE
