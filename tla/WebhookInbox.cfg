\* A delivery of either provider, or of another repository, and two workers.
SPECIFICATION FairSpec
CONSTANTS
  d1 = d1  hubPush = hubPush  hubFork = hubFork  giteePush = giteePush  w1 = w1  w2 = w2
  NoPayload = NoPayload
  Deliveries <- OneDelivery
  Payloads <- Events
  Forks <- ForkEvents
  Gitee <- GiteeEvents
  Workers <- TwoWorkers
  MaxAttempts = 3
INVARIANTS RunIffProcessed NoForkRuns AttemptsBounded IndInv
PROPERTIES EndedOnce NoStaleTrigger DeliveriesSettle
