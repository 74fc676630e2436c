SPECIFICATION FairSpec
CONSTANTS
  w1 = w1
  w2 = w2
  Workers <- OneWorker
  MaxEmails = 1
  WindowSeconds = 3
  FactorNum = 19
  FactorDen = 20
  BatchCap = 2
  Concurrency = 2
  TickInterval = 1
  PruneAfter = 3
  Horizon = 4
  FaultKinds <- EveryFault
  MaxFaults = 1
  MaxTests = 1
PROPERTY QuotaReturns
