SPECIFICATION FairSpec
CONSTANTS
  c1 = c1
  a1 = a1
  a2 = a2
  w1 = w1
  w2 = w2
  Campaigns <- OneCampaign
  Addresses <- OneAddress
  Workers <- OneWorker
  NoWorker = NoWorker
  MaxAttempts = 2
  BatchCap = 1
  Concurrency = 1
  FaultKinds <- NoFault
  MaxFaults = 0
PROPERTY CancelledRowsResolve
