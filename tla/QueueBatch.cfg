SPECIFICATION FairSpec
CONSTANTS
  c1 = c1
  a1 = a1
  a2 = a2
  w1 = w1
  w2 = w2
  Campaigns <- OneCampaign
  Addresses <- TwoAddresses
  Workers <- OneWorker
  NoWorker = NoWorker
  MaxAttempts = 1
  BatchCap = 2
  Concurrency = 2
  FaultKinds <- NoLostClaim
  MaxFaults = 1
INVARIANTS
  
  SendsWithinAttempts
PROPERTIES
  BatchResolves
