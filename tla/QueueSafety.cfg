SPECIFICATION FairSpec
CONSTANTS
  c1 = c1
  a1 = a1
  a2 = a2
  w1 = w1
  w2 = w2
  Campaigns <- OneCampaign
  Addresses <- OneAddress
  Workers <- TwoWorkers
  NoWorker = NoWorker
  MaxAttempts = 2
  BatchCap = 1
  Concurrency = 2
  FaultKinds <- EveryFault
  MaxFaults = 2
INVARIANTS
  CompletedIsDone
  SecondSendsExcused
  ExclusiveClaim
  SuppressedNotMailed
  ReportIsTruthful
PROPERTIES
  TerminalIsFinal
  ImplementsLifecycle
  CampaignDrains
