SPECIFICATION Spec
CONSTANTS
  w1 = w1
  w2 = w2
  Workers <- TwoWorkers
  MaxEmails = 3
  WindowSeconds = 2
  FactorNum = 19
  FactorDen = 20
  BatchCap = 2
  Concurrency = 2
  TickInterval = 2
  PruneAfter = 2
  Horizon = 3
  FaultKinds <- NoReplyLost
  MaxFaults = 1
  MaxTests = 1
SYMMETRY WorkerSymmetry
INVARIANTS
  OvershootBounded
  TrafficBounded

  
