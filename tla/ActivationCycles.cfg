SPECIFICATION Spec
CONSTANTS
  c1 = c1
  c2 = c2
  a1 = a1
  w1 = w1
  w2 = w2
  r1 = r1
  r2 = r2
  t1 = t1
  Campaigns <- OneCampaign
  Addresses <- OneAddress
  Cycles <- TwoCycles
  Admins <- TwoAdmins
  NoCampaign = NoCampaign
  NoText = NoText
  Texts <- OneText
  Cursed <- None
  BatchLimit = 1
  FaultKinds <- EveryFault
  MaxFaults = 2
  MaxTime = 3
SYMMETRY ActorSymmetry
INVARIANTS
  LateStepsFit
PROPERTIES
  QueuedHasRows
  ImplementsLifecycle
