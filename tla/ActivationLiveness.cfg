SPECIFICATION FairSpec
CONSTANTS
  c1 = c1
  c2 = c2
  a1 = a1
  w1 = w1
  w2 = w2
  r1 = r1
  r2 = r2
  t1 = t1
  Campaigns <- TwoCampaigns
  Addresses <- OneAddress
  Cycles <- OneCycle
  Admins <- OneAdmin
  NoCampaign = NoCampaign
  NoText = NoText
  Texts <- OneText
  Cursed <- First
  BatchLimit = 1
  FaultKinds <- EveryFault
  MaxFaults = 1
  MaxTime = 2
PROPERTIES DueStarts 
