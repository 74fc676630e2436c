SPECIFICATION PollingSpec
CONSTANTS
  Intervals = {1, 3}
  DefaultInterval = 1
  MaxInterval = 3
  t1 = t1
  t2 = t2
  TimerIds <- TwoTimers
  NoTimer = NoTimer
  MaxCycles = 2
  TickWait = 3
  RetryBase = 1
  RequestTimeout = 2
  StartupDelay = 1
  MaxFailures = 3
  LoadSlots = {1, 2}
  PressSlots = {1, 2}
  MaxVersion = 3
PROPERTIES
  SchedulerIntact
  ImplementsTickService
  PassesKeepComing
  TickerSound
  ReportInOrder
  FollowsTheCampaign
