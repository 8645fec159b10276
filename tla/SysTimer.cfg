SPECIFICATION FairSpec
CONSTANTS
  t1 = t1
  t2 = t2
  t3 = t3
  Timers <- MCTimers
  Periodic <- MCPeriodic
  Intervals = {1, 3}
  TickTime = 2
  IrqMod = 4
  MaxTicks = 3
PROPERTIES
  ImplementsService
  OverdueIsCalled
CHECK_DEADLOCK FALSE
