CONSTANTS
  Period1 = 2
  Period10 = 4
  Period100 = 8
  WatchdogLimit = 8
  HeartbeatTicks = 2
  Sleep = 1
  Timeouts = {0, 11}
  MaxStall = 10
  Horizon = 20
SPECIFICATION HistSpec
CHECK_DEADLOCK FALSE
INVARIANTS StallIsReported
