CONSTANTS
  voltage = voltage
  Kinds <- MCKinds
  Protocols <- MCProtocols
  MaxTests = 2
  MaxRestarts = 1
  MaxFrames = 1
  MaxUnread = 1
  MaxCrashes = 1
SPECIFICATION FairSpec
CHECK_DEADLOCK FALSE
INVARIANTS OverridesWithdrawn NoFrameOfOldLife
PROPERTIES RunEnds BenchLeftClean
