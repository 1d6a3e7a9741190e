CONSTANTS
  voltage = voltage
  Kinds <- MCKinds
  Protocols <- MCProtocols
  MaxTests = 2
  MaxRestarts = 1
  MaxFrames = 1
  MaxUnread = 1
  MaxCrashes = 1
SPECIFICATION HistSpec
CHECK_DEADLOCK FALSE
INVARIANT PassIsEarned
