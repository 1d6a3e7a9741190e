CONSTANTS
  MaxId = 4
  Enabled <- MCEnabled
  Threshold = 2
  BitmapWidth = 3
  CountModulus = 3
  TickModulus = 5
  Grace = 2
  Horizon = 8
SPECIFICATION HistSpec
INVARIANTS SwallowedAtStartOnly
