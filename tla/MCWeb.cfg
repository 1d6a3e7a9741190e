CONSTANTS
  Clients = {c1, c2}
  Kinds = {"cell_voltage", "current"}
  Indices = {0, 1}
  Alive = 7
  MaxResets = 3
  MaxInjects = 1
  MaxFrames = 1
  MaxHistory = 4
SPECIFICATION Spec
SYMMETRY MCSymmetry
INVARIANTS HistoryClosed RestartTakesOver RestartLeavesRunning
PROPERTIES ClearReachesFirst
