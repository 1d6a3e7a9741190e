SPECIFICATION Spec
CONSTANTS
  Overridden = {0}
  OverrideValues <- MCOverrideValues
  Invalid <- MCInvalid
  Profiles <- MCProfiles
  Trip <- MCTrip
  TicksPerRow = 2
  RowsPerAdvance = 2
  MaxTicks = 3
  MaxReplayTicks = 5
  RxSize = 1
  MaxLost = 1
  MaxVecuSteps = 3
  TempRanges <- MCTempRanges
  TempOverrides <- MCTempOverrides
INVARIANTS
  CellsAsSent
  AtMostTwoRounds
  TemperaturesAsSent
  RowMatchesClock
  SummaryCovers
CHECK_DEADLOCK FALSE
