CONSTANTS
  MaxOverrides = 2
  MaxIndex = 2
  MaxChannels = 2
  Delay = 2
  ByteSize = 4
  SPS_FORCE = 0
  CONTACTOR_FB = 1
  SilValues <- MCSilValues
  SilTargets <- MCSilTargets
SPECIFICATION FairHistSpec
INVARIANTS HistTypeOK DeadlineMet
PROPERTIES NeverMovesEarly LostOnlyByForce TransitionsEnd KeepsPromise
