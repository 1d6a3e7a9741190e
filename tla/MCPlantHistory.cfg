CONSTANTS
  MaxOverrides = 2
  MaxIndex = 2
  MaxChannels = 2
  Delay = 1
  ByteSize = 2
  SPS_FORCE = 0
  CONTACTOR_FB = 1
  SilValues <- MCSilValues
  SilTargets <- MCSilTargets
  SocStart = 4
  SocFull = 8
  SocLow = 3
  SocHigh = 5
  DischargeRate = 2
  ChargeRate = 1
  BenchCurrent = 4
  BusSize = 1
  MaxCommands = 0
SPECIFICATION PlantHistSpec
INVARIANTS NoCurrentBeforeClosed
