CONSTANTS
  RxSize = 3
  AfeSize = 2
  MaxFrames = 4
SPECIFICATION FairSpec
INVARIANTS InOrder EveryFrameAccounted OverrideInEffect
PROPERTIES RingsAreFifos AcceptedIsDelivered
