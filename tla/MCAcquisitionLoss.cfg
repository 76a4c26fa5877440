SPECIFICATION FairSpec
CONSTANTS
  LoopsPerMsg = 2
  MaxPackets = 6
PROPERTIES
  LossNotified
