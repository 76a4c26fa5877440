SPECIFICATION TimelySpec
CONSTANTS
  LoopsPerMsg = 3
  MaxPackets = 20
INVARIANTS
  EveryMessageAccounted
  BuffersApart
  WholeMessage
PROPERTIES
  StreamOfMessages
