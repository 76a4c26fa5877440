SPECIFICATION FairSpec
CONSTANTS
  LoopsPerMsg = 2
  MaxPackets = 6
INVARIANTS
  TypeOK
  PacketSignalKept
  HostWakeupKept
  NoSpuriousTurn
PROPERTIES
  SignalsServed
