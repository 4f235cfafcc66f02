CONSTANTS
  Ports = 2
  Size = 14
  MaxReserv = 6
  MacWords = 1
  IpWords = 2
  UdpWords = 1
  ChecksIdx = 1
  Packets <- MCPackets
SPECIFICATION FairSpec
INVARIANTS
  NoOverwrite
  WholePacket
  RoundRobin
  OnlyCpuLoses
PROPERTIES
  IsFrameStream
  EveryPacketSent
