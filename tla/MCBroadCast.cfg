CONSTANTS
  c1 = c1
  c2 = c2
  Clients <- TwoClients
  PacketSize <- Sizes
  SizeMod = 64
  Word = 2
  OpSize = 1
  AddrSize = 1
  Capacity = 3
  BufferSizes = {6, 8}
  MaxRounds = 1
  Chunks = {3}

SPECIFICATION Spec

INVARIANTS
  WholePackets
  OnePacketCirculates
  NoClosedMember

PROPERTY
  PacketReturns

CHECK_DEADLOCK FALSE
