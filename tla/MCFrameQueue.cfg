CONSTANTS
  a = a
  b = b
  c = c
  d = d
  NoMsg = NoMsg
  Msg <- MCMsg
  Wire <- MCWire
  Packet <- MCPacket
  BufSize = 5
  Size = 8
SPECIFICATION FairSpec
INVARIANTS
  FramesIntact
  StartsAtFrame
  RefusedOnlyIfLongest
  PacketIntact
PROPERTIES
  ImplementsFifo
  PushReturns
