CONSTANTS
  a = a
  b = b
  a2 = a2
  b2 = b2
  ha = ha
  hb = hb
  Byte <- MCBytes
  MaxChunk = 1
  Ends <- TwoEnds
  Peer <- TwoPeer
  Host <- TwoHost
  Hosts = {ha, hb}
  Limit = 3
  Sizes <- RemotesLarge
  MaxMsgs <- RemotesSend
  WireCap = 1
  CmdCap = 1
  MsgCap = 1
  CanCancel = {}
  CanLose = {b}
  CanClose = {}
SPECIFICATION MCSpec
INVARIANTS
  ReconstructionBytesBounded
PROPERTIES
  RequestsServed
