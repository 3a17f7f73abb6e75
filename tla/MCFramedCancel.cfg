CONSTANTS
  a = a
  b = b
  a2 = a2
  b2 = b2
  ha = ha
  hb = hb
  Byte <- MCBytes
  MaxChunk = 1
  Ends <- PairEnds
  Peer <- PairPeer
  Host <- PairHost
  Hosts = {ha, hb}
  Limit = 6
  Sizes <- SmallAndLarge
  MaxMsgs <- TwoEach
  WireCap = 2
  CmdCap = 2
  MsgCap = 1
  CanCancel = {a}
  CanLose = {a, b}
  CanClose = {}
SPECIFICATION MCSpec
INVARIANTS
  PermitAnswersRequest
  ChunksWithinGrant
PROPERTIES
  ImplementsMsgChannel
