CONSTANTS
  a = a
  b = b
  a2 = a2
  b2 = b2
  ha = ha
  hb = hb
  Byte <- MCBytes
  MaxChunk = 2
  Ends <- PairEnds
  Peer <- PairPeer
  Host <- PairHost
  Hosts = {ha, hb}
  Limit = 3
  Sizes <- SmallAndLarge
  MaxMsgs <- TwoAndOne
  WireCap = 1
  CmdCap = 1
  MsgCap = 1
  CanCancel = {}
  CanLose = {a, b}
  CanClose = {a}
SPECIFICATION MCSpec
INVARIANTS
  NoProtocolError
  WaitingRemoteIsQuiet
  PermitAccounting
PROPERTIES
  SendsEnd
