CONSTANTS
  Urls = {u1}
  Senders = {s1}
  Casters = {c1}
  MaxPeers = 2
  MaxMsgs = 1
  EvtCap = 2
  NoUrl = NoUrl
SPECIFICATION Spec
INVARIANTS
  EndedIsForgotten
PROPERTIES
  EventsInOrder
  WaitersWoken
  RemovedPeersEnd
CHECK_DEADLOCK FALSE
