CONSTANTS
  Urls = {u1, u2}
  Listens = {l1, l2}
  Connects = {c1}
  MaxSigs = 3
  EvtCap = 1
  NoUrl = NoUrl
  NoCall = NoCall
SPECIFICATION Spec
PROPERTIES
  OpensAndClosesByTurns
  ListenerStays
  ListenAnswered
  ListensAgain
CHECK_DEADLOCK FALSE
