CONSTANTS
  Backends = {"go", "lib"}
  Calls = {1}
  Sizes = {1, 2}
  SendBuffer = 1
  CmdCap = 2
  EvtCap = 1
  MaxGives = 1
  MaxIn = 2
  MaxIce = 1
SPECIFICATION Spec
INVARIANTS
  ReadyHasChannel
PROPERTIES
  MessagesWithoutGap
  SendersReleased
  LossIsTold
CHECK_DEADLOCK FALSE
