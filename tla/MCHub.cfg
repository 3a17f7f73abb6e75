SPECIFICATION FairSpec
CONSTANTS
  k1 = k1  k2 = k2  me = me  x1 = x1
  Keys = {k1, k2, me}
  Self = me
  Callers = {x1}
  MaxSignals = 2
  HubCap = 1
  AcceptCap = 1
  CmdCap = 1
  NoKey = NoKey
  NoCaller = NoCaller
  Task = Task
  Acceptor = Acceptor
INVARIANTS OpenIsRegistered SessionHasOwner
PROPERTIES RegistrySpec ConnectsAnswered EndedIsForgotten ForgottenEnds
CHECK_DEADLOCK FALSE
