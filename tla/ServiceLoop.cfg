SPECIFICATION Spec
CONSTANTS
  Conn = {c1}
  TimerId = {t1}
  c1 = c1
  t1 = t1
  Step = {1}
  Jump = {2}
  ScanInterval = 2
  IdleExit = 3
  Inactivity = 4
  Crashes = TRUE
  PollersDie = FALSE
  Senders = {c1}
  Pollers = {c1}
  Delay = {1, 2}
  MaxOutput = 2
  MaxQueue = 2
  MaxSend = 1
  MaxFifo = 2
  MaxJumps = 1
INVARIANTS
  TypeOK
  OutboundExact
  ClosedLeavesNothing
PROPERTIES
  KeepsContract
  CutOnlyTheSilent
