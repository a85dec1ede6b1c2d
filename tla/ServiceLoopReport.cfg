SPECIFICATION Spec
CONSTANTS
  Conn = {c1}
  TimerId = {}
  c1 = c1
  Step = {1}
  Jump = {}
  ScanInterval = 2
  IdleExit = 3
  Inactivity = 4
  Crashes = FALSE
  PollersDie = FALSE
  Senders = {c1}
  Pollers = {c1}
  Delay = {1, 2}
  MaxOutput = 2
  MaxQueue = 1
  MaxSend = 1
  MaxFifo = 2
  MaxJumps = 0
PROPERTY IdleLeavesNothingUnreported
