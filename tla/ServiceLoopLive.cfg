SPECIFICATION FairSpec
CONSTANTS
  Conn = {c1, c2}
  TimerId = {}
  c1 = c1
  c2 = c2
  Step = {1}
  Jump = {}
  ScanInterval = 2
  IdleExit = 3
  Inactivity = 4
  Crashes = FALSE
  PollersDie = TRUE
  Senders = {c1}
  Pollers = {c1}
  Delay = {1}
  MaxOutput = 1
  MaxQueue = 0
  MaxSend = 1
  MaxFifo = 1
  MaxJumps = 0
PROPERTIES
  KeepsContract
  MessagesReachTheEngine
  ProfilesAreGreeted
  PollsAreAnswered
  ClosesAreReported
  NoneLinger
