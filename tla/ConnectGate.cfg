SPECIFICATION GateSpec
CONSTANTS
  Instance = {p1, p2}
  p1 = p1
  p2 = p2
  CronPeriod = 5
  Update = 2
  Stale = 7
  Lag = 1
  Races = {}
  MaxNow = 24
  Mega = 4
  Modulus = 16
  Request = {r1}
  r1 = r1
  ConfigFile <- Files
  Header = {{}, {"sid"}}
  Answer <- Answers
  Memory = {1, 4}
  ScanInterval = 1
SYMMETRY Symmetry
INVARIANTS
  TypeOK
  AtMostOneLive
  FlagIsTheLiveOnes
  
  GateTypeOK
  ProfilesAreTakenUpSoon
PROPERTIES
  
  ProfilesAreEarned
