SPECIFICATION Spec
CONSTANTS
  Instance = {p1, p2, p3}
  p1 = p1
  p2 = p2
  p3 = p3
  CronPeriod = 5
  Update = 2
  Stale = 7
  Lag = 1
  Races = {"torn"}
  MaxNow = 20
SYMMETRY Symmetry
INVARIANTS
  AtMostOneLive
