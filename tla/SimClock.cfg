SPECIFICATION Spec
CONSTANTS
  Reader = {service, client}
  service = service
  client = client
  Shift = {7}
  Rate <- Rates
  Wait = {2}
  Start = 10
  MaxCal = 12
  MaxScripts = 2
SYMMETRY Symmetry
CHECK_DEADLOCK FALSE
INVARIANTS
  TypeOK
  WaitsAreEngineTime
PROPERTIES
  ReadingsAreSnapshots
  ClockKeepsRunning
  RewritesNeverFail
