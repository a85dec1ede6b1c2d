SPECIFICATION Spec
CONSTANTS
  Segment <- Segments
  Path <- Paths
  Tree <- Trees
  Size = {0, 3}
  Line <- AllLines
  Plan <- Plans
  Capacity = 2
INVARIANTS
  TypeOK
  BodiesArriveWhole
  
  FailuresShowInTheBody
  
PROPERTIES
  EverythingEnds
