SPECIFICATION Spec
CONSTANTS
  Poll = {p1, p2}
  p1 = p1
  p2 = p2
  MaxFrame = 5
  PipeBuf = 4
  Capacity = 5
  MaxQueue = 3
INVARIANT OnePollOneFrame
