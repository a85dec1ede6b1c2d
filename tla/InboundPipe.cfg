SPECIFICATION Spec
CONSTANTS
  Request = {r1, r2, r3, r4}
  r1 = r1
  r2 = r2
  r3 = r3
  r4 = r4
  Text <- MCText
  MaxFrame = 5
  PipeBuf = 4
  Capacity = 9
INVARIANTS
  TypeOK
  InboundExact
PROPERTY
  BadFrontSilences
