SPECIFICATION Spec
CONSTANTS
  Doublings = 2
  FirstPacket = 0
  MaxPlugs = 1
  MaxInputs = 1
  MaxNumber = 3
CHECK_DEADLOCK FALSE
INVARIANT
  TypeOK
PROPERTIES
  ChangeNoticed
  ReadUnlessMissed
