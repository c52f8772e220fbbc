SPECIFICATION Spec
CONSTANTS
  Proc = {p1, p2, p3}
  NoPid = none
  NumSlots = 2
  NumRecords = 2
  MaxStarts = 3
CHECK_DEADLOCK FALSE
INVARIANTS
  TypeOK
  SlotOwned
  OnlyTerminationLeaks
  RefusedOnlyWhenFull
  OwnRecord
  SequentialInBounds
PROPERTY
  ImplementsRegistry
