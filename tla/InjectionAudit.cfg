SPECIFICATION AuditSpec
CONSTANTS
  Proc = {p1, p2}
  NoPid = none
  NumSlots = 2
  NumRecords = 4
  MaxStarts = 3
  Games = {p1}
  Capacity = 3
CHECK_DEADLOCK FALSE
INVARIANTS
  RecordFound
  BothNoted
  ExitKept
  ListComplete
CONSTRAINT ReadsApart
