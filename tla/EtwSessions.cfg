SPECIFICATION Spec
CONSTANTS
  Proc = {game, elevated}
  Opaque = {elevated}
  NumSessions = 2
  MaxStarts = 2
  MaxFailures = 1
  Nobody = nobody
  Orphan = orphan
CHECK_DEADLOCK FALSE
INVARIANTS
  TableGuarded
  ShutdownUnregisters
  StopsOnce
PROPERTIES
  OwnSessionUnlessStolen
  ShutdownEnds
