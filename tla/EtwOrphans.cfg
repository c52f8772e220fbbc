SPECIFICATION Spec
CONSTANTS
  Proc = {game, elevated}
  Opaque = {elevated}
  NumSessions = 2
  MaxStarts = 3
  MaxFailures = 0
  Nobody = nobody
  Orphan = orphan
CHECK_DEADLOCK FALSE
PROPERTY
  StopsOnlyOrphans
