SPECIFICATION Spec
CONSTANTS
  Addr = {a1, a2}
  Content = {c1, c2}
  Loader = {l1, l2}
  Render = r
  Absent = absent
  Null = null
  NoTag = notag
  MaxLoads = 3
  MaxUpdates = 2
  MaxPurges = 2
SYMMETRY Symmetry
INVARIANTS LiveHeld LeaksNamed NothingFreedTouched
PROPERTY FoundAsAsked
CHECK_DEADLOCK FALSE
