SPECIFICATION Spec
CONSTANTS
  Process = {p1}
  game = game
  other = other
  Pattern <- MCPattern
  Matching <- MCMatching
  Invalid = {}
  Blank = blank
  Torn = torn
  Content <- MCContent
  NoFile = nofile
  Capacity = 2
  MaxEdits = 2
  MaxRemovals = 1
  MaxStarts = 1
  MaxChanges = 2
CHECK_DEADLOCK FALSE
PROPERTY
  QuietSearchRight
  FreshInTheEnd
