SPECIFICATION Spec
CONSTANTS
  Game = {target, bystander}
  Target = {target}
  NoPid = none
  MaxInstalls = 2
  MaxRemovals = 1
  MaxLoads = 2
CHECK_DEADLOCK FALSE
INVARIANTS
  TypeOK
  ListenersCounted
  HandleTellsHook
PROPERTIES
  TargetStaysMapped
  BystanderUnloads
  ToolLeaves
