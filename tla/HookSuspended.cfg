SPECIFICATION Spec
CONSTANTS
  Game = {target, bystander}
  Target = {target}
  NoPid = none
  MaxInstalls = 1
  MaxRemovals = 1
  MaxLoads = 2
CHECK_DEADLOCK FALSE
PROPERTY
  SweepResumes
