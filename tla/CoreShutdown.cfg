SPECIFICATION Spec
CONSTANTS
  NumMonitors = 3
  MaxCalls <- MCMaxCalls
  Starter = {render, menu}
  Reader = {render, menu}
  Invalid = invalid
  Null = null
  Nobody = nobody
  Configurations <- MCConfigurations
CHECK_DEADLOCK FALSE
INVARIANTS
  TypeOK
  OneThreadThenNone
  SignalClosedOnce
  SensorsValid
  SlotGivenBack
  WmiUnderWay
PROPERTY
  ShutdownReturns
