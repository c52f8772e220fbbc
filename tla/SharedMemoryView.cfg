SPECIFICATION Spec
CONSTANTS
  Thread = {t1, t2, t3}
  Handle = {h1, h2, h3, h4}
  View = {v1, v2, v3}
  None = none
CHECK_DEADLOCK FALSE
INVARIANTS
  NoLeak
  SharedViewStays
