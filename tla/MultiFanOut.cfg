CONSTANTS
  Dirs = {a, b}
  Parent = parent
  None = None
  StopWait = 2
  MaxArgs = 3
SPECIFICATION Spec
CHECK_DEADLOCK FALSE
INVARIANT TypeOK
INVARIANT StopsClean
PROPERTY SignalEnds
