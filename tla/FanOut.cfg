CONSTANTS
  PRs = {a}
  Procs = {p1, p2, p3}
  None = None
  RespawnBackoff = 1
  EnvBackoff = 5
  MinRamp = 2
  ShortLife = 2
  MaxWait = 2
  MaxReloads = 1
  MaxUndead = 1
SPECIFICATION Spec
CHECK_DEADLOCK FALSE
INVARIANT TypeOK
PROPERTY BackoffKept
INVARIANT NoneUntold
PROPERTY KeepsTrying
PROPERTY Stops
PROPERTY ImplementsSupervisor
