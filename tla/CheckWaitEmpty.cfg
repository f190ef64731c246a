CONSTANTS
  Checks = {r1, o1}
  Required = {r1}
  Poll = 2
  Timeout = 6
  Grace = 3
  Deadlines = {5, 12}
  MaxQuery = 1
  RateSleep = 4
  MaxPushes = 1
SPECIFICATION Spec
CHECK_DEADLOCK FALSE
INVARIANT EmptyIsPending
