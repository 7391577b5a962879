SPECIFICATION Spec
CONSTANTS
  Request = {r1, r2}
  maxRetries = 3
  MaxFlips = 0
  NowUnits = 202369
INVARIANTS DrainsFirst
CHECK_DEADLOCK FALSE
