SPECIFICATION MCSpec
CONSTANTS
  Request = {r1, r2}
  maxRetries = 70
  MaxFlips = 2
  NowUnits = 202369
INVARIANTS TypeOK DialPatience RecordedUntilClosed BackoffAgrees
PROPERTIES StartSettles SignalEnds
CHECK_DEADLOCK FALSE
