SPECIFICATION FairSpec
CONSTANTS
  Server = {s1, s2}
  MsgId = {m1, m2}
  Nil = Nil
  RetryChoice = {1}
  DelayChoice = {0}
  RetryLimit = 3
  RetryWait <- MCRetryWait
  Faults = {}
  MaxExits = 1
  MaxAttempts = 4
INVARIANTS TypeOK Accounted ListingAgrees
PROPERTIES AcceptedSettles
CHECK_DEADLOCK FALSE
