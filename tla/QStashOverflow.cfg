SPECIFICATION FairSpec
CONSTANTS
  Server = {s1}
  MsgId = {m1}
  Nil = Nil
  RetryChoice = {40}
  DelayChoice = {0}
  RetryLimit = 41
  RetryWait <- MCRetryWait
  Faults = {}
  MaxExits = 0
  MaxAttempts = 42
PROPERTIES AcceptedSettles
CHECK_DEADLOCK FALSE
