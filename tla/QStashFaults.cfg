SPECIFICATION Spec
CONSTANTS
  Server = {s1, s2}
  MsgId = {m1}
  Nil = Nil
  RetryChoice = {0, 1, 2}
  DelayChoice <- MCDelays
  RetryLimit = 4
  RetryWait <- MCRetryWait
  Faults = {"lost", "broken"}
  MaxExits = 2
  MaxAttempts = 6
INVARIANTS AttemptsBounded BuriedExhausted ClaimExclusive DlqOnce
PROPERTIES DelayKept ImplementsContract NoPostAfterAck
CHECK_DEADLOCK FALSE
