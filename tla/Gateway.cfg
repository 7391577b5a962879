SPECIFICATION FairSpec
CONSTANTS
  Request = {r1, r2, r3}
  Job <- Jobs
  Reply <- SmallReplies
  Batch <- Pairs
  Conn = {c1}
  User = {u1, u2}
  u1 = u1
  u2 = u2
  Default = Default
  Nil = Nil
  Faults = {"error", "lost", "broken"}
INVARIANTS TypeOK PoolConsistent OwnUser ExecutedIsRecorded RepliesHonest AnswersDecode
PROPERTIES AllAnswered
CHECK_DEADLOCK FALSE
