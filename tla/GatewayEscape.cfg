SPECIFICATION Spec
CONSTANTS
  Request = {r1}
  Job <- ControlJobs
  Reply <- SmallReplies
  Batch <- Pairs
  Conn = {c1}
  User = {u1, u2}
  u1 = u1
  u2 = u2
  Default = Default
  Nil = Nil
  Faults = {}
INVARIANTS NoneTakeEffect
CHECK_DEADLOCK FALSE
