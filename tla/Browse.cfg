SPECIFICATION Spec
CONSTANTS
  Key = {k1, k2}
  Content <- MCContent
  Gone = Gone
  View = {"keys", "export", "messages", "dlq"}
  browseLimit = 2
  Page = 1
  MaxBatches = 3
  MaxChanges = 2
INVARIANTS TypeOK Complete Faithful
CHECK_DEADLOCK FALSE
