SPECIFICATION FairSpec
CONSTANTS
  Stream = {s1, s2}
  Timeout = 2
  MaxItems = 2
INVARIANTS TypeOK Conserved
PROPERTIES Released
CHECK_DEADLOCK FALSE
