SPECIFICATION AdmissionSpec
CONSTANTS
  Request = {r1, r2}
  quotaLimit = 5
  rpsLimit = 2
  Second = 3
  MaxTime = 5
  MaxRequests = 6
  GET = GET
  SET = SET
  Command = {GET, SET}
  None = None
  Script <- MCScript
  MaxDay = 2
  MaxRecords = 4
INVARIANTS CountersOK QuotaExact BurstBounded TotalsAgree NoOvercount
PROPERTIES RejectedWhenFull
SYMMETRY Symmetry
CHECK_DEADLOCK FALSE
