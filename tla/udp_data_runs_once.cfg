CONSTANTS
  c1 = c1
  d1 = d1
  d2 = d2
  Client = {c1}
  Data = {d1}
  MaxSeq = 63
  DedupSize = 2
  MaxSessions = 2
  MaxRetries = 1
  MaxRequests = 3
  RequestTypes = {"DATA", "BYE"}
SPECIFICATION Spec
INVARIANT
  DataRunsOnce
CHECK_DEADLOCK FALSE
