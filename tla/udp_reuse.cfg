CONSTANTS
  c1 = c1
  d1 = d1
  d2 = d2
  Client = {c1}
  Data = {d1, d2}
  MaxSeq = 63
  DedupSize = 2
  MaxSessions = 2
  MaxRetries = 0
  MaxRequests = 4
  RequestTypes = {"DATA"}
SPECIFICATION ReuseSpec
INVARIANT
  AnswersOwnRequest
CHECK_DEADLOCK FALSE
