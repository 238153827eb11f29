\* Two tasks.  When all requests are used up and have ended, nothing is left to happen.
CONSTANTS
  c1 = c1
  d1 = d1
  t1 = t1
  t2 = t2
  Client = {c1}
  Self = c1
  Data = {d1}
  Task = {t1, t2}
  MaxSeq = 63
  DedupSize = 3
  MaxSessions = 2
  MaxRetries = 1
  MaxRequests = 3
  MaxQueue = 1
  RequestTypes = {"DATA", "BYE"}
SPECIFICATION FairSpec
INVARIANTS
  TypeOK
  AnswersOwnRequest
  RefusedDidNotRun
PROPERTY
  CallsEnd
CHECK_DEADLOCK FALSE
