\* One client and the server (the server keeps nothing in common between two
\* addresses), with a window smaller than a session.  The client may be closed and every
\* datagram delivered: then nothing is left to happen.
CONSTANTS
  c1 = c1
  d1 = d1
  d2 = d2
  Client = {c1}
  Data = {d1, d2}
  MaxSeq = 63
  DedupSize = 2
  MaxSessions = 3
  MaxRetries = 1
  MaxRequests = 3
  RequestTypes = {"DATA", "BYE"}
SPECIFICATION FairSpec
INVARIANTS
  TypeOK
  AnswersOwnRequest
  InFlightNeverStale
PROPERTIES
  SessionSurvives
  RequestResolves
  ImplementsRpc
CHECK_DEADLOCK FALSE
