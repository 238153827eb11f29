\* A header is two bytes, a body one and a MAC three: behind a header that was
\* read and forgotten, reading headers finds the next frame again; behind a body
\* it does not.  One frame fits in a direction before drain() waits.
CONSTANTS
  c1 = c1
  d1 = d1
  d2 = d2
  Client = {c1}
  Me = c1
  Data = {d1, d2}
  MaxSeq = 15
  SocketBuffer = 1
  HighWater = 0
  HeaderSize = 2
  BodySize = 1
  MacSize = 3
  RequestTypes = {"DATA", "PONG"}
  MaxRequests = 4
  MaxConnections = 1
SPECIFICATION FairSpec
INVARIANTS
  TypeOK
  AnswersUnlessTimedOut
  NoFalseReplay
  RunsInOrder
  MutualWaitOnlyAfterTimeout

  
CHECK_DEADLOCK FALSE
