CONSTANTS
  c1 = c1
  d1 = d1
  d2 = d2
  Client = {c1}
  Me = c1
  Data = {d1, d2}
  MaxSeq = 15
  SocketBuffer = 1
  HighWater = 0
  HeaderSize = 2
  BodySize = 1
  MacSize = 3
  RequestTypes = {"DATA", "PONG"}
  MaxRequests = 4
  MaxConnections = 1
SPECIFICATION Spec
INVARIANT
  AnswersOwnRequest
CHECK_DEADLOCK FALSE
