\* The server alone, against any client.  A third session is never opened
\* (MaxSessions), so the address falls silent at the end.
CONSTANTS
  c1 = c1
  d1 = d1
  MaxSeq = 9
  Client = {c1}
  Data = {d1}
  DedupSize = 2
  MaxSessions = 2
  Inbox <- MCInbox
SPECIFICATION Spec
INVARIANTS
  ServerTypeOK
  RunsInOrder
  HandshakeFirst
  AnswersAreOfRuns
  OneAnswerPerRequest
  ReplyNumbersUnique
  ClosingAnswerIsLast
  RecentRunsCached
CHECK_DEADLOCK FALSE
