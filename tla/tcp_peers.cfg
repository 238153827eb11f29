\* The peer may write four frames ahead; two fit in the sockets, and the writer
\* waits above that.  When the task has ended and the peer has closed, nothing
\* is left to happen.
CONSTANTS
  c1 = c1
  d1 = d1
  Client = {c1}
  Data = {d1}
  MaxSeq = 15
  SocketBuffer = 1
  HighWater = 1
  Inbox <- MCInbox
  Faults <- MCFaults
  MaxFrames = 4
SPECIFICATION FairSpec
INVARIANTS
  ServerTypeOK
  LoopFollowsSession
  LastWord
  AnswersInOrder

  
  
CHECK_DEADLOCK FALSE
