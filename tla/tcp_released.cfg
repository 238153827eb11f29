CONSTANTS
  c1 = c1
  d1 = d1
  Client = {c1}
  Data = {d1}
  MaxSeq = 15
  SocketBuffer = 1
  HighWater = 1
  Inbox <- MCInbox
  Faults <- MCFaults
  MaxFrames = 4
SPECIFICATION FairSpec
PROPERTY
  Released
CHECK_DEADLOCK FALSE
