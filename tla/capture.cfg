CONSTANTS
  f1 = f1
  f2 = f2
  Flow = {f1, f2}
  MaxPayload = 1
  Wires <- MCWires
  SmallShapes <- MCSmallShapes
  MaxSegments <- MCMaxSegments
  MaxPackets = 3
SPECIFICATION Spec
INVARIANTS
  TypeOK
  ReadsWhatWasWritten
  AnalyserAgrees
  NoFalseReport
  ScanAgrees
  NeverMoreThanAFrame
  DatagramReadersAgree
  PcapReadsBack
CHECK_DEADLOCK FALSE
