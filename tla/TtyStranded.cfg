SPECIFICATION Spec
CONSTANTS
  p1 = p1
  p2 = p2
  Proc = {p1,p2}
  NoProc = NoProc
  TERMINAL_MAX_LINE = 2
  ReadLengths = {}
  WriteLengths = {1}
  MaxLines = 0
  MaxTransmitting = 2
  NodeMayFail = FALSE
INVARIANTS NoLostWriter
CHECK_DEADLOCK FALSE
