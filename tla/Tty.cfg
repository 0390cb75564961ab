SPECIFICATION Spec
CONSTANTS
  p1 = p1
  p2 = p2
  p3 = p3
  Proc = {p1,p2,p3}
  NoProc = NoProc
  TERMINAL_MAX_LINE = 2
  ReadLengths = {0, 1, 2}
  WriteLengths = {0, 5}
  MaxLines = 2
  MaxTransmitting = 2
  NodeMayFail = FALSE
INVARIANTS TypeOK NoLostReader OneTransmission
PROPERTIES LineDrained ReturnsPrinted WriterFinishes
CHECK_DEADLOCK FALSE
