SPECIFICATION Spec
CONSTANTS
  p1 = p1
  p2 = p2
  p3 = p3
  Proc = {p1,p2,p3}
  NoProc = NoProc
  TERMINAL_MAX_LINE = 2
  ReadLengths = {}
  WriteLengths = {0, 1, 4}
  MaxLines = 0
  MaxTransmitting = 2
  NodeMayFail = TRUE
SYMMETRY Symmetry
INVARIANTS WritesDoNotMix
CHECK_DEADLOCK FALSE
