SPECIFICATION Spec
CONSTANTS
  Proc = {1, 2, 3}
  InitProc = 1
  NoProc = 0
  Delays = {2}
  Situations = {"orphans"}
  Malloc <- Lowest
INVARIANTS KernelDefined
CHECK_DEADLOCK FALSE
