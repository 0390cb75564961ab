SPECIFICATION Spec
CONSTANTS
  Proc = {1, 2, 3, 4}
  InitProc = 1
  NoProc = 0
  Delays = {2}
  Situations = {}
  Malloc <- Lowest
INVARIANTS TypeOK KernelDefined ListsMatch CurrentRuns ZombiesCollectable
PROPERTIES StatusKept RunnableRuns DelayEnds CallsReturn
CHECK_DEADLOCK FALSE
