SPECIFICATION Spec
CONSTANTS
  p1 = p1
  p2 = p2
  Proc = {p1,p2}
  InitProc = p1
  NoProc = NoProc
  MCFrames = 7
  Frame <- MCFrame
  KernelFrame = 0
  MAX_PT_LEN = 4
  KERNEL_STACK_PAGES = 1
  CHAR_MAX = 127
  junk = junk
  file = file
  Val = {junk}
  Junk = junk
  Loaded = junk
  Program <- SmallAndLarger
  Situations = {"threads", "killThreads", "forkThreaded", "outOfFrames", "overMapped"}
  Placements <- LowestFirst
INVARIANTS FreeFramesUnused 
VIEW FramesRenamed
CHECK_DEADLOCK FALSE
