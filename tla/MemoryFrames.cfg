SPECIFICATION Spec
CONSTANTS
  p1 = p1
  p2 = p2
  p3 = p3
  Proc = {p1,p2,p3}
  InitProc = p1
  NoProc = NoProc
  MCFrames = 9
  Frame <- MCFrame
  KernelFrame = 0
  MAX_PT_LEN = 4
  KERNEL_STACK_PAGES = 1
  CHAR_MAX = 127
  junk = junk
  file = file
  Val = {junk}
  Junk = junk
  Loaded = junk
  Program <- Small
  Situations = {"threads"}
  Placements <- LowestFirst
INVARIANTS TypeOK RefCounts OnlyThreadsShareWritable
VIEW FramesRenamed
CHECK_DEADLOCK FALSE
