SPECIFICATION Spec
CONSTANTS
  DataEnd = 1
  KERNEL_STACK_BASE = 6
  KERNEL_STACK_LIMIT = 7
  NUMBER_OF_FRAME_WINDOWS = 2
  MaxBootBrk = 2
  MaxPmem = 8
  MaxUsers = 2
INVARIANTS TypeOK ListIntact FramesAccounted KernelPagesPrivate
PROPERTIES ImplementsFramePool
CHECK_DEADLOCK FALSE
