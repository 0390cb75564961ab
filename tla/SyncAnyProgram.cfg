SPECIFICATION Spec
CONSTANTS
  p1 = p1
  p2 = p2
  p3 = p3
  m1 = m1
  m2 = m2
  c1 = c1
  Proc = {p1,p2,p3}
  InitProc = p1
  Mutex = {m1,m2}
  Cvar = {c1}
  NoProc = NoProc
  NoMutex = NoMutex
  ReleaseAny = TRUE
  ExitHolding = TRUE
  KillSleepers = FALSE
INVARIANTS NoLostWakeup SleepersQueued
PROPERTIES ReturnsWithMutex LockProgress
CHECK_DEADLOCK FALSE
