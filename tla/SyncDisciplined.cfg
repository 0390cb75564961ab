SPECIFICATION Spec
CONSTANTS
  p1 = p1
  p2 = p2
  p3 = p3
  p4 = p4
  m1 = m1
  m2 = m2
  c1 = c1
  Proc = {p1,p2,p3,p4}
  InitProc = p1
  Mutex = {m1,m2}
  Cvar = {c1}
  NoProc = NoProc
  NoMutex = NoMutex
  ReleaseAny = FALSE
  ExitHolding = FALSE
  KillSleepers = FALSE
SYMMETRY Symmetry
INVARIANTS TypeOK MutualExclusion
PROPERTIES GrantedWhenFree
CHECK_DEADLOCK FALSE
