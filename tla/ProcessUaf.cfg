CONSTANTS
  ProcObj = {p0, p1, p2, p3}
  ThreadObj = {u0, u1, u2}
  p0 = p0  p1 = p1  p2 = p2  p3 = p3
  u0 = u0  u1 = u1  u2 = u2  u3 = u3
  InitProc = p0
  InitThread = u0
  MaxPid = 5
  VmCloneMayFail = FALSE
  NoProc = NoProc
  NoThread = NoThread
SYMMETRY ObjSymmetry
SPECIFICATION Spec
INVARIANT ReturnedPidIsChild
