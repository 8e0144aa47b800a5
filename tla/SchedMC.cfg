CONSTANTS
  CPU = {c1, c2}
  T1 = T1
  T2 = T2
  T3 = T3
  Task <- MCTask
  Priority <- MCPriority
  NumPriorities = 2
  WaitQueue = {q1}
  SpinLock = {L}
  L = L
  MaxIsrNesting = 1
  NoCpu = NoCpu
  NoTask = NoTask
  NoQueue = NoQueue
  NoLock = NoLock

SYMMETRY CpuTaskSymmetry
SPECIFICATION Spec
VIEW SchedView

INVARIANTS
  TypeOK
  SchedConsistent
  NoLostWakeup

