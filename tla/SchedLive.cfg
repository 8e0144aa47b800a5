CONSTANTS
  CPU = {c1}
  T1 = T1
  T2 = T2
  T3 = T3
  Task <- MCTaskPair
  Priority <- MCPriorityPair
  NumPriorities = 2
  WaitQueue = {q1}
  SpinLock = {L}
  L = L
  MaxIsrNesting = 1
  NoCpu = NoCpu
  NoTask = NoTask
  NoQueue = NoQueue
  NoLock = NoLock

SPECIFICATION FairSpec

PROPERTIES
  RescheduleHonoured
