CONSTANTS
  Thread = {t1, t2}
  None = None
  Timeouts = {0, 5, 10, 20}
  SemCounts = {0, 1}
  Cap = 1
  MaxOps = 2
SPECIFICATION FairSpec
INVARIANTS TypeOK SleepListsExact 
 
CHECK_DEADLOCK FALSE
