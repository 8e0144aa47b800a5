CONSTANTS
  Thread = {t1, t2, t3}
  Msg = {m1, m2}
  Capacity = 2
  NoMsg = NoMsg

SYMMETRY ThreadSymmetry
SPECIFICATION CarefulSpec

INVARIANT
  NoStrandedWaiter

CHECK_DEADLOCK FALSE
