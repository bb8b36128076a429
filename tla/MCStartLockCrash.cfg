SPECIFICATION LockSpec
CONSTANTS
  p1 = p1
  p2 = p2
  p3 = p3
  Nobody = Nobody
  Procs = {p1, p2, p3}
  MaxAttempts = 3
  Faults = {{"crash"}}
SYMMETRY Symmetry
CHECK_DEADLOCK FALSE
INVARIANT Exclusive
