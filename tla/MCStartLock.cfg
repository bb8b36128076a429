SPECIFICATION LockFairSpec
CONSTANTS
  p1 = p1
  p2 = p2
  p3 = p3
  Nobody = Nobody
  Procs = {p1, p2, p3}
  MaxAttempts = 2
  Faults = {{"crash"}, {"crash", "slow", "remove"}}
CHECK_DEADLOCK FALSE
INVARIANTS MutualExclusion HolderKeepsDirectory
PROPERTY AcquireReturns
