SPECIFICATION ManagerSpec
CONSTANTS
  p1 = p1
  p2 = p2
  q1 = q1
  s1 = s1
  s2 = s2
  s3 = s3
  Nobody = Nobody
  Orphaned = Orphaned
  Starters = {p1, p2}
  CliStoppers = {}
  McpStoppers = {}
  Ids = {s1, s2, s3}
  Faults = {"kill"}
PROPERTY OneSessionAtATime
INVARIANTS NeverAmbiguous OneLiveSession LiveIsReachable
