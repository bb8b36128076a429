SPECIFICATION ManagerFairSpec
CONSTANTS
  p1 = p1
  p2 = p2
  q1 = q1
  s1 = s1
  s2 = s2
  s3 = s3
  Nobody = Nobody
  Orphaned = Orphaned
  Starters = {p1}
  CliStoppers = {q1}
  McpStoppers = {q1}
  Ids = {s1, s2}
  Faults = {"kill", "crash"}
PROPERTIES StartReturns StopEnds
