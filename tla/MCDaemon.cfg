SPECIFICATION FairSpec
CONSTANTS
  Clients = {c1, c2}
  c1 = c1
  c2 = c2
INVARIANTS SstEndsFirst FailureIsKept
PROPERTIES NobodyIsCutOff CallsSettle DaemonEnds
